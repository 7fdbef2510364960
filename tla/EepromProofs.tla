------------------------------ MODULE EepromProofs ------------------------------
(* Theorems of EepromStore for every size of the memory and of its pages, all *)
(* records, all values and all writes outside the records, with losses of     *)
(* power and lost pages.                                                      *)
EXTENDS EepromStore, SequenceTheorems, TLAPS

-----------------------------------------------------------------------------
(* The inductive invariant. *)

\* The cells that the write under way is to change.
Goal == pc.from .. pc.from + Len(pc.data) - 1

\* A write for a record writes all of it; one for none stays away from them.
Serves(r) ==
  /\ pc.from = Base[r] /\ Len(pc.data) = Len(Default[r]) + 1
  /\ pc.data[1] = Tail(pc.data) /\ Tail(pc.data) \in Values[r] \intersect past[r]
  /\ \A i \in 1 .. Len(Default[r]) : pc.data[i + 1] = Tail(pc.data)[i]

Writing ==
  /\ pc \in [at : {"write"}, for : {<<r>> : r \in Record} \union {<<>>}, from : Address,
             data : Seq(Cell), done : Nat, lost : BOOLEAN]
  /\ pc.done < Len(pc.data) /\ pc.from + Len(pc.data) <= Size
  /\ \A r \in Record : IF pc.for = <<r>> THEN Serves(r) ELSE Goal \intersect Area(r) = {}
  /\ ~pc.lost => \A i \in 1 .. pc.done : cells[pc.from + i - 1] = pc.data[i]

Resting ==
  \E for \in {<<r>> : r \in Record} \union {<<>>} : \E lost \in BOOLEAN : pc = None(for, lost)

\* The checksum in the memory is that of a value the record had or was to have,
\* or of nothing.
Checksums ==
  /\ past \in [Record -> SUBSET UNION {Values[r] \union {Default[r]} : r \in Record}]
  /\ \A r \in Record : /\ past[r] \subseteq Values[r] \union {Default[r]}
                       /\ cells[Base[r]] \in past[r] \union {Blank, Torn}

IInv ==
  /\ cells \in [Address -> Cell] /\ ret \in -1 .. Size
  /\ Writing \/ Resting
  /\ Checksums

-----------------------------------------------------------------------------
(* The constants. *)

LEMMA Records ==
  ASSUME NEW r \in Record
  PROVE  /\ Base[r] \in Nat /\ Len(Default[r]) \in Nat /\ Base[r] + Len(Default[r]) < Size
         /\ Area(r) = Base[r] .. Base[r] + Len(Default[r]) /\ Area(r) \subseteq Address
         /\ Default[r] \in Seq(Byte)
         /\ \A v \in Values[r] : v \in Seq(Byte) /\ Len(v) = Len(Default[r]) /\ v \in Cell
         /\ \A s \in Record \ {r} : Area(r) \intersect Area(s) = {}
<1>1. /\ Base[r] \in Address /\ Area(r) \subseteq Address /\ Size \in Nat
      /\ Default[r] \in Seq(Byte)
      /\ \A v \in Values[r] : v \in Seq(Byte) /\ Len(v) = Len(Default[r])
      /\ \A s \in Record \ {r} : Area(r) \intersect Area(s) = {}
  BY EepromAssumption
<1>2. Base[r] \in Nat /\ Len(Default[r]) \in Nat
  BY <1>1 DEF Address
<1>3. Base[r] + Len(Default[r]) \in Area(r)
  BY <1>2 DEF Area
<1>4. \A v \in Values[r] : v \in Seq(Byte) /\ Len(v) = Len(Default[r]) /\ v \in Cell
  BY <1>1 DEF Cell
<1>5. Base[r] + Len(Default[r]) \in 0 .. Size - 1
  BY <1>1, <1>3 DEF Address
<1>6. Base[r] + Len(Default[r]) < Size
  BY <1>1, <1>2, <1>5
<1>7. Area(r) = Base[r] .. Base[r] + Len(Default[r])
  BY DEF Area
<1> QED BY <1>1, <1>2, <1>4, <1>6, <1>7

\* Within a page the address counter does not wrap.
LEMMA Counter ==
  ASSUME NEW a \in Nat, NEW k \in Nat, (a % PageSize) + k < PageSize
  PROVE  (a + k) % PageSize = (a % PageSize) + k
<1> DEFINE q == a \div PageSize
           m == a % PageSize
<1>1. PageSize \in Nat \ {0}
  BY EepromAssumption
<1>2. m \in 0 .. PageSize - 1 /\ q \in Int /\ a = PageSize * q + m
  BY <1>1
<1>3. \A d \in Nat \ {0} : \A n \in Int : \A i \in 0 .. d - 1 : (d * n + i) % d = i
  OBVIOUS
<1> HIDE DEF q, m
<1>4. m + k \in 0 .. PageSize - 1
  BY <1>1, <1>2 DEF m
<1>5. (PageSize * q + (m + k)) % PageSize = m + k
  BY <1>1, <1>2, <1>3, <1>4
<1>6. PageSize * q + (m + k) = a + k
  <2>1. PageSize * q \in Int
    BY <1>1, <1>2
  <2> QED BY <2>1, <1>2, <1>4
<1> QED BY <1>5, <1>6 DEF m

LEMMA Targets ==
  ASSUME NEW a \in Nat, NEW i \in Nat \ {0}, (a % PageSize) + i <= PageSize
  PROVE  Target(a, i) = a + i - 1
<1>1. PageSize \in Nat \ {0} /\ a % PageSize \in 0 .. PageSize - 1
  BY EepromAssumption
<1>2. i - 1 \in Nat /\ (a % PageSize) + (i - 1) < PageSize /\ a + i - 1 = a + (i - 1)
  BY <1>1
<1>3. (a + i - 1) % PageSize = (a % PageSize) + (i - 1)
  BY <1>2, Counter
<1> DEFINE m == a % PageSize
           k == (a + i - 1) % PageSize
<1>4. Target(a, i) = (a - m) + k /\ k = m + (i - 1) /\ m \in Int
  BY <1>1, <1>3 DEF Target
<1> HIDE DEF m, k
<1> QED BY <1>4

LEMMA Cut ==
  ASSUME NEW S, NEW s \in Seq(S), NEW m \in Nat, NEW n \in Nat \ {0}, m + n <= Len(s)
  PROVE  /\ SubSeq(s, m + 1, m + n) \in Seq(S) /\ Len(SubSeq(s, m + 1, m + n)) = n
         /\ \A i \in 1 .. n : SubSeq(s, m + 1, m + n)[i] = s[m + i]
<1>1. m + 1 \in 1 .. Len(s) + 1 /\ m + n \in m .. Len(s) /\ (m + n) - (m + 1) + 1 = n
  OBVIOUS
<1>2. \A i \in 1 .. n : (m + 1) + i - 1 = m + i
  OBVIOUS
<1> QED BY <1>1, <1>2, SubSeqProperties

\* What a page write within a page leaves in the memory.
LEMMA PageWritten ==
  ASSUME NEW a \in Nat, NEW data \in Seq(Cell), (a % PageSize) + Len(data) <= PageSize,
         a + Len(data) <= Size, NEW kept, NEW torn
  PROVE  /\ \A c \in Address : c \notin a .. a + Len(data) - 1 =>
              Programmed(a, data, kept, torn)[c] = cells[c]
         /\ \A i \in 1 .. Len(data) :
              /\ a + i - 1 \in Address
              /\ Programmed(a, data, kept, torn)[a + i - 1] =
                   IF a + i - 1 \in kept THEN cells[a + i - 1]
                   ELSE IF a + i - 1 \in torn THEN Torn ELSE data[i]
         /\ {Target(a, i) : i \in 1 .. Len(data)} = a .. a + Len(data) - 1
         /\ (cells \in [Address -> Cell]) => Programmed(a, data, kept, torn) \in [Address -> Cell]
<1> DEFINE T == {Target(a, i) : i \in 1 .. Len(data)}
           I(c) == {i \in 1 .. Len(data) : Target(a, i) = c}
           new == Programmed(a, data, kept, torn)
<1>1. \A i \in 1 .. Len(data) : Target(a, i) = a + i - 1
  <2> SUFFICES ASSUME NEW i \in 1 .. Len(data) PROVE Target(a, i) = a + i - 1
    OBVIOUS
  <2>1. a % PageSize \in Nat /\ Len(data) \in Nat
    BY EepromAssumption
  <2>2. i \in Nat \ {0} /\ (a % PageSize) + i <= PageSize
    BY <2>1, EepromAssumption
  <2> QED BY <2>2, Targets
<1>2. \A c \in Address : new[c] =
        IF I(c) = {} \/ c \in kept THEN cells[c]
        ELSE IF c \in torn THEN Torn
        ELSE data[CHOOSE i \in I(c) : \A j \in I(c) : j <= i]
  BY DEF Programmed
<1>3. ASSUME NEW c \in Address, c \notin a .. a + Len(data) - 1 PROVE I(c) = {}
  BY <1>1, <1>3
<1>4. ASSUME NEW i \in 1 .. Len(data)
      PROVE  a + i - 1 \in Address /\ I(a + i - 1) = {i}
  BY <1>1, EepromAssumption DEF Address
<1>5. \A i \in 1 .. Len(data) : (CHOOSE k \in {i} : \A j \in {i} : j <= k) = i
  OBVIOUS
<1>6. \A i \in 1 .. Len(data) :
        new[a + i - 1] = IF a + i - 1 \in kept THEN cells[a + i - 1]
                         ELSE IF a + i - 1 \in torn THEN Torn ELSE data[i]
  <2> SUFFICES ASSUME NEW i \in 1 .. Len(data)
               PROVE  new[a + i - 1] = IF a + i - 1 \in kept THEN cells[a + i - 1]
                                       ELSE IF a + i - 1 \in torn THEN Torn ELSE data[i]
    OBVIOUS
  <2> HIDE DEF I, new
  <2>1. I(a + i - 1) = {i} /\ I(a + i - 1) # {} /\ a + i - 1 \in Address
    BY <1>4
  <2> QED BY <2>1, <1>2, <1>5
<1>7. {Target(a, i) : i \in 1 .. Len(data)} = a .. a + Len(data) - 1
  <2>1. \A i \in 1 .. Len(data) : a + i - 1 \in a .. a + Len(data) - 1
    OBVIOUS
  <2>2. \A c \in a .. a + Len(data) - 1 : c - a + 1 \in 1 .. Len(data) /\ a + (c - a + 1) - 1 = c
    OBVIOUS
  <2>3. \A c \in T : c \in a .. a + Len(data) - 1
    BY <1>1, <2>1
  <2>4. \A c \in a .. a + Len(data) - 1 : c \in T
    BY <1>1, <2>2
  <2> HIDE DEF T
  <2>5. T = a .. a + Len(data) - 1
    BY <2>3, <2>4
  <2> QED BY <2>5 DEF T
<1>8. ASSUME cells \in [Address -> Cell] PROVE new \in [Address -> Cell]
  <2>1. \A c \in Address : new[c] \in Cell
    <3> SUFFICES ASSUME NEW c \in Address PROVE new[c] \in Cell
      OBVIOUS
    <3>1. CASE c \in a .. a + Len(data) - 1
      <4>1. c - a + 1 \in 1 .. Len(data) /\ a + (c - a + 1) - 1 = c
        BY <3>1
      <4>2. data[c - a + 1] \in Cell /\ Torn \in Cell /\ cells[c] \in Cell
        BY <4>1, <1>8 DEF Cell
      <4> HIDE DEF new
      <4> QED BY <4>1, <4>2, <1>6
    <3>2. CASE c \notin a .. a + Len(data) - 1
      BY <3>2, <1>2, <1>3, <1>8
    <3> QED BY <3>1, <3>2
  <2>2. new = [c \in Address |-> new[c]]
    BY DEF Programmed
  <2> HIDE DEF new
  <2> QED BY <2>1, <2>2
<1> QED BY <1>2, <1>3, <1>4, <1>6, <1>7, <1>8

-----------------------------------------------------------------------------
(* The states of the invariant. *)

For == {<<r>> : r \in Record} \union {<<>>}

LEMMA Kinds ==
  ASSUME IInv
  PROVE  /\ pc.at = "write" => Writing
         /\ pc.at # "write" => pc.at = "idle" /\ Resting
         /\ pc.for \in For /\ pc.lost \in BOOLEAN
BY DEF IInv, Writing, Resting, None, For

LEMMA Rests ==
  ASSUME NEW for \in For, NEW lost \in BOOLEAN, pc' = None(for, lost)
  PROVE  Resting' /\ pc'.at = "idle" /\ pc'.for = for /\ pc'.lost = lost
BY DEF Resting, None, For

LEMMA ChunkFacts ==
  ASSUME Writing
  PROVE  /\ Addr = pc.from + pc.done /\ Addr \in Address
         /\ Chunk \in Seq(Cell) /\ Len(Chunk) \in Nat \ {0}
         /\ pc.done + Len(Chunk) <= Len(pc.data)
         /\ (Addr % PageSize) + Len(Chunk) <= PageSize /\ Addr + Len(Chunk) <= Size
         /\ \A i \in 1 .. Len(Chunk) : Chunk[i] = pc.data[pc.done + i]
<1>1. /\ pc.from \in Address /\ pc.data \in Seq(Cell) /\ pc.done \in Nat
      /\ pc.done < Len(pc.data) /\ pc.from + Len(pc.data) <= Size
  BY DEF Writing
<1> DEFINE n == ChunkLen(Addr, Len(pc.data) - pc.done)
           m == Addr % PageSize
<1>2. PageSize \in Nat \ {0} /\ Size \in Nat \ {0}
  BY EepromAssumption
<1>3. Addr = pc.from + pc.done /\ Addr \in Address
  BY <1>1, <1>2 DEF Addr, Address
<1>4. m \in 0 .. PageSize - 1
  BY <1>2, <1>3 DEF Address
<1> DEFINE N == Len(pc.data)
           d == pc.done
           f == pc.from
<1>5. n = IF Len(pc.data) - pc.done < PageSize - m THEN Len(pc.data) - pc.done ELSE PageSize - m
  BY DEF ChunkLen
<1>6. N \in Nat /\ d \in Nat /\ d < N /\ f \in Nat /\ f + N <= Size
  BY <1>1, <1>2 DEF Address
<1> HIDE DEF m, n, N, d, f
<1>7. n = IF N - d < PageSize - m THEN N - d ELSE PageSize - m
  BY <1>5 DEF N, d
<1>8. n \in Nat \ {0} /\ d + n <= N /\ m + n <= PageSize /\ (f + d) + n <= Size
  BY <1>2, <1>4, <1>6, <1>7
<1>9. Chunk = SubSeq(pc.data, d + 1, d + n) /\ N = Len(pc.data)
  BY DEF Chunk, n, d, N
<1>10. Chunk \in Seq(Cell) /\ Len(Chunk) = n /\ \A i \in 1 .. n : Chunk[i] = pc.data[d + i]
  BY <1>1, <1>6, <1>8, <1>9, Cut
<1>11. Addr = f + d
  BY <1>3 DEF f, d
<1> QED BY <1>3, <1>8, <1>10, <1>11 DEF m, d, N

\* What a page, whole or cut short, does to the memory.
LEMMA PageEffect ==
  ASSUME IInv, Writing, NEW kept, NEW torn, cells' = Programmed(Addr, Chunk, kept, torn)
  PROVE  /\ cells' \in [Address -> Cell]
         /\ \A c \in Address \ Goal : cells'[c] = cells[c]
         /\ \A i \in 1 .. pc.done : cells'[pc.from + i - 1] = cells[pc.from + i - 1]
         /\ \A i \in 1 .. Len(Chunk) :
              cells'[pc.from + (pc.done + i) - 1] =
                IF pc.from + (pc.done + i) - 1 \in kept THEN cells[pc.from + (pc.done + i) - 1]
                ELSE IF pc.from + (pc.done + i) - 1 \in torn THEN Torn ELSE pc.data[pc.done + i]
         /\ \A c \in Address : cells'[c] \in {cells[c], Torn} \/
              \E i \in 1 .. Len(pc.data) : c = pc.from + i - 1 /\ cells'[c] = pc.data[i]
<1>1. /\ Addr = pc.from + pc.done /\ Addr \in Address /\ Addr \in Nat
      /\ Chunk \in Seq(Cell) /\ Len(Chunk) \in Nat \ {0}
      /\ pc.done + Len(Chunk) <= Len(pc.data)
      /\ (Addr % PageSize) + Len(Chunk) <= PageSize /\ Addr + Len(Chunk) <= Size
      /\ \A i \in 1 .. Len(Chunk) : Chunk[i] = pc.data[pc.done + i]
  BY ChunkFacts DEF Address
<1>2. pc.from \in Nat /\ pc.done \in Nat /\ Len(pc.data) \in Nat /\ pc.from + Len(pc.data) <= Size
      /\ Size \in Nat
  BY EepromAssumption DEF Writing, Address
<1>3. cells \in [Address -> Cell]
  BY DEF IInv
<1> DEFINE a == Addr
           data == Chunk
<1>4. /\ \A c \in Address : c \notin a .. a + Len(data) - 1 => cells'[c] = cells[c]
      /\ \A i \in 1 .. Len(data) :
           /\ a + i - 1 \in Address
           /\ cells'[a + i - 1] = IF a + i - 1 \in kept THEN cells[a + i - 1]
                                  ELSE IF a + i - 1 \in torn THEN Torn ELSE data[i]
      /\ cells' \in [Address -> Cell]
  <2>1. a \in Nat /\ data \in Seq(Cell) /\ (a % PageSize) + Len(data) <= PageSize /\ a + Len(data) <= Size
    BY <1>1
  <2> HIDE DEF a, data
  <2>2. cells' = Programmed(a, data, kept, torn)
    BY DEF a, data
  <2>3. /\ \A c \in Address : c \notin a .. a + Len(data) - 1 =>
             Programmed(a, data, kept, torn)[c] = cells[c]
        /\ \A i \in 1 .. Len(data) :
             /\ a + i - 1 \in Address
             /\ Programmed(a, data, kept, torn)[a + i - 1] =
                  IF a + i - 1 \in kept THEN cells[a + i - 1]
                  ELSE IF a + i - 1 \in torn THEN Torn ELSE data[i]
        /\ (cells \in [Address -> Cell]) => Programmed(a, data, kept, torn) \in [Address -> Cell]
    <3> QED BY ONLY <2>1, PageWritten
  <2> QED BY ONLY <2>2, <2>3, <1>3, ZenonT(60)
<1> DEFINE f == pc.from
           d == pc.done
           N == Len(pc.data)
           n == Len(data)
<1>5. /\ a = f + d /\ n \in Nat \ {0} /\ d + n <= N /\ f \in Nat /\ d \in Nat /\ N \in Nat
      /\ f + N <= Size /\ Size \in Nat /\ Goal = f .. f + N - 1 /\ Address = 0 .. Size - 1
      /\ \A i \in 1 .. n : data[i] = pc.data[d + i]
  BY <1>1, <1>2 DEF Goal, Address
<1> HIDE DEF a, data
<1> HIDE DEF f, d, N, n
<1>6. \A c \in Address \ Goal : cells'[c] = cells[c]
  <2>1. \A c \in Address \ Goal : c \notin a .. a + n - 1
    BY <1>5
  <2> QED BY <2>1, <1>4 DEF n
<1>7. ASSUME NEW i \in 1 .. d PROVE cells'[f + i - 1] = cells[f + i - 1]
  <2>1. f + i - 1 \in Address /\ f + i - 1 \notin a .. a + n - 1
    BY <1>5
  <2> QED BY <2>1, <1>4 DEF n
<1>8. ASSUME NEW i \in 1 .. n
      PROVE  cells'[f + (d + i) - 1] =
               IF f + (d + i) - 1 \in kept THEN cells[f + (d + i) - 1]
               ELSE IF f + (d + i) - 1 \in torn THEN Torn ELSE pc.data[d + i]
  <2>1. a + i - 1 = f + (d + i) - 1 /\ data[i] = pc.data[d + i]
    BY <1>5
  <2> QED BY <2>1, <1>4 DEF n
<1>9. ASSUME NEW c \in Address
      PROVE  cells'[c] \in {cells[c], Torn} \/
               \E i \in 1 .. N : c = f + i - 1 /\ cells'[c] = pc.data[i]
  <2>1. CASE c \notin a .. a + n - 1
    BY <2>1, <1>4 DEF n
  <2>2. CASE c \in a .. a + n - 1
    <3> DEFINE j == c - a + 1
    <3>1. j \in 1 .. n /\ a + j - 1 = c /\ d + j \in 1 .. N /\ c = f + (d + j) - 1
      BY <1>5, <2>2
    <3> HIDE DEF j
    <3>2. cells'[c] = IF c \in kept THEN cells[c] ELSE IF c \in torn THEN Torn ELSE pc.data[d + j]
      BY <3>1, <1>8
    <3> QED BY <3>1, <3>2
  <2> QED BY <2>1, <2>2
<1> QED BY <1>4, <1>6, <1>7, <1>8, <1>9 DEF f, d, N, n, data

\* It keeps the records that the write is not for as they were, and their
\* checksums those of what they had or were to have.
LEMMA PageKeeps ==
  ASSUME IInv, Writing, NEW kept, NEW torn, cells' = Programmed(Addr, Chunk, kept, torn)
  PROVE  /\ \A r \in Record : pc.for # <<r>> => \A c \in Area(r) : cells'[c] = cells[c]
         /\ \A r \in Record : cells'[Base[r]] \in past[r] \union {Blank, Torn}
<1>1. \A c \in Address \ Goal : cells'[c] = cells[c]
  BY PageEffect
<1>2. ASSUME NEW r \in Record, pc.for # <<r>>
      PROVE  \A c \in Area(r) : cells'[c] = cells[c]
  BY <1>1, <1>2, Records DEF Writing
<1>3. ASSUME NEW r \in Record PROVE cells'[Base[r]] \in past[r] \union {Blank, Torn}
  <2>1. Base[r] \in Area(r) /\ Base[r] \in Address /\ Base[r] \in Nat
    BY Records DEF Address
  <2>2. cells[Base[r]] \in past[r] \union {Blank, Torn}
    BY DEF IInv, Checksums
  <2>3. CASE pc.for # <<r>>
    BY <2>1, <2>2, <2>3, <1>2
  <2>4. CASE pc.for = <<r>>
    <3>1. pc.from = Base[r] /\ pc.data[1] \in past[r]
      BY <2>4 DEF Writing, Serves
    <3>2. \A i \in 1 .. Len(pc.data) : Base[r] = pc.from + i - 1 => i = 1
      BY <3>1, <2>1 DEF Writing
    <3>3. cells'[Base[r]] \in {cells[Base[r]], Torn} \/ cells'[Base[r]] = pc.data[1]
      BY <3>2, <2>1, PageEffect
    <3> QED BY <3>1, <3>3, <2>2
  <2> QED BY <2>3, <2>4
<1> QED BY <1>2, <1>3

-----------------------------------------------------------------------------
(* What a load gives. *)

LEMMA DataFacts ==
  ASSUME NEW r \in Record, cells \in [Address -> Cell]
  PROVE  /\ Data(r) = [i \in 1 .. Len(Default[r]) |-> cells[Base[r] + i]]
         /\ Data(r) \in [1 .. Len(Default[r]) -> Cell]
         /\ Base[r] \in Area(r) /\ \A i \in 1 .. Len(Default[r]) : Base[r] + i \in Area(r)
<1> DEFINE b == Base[r]
           n == Len(Default[r])
<1>1. b \in Nat /\ n \in Nat /\ Area(r) = b .. b + n /\ Area(r) \subseteq Address
  BY Records
<1>2. Data(r) = [i \in 1 .. n |-> cells[(b + 1) + i - 1]]
  BY DEF Data, ReadAt
<1> HIDE DEF b, n
<1>3. b \in Area(r) /\ \A i \in 1 .. n : b + i \in Area(r) /\ (b + 1) + i - 1 = b + i
  BY <1>1
<1>4. Data(r) = [i \in 1 .. n |-> cells[b + i]]
  BY <1>2, <1>3
<1>5. Data(r) \in [1 .. n -> Cell]
  BY <1>1, <1>3, <1>4
<1> QED BY <1>3, <1>4, <1>5 DEF b, n

\* Never a mixture.
LEMMA LoadedKnown ==
  ASSUME IInv, NEW r \in Record
  PROVE  Loaded(r) \in past[r] \union {Default[r]}
<1>1. Data(r) \in [1 .. Len(Default[r]) -> Cell]
  BY DataFacts DEF IInv
<1>2. Data(r) \notin {Blank, Torn}
  BY <1>1, ChecksumAssumption
<1>3. cells[Base[r]] \in past[r] \union {Blank, Torn}
  BY DEF IInv, Checksums
<1> QED BY <1>2, <1>3 DEF Loaded, CRC16

\* What was written whole.
LEMMA LoadedWhole ==
  ASSUME NEW r \in Record, cells \in [Address -> Cell], NEW v \in Values[r], cells[Base[r]] = v,
         \A i \in 1 .. Len(Default[r]) : cells[Base[r] + i] = v[i]
  PROVE  Loaded(r) = v
<1>1. v \in Seq(Byte) /\ Len(v) = Len(Default[r])
  BY Records
<1>2. v = [i \in 1 .. Len(Default[r]) |-> v[i]]
  BY <1>1
<1>3. Data(r) = [i \in 1 .. Len(Default[r]) |-> v[i]]
  BY DataFacts
<1> QED BY <1>2, <1>3 DEF Loaded, CRC16

\* What is loaded lies in the record.
LEMMA LoadedKept ==
  ASSUME NEW r \in Record, cells \in [Address -> Cell], cells' \in [Address -> Cell],
         \A c \in Area(r) : cells'[c] = cells[c]
  PROVE  Loaded(r)' = Loaded(r)
<1>1. \A i \in 1 .. Len(Default[r]) : cells'[(Base[r] + 1) + i - 1] = cells[(Base[r] + 1) + i - 1]
  <2> SUFFICES ASSUME NEW i \in 1 .. Len(Default[r])
               PROVE  cells'[(Base[r] + 1) + i - 1] = cells[(Base[r] + 1) + i - 1]
    OBVIOUS
  <2>1. (Base[r] + 1) + i - 1 = Base[r] + i
    BY Records
  <2> QED BY <2>1, DataFacts
<1>2. /\ Data(r) = [i \in 1 .. Len(Default[r]) |-> cells[(Base[r] + 1) + i - 1]]
      /\ Data(r)' = [i \in 1 .. Len(Default[r]) |-> cells'[(Base[r] + 1) + i - 1]]
  BY DEF Data, ReadAt
<1>3. Data(r)' = Data(r)
  BY <1>1, <1>2
<1>4. cells'[Base[r]] = cells[Base[r]]
  BY DataFacts
<1> QED BY <1>3, <1>4 DEF Loaded

-----------------------------------------------------------------------------
(* The steps. *)

LEMMA InitInv == Init => IInv
<1> SUFFICES ASSUME Init PROVE IInv
  OBVIOUS
<1>1. cells = [a \in Address |-> Blank] /\ pc = None(<<>>, FALSE) /\ ret = -1
      /\ past = [r \in Record |-> {Default[r]}]
  BY DEF Init, Idle
<1>2. cells \in [Address -> Cell] /\ ret \in -1 .. Size
  BY <1>1, EepromAssumption DEF Cell
<1>3. Resting
  BY <1>1 DEF Resting
<1>4. Checksums
  <2>1. past \in [Record -> SUBSET UNION {Values[r] \union {Default[r]} : r \in Record}]
        /\ \A r \in Record : past[r] = {Default[r]}
    BY <1>1
  <2>2. \A r \in Record : cells[Base[r]] = Blank
    BY <1>1, EepromAssumption
  <2> QED BY <2>1, <2>2 DEF Checksums
<1> QED BY <1>2, <1>3, <1>4 DEF IInv

LEMMA Wraps ==
  /\ \A d \in Nat \ {0} : \A x \in Nat : x % d \in Nat /\ x % d <= x
  /\ \A d \in Nat \ {0} : \A x \in 0 .. d - 1 : x % d = x
<1>1. \A d \in Nat \ {0} : \A n \in Int : \A i \in 0 .. d - 1 : (d * n + i) % d = i
  OBVIOUS
<1>2. ASSUME NEW d \in Nat \ {0}, NEW x \in 0 .. d - 1 PROVE x % d = x
  <2>1. (d * 0 + x) % d = x
    BY <1>1
  <2>2. d * 0 + x = x
    OBVIOUS
  <2> QED BY <2>1, <2>2
<1>3. ASSUME NEW d \in Nat \ {0}, NEW x \in Nat PROVE x % d \in Nat /\ x % d <= x
  <2>1. x % d \in 0 .. d - 1
    OBVIOUS
  <2>2. CASE x < d
    <3>1. x \in 0 .. d - 1
      BY <2>2
    <3> QED BY <3>1, <1>2
  <2>3. CASE x >= d
    BY <2>1, <2>3
  <2> QED BY <2>2, <2>3
<1> QED BY <1>2, <1>3

\* A write ends in the memory and not behind its data; at the end of the data if
\* that is in the memory.
LEMMA Ends ==
  ASSUME NEW a \in Nat, NEW data \in Seq(Cell)
  PROVE  /\ EndAddr(a, data) \in Nat /\ EndAddr(a, data) <= Size
         /\ EndAddr(a, data) <= a + Len(data)
         /\ a + Len(data) <= Size => EndAddr(a, data) = a + Len(data)
<1> DEFINE x == a + Len(data)
           end == x % AddrWrap
<1>1. Size \in Nat /\ AddrWrap \in Nat \ {0} /\ Size < AddrWrap /\ x \in Nat
  BY EepromAssumption
<1>2. EndAddr(a, data) = IF end > Size THEN Size ELSE end
  BY DEF EndAddr
<1> HIDE DEF x
<1>3. end \in Nat /\ end <= x /\ (x \in 0 .. AddrWrap - 1 => end = x)
  BY <1>1, Wraps
<1> HIDE DEF end
<1> QED BY <1>1, <1>2, <1>3 DEF x

\* at24cxx_write up to its loop, when it is called for something.
LEMMA WriteBegins ==
  ASSUME IInv, NEW for \in For, NEW a \in Nat, NEW data \in Seq(Cell), Write(for, a, data),
         data # <<>>, a < Size, EndAddr(a, data) > a
  PROVE  LET n == EndAddr(a, data) - a
         IN  /\ n \in 1 .. Len(data) /\ a + n <= Size /\ a \in Address
             /\ SubSeq(data, 1, n) \in Seq(Cell) /\ Len(SubSeq(data, 1, n)) = n
             /\ \A i \in 1 .. n : SubSeq(data, 1, n)[i] = data[i]
             /\ pc' = [at |-> "write", for |-> for, from |-> a, data |-> SubSeq(data, 1, n),
                       done |-> 0, lost |-> FALSE]
             /\ ret' = -1 /\ cells' = cells
<1> DEFINE n == EndAddr(a, data) - a
<1>1. Size \in Nat /\ Len(data) \in Nat \ {0}
  BY EepromAssumption
<1>2. n \in 1 .. Len(data) /\ a + n <= Size /\ a \in Address
  <2>1. /\ EndAddr(a, data) \in Nat /\ EndAddr(a, data) <= Size
        /\ EndAddr(a, data) <= a + Len(data)
    BY Ends
  <2> QED BY <1>1, <2>1 DEF Address
<1>3. pc' = [at |-> "write", for |-> for, from |-> a, data |-> SubSeq(data, 1, n),
             done |-> 0, lost |-> FALSE]
      /\ ret' = -1 /\ cells' = cells
  BY <1>1, <1>2 DEF Write
<1> HIDE DEF n
<1>4. SubSeq(data, 1, n) \in Seq(Cell) /\ Len(SubSeq(data, 1, n)) = n
      /\ \A i \in 1 .. n : SubSeq(data, 1, n)[i] = data[i]
  <2>1. 0 + 1 = 1 /\ 0 + n = n /\ n \in Nat \ {0} /\ \A i \in 1 .. n : 0 + i = i
    BY <1>2
  <2>2. 0 \in Nat /\ n \in Nat \ {0} /\ 0 + n <= Len(data)
    BY <1>1, <1>2
  <2>3. SubSeq(data, 0 + 1, 0 + n) \in Seq(Cell) /\ Len(SubSeq(data, 0 + 1, 0 + n)) = n
        /\ \A i \in 1 .. n : SubSeq(data, 0 + 1, 0 + n)[i] = data[0 + i]
    BY <2>2, Cut
  <2> QED BY <2>1, <2>3
<1> QED BY <1>2, <1>3, <1>4 DEF n

LEMMA RawWriteInv ==
  ASSUME IInv, RawWrite
  PROVE  IInv' /\ cells' = cells /\ past' = past /\ (pc' = pc \/ pc'.for = <<>>)
<1>1. PICK w \in Raw : Write(<<>>, w[1], w[2])
  BY DEF RawWrite
<1>2. past' = past /\ cells' = cells
  BY <1>1 DEF RawWrite, Write
<1>3. w[1] \in Nat /\ w[2] \in Seq(Cell)
      /\ \A r \in Record : (w[1] .. w[1] + Len(w[2]) - 1) \intersect Area(r) = {}
  BY RawAssumption, SeqMonotonic DEF Cell
<1>4. Checksums'
  BY <1>2 DEF IInv, Checksums
<1>5. cells' \in [Address -> Cell]
  BY <1>2 DEF IInv
<1>6. CASE w[2] = <<>> \/ w[1] >= Size \/ EndAddr(w[1], w[2]) <= w[1]
  <2>1. ret' = 0 /\ pc' = pc
    <3>1. EndAddr(w[1], w[2]) \in Nat
      BY <1>3, Ends
    <3> QED BY <1>1, <1>3, <1>6, <3>1 DEF Write
  <2>2. Writing' \/ Resting'
    BY <2>1, <1>2 DEF IInv, Writing, Resting, Serves, Goal
  <2> QED BY <1>2, <1>4, <1>5, <2>1, <2>2, EepromAssumption DEF IInv
<1>7. CASE ~(w[2] = <<>> \/ w[1] >= Size \/ EndAddr(w[1], w[2]) <= w[1])
  <2> DEFINE a == w[1]
             data == w[2]
             n == EndAddr(a, data) - a
             cut == SubSeq(data, 1, n)
  <2>1. n \in 1 .. Len(data) /\ a + n <= Size /\ a \in Address /\ cut \in Seq(Cell) /\ Len(cut) = n
        /\ pc' = [at |-> "write", for |-> <<>>, from |-> a, data |-> cut, done |-> 0, lost |-> FALSE]
        /\ ret' = -1
    <3>1. /\ a \in Nat /\ data \in Seq(Cell) /\ <<>> \in For /\ data # <<>> /\ a < Size
          /\ Write(<<>>, a, data)
      BY <1>1, <1>3, <1>7, EepromAssumption DEF For
    <3>2. EndAddr(a, data) > a
      BY <1>3, <1>7, Ends
    <3> HIDE DEF a, data
    <3> QED BY <3>1, <3>2, WriteBegins
  <2>2. \A r \in Record : (a .. a + n - 1) \intersect Area(r) = {}
    <3>1. a .. a + n - 1 \subseteq a .. a + Len(data) - 1
      BY <2>1, <1>3
    <3> QED BY <3>1, <1>3
  <2> HIDE DEF a, data, n, cut
  <2>3. Writing'
    <3>1. \A r \in Record : pc'.for # <<r>>
      BY <2>1
    <3>2. Goal' = a .. a + n - 1
      BY <2>1 DEF Goal
    <3>3. pc' \in [at : {"write"}, for : {<<r>> : r \in Record} \union {<<>>}, from : Address,
                   data : Seq(Cell), done : Nat, lost : BOOLEAN]
      BY <2>1
    <3>4. pc'.done < Len(pc'.data) /\ pc'.from + Len(pc'.data) <= Size
          /\ \A i \in 1 .. pc'.done : FALSE
      BY <2>1
    <3> QED BY <2>2, <3>1, <3>2, <3>3, <3>4 DEF Writing
  <2>4. pc'.for = <<>> /\ ret' \in -1 .. Size
    BY <2>1, EepromAssumption
  <2> QED BY <1>2, <1>4, <1>5, <2>3, <2>4 DEF IInv
<1> QED BY <1>6, <1>7

LEMMA SaveInv ==
  ASSUME IInv, NEW r \in Record, NEW v \in Values[r], Save(r, v)
  PROVE  /\ IInv' /\ cells' = cells /\ past' = [past EXCEPT ![r] = @ \union {v}]
         /\ pc'.at = "write" /\ pc'.for = <<r>> /\ pc'.lost = FALSE /\ Tail(pc'.data) = v
<1> DEFINE k == Len(Default[r])
           data == <<v>> \o v
           n == EndAddr(Base[r], data) - Base[r]
           cut == SubSeq(data, 1, n)
<1>1. /\ Base[r] \in Nat /\ k \in Nat /\ Base[r] + k < Size /\ v \in Seq(Byte) /\ Len(v) = k /\ v \in Cell
      /\ Area(r) = Base[r] .. Base[r] + k
      /\ \A s \in Record \ {r} : Area(r) \intersect Area(s) = {}
  BY Records
<1>2. v \in Seq(Cell)
  BY <1>1, SeqMonotonic DEF Cell
<1>3. Write(<<r>>, Base[r], data) /\ past' = [past EXCEPT ![r] = @ \union {v}]
  BY DEF Save, CRC16
<1>4. data \in Seq(Cell) /\ Len(data) = k + 1 /\ data[1] = v /\ \A i \in 1 .. k : data[i + 1] = v[i]
  BY <1>1, <1>2
<1> HIDE DEF data, k
<1>5. n = k + 1 /\ EndAddr(Base[r], data) > Base[r]
  <2>1. EndAddr(Base[r], data) = Base[r] + Len(data)
    <3>1. Base[r] + Len(data) <= Size
      BY <1>1, <1>4, EepromAssumption
    <3> QED BY <3>1, <1>1, <1>4, Ends
  <2> QED BY <2>1, <1>1, <1>4
<1>6. /\ Base[r] + n <= Size /\ Base[r] \in Address /\ cut \in Seq(Cell) /\ Len(cut) = n
      /\ \A i \in 1 .. n : cut[i] = data[i]
      /\ pc' = [at |-> "write", for |-> <<r>>, from |-> Base[r], data |-> cut, done |-> 0, lost |-> FALSE]
      /\ ret' = -1 /\ cells' = cells
  <2>1. <<r>> \in For /\ Base[r] \in Nat /\ Base[r] < Size
    BY <1>1, EepromAssumption DEF For
  <2>2. data # <<>>
    BY <1>1, <1>4
  <2> QED BY <2>2, <2>1, <1>3, <1>4, <1>5, WriteBegins
<1> HIDE DEF n, cut
<1>7. cut[1] = v /\ (\A i \in 1 .. k : cut[i + 1] = v[i]) /\ Len(cut) = k + 1 /\ cut # <<>>
  <2>1. 1 \in 1 .. n /\ \A i \in 1 .. k : i + 1 \in 1 .. n
    BY <1>1, <1>5
  <2> QED BY <2>1, <1>1, <1>4, <1>5, <1>6
<1>8. Tail(cut) = v
  <2>1. Tail(cut) \in Seq(Cell) /\ Len(Tail(cut)) = k /\ \A i \in 1 .. k : Tail(cut)[i] = cut[i + 1]
    BY <1>1, <1>6, <1>7, HeadTailProperties
  <2> QED BY <2>1, <1>1, <1>2, <1>7, SeqEqual
<1>9. Checksums'
  <2>1. past \in [Record -> SUBSET UNION {Values[s] \union {Default[s]} : s \in Record}]
        /\ \A s \in Record : /\ past[s] \subseteq Values[s] \union {Default[s]}
                             /\ cells[Base[s]] \in past[s] \union {Blank, Torn}
    BY DEF IInv, Checksums
  <2>2. \A s \in Record : past'[s] = IF s = r THEN past[r] \union {v} ELSE past[s]
    BY <2>1, <1>3
  <2>3. \A s \in Record : /\ past'[s] \subseteq Values[s] \union {Default[s]}
                          /\ cells'[Base[s]] \in past'[s] \union {Blank, Torn}
    BY <2>1, <2>2, <1>6
  <2>4. past' \in [Record -> SUBSET UNION {Values[s] \union {Default[s]} : s \in Record}]
    BY <2>1, <2>2, <2>3, <1>3
  <2> QED BY <2>3, <2>4 DEF Checksums
<1>10. v \in past'[r]
  BY <1>3 DEF IInv, Checksums
<1>11. Writing'
  <2>1. pc' \in [at : {"write"}, for : {<<s>> : s \in Record} \union {<<>>}, from : Address,
                 data : Seq(Cell), done : Nat, lost : BOOLEAN]
    BY <1>6
  <2>2. pc'.done < Len(pc'.data) /\ pc'.from + Len(pc'.data) <= Size
        /\ \A i \in 1 .. pc'.done : FALSE
    BY <1>1, <1>5, <1>6
  <2>3. Serves(r)'
    BY <1>6, <1>7, <1>8, <1>10 DEF Serves, k
  <2>4. Goal' = Area(r)
    BY <1>1, <1>5, <1>6 DEF Goal
  <2>5. \A s \in Record : pc'.for = <<s>> <=> s = r
    BY <1>6
  <2> QED BY <2>1, <2>2, <2>3, <2>4, <2>5, <1>1 DEF Writing
<1>12. cells' \in [Address -> Cell] /\ ret' \in -1 .. Size
  BY <1>6, EepromAssumption DEF IInv
<1> QED BY <1>3, <1>6, <1>8, <1>9, <1>11, <1>12 DEF IInv

LEMMA SaveUnneededInv ==
  ASSUME IInv, NEW r \in Record, NEW v \in Values[r], SaveUnneeded(r, v)
  PROVE  /\ IInv' /\ cells' = cells /\ past' = [past EXCEPT ![r] = {v}]
         /\ pc' = Idle /\ Loaded(r) = v
<1>1. cells[Base[r]] = v /\ Data(r) = v /\ pc' = Idle /\ past' = [past EXCEPT ![r] = {v}]
      /\ cells' = cells /\ ret' = ret
  BY DEF SaveUnneeded, Stored, CRC16
<1>2. past \in [Record -> SUBSET UNION {Values[s] \union {Default[s]} : s \in Record}]
      /\ \A s \in Record : /\ past[s] \subseteq Values[s] \union {Default[s]}
                           /\ cells[Base[s]] \in past[s] \union {Blank, Torn}
  BY DEF IInv, Checksums
<1>3. \A s \in Record : past'[s] = IF s = r THEN {v} ELSE past[s]
  BY <1>1, <1>2
<1>4. \A s \in Record : /\ past'[s] \subseteq Values[s] \union {Default[s]}
                        /\ cells'[Base[s]] \in past'[s] \union {Blank, Torn}
  BY <1>1, <1>2, <1>3
<1>5. past' \in [Record -> SUBSET UNION {Values[s] \union {Default[s]} : s \in Record}]
  BY <1>1, <1>2, <1>3, <1>4
<1>6. Resting'
  BY <1>1 DEF Resting, Idle
<1> QED BY <1>1, <1>4, <1>5, <1>6 DEF IInv, Checksums, Loaded, CRC16

LEMMA PowerFailsInv ==
  ASSUME IInv, PowerFails
  PROVE  /\ IInv' /\ past' = past /\ pc' = Idle
         /\ pc.at = "idle" => cells' = cells
         /\ \A c \in Address : cells'[c] # cells[c] => pc.at = "write" /\ c \in Goal
         /\ \A r \in Record : ~(pc.at = "write" /\ pc.for = <<r>>) =>
              \A c \in Area(r) : cells'[c] = cells[c]
<1>1. past' = past /\ pc' = Idle /\ ret' = -1
  BY DEF PowerFails
<1>2. Resting' /\ ret' \in -1 .. Size
  <2>1. Resting'
    BY <1>1, Rests DEF Idle, For
  <2>2. -1 \in -1 .. Size
    BY EepromAssumption
  <2> QED BY <2>1, <2>2, <1>1
<1>3. CASE pc.at = "write"
  <2>1. Writing
    BY <1>3, Kinds
  <2>2. PICK kept, torn : cells' = Programmed(Addr, Chunk, kept, torn)
    BY <1>3 DEF PowerFails
  <2>3. cells' \in [Address -> Cell] /\ \A c \in Address \ Goal : cells'[c] = cells[c]
    BY <2>1, <2>2, PageEffect
  <2>4. /\ \A r \in Record : pc.for # <<r>> => \A c \in Area(r) : cells'[c] = cells[c]
        /\ \A r \in Record : cells'[Base[r]] \in past[r] \union {Blank, Torn}
    BY <2>1, <2>2, PageKeeps
  <2>5. Checksums'
    BY <2>4, <1>1 DEF IInv, Checksums
  <2> QED BY <1>1, <1>2, <1>3, <2>3, <2>4, <2>5 DEF IInv
<1>4. CASE pc.at # "write"
  <2>1. cells' = cells
    BY <1>4 DEF PowerFails
  <2>2. Checksums'
    BY <1>1, <2>1 DEF IInv, Checksums
  <2> QED BY <1>1, <1>2, <2>1, <2>2 DEF IInv
<1> QED BY <1>3, <1>4

LEMMA WritePageInv ==
  ASSUME IInv, NEW lost \in BOOLEAN, WritePage(lost)
  PROVE  /\ IInv' /\ pc.at = "write" /\ Writing
         /\ \A c \in Address \ Goal : cells'[c] = cells[c]
         /\ \A r \in Record : pc.for # <<r>> => \A c \in Area(r) : cells'[c] = cells[c]
         /\ pc'.for = pc.for /\ pc'.lost = (pc.lost \/ lost)
         /\ \/ /\ pc'.at = "write" /\ pc'.data = pc.data /\ past' = past /\ ret' = ret
            \/ /\ pc'.at = "idle" /\ ret' = Len(pc.data)
               /\ ~pc'.lost => \A i \in 1 .. Len(pc.data) : cells'[pc.from + i - 1] = pc.data[i]
               /\ past' = [r \in Record |-> IF pc.for = <<r>> /\ ~pc'.lost
                                           THEN {Tail(pc.data)} ELSE past[r]]
<1>1. pc.at = "write" /\ Writing
  BY Kinds DEF WritePage
<1> DEFINE f == pc.from
           d == pc.done
           data == pc.data
           N == Len(data)
           n == Len(Chunk)
<1>2. /\ cells' = IF lost THEN cells ELSE Programmed(Addr, Chunk, {}, {})
      /\ IF d + n < N
         THEN pc' = [pc EXCEPT !.done = d + n, !.lost = @ \/ lost] /\ ret' = ret
         ELSE pc' = None(pc.for, pc.lost \/ lost) /\ ret' = d + n
      /\ past' = [r \in Record |-> IF pc'.at = "idle" /\ pc.for = <<r>> /\ ~pc'.lost
                                  THEN {Tail(data)} ELSE past[r]]
  BY DEF WritePage
<1>3. /\ f \in Address /\ f \in Nat /\ d \in Nat /\ N \in Nat /\ n \in Nat \ {0} /\ d + n <= N /\ f + N <= Size
      /\ data \in Seq(Cell) /\ pc.for \in For /\ pc.lost \in BOOLEAN /\ Size \in Nat
  <2>1. n \in Nat \ {0} /\ d + n <= N
    BY <1>1, ChunkFacts
  <2> QED BY <1>1, <2>1, EepromAssumption DEF Writing, Address, For
<1>4. /\ cells' \in [Address -> Cell] /\ \A c \in Address \ Goal : cells'[c] = cells[c]
      /\ \A r \in Record : pc.for # <<r>> => \A c \in Area(r) : cells'[c] = cells[c]
      /\ \A r \in Record : cells'[Base[r]] \in past[r] \union {Blank, Torn}
  <2>1. CASE lost
    BY <2>1, <1>2, Records DEF IInv, Checksums
  <2>2. CASE ~lost
    BY <2>2, <1>1, <1>2, PageEffect, PageKeeps
  <2> QED BY <2>1, <2>2
<1>5. pc'.for = pc.for /\ pc'.lost = (pc.lost \/ lost)
      /\ (d + n < N => pc'.at = "write" /\ pc'.done = d + n /\ pc'.from = f /\ pc'.data = data)
      /\ (~(d + n < N) => pc'.at = "idle" /\ d + n = N)
      /\ (d + n < N => pc' \in [at : {"write"}, for : {<<r>> : r \in Record} \union {<<>>},
                               from : Address, data : Seq(Cell), done : Nat, lost : BOOLEAN])
  <2>1. pc \in [at : {"write"}, for : {<<r>> : r \in Record} \union {<<>>}, from : Address,
                data : Seq(Cell), done : Nat, lost : BOOLEAN]
    BY <1>1 DEF Writing
  <2>2. d + n \in Nat /\ (~(d + n < N) => d + n = N)
    BY <1>3
  <2>3. CASE d + n < N
    <3> DEFINE e == d + n
    <3>1. pc' = [pc EXCEPT !.done = e, !.lost = @ \/ lost] /\ e \in Nat
      BY <1>2, <2>2, <2>3
    <3> HIDE DEF e
    <3>2. /\ pc'.for = pc.for /\ pc'.lost = (pc.lost \/ lost) /\ pc'.at = "write" /\ pc'.done = e
          /\ pc'.from = pc.from /\ pc'.data = pc.data
          /\ pc' \in [at : {"write"}, for : {<<r>> : r \in Record} \union {<<>>},
                      from : Address, data : Seq(Cell), done : Nat, lost : BOOLEAN]
      BY <3>1, <2>1
    <3> QED BY <3>2, <2>3 DEF e
  <2>4. CASE ~(d + n < N)
    <3>1. pc' = None(pc.for, pc.lost \/ lost)
      BY <2>4, <1>2
    <3>2. pc'.for = pc.for /\ pc'.lost = (pc.lost \/ lost) /\ pc'.at = "idle"
      BY <3>1 DEF None
    <3> QED BY <3>2, <2>2, <2>4
  <2> QED BY <2>3, <2>4
<1>6. ASSUME ~pc'.lost
      PROVE  \A i \in 1 .. d + n : cells'[f + i - 1] = data[i]
  <2>1. ~lost /\ ~pc.lost
    BY <1>5, <1>6
  <2>2. /\ \A i \in 1 .. d : cells'[f + i - 1] = cells[f + i - 1]
        /\ \A i \in 1 .. n : cells'[f + (d + i) - 1] = data[d + i]
    BY <2>1, <1>1, <1>2, PageEffect
  <2>3. \A i \in 1 .. d : cells[f + i - 1] = data[i]
    BY <2>1, <1>1 DEF Writing
  <2> HIDE DEF d, n, f, data
  <2> SUFFICES ASSUME NEW i \in 1 .. d + n PROVE cells'[f + i - 1] = data[i]
    OBVIOUS
  <2>4. CASE i <= d
    <3>1. i \in 1 .. d
      BY <2>4, <1>3
    <3> QED BY <3>1, <2>2, <2>3
  <2>5. CASE i > d
    <3>1. i - d \in 1 .. n /\ d + (i - d) = i
      BY <2>5, <1>3
    <3> QED BY <3>1, <2>2
  <2> QED BY <2>4, <2>5, <1>3
<1>7. CASE d + n < N
  <2>1. past' = past
    <3>1. past' = [r \in Record |-> past[r]]
      BY <1>2, <1>5, <1>7
    <3> QED BY <3>1 DEF IInv, Checksums
  <2>2. Checksums'
    BY <2>1, <1>4 DEF IInv, Checksums
  <2>3. Writing'
    <3>1. pc' \in [at : {"write"}, for : {<<r>> : r \in Record} \union {<<>>}, from : Address,
                   data : Seq(Cell), done : Nat, lost : BOOLEAN]
      BY <1>5, <1>7
    <3>2. \A r \in Record : Serves(r)' <=> Serves(r)
      <4>1. pc'.from = pc.from /\ pc'.data = pc.data /\ past' = past
        BY <1>5, <1>7, <2>1
      <4> QED BY ONLY <4>1 DEF Serves
    <3>3. Goal' = Goal
      BY <1>5, <1>7 DEF Goal
    <3>4. \A r \in Record : IF pc'.for = <<r>> THEN Serves(r)' ELSE Goal' \intersect Area(r) = {}
      BY <3>2, <3>3, <1>1, <1>5 DEF Writing
    <3>5. pc'.done < Len(pc'.data) /\ pc'.from + Len(pc'.data) <= Size
      BY <1>3, <1>5, <1>7
    <3>6. ~pc'.lost => \A i \in 1 .. pc'.done : cells'[pc'.from + i - 1] = pc'.data[i]
      BY <1>5, <1>6, <1>7
    <3> QED BY <3>1, <3>4, <3>5, <3>6 DEF Writing
  <2>4. ret' = ret
    BY <1>2, <1>7
  <2> QED BY <2>1, <2>2, <2>3, <2>4, <1>1, <1>4, <1>5, <1>7 DEF IInv
<1>8. CASE ~(d + n < N)
  <2>1. pc' = None(pc.for, pc.lost \/ lost) /\ ret' = N /\ pc'.at = "idle"
    BY <1>2, <1>5, <1>8
  <2>2. past' = [r \in Record |-> IF pc.for = <<r>> /\ ~pc'.lost THEN {Tail(data)} ELSE past[r]]
    BY <2>1, <1>2
  <2>3. ~pc'.lost => \A i \in 1 .. N : cells'[f + i - 1] = data[i]
    BY <1>5, <1>6, <1>8
  <2>4. ASSUME NEW r \in Record
        PROVE  /\ past'[r] \subseteq Values[r] \union {Default[r]}
               /\ cells'[Base[r]] \in past'[r] \union {Blank, Torn}
    <3>1. past[r] \subseteq Values[r] \union {Default[r]}
      BY DEF IInv, Checksums
    <3>2. CASE pc.for = <<r>> /\ ~pc'.lost
      <4>1. f = Base[r] /\ data[1] = Tail(data) /\ Tail(data) \in Values[r] /\ 1 \in 1 .. N
        BY <3>2, <1>1, <1>3 DEF Writing, Serves
      <4>2. f + 1 - 1 = Base[r]
        BY <4>1, <1>3
      <4>3. cells'[Base[r]] = Tail(data)
        BY <4>1, <4>2, <3>2, <2>3
      <4> QED BY <4>1, <4>3, <3>2, <2>2
    <3>3. CASE ~(pc.for = <<r>> /\ ~pc'.lost)
      BY <3>1, <3>3, <2>2, <1>4
    <3> QED BY <3>2, <3>3
  <2>5. past' \in [Record -> SUBSET UNION {Values[r] \union {Default[r]} : r \in Record}]
    <3> DEFINE U == UNION {Values[r] \union {Default[r]} : r \in Record}
    <3>1. \A r \in Record : past'[r] \in SUBSET U
      BY <2>4
    <3>2. past' = [r \in Record |-> past'[r]]
      BY <2>2
    <3> HIDE DEF U
    <3>3. past' \in [Record -> SUBSET U]
      BY <3>1, <3>2
    <3> QED BY <3>3 DEF U
  <2>6. Resting'
    BY <2>1, <1>3 DEF Resting, For
  <2>7. ret' \in -1 .. Size
    BY <2>1, <1>3
  <2> QED BY <2>1, <2>2, <2>3, <2>4, <2>5, <2>6, <2>7, <1>1, <1>4, <1>5 DEF IInv, Checksums
<1> QED BY <1>7, <1>8

LEMMA StepInv == IInv /\ [Next]_vars => IInv'
<1> SUFFICES ASSUME IInv, [Next]_vars PROVE IInv'
  OBVIOUS
<1>1. CASE RawWrite
  BY <1>1, RawWriteInv
<1>2. ASSUME NEW r \in Record, NEW v \in Values[r], Save(r, v) \/ SaveUnneeded(r, v)
      PROVE  IInv'
  BY <1>2, SaveInv, SaveUnneededInv
<1>3. ASSUME NEW lost \in Losses, WritePage(lost) PROVE IInv'
  BY <1>3, EepromAssumption, WritePageInv
<1>4. CASE PowerFails
  BY <1>4, PowerFailsInv
<1>5. CASE UNCHANGED vars
  BY <1>5 DEF vars, IInv, Writing, Resting, Serves, Goal, Checksums
<1> QED BY <1>1, <1>2, <1>3, <1>4, <1>5 DEF Next

LEMMA Invariance == Spec => []IInv
BY InitInv, StepInv, PTL DEF Spec

-----------------------------------------------------------------------------
(* The theorems. *)

\* No page reaches beyond the memory, at24cxx_write returns no more than what
\* there is of it, and a record's history holds values of that record only.
THEOREM TypeCorrect == Spec => []TypeOK
<1>1. IInv => TypeOK
  <2> SUFFICES ASSUME IInv PROVE TypeOK
    OBVIOUS
  <2>1. cells \in [Address -> Cell] /\ ret \in -1 .. Size
        /\ \A r \in Record : past[r] \subseteq Values[r] \union {Default[r]}
    BY DEF IInv, Checksums
  <2>2. pc.for \in {<<r>> : r \in Record} \union {<<>>} /\ pc.lost \in BOOLEAN
    BY Kinds DEF For
  <2>3. pc.at = "write" => pc.from \in Address /\ Addr + Len(Chunk) <= Size /\ Chunk # <<>>
    <3> SUFFICES ASSUME pc.at = "write"
                 PROVE  pc.from \in Address /\ Addr + Len(Chunk) <= Size /\ Chunk # <<>>
      OBVIOUS
    <3>1. Writing
      BY Kinds
    <3>2. Addr + Len(Chunk) <= Size /\ Chunk \in Seq(Cell) /\ Len(Chunk) # 0
      BY <3>1, ChunkFacts
    <3>3. Chunk # <<>>
      BY <3>2
    <3> QED BY <3>1, <3>2, <3>3 DEF Writing
  <2>4. pc.at = "idle" \/ pc.at = "write"
    BY Kinds
  <2> QED BY <2>1, <2>2, <2>3, <2>4 DEF TypeOK
<1> QED BY <1>1, Invariance, PTL

\* at24cxx_write, which cuts what it is given into pages, changes no cell but
\* those it was asked to write; when it returns and no page was lost, they hold
\* the data.
THEOREM WritesExact == Spec => WriteExact
<1> DEFINE Asked == \A c \in Address : cells'[c] # cells[c] =>
                      pc.at = "write" /\ c \in pc.from .. pc.from + Len(pc.data) - 1
           Whole == (pc.at = "write" /\ ret' >= 0 /\ pc'.at = "idle") =>
                      /\ ret' = Len(pc.data)
                      /\ pc'.lost \/ \A i \in 1 .. Len(pc.data) : cells'[pc.from + i - 1] = pc.data[i]
<1>1. IInv /\ Next => Asked /\ Whole
  <2> SUFFICES ASSUME IInv, Next PROVE Asked /\ Whole
    OBVIOUS
  <2>1. CASE RawWrite
    BY <2>1, RawWriteInv DEF RawWrite
  <2>2. ASSUME NEW r \in Record, NEW v \in Values[r], Save(r, v) \/ SaveUnneeded(r, v)
        PROVE  Asked /\ Whole
    <3>1. cells' = cells
      BY <2>2, SaveInv, SaveUnneededInv
    <3>2. pc.at = "idle"
      BY <2>2 DEF Save, SaveUnneeded
    <3> QED BY <3>1, <3>2
  <2>3. ASSUME NEW lost \in Losses, WritePage(lost) PROVE Asked /\ Whole
    <3>1. lost \in BOOLEAN
      BY EepromAssumption
    <3>2. Asked
      BY <2>3, <3>1, WritePageInv DEF Goal
    <3>3. Whole
      BY <2>3, <3>1, WritePageInv
    <3> QED BY <3>2, <3>3
  <2>4. CASE PowerFails
    <3>1. ret' = -1 /\ ~(-1 >= 0)
      BY <2>4 DEF PowerFails
    <3>2. Asked
      BY <2>4, PowerFailsInv DEF Goal
    <3> QED BY <3>1, <3>2
  <2> QED BY <2>1, <2>2, <2>3, <2>4 DEF Next
<1>2. IInv /\ [Next]_vars => [Asked /\ Whole]_vars
  BY <1>1
<1> QED BY <1>2, Invariance, PTL DEF Spec, WriteExact

LEMMA StoreInit == Init => Store!Init
<1> SUFFICES ASSUME Init PROVE Store!Init
  OBVIOUS
<1>1. \A r \in Record : Loaded(r) = Default[r]
  <2>1. \A r \in Record : past[r] = {Default[r]}
    BY DEF Init
  <2> QED BY <2>1, InitInv, LoadedKnown
<1>2. Default = [r \in Record |-> Default[r]]
  BY EepromAssumption
<1>3. [r \in Record |-> Loaded(r)] = Default
  BY <1>1, <1>2
<1>4. pc.at = "idle" /\ pc.for = <<>> /\ past = [r \in Record |-> {Default[r]}]
  BY DEF Init, Idle, None
<1> QED BY <1>3, <1>4 DEF Store!Init

\* A step that leaves the records' cells and history alone, and ends or begins
\* no save: what was lost may be forgotten.
LEMMA StoreSame ==
  ASSUME IInv, past' = past, cells' \in [Address -> Cell],
         \A r \in Record : \A c \in Area(r) : cells'[c] = cells[c],
         pc.at = "idle" \/ pc.for = <<>>, pc' = pc \/ pc'.for = <<>>
  PROVE  Store!Forget \/ UNCHANGED Store!store
<1> DEFINE value == [r \in Record |-> Loaded(r)]
           saving == IF pc.at = "write" /\ pc.for # <<>> THEN <<pc.for[1], Tail(pc.data)>> ELSE <<>>
           lost == pc.for # <<>> /\ pc.lost
<1>1. value' = value
  <2>1. \A r \in Record : Loaded(r)' = Loaded(r)
    BY LoadedKept DEF IInv
  <2> QED BY <2>1
<1>2. saving = <<>> /\ saving' = <<>>
  BY Kinds
<1>3. pc' = pc => lost' = lost
  OBVIOUS
<1>4. pc' # pc => lost' = FALSE
  OBVIOUS
<1>5. CASE pc' = pc
  BY <1>1, <1>2, <1>3, <1>5 DEF Store!store
<1>6. CASE pc' # pc
  BY <1>1, <1>2, <1>4, <1>6 DEF Store!Forget
<1> QED BY <1>5, <1>6

LEMMA LoadsNext ==
  /\ IInv' => \A r \in Record : Loaded(r)' \in past'[r] \union {Default[r]}
  /\ cells' \in [Address -> Cell] =>
       \A r \in Record : \A v \in Values[r] :
         cells'[Base[r]] = v /\ (\A i \in 1 .. Len(Default[r]) : cells'[Base[r] + i] = v[i])
           => Loaded(r)' = v
<1>1. IInv => \A r \in Record : Loaded(r) \in past[r] \union {Default[r]}
  BY LoadedKnown
<1>2. cells \in [Address -> Cell] =>
        \A r \in Record : \A v \in Values[r] :
          cells[Base[r]] = v /\ (\A i \in 1 .. Len(Default[r]) : cells[Base[r] + i] = v[i])
            => Loaded(r) = v
  BY LoadedWhole
<1>3. (IInv => \A r \in Record : Loaded(r) \in past[r] \union {Default[r]})'
  BY <1>1, PTL
<1>4. (cells \in [Address -> Cell] =>
        \A r \in Record : \A v \in Values[r] :
          cells[Base[r]] = v /\ (\A i \in 1 .. Len(Default[r]) : cells[Base[r] + i] = v[i])
            => Loaded(r) = v)'
  BY <1>2, PTL
<1> QED BY <1>3, <1>4

\* A step of the save of r changes what r is loaded with, if anything.
LEMMA StoreChanges ==
  ASSUME IInv, IInv', NEW r \in Record, \A s \in Record \ {r} : \A c \in Area(s) : cells'[c] = cells[c]
  PROVE  [s \in Record |-> Loaded(s)]' = [[s \in Record |-> Loaded(s)] EXCEPT ![r] = Loaded(r)']
<1>1. \A s \in Record \ {r} : Loaded(s)' = Loaded(s)
  BY LoadedKept DEF IInv
<1> QED BY <1>1

LEMMA StoreSaves ==
  ASSUME IInv, NEW r \in Record, NEW v \in Values[r], Save(r, v) \/ SaveUnneeded(r, v)
  PROVE  Store!Next
<1> DEFINE value == [s \in Record |-> Loaded(s)]
           saving == IF pc.at = "write" /\ pc.for # <<>> THEN <<pc.for[1], Tail(pc.data)>> ELSE <<>>
           lost == pc.for # <<>> /\ pc.lost
<1>1. cells' = cells /\ cells \in [Address -> Cell] /\ pc.at = "idle"
  BY SaveInv, SaveUnneededInv DEF Save, SaveUnneeded, IInv
<1>2. value' = value
  <2>1. \A s \in Record : Loaded(s)' = Loaded(s)
    BY <1>1, LoadedKept
  <2> QED BY <2>1
<1>3. saving = <<>>
  BY <1>1
<1>4. CASE Save(r, v)
  <2>1. past' = [past EXCEPT ![r] = @ \union {v}] /\ pc'.at = "write" /\ pc'.for = <<r>>
        /\ pc'.lost = FALSE /\ Tail(pc'.data) = v
    BY <1>4, SaveInv
  <2>2. saving' = <<r, v>> /\ lost' = FALSE
    <3>1. pc'.for # <<>> /\ pc'.for[1] = r
      BY <2>1
    <3> QED BY <2>1, <3>1
  <2>3. Store!Begin(r, v)
    BY <1>2, <1>3, <2>1, <2>2 DEF Store!Begin
  <2> QED BY <2>3 DEF Store!Next
<1>5. CASE SaveUnneeded(r, v)
  <2>1. past' = [past EXCEPT ![r] = {v}] /\ pc' = Idle /\ Loaded(r) = v
    BY <1>5, SaveUnneededInv
  <2>2. pc'.at = "idle" /\ pc'.for = <<>>
    BY <2>1 DEF Idle, None
  <2>3. saving' = <<>> /\ lost' = FALSE /\ value[r] = v
    BY <2>1, <2>2
  <2>4. Store!Unneeded(r, v)
    BY <1>2, <1>3, <2>1, <2>3 DEF Store!Unneeded
  <2> QED BY <2>4 DEF Store!Next
<1> QED BY <1>4, <1>5

\* A page of the save of r, whole, lost or cut short.
LEMMA StorePages ==
  ASSUME IInv, NEW r \in Record, pc.at = "write", pc.for = <<r>>,
         PowerFails \/ (\E lost \in Losses : WritePage(lost))
  PROVE  Store!Next
<1> DEFINE value == [s \in Record |-> Loaded(s)]
           saving == IF pc.at = "write" /\ pc.for # <<>> THEN <<pc.for[1], Tail(pc.data)>> ELSE <<>>
           gone == pc.for # <<>> /\ pc.lost
           v == Tail(pc.data)
<1>1. Serves(r) /\ Writing /\ pc.lost \in BOOLEAN
  BY Kinds DEF Writing
<1>2. v \in Values[r] /\ saving = <<r, v>> /\ gone = pc.lost
  BY <1>1 DEF Serves
<1>3. IInv' /\ \A s \in Record : pc.for # <<s>> => \A c \in Area(s) : cells'[c] = cells[c]
  BY PowerFailsInv, WritePageInv, EepromAssumption
<1>4. value' = [value EXCEPT ![r] = Loaded(r)']
  <2>1. \A s \in Record \ {r} : pc.for # <<s>>
    OBVIOUS
  <2> QED BY <2>1, <1>3, StoreChanges
<1>5. ASSUME past'[r] = past[r]
      PROVE  \E w \in past[r] \union {Default[r]} : value' = [value EXCEPT ![r] = w]
  BY <1>3, <1>4, <1>5, LoadsNext
<1> HIDE DEF value
<1>6. CASE PowerFails
  <2>1. past' = past /\ pc' = Idle
    BY <1>6, PowerFailsInv
  <2>2. saving' = <<>> /\ gone' = FALSE
    BY <2>1 DEF Idle, None
  <2>3. Store!PowerFails(r, v)
    BY <1>2, <1>5, <2>1, <2>2 DEF Store!PowerFails, Store!Damaged, value
  <2> QED BY <2>3, <1>2 DEF Store!Next
<1>7. ASSUME NEW lost \in Losses, WritePage(lost) PROVE Store!Next
  <2>1. /\ pc'.for = pc.for /\ pc'.lost = (pc.lost \/ lost)
        /\ \/ /\ pc'.at = "write" /\ pc'.data = pc.data /\ past' = past
           \/ /\ pc'.at = "idle" /\ ret' = Len(pc.data)
              /\ ~pc'.lost => \A i \in 1 .. Len(pc.data) : cells'[pc.from + i - 1] = pc.data[i]
              /\ past' = [s \in Record |-> IF pc.for = <<s>> /\ ~pc'.lost
                                          THEN {Tail(pc.data)} ELSE past[s]]
    BY <1>7, EepromAssumption, WritePageInv
  <2>2. gone' = pc'.lost /\ gone' \in {gone, TRUE} /\ gone' \in BOOLEAN
    BY <2>1, <1>1, <1>2, EepromAssumption
  <2>3. CASE pc'.at = "write" /\ pc'.data = pc.data /\ past' = past
    <3>1. saving' = saving
      BY <2>1, <2>3
    <3>2. Store!Proceed(r, v)
      BY <1>2, <1>5, <2>2, <2>3, <3>1 DEF Store!Proceed, Store!Damaged, value
    <3> QED BY <3>2, <1>2 DEF Store!Next
  <2>4. CASE pc'.at = "idle" /\ pc'.lost
    <3>1. saving' = <<>>
      BY <2>4
    <3>2. past' = past
      <4>1. past' = [s \in Record |-> past[s]]
        BY <2>1, <2>4
      <4> QED BY <4>1 DEF IInv, Checksums
    <3>3. Store!End(r, v)
      BY <1>2, <1>5, <2>2, <2>4, <3>1, <3>2 DEF Store!End, Store!Damaged, value
    <3> QED BY <3>3, <1>2 DEF Store!Next
  <2>5. CASE pc'.at = "idle" /\ ~pc'.lost
    <3>1. saving' = <<>>
      BY <2>5
    <3>2. past' = [past EXCEPT ![r] = {v}]
      <4>1. past' = [s \in Record |-> IF s = r THEN {v} ELSE past[s]]
        BY <2>1, <2>5
      <4> QED BY <4>1 DEF IInv, Checksums
    <3>3. Loaded(r)' = v
      <4>1. /\ pc.from = Base[r] /\ Base[r] \in Nat /\ Len(pc.data) = Len(Default[r]) + 1
            /\ Len(Default[r]) \in Nat /\ pc.data[1] = v
            /\ \A i \in 1 .. Len(Default[r]) : pc.data[i + 1] = v[i]
        BY <1>1, Records DEF Serves
      <4> HIDE DEF v
      <4>2. \A i \in 1 .. Len(pc.data) : cells'[Base[r] + i - 1] = pc.data[i]
        BY <2>1, <2>5, <4>1
      <4>3. 1 \in 1 .. Len(pc.data) /\ Base[r] + 1 - 1 = Base[r]
            /\ \A i \in 1 .. Len(Default[r]) :
                 i + 1 \in 1 .. Len(pc.data) /\ Base[r] + (i + 1) - 1 = Base[r] + i
        BY <4>1
      <4>4. cells'[Base[r]] = v /\ \A i \in 1 .. Len(Default[r]) : cells'[Base[r] + i] = v[i]
        BY <4>1, <4>2, <4>3
      <4>5. cells' \in [Address -> Cell]
        BY <1>3 DEF IInv
      <4> QED BY <4>4, <4>5, <1>2, LoadsNext
    <3>4. value' = [value EXCEPT ![r] = v]
      BY <1>4, <3>3
    <3>5. Store!End(r, v)
      BY <1>2, <2>2, <2>5, <3>1, <3>2, <3>4 DEF Store!End, value
    <3> QED BY <3>5, <1>2 DEF Store!Next
  <2> QED BY <2>1, <2>3, <2>4, <2>5
<1> QED BY <1>6, <1>7

LEMMA StoreStep == IInv /\ [Next]_vars => [Store!Next]_(Store!store)
<1> SUFFICES ASSUME IInv, [Next]_vars PROVE [Store!Next]_(Store!store)
  OBVIOUS
<1>1. ASSUME Store!Forget \/ UNCHANGED Store!store PROVE [Store!Next]_(Store!store)
  BY <1>1 DEF Store!Next
<1>2. cells \in [Address -> Cell]
  BY DEF IInv
<1>3. CASE RawWrite
  <2>1. pc.at = "idle"
    BY <1>3 DEF RawWrite
  <2>2. cells' = cells /\ past' = past /\ (pc' = pc \/ pc'.for = <<>>)
    BY <1>3, RawWriteInv
  <2> QED BY <2>1, <2>2, <1>1, <1>2, StoreSame
<1>4. ASSUME NEW r \in Record, NEW v \in Values[r], Save(r, v) \/ SaveUnneeded(r, v)
      PROVE  Store!Next
  BY <1>4, StoreSaves
<1>5. CASE PowerFails \/ \E lost \in Losses : WritePage(lost)
  <2>1. CASE \E r \in Record : pc.at = "write" /\ pc.for = <<r>>
    BY <2>1, <1>5, StorePages
  <2>2. CASE ~\E r \in Record : pc.at = "write" /\ pc.for = <<r>>
    <3>1. pc.at = "idle" \/ pc.for = <<>>
      BY <2>2, Kinds DEF For
    <3>2. CASE PowerFails
      <4>1. IInv' /\ past' = past /\ pc'.for = <<>>
            /\ \A r \in Record : \A c \in Area(r) : cells'[c] = cells[c]
        BY <3>2, <2>2, PowerFailsInv DEF Idle, None
      <4>2. cells' \in [Address -> Cell]
        BY <4>1 DEF IInv
      <4> QED BY <3>1, <4>1, <4>2, <1>1, StoreSame
    <3>3. ASSUME NEW lost \in Losses, WritePage(lost) PROVE [Store!Next]_(Store!store)
      <4>1. /\ IInv' /\ pc.at = "write" /\ pc'.for = pc.for
            /\ \A r \in Record : pc.for # <<r>> => \A c \in Area(r) : cells'[c] = cells[c]
            /\ past' = past \/ past' = [r \in Record |-> IF pc.for = <<r>> /\ ~pc'.lost
                                                        THEN {Tail(pc.data)} ELSE past[r]]
        BY <3>3, EepromAssumption, WritePageInv
      <4>2. pc.for = <<>> /\ \A r \in Record : pc.for # <<r>>
        BY <4>1, <3>1
      <4>3. past' = past
        <5>1. past' = past \/ past' = [r \in Record |-> past[r]]
          BY <4>1, <4>2
        <5> QED BY <5>1 DEF IInv, Checksums
      <4>4. cells' \in [Address -> Cell]
        BY <4>1 DEF IInv
      <4> QED BY <4>1, <4>2, <4>3, <4>4, <1>1, StoreSame
    <3> QED BY <3>2, <3>3, <1>5
  <2> QED BY <2>1, <2>2
<1>6. CASE UNCHANGED vars
  <2>1. pc' = pc /\ past' = past /\ cells' = cells
    BY <1>6 DEF vars
  <2>2. \A r \in Record : Loaded(r)' = Loaded(r)
    BY <2>1, <1>2, LoadedKept
  <2> QED BY <2>1, <2>2 DEF Store!store
<1> QED BY <1>3, <1>4, <1>5, <1>6 DEF Next

\* What a load of a record gives is what ParamStore promises: through losses of
\* power between pages and within one, lost pages and writes next to it, a
\* value that was saved or the default one, and the last one if all went well.
THEOREM Refinement == Spec => ImplementsParamStore
BY StoreInit, StoreStep, Invariance, PTL DEF Spec, ImplementsParamStore, Store!Spec
=============================================================================
