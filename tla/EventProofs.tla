------------------------------ MODULE EventProofs ------------------------------
(***************************************************************************)
(* Theorems of the two sources of contiki's events: of Etimer and Ctimer   *)
(* for every number of timers and processes, every width of the clock,     *)
(* every set of intervals and every queue length; and of SerialLine for    *)
(* every size of ring and line, when no backspace is typed on an empty     *)
(* line and the event queue always has room for the two events of a line.  *)
(***************************************************************************)
EXTENDS Ctimer, SerialLine, FiniteSetTheorems, WellFoundedInduction, TLAPS

-----------------------------------------------------------------------------
(* Times: two of them are the same if they agree modulo the clock's width.   *)

LEMMA Division ==
  ASSUME NEW d \in Nat \ {0}, NEW x \in Int
  PROVE  x % d \in 0 .. d - 1 /\ x \div d \in Int /\ x = d * (x \div d) + (x % d)
OBVIOUS

LEMMA Remainder ==
  ASSUME NEW d \in Nat \ {0}, NEW q \in Int, NEW k \in 0 .. d - 1
  PROVE  (d * q + k) % d = k
OBVIOUS

LEMMA Clock == W \in Nat \ {0} /\ Slack \in Nat \ {0} /\ NumEvents \in Nat \ {0}
               /\ Intervals \subseteq 1 .. W - Slack - 2
BY TimerAssumption

\* A time as the clock shows it.
OnClock(x) == x % W

LEMMA TimeType ==
  ASSUME NEW a \in Int
  PROVE  OnClock(a) \in 0 .. W - 1
BY Division, Clock DEF OnClock

LEMMA TimeSmall ==
  ASSUME NEW a \in 0 .. W - 1
  PROVE  OnClock(a) = a
<1>1. W * 0 + a = a
  BY Clock
<1> QED BY <1>1, Remainder, Clock DEF OnClock

\* What is added to a time may be added before or after the clock wraps.
LEMMA TimePlus ==
  ASSUME NEW a \in Int, NEW c \in Int
  PROVE  OnClock(OnClock(a) + c) = OnClock(a + c)
<1> DEFINE q == a \div W
           m == a % W
           p == (m + c) \div W
           n == (m + c) % W
<1>1. q \in Int /\ m \in 0 .. W - 1 /\ a = W * q + m
  BY Division, Clock
<1> HIDE DEF q, m
<1>2. m + c \in Int
  BY <1>1, Clock
<1>3. p \in Int /\ n \in 0 .. W - 1 /\ m + c = W * p + n
  BY <1>2, Division, Clock
<1> HIDE DEF p, n
<1>4. a + c = W * (q + p) + n
  <2>1. a + c = (W * q) + (W * p) + n
    BY <1>1, <1>3, Clock
  <2>2. W * (q + p) = (W * q) + (W * p)
    BY <1>1, <1>3, Clock
  <2> QED BY <2>1, <2>2, <1>1, <1>3, Clock
<1>5. (W * (q + p) + n) % W = n
  <2>1. q + p \in Int
    BY <1>1, <1>3
  <2> QED BY <2>1, <1>3, Remainder, Clock
<1>6. (a + c) % W = n
  BY <1>4, <1>5
<1> QED BY <1>6 DEF n, m, OnClock

\* Two times that agree still agree when the same is added to both.
LEMMA TimeSame ==
  ASSUME NEW a \in Int, NEW b \in Int, NEW c \in Int, OnClock(a) = OnClock(b)
  PROVE  OnClock(a + c) = OnClock(b + c)
BY TimePlus

\* The clock is subtracted modulo its width.
LEMMA TimeMinus ==
  ASSUME NEW a \in Int, NEW b \in Int
  PROVE  OnClock(a - OnClock(b)) = OnClock(a - b)
<1> DEFINE q == b \div W
           m == b % W
           n == (a - b) % W
           p == (a - b) \div W
<1>1. q \in Int /\ m \in 0 .. W - 1 /\ b = W * q + m
  BY Division, Clock
<1>2. p \in Int /\ n \in 0 .. W - 1 /\ a - b = W * p + n
  BY Division, Clock
<1> HIDE DEF q, m, p, n
<1>3. a - m = W * (q + p) + n
  <2>1. a - m = (W * q) + (W * p) + n
    BY <1>1, <1>2, Clock
  <2>2. W * (q + p) = (W * q) + (W * p)
    BY <1>1, <1>2, Clock
  <2> QED BY <2>1, <2>2, <1>1, <1>2, Clock
<1>4. (W * (q + p) + n) % W = n
  <2>1. q + p \in Int
    BY <1>1, <1>2
  <2> QED BY <2>1, <1>2, Remainder, Clock
<1>5. (a - m) % W = n
  BY <1>3, <1>4
<1> QED BY <1>5 DEF n, m, OnClock

-----------------------------------------------------------------------------
(* Lists. *)

\* Every set of numbers that is not empty has a least one.
LEMMA Least ==
  ASSUME NEW S \in SUBSET Nat, S # {}
  PROVE  \E n \in S : \A m \in S : n <= m
<1> DEFINE T == {0 .. n : n \in S}
<1>1. T \subseteq FiniteSubsetsOf(Nat)
  <2> SUFFICES ASSUME NEW n \in S PROVE 0 .. n \in FiniteSubsetsOf(Nat)
    OBVIOUS
  <2>1. IsFiniteSet(0 .. n) /\ 0 .. n \subseteq Nat
    BY FS_Interval
  <2> QED BY <2>1 DEF FiniteSubsetsOf
<1>2. T # {}
  OBVIOUS
<1>3. \E x \in T : \A y \in T : ~(<<y, x>> \in StrictSubsetOrdering(Nat))
  <2> HIDE DEF T
  <2> QED BY <1>1, <1>2, WFMin, FS_StrictSubsetOrderingWellFounded
<1>4. PICK n \in S : \A m \in S : ~(<<0 .. m, 0 .. n>> \in StrictSubsetOrdering(Nat))
  BY <1>3
<1>5. ASSUME NEW m \in S, m < n PROVE FALSE
  <2>1. 0 .. m \subseteq 0 .. n /\ n \in 0 .. n /\ n \notin 0 .. m
    BY <1>5
  <2>2. <<0 .. m, 0 .. n>> \in StrictSubsetOrdering(Nat)
    BY <2>1 DEF StrictSubsetOrdering
  <2> QED BY <2>2, <1>4
<1> QED BY <1>5

Elements(s) == {s[i] : i \in 1 .. Len(s)}

NoRepeat(s) == \A i, j \in 1 .. Len(s) : s[i] = s[j] => i = j

LEMMA SizeOfList ==
  ASSUME NEW s \in Seq(Timer), NoRepeat(s)
  PROVE  Cardinality(Elements(s)) = Len(s) /\ Len(s) <= Cardinality(Timer)
<1> DEFINE f == [i \in 1 .. Len(s) |-> s[i]]
<1>1. IsFiniteSet(1 .. Len(s)) /\ Cardinality(1 .. Len(s)) = Len(s)
  <2>1. Len(s) \in Nat
    OBVIOUS
  <2> QED BY <2>1, FS_Interval
<1>2. f \in Bijection(1 .. Len(s), Elements(s))
  <2>1. f \in [1 .. Len(s) -> Elements(s)]
    BY DEF Elements
  <2>2. \A i, j \in 1 .. Len(s) : f[i] = f[j] => i = j
    BY DEF NoRepeat
  <2>3. \A e \in Elements(s) : \E i \in 1 .. Len(s) : f[i] = e
    BY DEF Elements
  <2> HIDE DEF f
  <2> QED BY <2>1, <2>2, <2>3 DEF Bijection, Injection, Surjection, IsInjective
<1>3. Cardinality(Elements(s)) = Len(s)
  BY <1>1, <1>2, FS_Bijection DEF ExistsBijection
<1>4. Elements(s) \subseteq Timer
  BY DEF Elements
<1> QED BY <1>3, <1>4, FS_Subset, TimerAssumption

\* What Kept leaves of a list: all that is in S, still each once.
LEMMA KeptElements ==
  ASSUME NEW s \in Seq(Timer), NEW S
  PROVE  /\ Kept(s, S) \in Seq(Timer)
         /\ Elements(Kept(s, S)) = Elements(s) \intersect S
         /\ NoRepeat(s) => NoRepeat(Kept(s, S))
<1> DEFINE at == {i \in DOMAIN s : s[i] \in S}
           upTo(i) == {j \in at : j <= i}
           rank(i) == Cardinality(upTo(i))
           n == Cardinality(at)
           place(k) == CHOOSE i \in at : rank(i) = k
<1>1. at \subseteq 1 .. Len(s) /\ IsFiniteSet(at) /\ n \in Nat
  <2>1. at \subseteq 1 .. Len(s) /\ IsFiniteSet(1 .. Len(s))
    BY FS_Interval
  <2> HIDE DEF at
  <2> QED BY <2>1, FS_Subset, FS_CardinalityType
<1>2. Kept(s, S) = [k \in 1 .. n |-> s[place(k)]]
  BY DEF Kept
<1>3. \A i \in at : s[i] \in S
  OBVIOUS
<1>4. \A i \in 1 .. Len(s) : s[i] \in S => i \in at
  OBVIOUS
<1> HIDE DEF at
<1>5. ASSUME NEW i \in at PROVE rank(i) \in 1 .. n
  <2>1. upTo(i) \subseteq at /\ IsFiniteSet(upTo(i)) /\ i \in upTo(i)
    BY <1>1, FS_Subset
  <2>2. rank(i) <= n /\ rank(i) \in Nat /\ rank(i) # 0
    BY <2>1, <1>1, FS_Subset, FS_CardinalityType, FS_EmptySet
  <2> HIDE DEF n, rank
  <2> QED BY <2>2, <1>1
<1>6. ASSUME NEW i \in at, NEW j \in at, i < j PROVE rank(i) < rank(j)
  <2>0. (\A x \in at : x \in Int) /\ i \in Int /\ j \in Int
    BY <1>1
  <2>1. upTo(i) \subseteq upTo(j) /\ j \in upTo(j) /\ j \notin upTo(i)
    <3>1. ASSUME NEW x \in at, x <= i PROVE x <= j
      BY <2>0, <1>6, <3>1
    <3>2. j <= j /\ ~(j <= i)
      BY <2>0, <1>6
    <3> QED BY <3>1, <3>2
  <2>2. IsFiniteSet(upTo(j)) /\ upTo(i) # upTo(j)
    BY <2>1, <1>1, FS_Subset
  <2>3. rank(i) <= rank(j) /\ rank(i) # rank(j) /\ rank(i) \in Nat /\ rank(j) \in Nat
    BY <2>1, <2>2, FS_Subset, FS_CardinalityType
  <2> HIDE DEF rank
  <2> QED BY <2>3
<1>7. \A i, j \in at : rank(i) = rank(j) => i = j
  <2> SUFFICES ASSUME NEW i \in at, NEW j \in at, rank(i) = rank(j), i # j PROVE FALSE
    OBVIOUS
  <2>1. i < j \/ j < i
    BY <1>1
  <2>2. rank(i) \in Nat /\ rank(j) \in Nat
    BY <1>5, <1>1
  <2> HIDE DEF rank
  <2> QED BY <2>1, <2>2, <1>6
<1>8. {rank(i) : i \in at} = 1 .. n
  <2> DEFINE T == {rank(i) : i \in at}
             f == [i \in at |-> rank(i)]
  <2>1. T \subseteq 1 .. n
    BY <1>5
  <2>2. f \in Bijection(at, T)
    <3> HIDE DEF rank
    <3>1. f \in [at -> T]
      OBVIOUS
    <3>2. \A i, j \in at : f[i] = f[j] => i = j
      BY <1>7
    <3>3. \A e \in T : \E i \in at : f[i] = e
      OBVIOUS
    <3> HIDE DEF f, T
    <3> QED BY <3>1, <3>2, <3>3 DEF Bijection, Injection, Surjection, IsInjective
  <2>3. Cardinality(T) = n
    <3> HIDE DEF T, f
    <3> QED BY <2>2, <1>1, FS_Bijection DEF ExistsBijection
  <2>4. IsFiniteSet(1 .. n) /\ Cardinality(1 .. n) = n
    BY <1>1, FS_Interval
  <2> HIDE DEF T, n
  <2> QED BY <2>1, <2>3, <2>4, FS_Subset DEF T
<1>9. ASSUME NEW k \in 1 .. n PROVE place(k) \in at /\ rank(place(k)) = k
  <2>1. \E i \in at : rank(i) = k
    <3> HIDE DEF rank, n
    <3> QED BY <1>8
  <2> HIDE DEF rank, n
  <2> QED BY <2>1
<1>10. ASSUME NEW i \in at PROVE rank(i) \in 1 .. n /\ place(rank(i)) = i
  <2> HIDE DEF rank, n, place
  <2> QED BY <1>5, <1>7, <1>9
<1> HIDE DEF rank, place, n
<1>11. Kept(s, S) \in Seq(Timer) /\ Len(Kept(s, S)) = n
  <2>1. ASSUME NEW k \in 1 .. n PROVE s[place(k)] \in Timer
    <3>1. place(k) \in 1 .. Len(s)
      BY <1>1, <1>9
    <3> QED BY <3>1
  <2> QED BY <2>1, <1>1, <1>2
<1>12. Elements(Kept(s, S)) = Elements(s) \intersect S
  <2>1. Elements(Kept(s, S)) = {s[place(k)] : k \in 1 .. n}
    BY <1>2, <1>11 DEF Elements
  <2>2. {s[place(k)] : k \in 1 .. n} = {s[i] : i \in at}
    BY <1>9, <1>10
  <2> QED BY <2>1, <2>2, <1>1, <1>3, <1>4 DEF Elements
<1>13. NoRepeat(s) => NoRepeat(Kept(s, S))
  <2> SUFFICES ASSUME NoRepeat(s), NEW k \in 1 .. n, NEW l \in 1 .. n,
                      s[place(k)] = s[place(l)]
               PROVE  k = l
    BY <1>2, <1>11 DEF NoRepeat
  <2>1. place(k) = place(l)
    BY <1>1, <1>9 DEF NoRepeat
  <2> QED BY <2>1, <1>9
<1> QED BY <1>11, <1>12, <1>13

-----------------------------------------------------------------------------
(* The inductive invariant of the list and of what the timers hold.          *)

\* A timer that was set and whose expiration is still told by left.
Live(t) == interval[t] # 0 /\ (t \in Listed \/ left[t] > -Slack)

\* The owner of a timer on the list is a process, and one that runs, if processes
\* that are told to exit set no timers.
Owned(o, al) == o \in Proc /\ (LastWords = {} => o \in al)

ListSound ==
  /\ NoRepeat(list)
  /\ \A t \in Listed : Owned(owner[t], alive) /\ interval[t] # 0

\* left tells without a modulus what start and interval tell with one.
LeftTold == \A t \in Timer : Live(t) => Distance(t) = OnClock(left[t])

\* A list that changed is walked from its head.
Anew == pc.at \in {"update", "store"} => pc.then \in {Idle, Scan(1)}

SafeInv == TypeOK /\ ListSound /\ LeftTold /\ Anew

-----------------------------------------------------------------------------
(* The invariant of next_expiration.                                         *)

\* Clients that only make timers later, and whose processes exit only on a clock
\* that does not pass its end.
OnlyLater == (\A d \in Adjusts : d \in Nat) /\ ~(MayExit /\ MayWrap)

\* Of the timers in S, whose time to go is lf, none is due.
NoneDue(S, lf) == \A t \in S : lf[t] > 0

\* If none is due, v is the time at which the first one will be.  Where processes
\* exit it may also be the time of a timer that is gone, behind now or not.
First(v, n, S, lf) ==
  IF MayExit
  THEN v <= n \/ \A t \in S : lf[t] > 0 => v - n <= lf[t]
  ELSE S # {} /\ NoneDue(S, lf) => /\ \E t \in S : OnClock(v - n) = lf[t]
                                   /\ \A t \in S : OnClock(v - n) <= lf[t]

\* None is due, and the clock gets to v before one is.
Ahead(v, n, S, lf) ==
  /\ NoneDue(S, lf)
  /\ IF MayExit
     THEN v <= n \/ \A t \in S : v - n <= lf[t]
     ELSE \A t \in S : OnClock(v - n) \in 1 .. lf[t]

\* What next_expiration is, or will be when it is stored.
NextIsFirst ==
  /\ pc.at \in {"idle", "scan"} => First(nextExp, now, Listed, left)
  /\ pc.at = "store" => First(pc.v, now, Listed, left)

\* As long as nobody is polled, what is due is still before the walk, and while
\* a new value is computed the old one is good enough.
UnpolledIsKnown ==
  ~poll =>
    /\ pc.at = "idle" => NoneDue(Listed, left)
    /\ pc.at = "scan" /\ ~NoneDue(Listed, left) =>
         \E k \in 1 .. Len(list) : k >= pc.i /\ left[list[k]] <= 0
    /\ pc.at \in {"update", "store"} /\ pc.then = Idle /\ Listed # {} =>
         Ahead(nextExp, now, Listed, left)

DueInv == SafeInv /\ NextIsFirst /\ UnpolledIsKnown

-----------------------------------------------------------------------------
(* The steps keep SafeInv. *)

LEMMA PcTypes ==
  /\ Idle \in Pcs /\ Scan(1) \in Pcs
  /\ \A q \in Pcs : q = Idle \/ \E i \in 1 .. Cardinality(Timer) + 1 : q = Scan(i)
  /\ Cardinality(Timer) \in Nat
<1>1. Cardinality(Timer) \in Nat
  BY TimerAssumption, FS_CardinalityType
<1> QED BY <1>1 DEF Pcs

LEMMA Numbers ==
  ASSUME TypeOK, NEW t \in Timer
  PROVE  /\ start[t] \in 0 .. W - 1 /\ interval[t] \in 0 .. W - 1
         /\ left[t] \in -Slack .. W - 1 /\ now \in 0 .. W - 1 /\ nextExp \in 0 .. W - 1
         /\ start[t] \in Int /\ interval[t] \in Int /\ left[t] \in Int
         /\ now \in Int /\ nextExp \in Int
<1>1. /\ start[t] \in 0 .. W - 1 /\ interval[t] \in Intervals \union {0}
      /\ left[t] \in -Slack .. W - 1 /\ now \in 0 .. W - 1 /\ nextExp \in 0 .. W - 1
  BY DEF TypeOK
<1>2. interval[t] \in 0 .. W - 1 /\ interval[t] \in Int
  <2>1. CASE interval[t] \in Intervals
    <3>1. interval[t] \in 1 .. W - Slack - 2
      BY <2>1, Clock
    <3> QED BY <3>1, Clock
  <2>2. CASE interval[t] = 0
    BY <2>2, Clock
  <2> QED BY <1>1, <2>1, <2>2
<1>3. \A x \in 0 .. W - 1 : x \in Int
  BY Clock
<1> QED BY <1>1, <1>2, <1>3, Clock

\* When timer t expires, on a clock that does not wrap.
Expiry(t) == start[t] + interval[t]

LEMMA DistanceIs ==
  TypeOK => \A t \in Timer : Expiry(t) \in Int /\ Distance(t) = OnClock(Expiry(t) - now)
<1> SUFFICES ASSUME TypeOK, NEW t \in Timer
             PROVE  Expiry(t) \in Int /\ Distance(t) = OnClock(Expiry(t) - now)
  OBVIOUS
<1>1. start[t] \in Int /\ interval[t] \in Int /\ now \in Int
  BY Numbers
<1>2. Expiry(t) \in Int /\ start[t] + interval[t] - now = Expiry(t) - now
  BY <1>1 DEF Expiry
<1> QED BY <1>2 DEF Distance, OnClock

LEMMA DistanceNext ==
  TypeOK' => \A t \in Timer : Expiry(t)' \in Int /\ Distance(t)' = OnClock(Expiry(t)' - now')
<1>1. TypeOK' => (\A t \in Timer : Expiry(t) \in Int /\ Distance(t) = OnClock(Expiry(t) - now))'
  BY DistanceIs, PTL
<1> QED BY <1>1 DEF OnClock

\* As the clock goes on, every distance gets one less.
LEMMA Nearer ==
  ASSUME NEW a \in Int, NEW n \in Int, NEW b \in Int, OnClock(a - n) = OnClock(b)
  PROVE  OnClock(a - OnClock(n + 1)) = OnClock(b - 1)
<1>1. OnClock(a - OnClock(n + 1)) = OnClock(a - (n + 1))
  BY TimeMinus
<1>2. OnClock((a - n) + (-1)) = OnClock(b + (-1))
  BY TimeSame
<1>3. a - (n + 1) = (a - n) + (-1) /\ b + (-1) = b - 1
  OBVIOUS
<1> QED BY <1>1, <1>2, <1>3

LEMMA ListFacts ==
  ASSUME SafeInv
  PROVE  /\ list \in Seq(Timer) /\ Listed = Elements(list) /\ Listed \subseteq Timer
         /\ Len(list) <= Cardinality(Timer) /\ Len(list) \in Nat
         /\ Cardinality(Listed) = Len(list)
         /\ Listed = {} <=> list = <<>>
<1>1. list \in Seq(Timer) /\ NoRepeat(list)
  BY DEF SafeInv, TypeOK, ListSound
<1>2. Listed = Elements(list)
  BY DEF Listed, Elements
<1>3. Listed \subseteq Timer /\ Len(list) \in Nat
  BY <1>1 DEF Listed
<1>4. Listed = {} <=> list = <<>>
  <2>1. CASE list = <<>>
    BY <2>1 DEF Listed
  <2>2. CASE list # <<>>
    <3>1. Len(list) >= 1
      BY <1>1, <2>2
    <3>2. 1 \in 1 .. Len(list)
      BY <1>3, <3>1
    <3> QED BY <2>2, <3>2 DEF Listed
  <2> QED BY <2>1, <2>2
<1> QED BY <1>1, <1>2, <1>3, <1>4, SizeOfList

\* Steps that move neither the clock nor a timer, and only take from the list.
LEMMA LeftToldKept ==
  ASSUME LeftTold, UNCHANGED <<now, start, interval, left>>, Listed' \subseteq Listed
  PROVE  LeftTold'
<1> SUFFICES ASSUME NEW t \in Timer, Live(t)' PROVE Distance(t)' = OnClock(left'[t])
  BY DEF LeftTold, OnClock
<1>1. Live(t)
  BY DEF Live
<1>2. Distance(t)' = Distance(t)
  BY DEF Distance
<1> QED BY <1>1, <1>2 DEF LeftTold

LEMMA ListSoundKept ==
  ASSUME ListSound, UNCHANGED <<list, owner, alive, interval>>
  PROVE  ListSound' /\ Listed' = Listed
BY DEF ListSound, Listed, NoRepeat

LEMMA SysTickSafe == ASSUME SafeInv, SysTick PROVE SafeInv'
<1>1. /\ now' = OnClock(now + 1) /\ now \in 0 .. W - 1
      /\ UNCHANGED <<list, start, interval, owner, nextExp, queue, alive, pc>>
      /\ left' = [t \in Timer |-> IF left[t] > -Slack THEN left[t] - 1 ELSE left[t]]
      /\ left \in [Timer -> -Slack .. W - 1]
      /\ start \in [Timer -> 0 .. W - 1] /\ interval \in [Timer -> Intervals \union {0}]
      /\ \A t \in Listed : left[t] > -Slack
  BY DEF SysTick, SafeInv, TypeOK, OnClock, kernel, Prompt
<1>2. ListSound' /\ Listed' = Listed
  BY <1>1, ListSoundKept DEF SafeInv
<1>3. TypeOK'
  <2>1. now' \in 0 .. W - 1
    BY <1>1, TimeType, Clock
  <2>2. left' \in [Timer -> -Slack .. W - 1]
    BY <1>1, Clock
  <2>3. poll' \in BOOLEAN
    BY DEF SysTick, SafeInv, TypeOK
  <2> QED BY <1>1, <2>1, <2>2, <2>3 DEF SafeInv, TypeOK
<1>4. LeftTold'
  <2> SUFFICES ASSUME NEW t \in Timer, Live(t)' PROVE Distance(t)' = OnClock(left'[t])
    BY DEF LeftTold, OnClock
  <2>1. Live(t) /\ left'[t] = left[t] - 1
    BY <1>1, <1>2, Clock DEF Live
  <2>2. now \in Int /\ left[t] \in Int
    BY Numbers DEF SafeInv
  <2>3. Expiry(t) \in Int /\ OnClock(Expiry(t) - now) = OnClock(left[t])
    BY <2>1, DistanceIs DEF SafeInv, LeftTold
  <2>4. Expiry(t)' = Expiry(t)
    BY <1>1 DEF Expiry
  <2>5. Distance(t)' = OnClock(Expiry(t) - now')
    BY <1>3, <2>4, DistanceNext
  <2>6. now' = OnClock(now + 1)
    BY <1>1
  <2> QED BY <2>1, <2>2, <2>3, <2>5, <2>6, Nearer
<1>5. Anew'
  BY <1>1 DEF SafeInv, Anew
<1> QED BY <1>2, <1>3, <1>4, <1>5 DEF SafeInv

PcSet == Pcs \union {Update(q) : q \in Pcs} \union {Store(v, q) : v \in 0 .. W - 1, q \in Pcs}

LEMMA PcCases ==
  ASSUME TypeOK
  PROVE  /\ pc.at \in {"idle", "scan", "update", "store"}
         /\ pc.at = "idle" => pc = Idle
         /\ pc.at = "scan" => pc.i \in 1 .. Cardinality(Timer) + 1
         /\ pc.at = "update" => pc.then \in Pcs
         /\ pc.at = "store" => pc.v \in 0 .. W - 1 /\ pc.then \in Pcs
<1>1. pc \in PcSet
  BY DEF TypeOK, PcSet
<1>2. CASE pc = Idle
  BY <1>2 DEF Idle
<1>3. CASE \E i \in 1 .. Cardinality(Timer) + 1 : pc = Scan(i)
  BY <1>3 DEF Scan
<1>4. CASE \E q \in Pcs : pc = Update(q)
  BY <1>4 DEF Update
<1>5. CASE \E v \in 0 .. W - 1, q \in Pcs : pc = Store(v, q)
  BY <1>5 DEF Store
<1> QED BY <1>1, <1>2, <1>3, <1>4, <1>5, PcTypes DEF PcSet

LEMMA PcKinds ==
  /\ Idle.at = "idle"
  /\ \A i : Scan(i).at = "scan" /\ Scan(i).i = i
  /\ \A q : Update(q).at = "update" /\ Update(q).then = q
  /\ \A v, q : Store(v, q).at = "store" /\ Store(v, q).v = v /\ Store(v, q).then = q
BY DEF Idle, Scan, Update, Store

\* Steps of the etimer process and the kernel that leave the timers alone.
LEMMA QuietSafe ==
  ASSUME SafeInv, UNCHANGED <<now, timers, alive>>,
         nextExp' \in 0 .. W - 1, poll' \in BOOLEAN,
         queue' \in Seq([to : Proc, t : Timer]), Len(queue') <= NumEvents,
         pc' \in PcSet, Anew'
  PROVE  SafeInv'
<1>1. UNCHANGED <<now, list, start, interval, owner, left, alive>>
  BY DEF timers
<1>2. ListSound' /\ Listed' = Listed
  BY <1>1, ListSoundKept DEF SafeInv
<1>3. LeftTold'
  BY <1>1, <1>2, LeftToldKept DEF SafeInv
<1>4. TypeOK'
  BY <1>1 DEF SafeInv, TypeOK, PcSet
<1> QED BY <1>2, <1>3, <1>4 DEF SafeInv

\* The distance update_time finds is the least one.
LEMMA NearestIs ==
  ASSUME SafeInv, Listed # {}
  PROVE  /\ \E t \in Listed : Nearest = Distance(t)
         /\ \A t \in Listed : Nearest <= Distance(t)
         /\ Nearest \in 0 .. W - 1
         /\ \A t \in Listed : Distance(t) \in 0 .. W - 1
<1>1. \A t \in Listed : Distance(t) \in 0 .. W - 1
  <2> SUFFICES ASSUME NEW t \in Listed PROVE Distance(t) \in 0 .. W - 1
    OBVIOUS
  <2>1. t \in Timer
    BY ListFacts
  <2>2. Expiry(t) \in Int /\ now \in Int /\ Distance(t) = OnClock(Expiry(t) - now)
    BY <2>1, DistanceIs, Numbers DEF SafeInv
  <2> QED BY <2>2, TimeType
<1>2. Distances \in SUBSET Nat /\ Distances # {}
  BY <1>1, Clock DEF Distances
<1>3. \E d \in Distances : \A e \in Distances : d <= e
  BY <1>2, Least
<1>4. Nearest \in Distances /\ \A e \in Distances : Nearest <= e
  BY <1>3 DEF Nearest
<1> QED BY <1>1, <1>4 DEF Distances

LEMMA UpdateReadSafe == ASSUME SafeInv, UpdateRead PROVE SafeInv'
<1>1. /\ UNCHANGED <<now, timers, poll, queue, alive>> /\ pc.at = "update"
      /\ nextExp \in 0 .. W - 1 /\ poll \in BOOLEAN
      /\ queue \in Seq([to : Proc, t : Timer]) /\ Len(queue) <= NumEvents
      /\ pc.then \in Pcs /\ pc.then \in {Idle, Scan(1)}
  BY PcCases DEF UpdateRead, kernel, SafeInv, TypeOK, Anew
<1>2. CASE list = <<>>
  <2>1. nextExp' = 0 /\ pc' = pc.then
    BY <1>2 DEF UpdateRead
  <2>2. pc' \in PcSet /\ Anew'
    BY <1>1, <2>1, PcKinds DEF PcSet, Anew
  <2> QED BY <1>1, <2>1, <2>2, QuietSafe, Clock
<1>3. CASE list # <<>>
  <2>1. nextExp' = nextExp /\ pc' = Store(OnClock(now + Nearest), pc.then)
    BY <1>3 DEF UpdateRead, OnClock
  <2>2. OnClock(now + Nearest) \in 0 .. W - 1
    <3>1. now \in Int /\ Nearest \in Int
      BY <1>3, NearestIs, ListFacts, Clock DEF SafeInv, TypeOK
    <3> QED BY <3>1, TimeType
  <2>3. pc' \in PcSet
    BY <1>1, <2>1, <2>2 DEF PcSet
  <2>4. Anew'
    BY <1>1, <2>1, PcKinds DEF Anew
  <2> QED BY <1>1, <2>1, <2>3, <2>4, QuietSafe
<1> QED BY <1>2, <1>3

LEMMA UpdateStoreSafe == ASSUME SafeInv, UpdateStore PROVE SafeInv'
<1>1. /\ UNCHANGED <<now, timers, poll, queue, alive>> /\ pc.at = "store"
      /\ nextExp' = pc.v /\ pc' = pc.then /\ poll \in BOOLEAN
      /\ queue \in Seq([to : Proc, t : Timer]) /\ Len(queue) <= NumEvents
      /\ pc.v \in 0 .. W - 1 /\ pc.then \in Pcs /\ pc.then \in {Idle, Scan(1)}
  BY PcCases DEF UpdateStore, kernel, SafeInv, TypeOK, Anew
<1>2. pc' \in PcSet /\ Anew'
  BY <1>1, PcKinds DEF PcSet, Anew
<1> QED BY <1>1, <1>2, QuietSafe

\* PollBegin, ScanEnd, ScanSkip, ScanFull and Deliver.
LEMMA WalkSafe ==
  ASSUME SafeInv, PollBegin \/ ScanEnd \/ ScanSkip \/ ScanFull \/ Deliver
  PROVE  SafeInv'
<1>1. /\ UNCHANGED <<now, timers, nextExp, alive>> /\ nextExp \in 0 .. W - 1
      /\ poll \in BOOLEAN
      /\ queue \in Seq([to : Proc, t : Timer]) /\ Len(queue) <= NumEvents
  BY DEF PollBegin, ScanEnd, ScanSkip, ScanFull, Deliver, kernel, SafeInv, TypeOK
<1>2. poll' \in BOOLEAN
  BY <1>1 DEF PollBegin, ScanEnd, ScanSkip, ScanFull, Deliver
<1>3. queue' \in Seq([to : Proc, t : Timer]) /\ Len(queue') <= NumEvents
  <2>1. CASE UNCHANGED queue
    BY <1>1, <2>1
  <2>2. CASE queue # <<>> /\ queue' = Tail(queue)
    BY <1>1, <2>2, Clock
  <2> QED BY <2>1, <2>2 DEF PollBegin, ScanEnd, ScanSkip, ScanFull, Deliver, kernel
<1>4. pc' \in PcSet /\ pc'.at \in {"idle", "scan"}
  <2>1. CASE PollBegin
    BY <2>1, PcTypes, PcKinds DEF PollBegin, PcSet
  <2>2. CASE ScanEnd
    BY <2>2, PcTypes, PcKinds DEF ScanEnd, PcSet
  <2>3. CASE Deliver
    BY <2>3, PcTypes, PcKinds DEF Deliver, PcSet
  <2>4. CASE ScanSkip \/ ScanFull
    <3>1. pc.at = "scan" /\ pc.i <= Len(list) /\ pc' = Scan(pc.i + 1)
      BY <2>4 DEF ScanSkip, ScanFull
    <3>2. pc.i + 1 \in 1 .. Cardinality(Timer) + 1
      BY <3>1, PcCases, ListFacts, PcTypes DEF SafeInv
    <3> QED BY <3>1, <3>2, PcKinds DEF PcSet, Pcs
  <2> QED BY <2>1, <2>2, <2>3, <2>4
<1>5. Anew'
  BY <1>4 DEF Anew
<1> QED BY <1>1, <1>2, <1>3, <1>4, <1>5, QuietSafe

\* Steps that take timers off the list and move no timer.
LEMMA TakenOffSafe ==
  ASSUME SafeInv, NEW S, list' = Kept(list, S), UNCHANGED <<now, start, interval, left>>,
         \A t \in Listed \intersect S : Owned(owner'[t], alive'),
         owner' \in [Timer -> Proc \union {None}], alive' \subseteq Proc,
         nextExp' \in 0 .. W - 1, poll' \in BOOLEAN,
         queue' \in Seq([to : Proc, t : Timer]), Len(queue') <= NumEvents,
         pc' \in PcSet, Anew'
  PROVE  SafeInv' /\ Listed' = Listed \intersect S
<1>1. /\ list' \in Seq(Timer) /\ NoRepeat(list') /\ Elements(list') = Elements(list) \intersect S
  BY ListFacts, KeptElements DEF SafeInv, ListSound
<1>2. Listed' = Listed \intersect S
  BY <1>1, ListFacts DEF Listed, Elements
<1>3. ListSound'
  BY <1>1, <1>2 DEF SafeInv, ListSound, NoRepeat
<1>4. LeftTold'
  BY <1>2, LeftToldKept DEF SafeInv
<1>5. TypeOK'
  BY <1>1 DEF SafeInv, TypeOK, PcSet
<1> QED BY <1>2, <1>3, <1>4, <1>5 DEF SafeInv

LEMMA TypeParts ==
  ASSUME SafeInv
  PROVE  /\ now \in 0 .. W - 1 /\ nextExp \in 0 .. W - 1 /\ poll \in BOOLEAN
         /\ owner \in [Timer -> Proc \union {None}] /\ alive \subseteq Proc
         /\ queue \in Seq([to : Proc, t : Timer]) /\ Len(queue) <= NumEvents
         /\ start \in [Timer -> 0 .. W - 1] /\ interval \in [Timer -> Intervals \union {0}]
         /\ left \in [Timer -> -Slack .. W - 1]
         /\ None \notin Proc
BY TimerAssumption DEF SafeInv, TypeOK

LEMMA ScanPostSafe ==
  ASSUME SafeInv, ScanPost
  PROVE  /\ SafeInv' /\ \E t \in Listed : /\ Listed' = Listed \ {t} /\ Expired(t)
                                          /\ queue' = Append(queue, [to |-> owner[t], t |-> t])
<1> DEFINE t == list[pc.i]
<1>1. /\ pc.at = "scan" /\ pc.i <= Len(list) /\ Len(queue) < NumEvents /\ Expired(t)
      /\ queue' = Append(queue, [to |-> owner[t], t |-> t])
      /\ owner' = [owner EXCEPT ![t] = None] /\ list' = Kept(list, Timer \ {t})
      /\ pc' = Update(Scan(1)) /\ UNCHANGED <<now, start, interval, left, nextExp, poll, alive>>
  BY DEF ScanPost, Without
<1>2. t \in Listed /\ t \in Timer
  <2>1. pc.i \in 1 .. Len(list)
    BY <1>1, PcCases, ListFacts, PcTypes DEF SafeInv
  <2> QED BY <2>1, ListFacts DEF Listed
<1> HIDE DEF t
<1>3. owner[t] \in Proc /\ \A u \in Listed : Owned(owner[u], alive)
  BY <1>2, TypeParts DEF SafeInv, ListSound, Owned
<1>4. queue' \in Seq([to : Proc, t : Timer]) /\ Len(queue') <= NumEvents
  <2>1. [to |-> owner[t], t |-> t] \in [to : Proc, t : Timer]
    BY <1>2, <1>3
  <2> QED BY <1>1, <2>1, TypeParts, Clock
<1>5. pc' \in PcSet /\ Anew'
  BY <1>1, PcKinds, PcTypes DEF PcSet, Anew
<1>6. owner' \in [Timer -> Proc \union {None}]
      /\ \A u \in Listed \intersect (Timer \ {t}) : Owned(owner'[u], alive')
  BY <1>1, <1>3, TypeParts, ListFacts
<1>7. alive' \subseteq Proc /\ nextExp' \in 0 .. W - 1 /\ poll' \in BOOLEAN
  BY <1>1, TypeParts
<1>8. SafeInv' /\ Listed' = Listed \intersect (Timer \ {t})
  BY <1>1, <1>4, <1>5, <1>6, <1>7, TakenOffSafe
<1>9. Listed' = Listed \ {t}
  BY <1>8, ListFacts
<1> QED BY <1>1, <1>2, <1>8, <1>9

LEMMA StopSafe ==
  ASSUME SafeInv, NEW t \in Timer, Stop(t)
  PROVE  SafeInv' /\ Listed' = Listed \ {t}
<1>1. /\ pc = Idle /\ list' = Kept(list, Timer \ {t}) /\ owner' = [owner EXCEPT ![t] = None]
      /\ pc' = (IF t \in Listed THEN Update(Idle) ELSE Idle)
      /\ UNCHANGED <<now, start, interval, left, nextExp, poll, queue, alive>>
  BY DEF Stop, Without, kernel
<1>2. pc' \in PcSet /\ Anew'
  BY <1>1, PcKinds, PcTypes DEF PcSet, Anew
<1>3. owner' \in [Timer -> Proc \union {None}]
      /\ \A u \in Listed \intersect (Timer \ {t}) : Owned(owner'[u], alive')
  BY <1>1, TypeParts, ListFacts DEF SafeInv, ListSound
<1>4. /\ alive' \subseteq Proc /\ nextExp' \in 0 .. W - 1 /\ poll' \in BOOLEAN
      /\ queue' \in Seq([to : Proc, t : Timer]) /\ Len(queue') <= NumEvents
  BY <1>1, TypeParts
<1>5. SafeInv' /\ Listed' = Listed \intersect (Timer \ {t})
  BY <1>1, <1>2, <1>3, <1>4, TakenOffSafe
<1> QED BY <1>5, ListFacts

LEMMA StartSafe ==
  ASSUME SafeInv, NEW p \in Proc, Start(p)
  PROVE  SafeInv' /\ Listed' = Listed
<1>1. /\ alive' = alive \union {p} /\ pc' = pc
      /\ UNCHANGED <<now, list, start, interval, owner, left, nextExp, poll, queue>>
  BY DEF Start, timers
<1>2. Listed' = Listed
  BY <1>1 DEF Listed
<1>3. ListSound'
  BY <1>1, <1>2 DEF SafeInv, ListSound, NoRepeat, Owned
<1>4. LeftTold'
  BY <1>1, <1>2, LeftToldKept DEF SafeInv
<1>5. TypeOK' /\ Anew'
  BY <1>1 DEF SafeInv, TypeOK, Anew
<1> QED BY <1>2, <1>3, <1>4, <1>5 DEF SafeInv

\* A timer that is not on a list may be put before its head.
LEMMA PutFirst ==
  ASSUME NEW s \in Seq(Timer), NoRepeat(s), NEW t \in Timer \ Elements(s)
  PROVE  /\ <<t>> \o s \in Seq(Timer) /\ NoRepeat(<<t>> \o s)
         /\ Elements(<<t>> \o s) = Elements(s) \union {t}
<1> DEFINE r == <<t>> \o s
<1>1. /\ r \in Seq(Timer) /\ Len(r) = Len(s) + 1 /\ r[1] = t /\ Len(s) \in Nat
      /\ \A i \in 2 .. Len(s) + 1 : r[i] = s[i - 1]
  OBVIOUS
<1> HIDE DEF r
<1>2. \A i \in 1 .. Len(s) : s[i] \in Elements(s) /\ s[i] # t
  BY DEF Elements
<1>3. NoRepeat(r)
  <2> SUFFICES ASSUME NEW i \in 1 .. Len(s) + 1, NEW j \in 1 .. Len(s) + 1, r[i] = r[j]
               PROVE  i = j
    BY <1>1 DEF NoRepeat
  <2>1. CASE i = 1 /\ j = 1
    BY <2>1
  <2>2. CASE i = 1 /\ j # 1
    <3>1. j - 1 \in 1 .. Len(s) /\ r[j] = s[j - 1]
      BY <2>2, <1>1
    <3> QED BY <2>2, <3>1, <1>1, <1>2
  <2>3. CASE i # 1 /\ j = 1
    <3>1. i - 1 \in 1 .. Len(s) /\ r[i] = s[i - 1]
      BY <2>3, <1>1
    <3> QED BY <2>3, <3>1, <1>1, <1>2
  <2>4. CASE i # 1 /\ j # 1
    <3>1. i - 1 \in 1 .. Len(s) /\ r[i] = s[i - 1]
      BY <2>4, <1>1
    <3>2. j - 1 \in 1 .. Len(s) /\ r[j] = s[j - 1]
      BY <2>4, <1>1
    <3>3. i - 1 = j - 1
      BY <3>1, <3>2 DEF NoRepeat
    <3> QED BY <3>3
  <2> QED BY <2>1, <2>2, <2>3, <2>4
<1>4. Elements(r) = Elements(s) \union {t}
  <2>1. Elements(r) = {r[i] : i \in 1 .. Len(s) + 1}
    BY <1>1 DEF Elements
  <2>2. ASSUME NEW i \in 1 .. Len(s) + 1 PROVE r[i] \in Elements(s) \union {t}
    <3>1. CASE i = 1
      BY <3>1, <1>1
    <3>2. CASE i # 1
      <4>1. i - 1 \in 1 .. Len(s) /\ r[i] = s[i - 1]
        BY <3>2, <1>1
      <4> QED BY <4>1 DEF Elements
    <3> QED BY <3>1, <3>2
  <2>3. ASSUME NEW i \in 1 .. Len(s) PROVE s[i] = r[i + 1] /\ i + 1 \in 1 .. Len(s) + 1
    BY <1>1
  <2>4. t = r[1] /\ 1 \in 1 .. Len(s) + 1
    BY <1>1
  <2>5. Elements(s) \subseteq Elements(r)
    <3>1. ASSUME NEW i \in 1 .. Len(s) PROVE s[i] \in Elements(r)
      BY <2>1, <2>3
    <3> QED BY <3>1 DEF Elements
  <2> QED BY <2>1, <2>2, <2>4, <2>5
<1> QED BY <1>1, <1>3, <1>4 DEF r

\* add_timer never puts a timer on the list twice: one that is on it has an owner.
LEMMA AddTimerLists ==
  ASSUME SafeInv, NEW p \in Proc, NEW t \in Timer, AddTimer(p, t)
  PROVE  /\ list' \in Seq(Timer) /\ NoRepeat(list') /\ Listed' = Listed \union {t}
         /\ owner' \in [Timer -> Proc \union {None}]
         /\ \A u \in Listed' : Owned(owner'[u], alive')
         /\ poll' = TRUE /\ pc = Idle /\ pc' = Update(Idle)
         /\ UNCHANGED <<now, nextExp, queue, alive>>
<1>1. /\ p \in alive /\ owner' = [owner EXCEPT ![t] = p]
      /\ list' = IF owner[t] # None /\ t \in Listed THEN list ELSE <<t>> \o list
      /\ poll' = TRUE /\ pc = Idle /\ pc' = Update(Idle)
      /\ UNCHANGED <<now, nextExp, queue, alive>>
  BY DEF AddTimer, kernel
<1>2. /\ list \in Seq(Timer) /\ NoRepeat(list) /\ Listed = Elements(list)
      /\ \A u \in Listed : Owned(owner[u], alive) /\ owner[u] # None
      /\ owner \in [Timer -> Proc \union {None}] /\ alive \subseteq Proc
  BY TypeParts, ListFacts DEF SafeInv, ListSound, Owned
<1>3. Listed' = Elements(list')
  BY DEF Listed, Elements
<1>4. list' \in Seq(Timer) /\ NoRepeat(list') /\ Listed' = Listed \union {t}
  <2>1. CASE t \in Listed
    BY <1>1, <1>2, <1>3, <2>1
  <2>2. CASE t \notin Listed
    BY <1>1, <1>2, <1>3, <2>2, PutFirst
  <2> QED BY <2>1, <2>2
<1>5. owner' \in [Timer -> Proc \union {None}] /\ \A u \in Listed' : Owned(owner'[u], alive')
  BY <1>1, <1>2, <1>4, ListFacts DEF Owned
<1> QED BY <1>1, <1>4, <1>5

\* Steps that start timer t: when its new start, interval and left agree, all do.
LEMMA StartedSafe ==
  ASSUME SafeInv, NEW t \in Timer, UNCHANGED <<now, nextExp, queue>>, alive' \subseteq Proc,
         list' \in Seq(Timer), NoRepeat(list'), Listed' \subseteq Listed \union {t},
         owner' \in [Timer -> Proc \union {None}], \A u \in Listed' : Owned(owner'[u], alive'),
         poll' = TRUE, pc' = Update(Idle),
         start' \in [Timer -> 0 .. W - 1], interval' \in [Timer -> Intervals \union {0}],
         left' \in [Timer -> -Slack .. W - 1],
         \A u \in Timer \ {t} : start'[u] = start[u] /\ interval'[u] = interval[u] /\ left'[u] = left[u],
         interval'[t] # 0,
         OnClock(Expiry(t)' - now) = OnClock(left'[t])
  PROVE  SafeInv'
<1>1. pc' \in PcSet /\ Anew'
  BY PcKinds, PcTypes DEF PcSet, Anew
<1>2. TypeOK'
  BY <1>1, TypeParts DEF TypeOK, PcSet
<1>3. ListSound'
  BY ListFacts DEF SafeInv, ListSound
<1>4. LeftTold'
  <2> SUFFICES ASSUME NEW u \in Timer, Live(u)' PROVE Distance(u)' = OnClock(left'[u])
    BY DEF LeftTold, OnClock
  <2>1. Distance(u)' = OnClock(Expiry(u)' - now)
    BY <1>2, DistanceNext
  <2>2. CASE u = t
    BY <2>1, <2>2
  <2>3. CASE u # t
    <3>1. Live(u)
      BY <2>3 DEF Live
    <3>2. Expiry(u)' = Expiry(u)
      BY <2>3 DEF Expiry
    <3> QED BY <2>1, <2>3, <3>1, <3>2, DistanceIs DEF SafeInv, LeftTold
  <2> QED BY <2>2, <2>3
<1> QED BY <1>1, <1>2, <1>3, <1>4 DEF SafeInv

LEMMA SetAnySafe ==
  ASSUME SafeInv, NEW p \in Proc, NEW t \in Timer, AddTimer(p, t),
         start' \in [Timer -> 0 .. W - 1], interval' \in [Timer -> Intervals \union {0}],
         left' \in [Timer -> -Slack .. W - 1],
         \A u \in Timer \ {t} : start'[u] = start[u] /\ interval'[u] = interval[u] /\ left'[u] = left[u],
         interval'[t] # 0,
         OnClock(Expiry(t)' - now) = OnClock(left'[t])
  PROVE  SafeInv' /\ Listed' = Listed \union {t}
<1>1. /\ list' \in Seq(Timer) /\ NoRepeat(list') /\ Listed' = Listed \union {t}
      /\ owner' \in [Timer -> Proc \union {None}]
      /\ \A u \in Listed' : Owned(owner'[u], alive')
      /\ poll' = TRUE /\ pc' = Update(Idle)
      /\ UNCHANGED <<now, nextExp, queue>> /\ alive' \subseteq Proc
  BY AddTimerLists, TypeParts
<1> QED BY <1>1, StartedSafe

LEMMA SetSafe ==
  ASSUME SafeInv, NEW p \in Proc, NEW t \in Timer, NEW i \in Intervals, Set(p, t, i)
  PROVE  SafeInv' /\ Listed' = Listed \union {t}
<1>1. /\ AddTimer(p, t) /\ interval' = [interval EXCEPT ![t] = i]
      /\ start' = [start EXCEPT ![t] = now] /\ left' = [left EXCEPT ![t] = i]
  BY DEF Set
<1>2. i \in 1 .. W - Slack - 2
  BY Clock
<1>3. i # 0 /\ i \in Int /\ i \in -Slack .. W - 1 /\ now \in 0 .. W - 1 /\ now \in Int
  BY <1>2, TypeParts, Clock
<1>4. /\ start' \in [Timer -> 0 .. W - 1] /\ interval' \in [Timer -> Intervals \union {0}]
      /\ left' \in [Timer -> -Slack .. W - 1]
      /\ \A u \in Timer \ {t} : start'[u] = start[u] /\ interval'[u] = interval[u] /\ left'[u] = left[u]
      /\ interval'[t] = i /\ start'[t] = now /\ left'[t] = i
  BY <1>1, <1>3, TypeParts
<1>5. Expiry(t)' - now = i
  BY <1>3, <1>4 DEF Expiry
<1> QED BY <1>1, <1>3, <1>4, <1>5, SetAnySafe

\* An exit leaves the other processes' timers on the list, or starts one more, which
\* is not among those that were left.
LEMMA ExitSafe ==
  ASSUME SafeInv, NEW p \in Proc, Exit(p)
  PROVE  /\ SafeInv'
         /\ \/ Listed' \subseteq Listed /\ UNCHANGED <<left, poll, pc>>
            \/ pc' = Update(Idle) /\ poll' = TRUE
<1> DEFINE S == {t \in Timer : owner[t] # p}
           on == OthersTimers(p)
<1>1. /\ on = Kept(list, S) /\ alive' = alive \ {p} /\ pc = Idle
      /\ UNCHANGED <<now, nextExp, queue>>
  BY DEF Exit, OthersTimers
<1>2. \A u \in Listed : Owned(owner[u], alive) /\ u \in Timer /\ owner[u] # None
  BY ListFacts, TypeParts DEF SafeInv, ListSound, Owned
<1>3. on \in Seq(Timer) /\ NoRepeat(on) /\ Elements(on) = Listed \intersect S
  BY <1>1, ListFacts, KeptElements DEF SafeInv, ListSound
<1>4. CASE list' = on /\ UNCHANGED <<start, interval, owner, left, poll, pc>>
  <2>1. pc' \in PcSet /\ Anew'
    BY <1>1, <1>4, PcKinds, PcTypes DEF PcSet, Anew
  <2>2. \A u \in Listed \intersect S : Owned(owner'[u], alive')
    BY <1>1, <1>2, <1>4 DEF Owned
  <2>3. /\ alive' \subseteq Proc /\ nextExp' \in 0 .. W - 1 /\ poll' \in BOOLEAN
        /\ queue' \in Seq([to : Proc, t : Timer]) /\ Len(queue') <= NumEvents
        /\ owner' \in [Timer -> Proc \union {None}]
    BY <1>1, <1>4, TypeParts
  <2> HIDE DEF S, on
  <2>4. SafeInv' /\ Listed' = Listed \intersect S
    BY <1>1, <1>4, <2>1, <2>2, <2>3, TakenOffSafe
  <2> QED BY <1>4, <2>4
<1>5. ASSUME NEW t \in Timer, NEW i \in LastWords, LastTimer(p, t, i)
      PROVE  SafeInv' /\ pc' = Update(Idle) /\ poll' = TRUE
  <2>1. /\ list' = (IF owner[t] \notin {None, p} /\ t \in Listed THEN on ELSE <<t>> \o on)
        /\ owner' = [owner EXCEPT ![t] = p] /\ poll' = TRUE /\ pc' = Update(Idle)
        /\ interval' = [interval EXCEPT ![t] = i]
        /\ start' = [start EXCEPT ![t] = now] /\ left' = [left EXCEPT ![t] = i]
    BY <1>5 DEF LastTimer
  <2>2. i \in Intervals /\ i \in 1 .. W - Slack - 2
    BY Clock, TimerAssumption
  <2>3. i # 0 /\ i \in Int /\ i \in -Slack .. W - 1 /\ now \in 0 .. W - 1 /\ now \in Int
    BY <2>2, TypeParts, Clock
  <2>4. /\ start' \in [Timer -> 0 .. W - 1] /\ interval' \in [Timer -> Intervals \union {0}]
        /\ left' \in [Timer -> -Slack .. W - 1]
        /\ \A u \in Timer \ {t} : start'[u] = start[u] /\ interval'[u] = interval[u] /\ left'[u] = left[u]
        /\ interval'[t] = i /\ start'[t] = now /\ left'[t] = i
    BY <2>1, <2>2, <2>3, TypeParts
  <2>5. Expiry(t)' - now = i
    BY <2>3, <2>4 DEF Expiry
  <2>6. Listed' = Elements(list')
    BY DEF Listed, Elements
  <2>7. list' \in Seq(Timer) /\ NoRepeat(list') /\ Listed' \subseteq Listed \union {t}
    <3>1. CASE owner[t] \notin {None, p} /\ t \in Listed
      BY <1>3, <2>1, <2>6, <3>1
    <3>2. CASE ~(owner[t] \notin {None, p} /\ t \in Listed)
      <4>1. t \notin Elements(on)
        BY <1>2, <1>3, <3>2
      <4> HIDE DEF S, on
      <4> QED BY <1>3, <2>1, <2>6, <3>2, <4>1, PutFirst
    <3> QED BY <3>1, <3>2
  <2>8. owner' \in [Timer -> Proc \union {None}] /\ \A u \in Listed' : Owned(owner'[u], alive')
    BY <1>2, <2>1, <2>7, TypeParts DEF Owned
  <2>9. alive' \subseteq Proc
    BY <1>1, TypeParts
  <2> QED BY <1>1, <2>1, <2>3, <2>4, <2>5, <2>7, <2>8, <2>9, StartedSafe
<1>6. \/ list' = on /\ UNCHANGED <<start, interval, owner, left, poll, pc>>
      \/ \E t \in Timer, i \in LastWords : LastTimer(p, t, i)
  BY DEF Exit
<1> QED BY <1>4, <1>5, <1>6

LEMMA RestartSafe ==
  ASSUME SafeInv, NEW p \in Proc, NEW t \in Timer, Restart(p, t)
  PROVE  SafeInv' /\ Listed' = Listed \union {t}
<1>1. /\ AddTimer(p, t) /\ interval' = interval /\ interval[t] # 0
      /\ start' = [start EXCEPT ![t] = now] /\ left' = [left EXCEPT ![t] = interval[t]]
  BY DEF Restart
<1>2. /\ interval[t] \in 0 .. W - 1 /\ now \in 0 .. W - 1 /\ now \in Int /\ interval[t] \in Int
      /\ interval[t] \in -Slack .. W - 1
  BY Numbers, Clock DEF SafeInv
<1>3. /\ start' \in [Timer -> 0 .. W - 1] /\ interval' \in [Timer -> Intervals \union {0}]
      /\ left' \in [Timer -> -Slack .. W - 1]
      /\ \A u \in Timer \ {t} : start'[u] = start[u] /\ interval'[u] = interval[u] /\ left'[u] = left[u]
      /\ interval'[t] = interval[t] /\ start'[t] = now /\ left'[t] = interval[t]
  BY <1>1, <1>2, TypeParts
<1>4. Expiry(t)' - now = interval[t]
  BY <1>2, <1>3 DEF Expiry
<1> QED BY <1>1, <1>3, <1>4, SetAnySafe

LEMMA ResetSafe ==
  ASSUME SafeInv, NEW p \in Proc, NEW t \in Timer, Reset(p, t)
  PROVE  SafeInv' /\ Listed' = Listed \union {t}
<1>1. /\ AddTimer(p, t) /\ interval' = interval /\ interval[t] # 0
      /\ start' = [start EXCEPT ![t] = OnClock(start[t] + interval[t])]
      /\ left' = [left EXCEPT ![t] = left[t] + interval[t]]
      /\ left[t] \in 1 - Slack .. W - 1 - interval[t]
  BY DEF Reset, OnClock
<1>2. /\ interval[t] \in 0 .. W - 1 /\ now \in Int /\ interval[t] \in Int /\ start[t] \in Int
      /\ left[t] \in Int
  BY Numbers DEF SafeInv
<1>3. /\ OnClock(start[t] + interval[t]) \in 0 .. W - 1
      /\ left[t] + interval[t] \in -Slack .. W - 1
  BY <1>1, <1>2, TimeType, Clock
<1>4. /\ start' \in [Timer -> 0 .. W - 1] /\ interval' \in [Timer -> Intervals \union {0}]
      /\ left' \in [Timer -> -Slack .. W - 1]
      /\ \A u \in Timer \ {t} : start'[u] = start[u] /\ interval'[u] = interval[u] /\ left'[u] = left[u]
      /\ interval'[t] = interval[t] /\ start'[t] = OnClock(start[t] + interval[t])
      /\ left'[t] = left[t] + interval[t]
  BY <1>1, <1>3, TypeParts
<1>5. OnClock(Expiry(t)' - now) = OnClock(left'[t])
  <2>1. Live(t)
    BY <1>1, <1>2, Clock DEF Live
  <2>2. OnClock(Expiry(t) - now) = OnClock(left[t]) /\ Expiry(t) \in Int
    BY <2>1, DistanceIs DEF SafeInv, LeftTold
  <2>3. PICK c \in Int : c = interval[t] - now
    BY <1>2
  <2>4. OnClock(OnClock(Expiry(t)) + c) = OnClock(Expiry(t) + c)
    BY <2>2, TimePlus
  <2>5. OnClock((Expiry(t) - now) + interval[t]) = OnClock(left[t] + interval[t])
    <3>1. Expiry(t) - now \in Int
      BY <1>2, <2>2
    <3> QED BY <1>2, <2>2, <3>1, TimeSame
  <2>6. Expiry(t)' - now = OnClock(Expiry(t)) + c
    <3>1. OnClock(Expiry(t)) \in Int /\ Expiry(t)' = OnClock(Expiry(t)) + interval[t]
      BY <1>4, <2>2, TimeType, Clock DEF Expiry
    <3> QED BY <1>2, <2>3, <3>1
  <2>7. Expiry(t) + c = (Expiry(t) - now) + interval[t]
    BY <1>2, <2>2, <2>3
  <2> QED BY <1>4, <2>4, <2>5, <2>6, <2>7
<1> QED BY <1>1, <1>3, <1>4, <1>5, SetAnySafe

LEMMA AdjustSafe ==
  ASSUME SafeInv, NEW t \in Timer, NEW d \in Adjusts, Adjust(t, d)
  PROVE  SafeInv' /\ Listed' = Listed /\ left' = [left EXCEPT ![t] = left[t] + d]
<1>1. /\ pc = Idle /\ t \in Listed /\ left[t] + d \in 1 - Slack .. W - 1
      /\ start' = [start EXCEPT ![t] = OnClock(start[t] + d)]
      /\ left' = [left EXCEPT ![t] = left[t] + d]
      /\ pc' = Update(Idle)
      /\ UNCHANGED <<now, list, interval, owner, nextExp, poll, queue, alive>>
  BY DEF Adjust, OnClock, kernel
<1>2. /\ now \in Int /\ start[t] \in Int /\ left[t] \in Int /\ interval[t] \in Int /\ d \in Int
  BY Numbers, TimerAssumption DEF SafeInv
<1>3. OnClock(start[t] + d) \in 0 .. W - 1 /\ left[t] + d \in -Slack .. W - 1
  BY <1>1, <1>2, TimeType, Clock
<1>4. pc' \in PcSet /\ Anew'
  BY <1>1, PcKinds, PcTypes DEF PcSet, Anew
<1>5. ListSound' /\ Listed' = Listed
  BY <1>1, ListSoundKept DEF SafeInv
<1>6. TypeOK'
  <2>1. start' \in [Timer -> 0 .. W - 1] /\ left' \in [Timer -> -Slack .. W - 1]
    BY <1>1, <1>3, TypeParts
  <2> QED BY <1>1, <1>4, <2>1 DEF SafeInv, TypeOK, PcSet
<1>7. LeftTold'
  <2> SUFFICES ASSUME NEW u \in Timer, Live(u)' PROVE Distance(u)' = OnClock(left'[u])
    BY DEF LeftTold, OnClock
  <2>1. Distance(u)' = OnClock(Expiry(u)' - now)
    BY <1>1, <1>6, DistanceNext
  <2>2. CASE u = t
    <3>1. Live(t)
      BY <1>1 DEF Live, SafeInv, ListSound
    <3>2. OnClock(Expiry(t) - now) = OnClock(left[t]) /\ Expiry(t) \in Int
      BY <3>1, DistanceIs DEF SafeInv, LeftTold
    <3>3. start'[t] = OnClock(start[t] + d) /\ interval'[t] = interval[t] /\ left'[t] = left[t] + d
      BY <1>1, TypeParts
    <3>4. PICK c \in Int : c = interval[t] - now
      BY <1>2
    <3>5. OnClock(OnClock(start[t] + d) + c) = OnClock((start[t] + d) + c)
      <4>1. start[t] + d \in Int
        BY <1>2
      <4> QED BY <4>1, TimePlus
    <3>6. OnClock((Expiry(t) - now) + d) = OnClock(left[t] + d)
      <4>1. Expiry(t) - now \in Int
        BY <1>2, <3>2
      <4> QED BY <1>2, <3>2, <4>1, TimeSame
    <3>7. Expiry(t)' - now = OnClock(start[t] + d) + c
      <4>1. Expiry(t)' = OnClock(start[t] + d) + interval[t] /\ OnClock(start[t] + d) \in Int
        BY <1>3, <3>3, Clock DEF Expiry
      <4> QED BY <1>2, <3>4, <4>1
    <3>8. (start[t] + d) + c = (Expiry(t) - now) + d
      BY <1>2, <3>4 DEF Expiry
    <3> QED BY <2>1, <2>2, <3>3, <3>5, <3>6, <3>7, <3>8
  <2>3. CASE u # t
    <3>1. left'[u] = left[u] /\ start'[u] = start[u] /\ interval'[u] = interval[u]
      BY <1>1, <2>3, TypeParts
    <3>2. Live(u)
      BY <1>5, <3>1 DEF Live
    <3>3. Expiry(u)' = Expiry(u)
      BY <3>1 DEF Expiry
    <3> QED BY <2>1, <3>1, <3>2, <3>3, DistanceIs DEF SafeInv, LeftTold
  <2> QED BY <2>2, <2>3
<1> QED BY <1>1, <1>4, <1>5, <1>6, <1>7 DEF SafeInv

LEMMA InitSafe == Init => SafeInv
<1> SUFFICES ASSUME Init PROVE SafeInv
  OBVIOUS
<1>1. /\ now = 0 /\ nextExp = 0 /\ poll = FALSE /\ pc = Idle /\ list = <<>>
      /\ start = [t \in Timer |-> 0] /\ interval = [t \in Timer |-> 0]
      /\ owner = [t \in Timer |-> None] /\ left = [t \in Timer |-> 0]
      /\ queue = <<>> /\ alive = Proc
  BY DEF Init
<1>2. TypeOK
  <2>1. list \in Seq(Timer) /\ queue \in Seq([to : Proc, t : Timer]) /\ Len(queue) <= NumEvents
    BY <1>1, Clock
  <2>2. pc \in PcSet
    BY <1>1, PcTypes DEF PcSet
  <2>3. 0 \in 0 .. W - 1 /\ 0 \in -Slack .. W - 1
    BY Clock
  <2>4. /\ start \in [Timer -> 0 .. W - 1] /\ interval \in [Timer -> Intervals \union {0}]
        /\ owner \in [Timer -> Proc \union {None}] /\ left \in [Timer -> -Slack .. W - 1]
    BY <1>1, <2>3
  <2>5. now \in 0 .. W - 1 /\ nextExp \in 0 .. W - 1 /\ poll \in BOOLEAN /\ alive \subseteq Proc
    BY <1>1, <2>3
  <2> QED BY <2>1, <2>2, <2>4, <2>5 DEF TypeOK, PcSet
<1>3. ListSound
  BY <1>1 DEF ListSound, NoRepeat, Listed
<1>4. LeftTold
  BY <1>1 DEF LeftTold, Live
<1>5. Anew
  BY <1>1, PcKinds DEF Anew
<1> QED BY <1>2, <1>3, <1>4, <1>5 DEF SafeInv

LEMMA StepSafe == SafeInv /\ [Next]_vars => SafeInv'
<1> SUFFICES ASSUME SafeInv, [Next]_vars PROVE SafeInv'
  OBVIOUS
<1>1. CASE UNCHANGED vars
  <2>1. UNCHANGED <<now, timers, nextExp, poll, queue, alive, pc>>
    BY <1>1 DEF vars, kernel
  <2>2. pc' \in PcSet /\ Anew'
    BY <2>1 DEF SafeInv, TypeOK, PcSet, Anew
  <2> QED BY <2>1, <2>2, QuietSafe, TypeParts
<1>2. CASE SysTick
  BY <1>2, SysTickSafe
<1>3. CASE EtimerStep
  BY <1>3, UpdateReadSafe, UpdateStoreSafe, WalkSafe, ScanPostSafe DEF EtimerStep
<1>4. CASE PollBegin \/ Deliver
  BY <1>4, WalkSafe
<1>5. CASE Client
  BY <1>5, SetSafe, RestartSafe, ResetSafe, AdjustSafe, StopSafe, ExitSafe, StartSafe DEF Client, SetAny
<1> QED BY <1>1, <1>2, <1>3, <1>4, <1>5 DEF Next

LEMMA Safety == Spec => []SafeInv
BY InitSafe, StepSafe, PTL DEF Spec

\* Clock values, intervals, queue and program counter of the timers stay what
\* the code takes them for, whatever the processes do.
THEOREM TypeCorrect == Spec => []TypeOK
<1>1. SafeInv => TypeOK
  BY DEF SafeInv
<1> QED BY <1>1, Safety, PTL

\* The timer list stays a list, in which no timer stands twice
\* (etimer.c:157-171).
THEOREM ListStaysSound == Spec => []ListedOnce
<1>1. SafeInv => ListedOnce
  BY ListFacts, TypeParts DEF SafeInv, ListSound, ListedOnce, Owned
<1> QED BY <1>1, Safety, PTL

\* No timer on the list belongs to a process that exited, if no process sets a
\* timer when it is told to exit (etimer.c:91-107, process.c:153-157).
THEOREM OwnersStayAlive == LastWords = {} /\ Spec => []OwnersAlive
<1>1. LastWords = {} /\ SafeInv => OwnersAlive
  BY DEF SafeInv, ListSound, OwnersAlive, Owned
<1>2. CASE LastWords = {}
  <2>1. SafeInv => OwnersAlive
    BY <1>1, <1>2
  <2> QED BY <2>1, Safety, PTL
<1>3. CASE LastWords # {}
  BY <1>3
<1> QED BY <1>2, <1>3

-----------------------------------------------------------------------------
(* No event is early.                                                        *)

\* What timer_expired compares with the interval.
LEMMA Elapsed ==
  ASSUME SafeInv, NEW t \in Listed, interval[t] - left[t] + 1 \in 0 .. W - 1
  PROVE  OnClock(now - start[t] + 1) = interval[t] - left[t] + 1
<1>1. /\ t \in Timer /\ left[t] \in Int /\ interval[t] \in Int /\ start[t] \in Int /\ now \in Int
  BY ListFacts, Numbers DEF SafeInv
<1>2. OnClock(Expiry(t) - now) = OnClock(left[t])
  <2>1. Live(t)
    BY DEF Live, SafeInv, ListSound
  <2> QED BY <1>1, <2>1, DistanceIs DEF SafeInv, LeftTold
<1>3. PICK a \in Int : a = now - start[t] + 1
  BY <1>1
<1>4. PICK e \in Int : e = Expiry(t) - now
  BY <1>1 DEF Expiry
<1>5. PICK c \in Int : c = interval[t] + 1
  BY <1>1
<1>6. OnClock(c - OnClock(e)) = OnClock(c - e)
  BY TimeMinus
<1>7. OnClock(c - OnClock(left[t])) = OnClock(c - left[t])
  BY <1>1, TimeMinus
<1>8. c - e = a
  <2>1. e = start[t] + interval[t] - now
    BY <1>1, <1>4 DEF Expiry
  <2> QED BY <1>1, <1>3, <1>5, <2>1
<1>9. c - left[t] = interval[t] - left[t] + 1
  BY <1>1, <1>5
<1>10. OnClock(interval[t] - left[t] + 1) = interval[t] - left[t] + 1
  BY TimeSmall
<1>11. OnClock(e) = OnClock(left[t])
  BY <1>2, <1>4
<1> QED BY <1>3, <1>6, <1>7, <1>8, <1>9, <1>10, <1>11

\* A timer that timer_expired calls expired has no more to go, or its start lies
\* ahead: the interval and the clock's width leave no room for a wrong answer.
LEMMA ExpiredIsDue ==
  ASSUME SafeInv, NEW t \in Listed, Expired(t)
  PROVE  left[t] <= 0 \/ left[t] > interval[t]
<1>1. /\ t \in Timer /\ left[t] \in Int /\ interval[t] \in Int
      /\ interval[t] \in 0 .. W - 1
  BY ListFacts, Numbers DEF SafeInv
<1>2. interval[t] < OnClock(now - start[t] + 1)
  BY DEF Expired, OnClock
<1> SUFFICES ASSUME left[t] > 0, left[t] <= interval[t] PROVE FALSE
  BY <1>1
<1>3. interval[t] - left[t] + 1 \in 0 .. W - 1
  BY <1>1, Clock
<1>4. OnClock(now - start[t] + 1) = interval[t] - left[t] + 1
  BY <1>3, Elapsed
<1> QED BY <1>1, <1>2, <1>4

\* A timer with no more to go is called expired.
LEMMA DueIsExpired ==
  ASSUME SafeInv, NEW t \in Listed, left[t] <= 0
  PROVE  Expired(t)
<1>1. /\ t \in Timer /\ left[t] \in -Slack .. W - 1 /\ left[t] \in Int /\ interval[t] \in Int
      /\ interval[t] \in Intervals
  BY ListFacts, Numbers, TypeParts DEF SafeInv, ListSound
<1>2. interval[t] \in 1 .. W - Slack - 2
  BY <1>1, Clock
<1>3. interval[t] - left[t] + 1 \in 0 .. W - 1 /\ interval[t] < interval[t] - left[t] + 1
  BY <1>1, <1>2, Clock
<1>4. OnClock(now - start[t] + 1) = interval[t] - left[t] + 1
  BY <1>3, Elapsed
<1> QED BY <1>3, <1>4 DEF Expired, OnClock

\* What is posted is due, or its start lies ahead.
LEMMA PostedIsDue ==
  SafeInv /\ [Next]_vars
    => [Len(queue') > Len(queue) => left[JustPosted] <= 0 \/ left[JustPosted] > interval[JustPosted]]_vars
<1> SUFFICES ASSUME SafeInv, Next, Len(queue') > Len(queue)
             PROVE  left[JustPosted] <= 0 \/ left[JustPosted] > interval[JustPosted]
  BY DEF vars
<1>1. queue \in Seq([to : Proc, t : Timer]) /\ ~(Len(queue) > Len(queue))
  BY TypeParts
<1>2. CASE ScanPost
  <2>1. PICK t \in Listed : Expired(t) /\ queue' = Append(queue, [to |-> owner[t], t |-> t])
    BY <1>2, ScanPostSafe
  <2>2. Len(queue') = Len(queue) + 1 /\ queue'[Len(queue')] = [to |-> owner[t], t |-> t]
    BY <1>1, <2>1
  <2>3. JustPosted = t
    BY <2>2 DEF JustPosted
  <2> QED BY <2>1, <2>3, ExpiredIsDue
<1>3. CASE Deliver
  BY <1>1, <1>3 DEF Deliver
<1>4. CASE UNCHANGED queue
  BY <1>1, <1>4
<1> QED BY <1>2, <1>3, <1>4
    DEF Next, SysTick, EtimerStep, UpdateRead, UpdateStore, ScanEnd, ScanSkip, ScanFull, PollBegin,
        Client, SetAny, Set, Reset, Restart, AddTimer, Stop, Adjust, Exit, Start, kernel

\* Across the end of the clock too, a TIMER event is only posted when the time
\* asked for has passed, or for a timer whose start lies ahead of the clock
\* (timer.c:121-128).
THEOREM NoEventEarly == Spec => NeverEarly
BY Safety, StepSafe, InitSafe, PostedIsDue, PTL DEF Spec, NeverEarly

-----------------------------------------------------------------------------
(* Nothing that is due is overlooked.                                        *)

LEMMA SameTime ==
  ASSUME NEW v \in 0 .. W - 1, NEW n \in 0 .. W - 1, v # n
  PROVE  OnClock(v - n) # 0
<1>1. CASE v > n
  <2>1. v - n \in 0 .. W - 1
    BY <1>1, Clock
  <2> QED BY <1>1, <2>1, TimeSmall, Clock
<1>2. CASE v < n
  <2>1. v - n + W \in 0 .. W - 1 /\ v - n + W # 0 /\ -1 \in Int
    BY <1>2, Clock
  <2>2. (W * (-1) + (v - n + W)) % W = v - n + W
    BY <2>1, Remainder, Clock
  <2>3. W * (-1) + (v - n + W) = v - n
    BY Clock
  <2> QED BY <2>1, <2>2, <2>3 DEF OnClock
<1> QED BY <1>1, <1>2, Clock

\* A tick of the clock and of the timers.
Tick(n, m, S, lf, lg) ==
  /\ m = OnClock(n + 1) /\ (MayExit => m = n + 1)
  /\ \A t \in S : lf[t] \in -Slack .. W - 1 /\ lg[t] = lf[t] - 1

LEMMA TickNearer ==
  ASSUME NEW v \in 0 .. W - 1, NEW n \in 0 .. W - 1, NEW m \in 0 .. W - 1, m = OnClock(n + 1),
         OnClock(v - n) >= 1
  PROVE  OnClock(v - m) = OnClock(v - n) - 1
<1>1. v \in Int /\ n \in Int /\ v - n \in Int
  BY Clock
<1>2. PICK b \in 0 .. W - 1 : b = OnClock(v - n)
  BY <1>1, TimeType
<1>3. OnClock(b) = b /\ b \in Int /\ b - 1 \in 0 .. W - 1
  BY <1>2, TimeSmall, Clock
<1>4. OnClock(v - OnClock(n + 1)) = OnClock(b - 1)
  <2>1. OnClock(v - n) = OnClock(b)
    BY <1>2, <1>3
  <2> QED BY <1>1, <1>3, <2>1, Nearer
<1>5. OnClock(b - 1) = b - 1
  BY <1>3, TimeSmall
<1> QED BY <1>2, <1>4, <1>5

LEMMA FirstIsAhead ==
  ASSUME NEW v \in 0 .. W - 1, NEW n \in 0 .. W - 1, NEW S \in SUBSET Timer, NEW lf, NEW T, NEW lg,
         First(v, n, S, lf), NoneDue(S, lf), T \subseteq S, S # {},
         \A t \in S : lf[t] \in Int /\ lg[t] \in Int /\ lg[t] >= lf[t]
  PROVE  Ahead(v, n, T, lg)
<1>1. NoneDue(T, lg)
  BY DEF NoneDue
<1>2. CASE MayExit
  <2>1. v <= n \/ \A t \in S : v - n <= lf[t]
    BY <1>2 DEF First, NoneDue
  <2>2. v - n \in Int
    BY Clock
  <2> QED BY <1>1, <1>2, <2>1, <2>2 DEF Ahead
<1>3. CASE ~MayExit
  <2>1. PICK x \in Int : x = OnClock(v - n)
    <3>1. v - n \in Int
      BY Clock
    <3> QED BY <3>1, TimeType
  <2>2. (\E t \in S : x = lf[t]) /\ \A t \in S : x <= lf[t]
    BY <1>3, <2>1 DEF First
  <2>3. \A t \in T : x \in 1 .. lg[t]
    BY <2>1, <2>2 DEF NoneDue
  <2> QED BY <1>1, <1>3, <2>1, <2>3 DEF Ahead
<1> QED BY <1>2, <1>3

LEMMA AheadTick ==
  ASSUME NEW v \in 0 .. W - 1, NEW n \in 0 .. W - 1, NEW m \in 0 .. W - 1,
         NEW S \in SUBSET Timer, NEW lf, NEW lg,
         Tick(n, m, S, lf, lg), Ahead(v, n, S, lf), ~(v <= m)
  PROVE  Ahead(v, m, S, lg)
<1>1. \A t \in S : lf[t] \in Int /\ lf[t] > 0 /\ lg[t] = lf[t] - 1
  BY DEF Tick, Ahead, NoneDue
<1>2. CASE MayExit
  <2>1. m = n + 1 /\ ~(v <= n) /\ v - n >= 1 + 1
    BY <1>2, Clock DEF Tick
  <2>2. \A t \in S : v - n <= lf[t]
    BY <1>2, <2>1 DEF Ahead
  <2>3. \A t \in S : lg[t] > 0 /\ v - m <= lg[t]
    BY <1>1, <2>1, <2>2, Clock
  <2> QED BY <1>2, <2>3 DEF Ahead, NoneDue
<1>3. CASE ~MayExit
  <2>1. PICK x \in 0 .. W - 1 : x = OnClock(v - n)
    <3>1. v - n \in Int
      BY Clock
    <3> QED BY <3>1, TimeType
  <2>2. \A t \in S : x \in 1 .. lf[t]
    BY <1>3, <2>1 DEF Ahead
  <2>3. CASE S = {}
    BY <1>3, <2>3 DEF Ahead, NoneDue
  <2>4. CASE S # {}
    <3>1. x >= 1
      BY <1>1, <2>2, <2>4
    <3>2. m = OnClock(n + 1)
      BY DEF Tick
    <3>3. OnClock(v - m) = x - 1
      BY <2>1, <3>1, <3>2, TickNearer
    <3>4. OnClock(v - m) # 0
      <4>1. v # m
        BY Clock
      <4> QED BY <4>1, SameTime
    <3>5. x - 1 >= 1
      BY <3>1, <3>3, <3>4, Clock
    <3>6. \A t \in S : x - 1 \in 1 .. lg[t] /\ lg[t] > 0
      BY <1>1, <2>2, <3>5, Clock
    <3> QED BY <1>3, <3>3, <3>6 DEF Ahead, NoneDue
  <2> QED BY <2>3, <2>4
<1> QED BY <1>2, <1>3

LEMMA FirstTick ==
  ASSUME NEW v \in 0 .. W - 1, NEW n \in 0 .. W - 1, NEW m \in 0 .. W - 1,
         NEW S \in SUBSET Timer, NEW lf, NEW lg,
         Tick(n, m, S, lf, lg), First(v, n, S, lf)
  PROVE  First(v, m, S, lg)
<1>1. \A t \in S : lf[t] \in Int /\ lg[t] = lf[t] - 1
  BY Clock DEF Tick
<1>2. CASE MayExit
  <2>1. m = n + 1
    BY <1>2 DEF Tick
  <2>2. v <= n \/ \A t \in S : lf[t] > 0 => v - n <= lf[t]
    BY <1>2 DEF First
  <2>3. v <= n => v <= m
    BY <2>1, Clock
  <2>4. \A t \in S : lg[t] > 0 => lf[t] > 0 /\ (v - n <= lf[t] => v - m <= lg[t])
    BY <1>1, <2>1, Clock
  <2> QED BY <1>2, <2>2, <2>3, <2>4 DEF First
<1>3. CASE ~MayExit
  <2> SUFFICES ASSUME S # {}, NoneDue(S, lg)
               PROVE  /\ \E t \in S : OnClock(v - m) = lg[t]
                      /\ \A t \in S : OnClock(v - m) <= lg[t]
    BY <1>3 DEF First
  <2>1. PICK x \in 0 .. W - 1 : x = OnClock(v - n)
    <3>1. v - n \in Int
      BY Clock
    <3> QED BY <3>1, TimeType
  <2>2. NoneDue(S, lf) /\ \A t \in S : lf[t] > 1
    BY <1>1 DEF NoneDue
  <2>3. (\E t \in S : x = lf[t]) /\ \A t \in S : x <= lf[t]
    BY <1>3, <2>1, <2>2 DEF First
  <2>4. x >= 1
    BY <1>1, <2>2, <2>3
  <2>5. m = OnClock(n + 1)
    BY DEF Tick
  <2>6. OnClock(v - m) = x - 1
    BY <2>1, <2>4, <2>5, TickNearer
  <2>7. (\E t \in S : x - 1 = lg[t]) /\ \A t \in S : x - 1 <= lg[t]
    BY <1>1, <2>3, Clock
  <2> QED BY <2>6, <2>7
<1> QED BY <1>2, <1>3

\* The distance update_time finds is that of the timer that is due first.
LEMMA NearestIsFirst ==
  ASSUME SafeInv, Listed # {}, NEW v \in 0 .. W - 1, v = OnClock(now + Nearest)
  PROVE  First(v, now, Listed, left)
<1>1. /\ now \in 0 .. W - 1 /\ Nearest \in 0 .. W - 1
      /\ \A t \in Listed : t \in Timer /\ left[t] \in -Slack .. W - 1
  BY NearestIs, ListFacts, TypeParts
<1>2. now \in Int /\ Nearest \in Int /\ \A t \in Listed : left[t] \in Int
  BY <1>1, Clock
<1>3. ASSUME NEW t \in Listed, left[t] > 0 PROVE Distance(t) = left[t]
  <2>1. Distance(t) = OnClock(left[t])
    BY <1>1 DEF SafeInv, LeftTold, Live, ListSound
  <2>2. left[t] \in 0 .. W - 1
    BY <1>1, <1>3, Clock
  <2> QED BY <2>1, <2>2, TimeSmall
<1>4. \A t \in Listed : left[t] > 0 => Nearest <= left[t]
  BY <1>3, NearestIs
<1>5. CASE MayExit
  <2>1. CASE now + Nearest < W
    <3>1. now + Nearest \in 0 .. W - 1
      BY <1>1, <2>1, Clock
    <3>2. v = now + Nearest
      BY <3>1, TimeSmall
    <3>3. v - now = Nearest
      BY <1>2, <3>2
    <3> QED BY <1>4, <1>5, <3>3 DEF First
  <2>2. CASE now + Nearest >= W
    <3>1. PICK k \in 0 .. W - 1 : k = now + Nearest - W
      BY <1>1, <2>2, Clock
    <3>2. (W * 1 + k) % W = k
      BY Remainder, Clock
    <3>3. W * 1 + k = now + Nearest
      BY <1>2, <3>1, Clock
    <3>4. v = k
      BY <3>2, <3>3 DEF OnClock
    <3>5. v <= now
      BY <1>1, <3>1, <3>4, Clock
    <3> QED BY <1>5, <3>5 DEF First
  <2>3. now + Nearest < W \/ now + Nearest >= W
    BY <1>2, Clock
  <2> QED BY <2>1, <2>2, <2>3
<1>6. CASE ~MayExit
  <2> SUFFICES ASSUME NoneDue(Listed, left)
               PROVE  /\ \E t \in Listed : OnClock(v - now) = left[t]
                      /\ \A t \in Listed : OnClock(v - now) <= left[t]
    BY <1>6 DEF First
  <2>1. OnClock(v - now) = Nearest
    <3>1. PICK a \in Int : a = now + Nearest
      BY <1>2
    <3>2. PICK c \in Int : c = -now
      BY <1>2
    <3>3. OnClock(OnClock(a) + c) = OnClock(a + c)
      BY TimePlus
    <3>4. a + c = Nearest /\ v + c = v - now
      BY <1>2, <3>1, <3>2, Clock
    <3>5. OnClock(Nearest) = Nearest
      BY <1>1, TimeSmall
    <3> QED BY <3>1, <3>3, <3>4, <3>5
  <2>2. \A t \in Listed : left[t] > 0
    BY DEF NoneDue
  <2>3. \E t \in Listed : Nearest = left[t]
    BY <1>3, <2>2, NearestIs
  <2> QED BY <1>4, <2>1, <2>2, <2>3
<1> QED BY <1>5, <1>6

LEMMA PcApart == Scan(1) # Idle /\ \A i : Scan(i) # Idle
BY PcKinds

LEMMA DueFacts ==
  ASSUME DueInv
  PROVE  /\ SafeInv /\ Listed \subseteq Timer /\ now \in 0 .. W - 1 /\ nextExp \in 0 .. W - 1
         /\ list = <<>> <=> Listed = {}
         /\ \A t \in Listed : left[t] \in -Slack .. W - 1 /\ left[t] \in Int
BY ListFacts, Numbers, TypeParts DEF DueInv, SafeInv

\* A due timer is somewhere on the list.
LEMMA DueIsListed ==
  ASSUME DueInv, ~NoneDue(Listed, left)
  PROVE  \E k \in 1 .. Len(list) : k >= 1 /\ left[list[k]] <= 0
<1>1. PICK t \in Listed : ~(left[t] > 0)
  BY DEF NoneDue
<1>2. left[t] <= 0
  BY <1>1, DueFacts
<1>3. PICK k \in 1 .. Len(list) : list[k] = t
  BY DEF Listed
<1>4. k >= 1
  BY DueFacts, ListFacts
<1> QED BY <1>2, <1>3, <1>4

LEMMA SysTickDue == ASSUME OnlyLater, DueInv, SysTick PROVE DueInv'
<1>1. /\ now' = OnClock(now + 1) /\ (MayWrap \/ now < W - 1)
      /\ poll' = (poll \/ (list # <<>> /\ nextExp <= now'))
      /\ nextExp' = nextExp /\ pc' = pc /\ list' = list
      /\ left' = [t \in Timer |-> IF left[t] > -Slack THEN left[t] - 1 ELSE left[t]]
      /\ \A t \in Listed : left[t] > -Slack
  BY DEF SysTick, OnClock, Prompt
<1>2. SafeInv' /\ Listed' = Listed
  BY <1>1, SysTickSafe DEF DueInv, Listed
<1>3. /\ now \in 0 .. W - 1 /\ now' \in 0 .. W - 1 /\ nextExp \in 0 .. W - 1
      /\ Listed \in SUBSET Timer
      /\ pc.at = "store" => pc.v \in 0 .. W - 1
      /\ \A t \in Listed : left[t] \in -Slack .. W - 1 /\ left[t] \in Int /\ left'[t] = left[t] - 1
  <2>1. now' \in 0 .. W - 1
    BY <1>1, TimeType, DueFacts
  <2> QED BY <1>1, <2>1, DueFacts, PcCases DEF SafeInv
<1>4. Tick(now, now', Listed, left, left')
  <2>1. MayExit => now' = now + 1
    <3> SUFFICES ASSUME MayExit PROVE now' = now + 1
      OBVIOUS
    <3>1. now < W - 1
      BY <1>1 DEF OnlyLater
    <3>2. now + 1 \in 0 .. W - 1
      BY <1>3, <3>1, Clock
    <3> QED BY <1>1, <3>2, TimeSmall
  <2> QED BY <1>1, <1>3, <2>1 DEF Tick
<1>5. NextIsFirst'
  <2>1. pc.at \in {"idle", "scan"} => First(nextExp, now', Listed, left')
    BY <1>3, <1>4, FirstTick DEF DueInv, NextIsFirst
  <2>2. pc.at = "store" => First(pc.v, now', Listed, left')
    BY <1>3, <1>4, FirstTick DEF DueInv, NextIsFirst
  <2> QED BY <1>1, <1>2, <2>1, <2>2 DEF NextIsFirst
<1>6. ASSUME ~poll', Listed # {}, Ahead(nextExp, now, Listed, left)
      PROVE  Ahead(nextExp, now', Listed, left')
  <2>1. ~(nextExp <= now')
    BY <1>1, <1>6, DueFacts
  <2> QED BY <1>3, <1>4, <1>6, <2>1, AheadTick
<1>7. ASSUME ~poll', NoneDue(Listed, left), pc.at \in {"idle", "scan"}
      PROVE  NoneDue(Listed, left')
  <2>1. CASE Listed = {}
    BY <2>1 DEF NoneDue
  <2>2. CASE Listed # {}
    <3>1. First(nextExp, now, Listed, left)
      BY <1>7 DEF DueInv, NextIsFirst
    <3>2. Ahead(nextExp, now, Listed, left)
      <4>1. \A t \in Listed : left[t] \in Int /\ left[t] >= left[t]
        BY <1>3
      <4> QED BY <1>3, <1>7, <2>2, <3>1, <4>1, FirstIsAhead
    <3> QED BY <1>6, <1>7, <2>2, <3>2 DEF Ahead
  <2> QED BY <2>1, <2>2
<1>8. UnpolledIsKnown'
  <2> SUFFICES ASSUME ~poll'
               PROVE  /\ pc.at = "idle" => NoneDue(Listed, left')
                      /\ pc.at = "scan" /\ ~NoneDue(Listed, left') =>
                           \E k \in 1 .. Len(list) : k >= pc.i /\ left'[list[k]] <= 0
                      /\ pc.at \in {"update", "store"} /\ pc.then = Idle /\ Listed # {} =>
                           Ahead(nextExp, now', Listed, left')
    BY <1>1, <1>2 DEF UnpolledIsKnown
  <2>1. ~poll
    BY <1>1
  <2>2. pc.at = "idle" => NoneDue(Listed, left')
    BY <1>7, <2>1 DEF DueInv, UnpolledIsKnown
  <2>3. ASSUME pc.at = "scan", ~NoneDue(Listed, left')
        PROVE  \E k \in 1 .. Len(list) : k >= pc.i /\ left'[list[k]] <= 0
    <3>1. ~NoneDue(Listed, left)
      BY <1>7, <2>3
    <3>2. PICK k \in 1 .. Len(list) : k >= pc.i /\ left[list[k]] <= 0
      BY <2>1, <2>3, <3>1 DEF DueInv, UnpolledIsKnown
    <3>3. list[k] \in Listed
      BY DEF Listed
    <3>4. left'[list[k]] <= 0
      BY <1>3, <3>2, <3>3
    <3> QED BY <3>2, <3>4
  <2>4. pc.at \in {"update", "store"} /\ pc.then = Idle /\ Listed # {} =>
          Ahead(nextExp, now', Listed, left')
    BY <1>6, <2>1 DEF DueInv, UnpolledIsKnown
  <2> QED BY <2>2, <2>3, <2>4
<1> QED BY <1>2, <1>5, <1>8 DEF DueInv

LEMMA UpdateDue == ASSUME DueInv, UpdateRead \/ UpdateStore PROVE DueInv'
<1>1. /\ UNCHANGED <<now, timers, poll>> /\ pc.at \in {"update", "store"}
      /\ pc.then \in {Idle, Scan(1)}
  BY DEF UpdateRead, UpdateStore, DueInv, SafeInv, Anew
<1>2. SafeInv' /\ Listed' = Listed /\ list' = list /\ left' = left /\ now' = now
  BY <1>1, UpdateReadSafe, UpdateStoreSafe DEF DueInv, Listed, timers
<1>3. CASE pc' = pc.then /\ First(nextExp', now, Listed, left)
  <2>1. NextIsFirst'
    BY <1>1, <1>2, <1>3, PcKinds DEF NextIsFirst
  <2>2. UnpolledIsKnown'
    <3>1. CASE pc' = Idle
      <4>1. ~poll /\ Listed # {} => NoneDue(Listed, left)
        BY <1>1, <1>3, <3>1 DEF DueInv, UnpolledIsKnown, Ahead
      <4>2. Listed = {} => NoneDue(Listed, left)
        BY DEF NoneDue
      <4> QED BY <1>1, <1>2, <3>1, <4>1, <4>2, PcKinds DEF UnpolledIsKnown
    <3>2. CASE pc' = Scan(1)
      BY <1>2, <3>2, DueIsListed, PcKinds DEF UnpolledIsKnown
    <3> QED BY <1>1, <1>3, <3>1, <3>2
  <2> QED BY <1>2, <2>1, <2>2 DEF DueInv
<1>4. CASE UpdateRead /\ list = <<>>
  <2>1. Listed = {} /\ nextExp' = 0 /\ pc' = pc.then
    BY <1>4, DueFacts DEF UpdateRead
  <2>2. First(nextExp', now, Listed, left)
    BY <2>1 DEF First
  <2> QED BY <1>3, <2>1, <2>2
<1>5. CASE UpdateRead /\ list # <<>>
  <2>1. pc.at = "update" /\ nextExp' = nextExp /\ pc' = Store(OnClock(now + Nearest), pc.then)
    BY <1>5 DEF UpdateRead, OnClock
  <2>2. Listed # {} /\ SafeInv
    BY <1>5, DueFacts
  <2>3. PICK v \in 0 .. W - 1 : v = OnClock(now + Nearest)
    <3>1. now \in Int /\ Nearest \in Int
      BY <2>2, NearestIs, DueFacts, Clock
    <3>2. now + Nearest \in Int
      BY <3>1
    <3> QED BY <3>2, TimeType
  <2>4. First(v, now, Listed, left)
    BY <2>2, <2>3, NearestIsFirst
  <2>5. NextIsFirst'
    BY <1>2, <2>1, <2>3, <2>4, PcKinds DEF NextIsFirst
  <2>6. UnpolledIsKnown'
    <3>1. pc'.at = "store" /\ pc'.then = pc.then
      BY <2>1, PcKinds
    <3> QED BY <1>1, <1>2, <2>1, <3>1 DEF DueInv, UnpolledIsKnown
  <2> QED BY <1>2, <2>5, <2>6 DEF DueInv
<1>6. CASE UpdateStore
  <2>1. pc.at = "store" /\ nextExp' = pc.v /\ pc' = pc.then
    BY <1>6 DEF UpdateStore
  <2>2. First(nextExp', now, Listed, left)
    BY <2>1 DEF DueInv, NextIsFirst
  <2> QED BY <1>3, <2>1, <2>2
<1> QED BY <1>4, <1>5, <1>6

\* Steps after which the walk begins anew, or the etimer process is polled and
\* a new next_expiration is computed.
LEMMA AnewDue ==
  ASSUME SafeInv', pc' = Update(Scan(1)) \/ (pc' = Update(Idle) /\ poll' = TRUE)
  PROVE  DueInv'
<1>1. pc'.at = "update" /\ (pc'.then = Scan(1) \/ poll' = TRUE)
  BY PcKinds
<1> QED BY <1>1, PcApart DEF DueInv, NextIsFirst, UnpolledIsKnown

LEMMA WalkDue ==
  ASSUME DueInv, PollBegin \/ ScanEnd \/ ScanSkip \/ ScanFull
  PROVE  DueInv'
<1>1. /\ UNCHANGED <<now, timers, nextExp>> /\ pc.at \in {"idle", "scan"}
      /\ pc'.at \in {"idle", "scan"}
  BY PcKinds DEF PollBegin, ScanEnd, ScanSkip, ScanFull
<1>2. SafeInv' /\ Listed' = Listed /\ list' = list /\ left' = left /\ now' = now
      /\ nextExp' = nextExp
  BY <1>1, WalkSafe DEF DueInv, Listed, timers
<1>3. NextIsFirst'
  BY <1>1, <1>2 DEF DueInv, NextIsFirst
<1>4. UnpolledIsKnown'
  <2>1. CASE PollBegin
    <3>1. pc' = Scan(1)
      BY <2>1 DEF PollBegin
    <3> QED BY <1>2, <3>1, DueIsListed, PcKinds DEF UnpolledIsKnown
  <2>2. CASE ScanEnd
    <3>1. pc.at = "scan" /\ pc.i > Len(list) /\ pc' = Idle /\ poll' = poll
      BY <2>2 DEF ScanEnd
    <3>2. \A k \in 1 .. Len(list) : ~(k >= pc.i)
      BY <3>1, PcCases, ListFacts, PcTypes DEF DueInv, SafeInv
    <3> QED BY <1>2, <3>1, <3>2, PcKinds DEF DueInv, UnpolledIsKnown
  <2>3. CASE ScanSkip
    <3>1. /\ pc.at = "scan" /\ pc.i <= Len(list) /\ ~Expired(list[pc.i])
          /\ pc' = Scan(pc.i + 1) /\ poll' = poll
      BY <2>3 DEF ScanSkip
    <3>2. pc.i \in 1 .. Len(list) /\ pc.i \in Int
      BY <3>1, PcCases, ListFacts, PcTypes DEF DueInv, SafeInv
    <3>3. list[pc.i] \in Listed
      BY <3>2 DEF Listed
    <3>4. ~(left[list[pc.i]] <= 0)
      BY <3>1, <3>3, DueIsExpired DEF DueInv
    <3>5. \A k \in 1 .. Len(list) : k >= pc.i /\ left[list[k]] <= 0 => k >= pc.i + 1
      BY <3>2, <3>4
    <3> QED BY <1>2, <3>1, <3>5, PcKinds DEF DueInv, UnpolledIsKnown
  <2>4. CASE ScanFull
    BY <2>4 DEF ScanFull, UnpolledIsKnown
  <2> QED BY <2>1, <2>2, <2>3, <2>4
<1> QED BY <1>2, <1>3, <1>4 DEF DueInv

\* Steps that are none of the timers' business.
LEMMA QuietDue ==
  ASSUME DueInv, SafeInv', Listed' = Listed,
         UNCHANGED <<now, list, left, nextExp, poll, pc>>
  PROVE  DueInv'
BY DEF DueInv, NextIsFirst, UnpolledIsKnown

\* etimer_stop and etimer_adjust, while nobody is polled: the old time is early
\* enough until the new one is stored.
LEMMA ChangedDue ==
  ASSUME DueInv, SafeInv', pc = Idle, pc' = Update(Idle), UNCHANGED <<now, nextExp, poll>>,
         Listed' \subseteq Listed, \A t \in Listed : left'[t] \in Int /\ left'[t] >= left[t]
  PROVE  DueInv'
<1>1. NextIsFirst'
  BY PcKinds DEF NextIsFirst
<1>2. ASSUME ~poll, Listed' # {} PROVE Ahead(nextExp, now, Listed', left')
  <2>1. /\ Listed # {} /\ Listed \in SUBSET Timer /\ now \in 0 .. W - 1 /\ nextExp \in 0 .. W - 1
        /\ \A t \in Listed : left[t] \in Int /\ left'[t] \in Int /\ left'[t] >= left[t]
    BY <1>2, DueFacts
  <2>2. First(nextExp, now, Listed, left) /\ NoneDue(Listed, left)
    BY <1>2, PcKinds DEF DueInv, NextIsFirst, UnpolledIsKnown
  <2> QED BY <2>1, <2>2, FirstIsAhead
<1>3. UnpolledIsKnown'
  BY <1>2, PcKinds DEF UnpolledIsKnown
<1> QED BY <1>1, <1>3 DEF DueInv

LEMMA StopDue == ASSUME DueInv, NEW t \in Timer, Stop(t) PROVE DueInv'
<1>1. SafeInv' /\ Listed' = Listed \ {t}
  BY StopSafe DEF DueInv
<1>2. /\ pc = Idle /\ pc' = (IF t \in Listed THEN Update(Idle) ELSE Idle)
      /\ UNCHANGED <<now, left, nextExp, poll>>
  BY DEF Stop
<1>3. CASE t \in Listed
  <2>1. \A u \in Listed : left'[u] \in Int /\ left'[u] >= left[u]
    BY <1>2, DueFacts
  <2> QED BY <1>1, <1>2, <1>3, <2>1, ChangedDue
<1>4. CASE t \notin Listed
  <2>1. Listed' = Listed /\ pc' = Idle
    BY <1>1, <1>2, <1>4
  <2>2. NextIsFirst'
    BY <1>2, <2>1, PcKinds DEF DueInv, NextIsFirst
  <2>3. UnpolledIsKnown'
    BY <1>2, <2>1, PcKinds DEF DueInv, UnpolledIsKnown
  <2> QED BY <1>1, <2>2, <2>3 DEF DueInv
<1> QED BY <1>3, <1>4

LEMMA AdjustDue ==
  ASSUME OnlyLater, DueInv, NEW t \in Timer, NEW d \in Adjusts, Adjust(t, d)
  PROVE  DueInv'
<1>1. SafeInv' /\ Listed' = Listed /\ left' = [left EXCEPT ![t] = left[t] + d]
  BY AdjustSafe DEF DueInv
<1>2. pc = Idle /\ pc' = Update(Idle) /\ UNCHANGED <<now, nextExp, poll>>
  BY DEF Adjust
<1>3. \A u \in Listed : left'[u] \in Int /\ left'[u] >= left[u]
  <2>1. d \in Nat
    BY DEF OnlyLater
  <2> QED BY <1>1, <2>1, DueFacts, TypeParts
<1> QED BY <1>1, <1>2, <1>3, ChangedDue

LEMMA ExitDue == ASSUME DueInv, NEW p \in Proc, Exit(p) PROVE DueInv'
<1>1. /\ SafeInv'
      /\ \/ Listed' \subseteq Listed /\ UNCHANGED <<left, poll, pc>>
         \/ pc' = Update(Idle) /\ poll' = TRUE
  BY ExitSafe DEF DueInv
<1>2. MayExit /\ pc = Idle /\ UNCHANGED <<now, nextExp>>
  BY DEF Exit
<1>3. CASE Listed' \subseteq Listed /\ UNCHANGED <<left, poll, pc>>
  <2>1. NextIsFirst'
    <3>1. First(nextExp, now, Listed, left)
      BY <1>2, PcKinds DEF DueInv, NextIsFirst
    <3>2. First(nextExp, now, Listed', left)
      BY <1>2, <1>3, <3>1 DEF First
    <3> QED BY <1>2, <1>3, <3>2, PcKinds DEF NextIsFirst
  <2>2. UnpolledIsKnown'
    <3>1. NoneDue(Listed, left) => NoneDue(Listed', left)
      BY <1>3 DEF NoneDue
    <3> QED BY <1>2, <1>3, <3>1, PcKinds DEF DueInv, UnpolledIsKnown
  <2> QED BY <1>1, <2>1, <2>2 DEF DueInv
<1> QED BY <1>1, <1>3, AnewDue

LEMMA DueStep == OnlyLater /\ DueInv /\ [Next]_vars => DueInv'
<1> SUFFICES ASSUME OnlyLater, DueInv, [Next]_vars PROVE DueInv'
  OBVIOUS
<1>1. SafeInv'
  BY StepSafe DEF DueInv
<1>2. CASE UNCHANGED vars \/ Deliver \/ \E p \in Proc : Start(p)
  <2>1. UNCHANGED <<now, list, left, nextExp, poll, pc>>
    BY <1>2 DEF vars, timers, Deliver, Start
  <2>2. Listed' = Listed
    BY <2>1 DEF Listed
  <2> QED BY <1>1, <2>1, <2>2, QuietDue
<1>3. CASE SysTick
  BY <1>3, SysTickDue
<1>4. CASE EtimerStep \/ PollBegin
  <2>1. CASE ScanPost
    <3>1. pc' = Update(Scan(1))
      BY <2>1 DEF ScanPost
    <3> QED BY <1>1, <3>1, AnewDue
  <2>2. CASE UpdateRead \/ UpdateStore
    BY <2>2, UpdateDue
  <2>3. CASE PollBegin \/ ScanEnd \/ ScanSkip \/ ScanFull
    BY <2>3, WalkDue
  <2> QED BY <1>4, <2>1, <2>2, <2>3 DEF EtimerStep
<1>5. CASE \E p \in Proc, t \in Timer : SetAny(p, t)
  <2>1. PICK p \in Proc, t \in Timer : AddTimer(p, t)
    BY <1>5 DEF SetAny, Set, Reset, Restart
  <2>2. pc' = Update(Idle) /\ poll' = TRUE
    BY <2>1 DEF AddTimer
  <2> QED BY <1>1, <2>2, AnewDue
<1> QED BY <1>2, <1>3, <1>4, <1>5, StopDue, AdjustDue, ExitDue DEF Next, Client

LEMMA InitDue == Init => DueInv
<1> SUFFICES ASSUME Init PROVE DueInv
  OBVIOUS
<1>1. pc = Idle /\ nextExp = 0 /\ now = 0 /\ Listed = {}
  BY DEF Init, Listed
<1> QED BY <1>1, InitSafe, PcKinds DEF DueInv, NextIsFirst, UnpolledIsKnown, First, NoneDue

LEMMA DueIsPolled == DueInv => NothingDueUnpolled
BY PcKinds DEF DueInv, UnpolledIsKnown, NothingDueUnpolled, NoneDue

\* When the etimer process has not been polled, no timer is due: the one number
\* next_expiration is never too late, whenever the ticks fell, if etimer_adjust
\* only makes timers later and no process exits on a clock that wraps
\* (etimer.c:58-78, clock.c:41-46).
THEOREM NothingOverlooked == OnlyLater /\ Spec => []NothingDueUnpolled
<1>1. CASE OnlyLater
  <2>1. DueInv /\ [Next]_vars => DueInv'
    BY <1>1, DueStep
  <2> QED BY <2>1, InitDue, DueIsPolled, PTL DEF Spec
<1>2. CASE ~OnlyLater
  BY <1>2
<1> QED BY <1>1, <1>2

-----------------------------------------------------------------------------
(* Callback timers: every step of Ctimer is one of the timers beneath it.    *)

LEMMA CtimerSteps == [CNext]_cvars => [Next]_vars
<1> SUFFICES ASSUME [CNext]_cvars PROVE [Next]_vars
  OBVIOUS
<1>1. CASE UNCHANGED cvars
  BY <1>1 DEF cvars
<1>2. CASE SysTick \/ EtimerStep \/ PollBegin \/ CDeliver
  BY <1>2 DEF Next, CDeliver
<1>3. CASE Plain
  BY <1>3 DEF Plain, Next, Client
<1>4. CASE CClient
  <2>1. Callback \subseteq Timer /\ CtimerProcess \in Proc
    BY CtimerAssumption
  <2> QED BY <1>4, <2>1 DEF CClient, CReset, CRestart, CStop, CSet, Next, Client, SetAny
<1> QED BY <1>1, <1>2, <1>3, <1>4 DEF CNext

\* No TIMER event of an etimer or a ctimer is posted before its time, unless its
\* start lies ahead of the clock (ctimer.c:104-115, timer.c:121-128).
THEOREM CtimersNeverEarly == CSpec => NeverEarly
<1>1. CInit => SafeInv
  BY InitSafe DEF CInit
<1>2. SafeInv /\ [CNext]_cvars => SafeInv'
  BY StepSafe, CtimerSteps
<1>3. SafeInv /\ [CNext]_cvars
        => [Len(queue') > Len(queue) => left[JustPosted] <= 0 \/ left[JustPosted] > interval[JustPosted]]_vars
  BY PostedIsDue, CtimerSteps
<1> QED BY <1>1, <1>2, <1>3, PTL DEF CSpec, NeverEarly

\* No etimer or ctimer that is due is overlooked, under the condition of
\* NothingOverlooked.
THEOREM CtimersNotOverlooked == OnlyLater /\ CSpec => []NothingDueUnpolled
<1>1. CASE OnlyLater
  <2>1. CInit => DueInv
    BY InitDue DEF CInit
  <2>2. DueInv /\ [CNext]_cvars => DueInv'
    BY <1>1, DueStep, CtimerSteps
  <2> QED BY <2>1, <2>2, DueIsPolled, PTL DEF CSpec
<1>2. CASE ~OnlyLater
  BY <1>2
<1> QED BY <1>1, <1>2


-----------------------------------------------------------------------------
(* The serial line. *)

\* The events of others leave room for a line and the event behind it.
QueueHasRoom == Others + 2 <= QueueSize

-----------------------------------------------------------------------------
(* The serial line: the inductive invariant. *)

\* From cell a of the ring on to cell b, and the cell j behind a.
Dist(a, b) == IF b >= a THEN b - a ELSE b - a + BufSize
At(a, j) == IF a + j < BufSize THEN a + j ELSE a + j - BufSize

\* What a byte makes of a line: s and t are the line and its length before and
\* behind it.
Goes(b, s, t) ==
  \/ b = End /\ t[2] = 0 /\ t[1] > s[1]
  \/ b = Erase /\ s[2] > 0 /\ t = IF s[2] = BufSize - 1 THEN s ELSE <<s[1], s[2] - 1>>
  \/ b = s /\ t = IF s[2] = BufSize - 1 THEN s ELSE <<s[1], s[2] + 1>>

\* The bytes in the ring lead from the line the process has to the line being
\* typed, or as far as they found room; st says where each of them is.
Follows(st) ==
  /\ st \in [Index -> Line \X Index]
  /\ st[0][2] = ptr /\ heard < st[0][1]
  /\ \A i \in 0 .. ptr - 1 : buf[i] = <<st[0][1], i>>
  /\ \A j \in 0 .. Dist(get, put) - 1 : Goes(rx[At(get, j)], st[j], st[j + 1])
  /\ IF overflow THEN st[Dist(get, put)][1] <= line ELSE st[Dist(get, put)] = <<line, len>>

\* In the buffer stands a line that is waiting for the shell, before line m.
Pending(m) ==
  \E l \in Line : \E k \in Index :
    /\ heard < l /\ l < m /\ buf[k] = Nul
    /\ \A i \in 0 .. k - 1 : buf[i] = <<l, i>>

LineQueued == \E i \in 1 .. Len(events) : events[i] = "line"

Stream ==
  \E st \in [Index -> Line \X Index] :
    Follows(st) /\ (LineQueued => Pending(st[0][1]))

\* The events of a line are in the queue while the process waits.
Queued ==
  /\ Cardinality({i \in 1 .. Len(events) : events[i] = "other"}) <= Others
  /\ IF pt = "wait"
     THEN \E c \in 1 .. Len(events) : \E l \in 0 .. c - 1 :
            /\ events[c] = "continue" /\ (l > 0 => events[l] = "line")
            /\ \A i \in (1 .. Len(events)) \ {c, l} : events[i] = "other"
     ELSE \A i \in 1 .. Len(events) : events[i] = "other"

\* The terminators in the ring x from g to p.
Ends(x, g, p) == {i \in Index : Dist(g, i) < Dist(g, p) /\ x[i] = End}

Counted ==
  /\ line <= bytes + 1 /\ owed <= bytes
  /\ owed = Cardinality(Ends(rx, get, put)) + (IF LineQueued THEN 1 ELSE 0)

Places ==
  /\ up <=> pt # "off"
  /\ pt = "off" => put = 0 /\ get = 0 /\ ptr = 0
  /\ pt = "take" => put # get

Typed == LineTypeOK /\ events \in Seq({"line", "continue", "other"})

IInv == Typed /\ Queued /\ Counted /\ Places /\ Stream

-----------------------------------------------------------------------------
(* Places in the ring. *)

LEMMA Sizes ==
  /\ BufSize \in Nat /\ BufSize >= 2 /\ QueueSize \in Nat /\ Others \in Nat /\ MaxBytes \in Nat
  /\ Index = 0 .. BufSize - 1 /\ 0 \in Index /\ Line = 1 .. MaxBytes + 1
BY SerialAssumption DEF Index, Line

\* The arithmetic of the code, modulo the size, without the modulus.
LEMMA Modulo ==
  ASSUME NEW a \in Index, NEW b \in Index
  PROVE  (a + 1) % BufSize = At(a, 1) /\ (b - a) % BufSize = Dist(a, b)
BY SerialAssumption DEF At, Dist, Index

LEMMA Places1 ==
  ASSUME NEW g \in Index, NEW p \in Index
  PROVE  /\ Dist(g, p) \in Index /\ At(p, 1) \in Index /\ At(g, 0) = g
         /\ \A j \in Index : At(g, j) \in Index
         /\ Dist(g, p) = 0 <=> p = g
BY Sizes DEF At, Dist

\* One more byte behind the last one.
LEMMA PutPlace ==
  ASSUME NEW g \in Index, NEW p \in Index, Dist(g, p) < BufSize - 1
  PROVE  /\ Dist(g, At(p, 1)) = Dist(g, p) + 1 /\ At(g, Dist(g, p)) = p
         /\ \A j \in 0 .. Dist(g, p) - 1 : At(g, j) # p
         /\ \A i \in Index : Dist(g, i) < Dist(g, At(p, 1)) <=> Dist(g, i) < Dist(g, p) \/ i = p
         /\ ~(Dist(g, p) < Dist(g, p))
BY Sizes DEF At, Dist

\* The first byte is taken.
LEMMA TakePlace ==
  ASSUME NEW g \in Index, NEW p \in Index, p # g
  PROVE  /\ Dist(At(g, 1), p) = Dist(g, p) - 1 /\ Dist(g, p) > 0
         /\ \A j \in 0 .. Dist(g, p) - 2 : At(At(g, 1), j) = At(g, j + 1)
         /\ \A i \in Index : Dist(At(g, 1), i) < Dist(At(g, 1), p)
                               <=> Dist(g, i) < Dist(g, p) /\ i # g
         /\ Dist(g, g) < Dist(g, p)
BY Sizes DEF At, Dist

\* The terminators in the ring behind a put and behind a take.
LEMMA EndsPut ==
  ASSUME NEW x \in [Index -> Byte], NEW g \in Index, NEW p \in Index, NEW b \in Byte,
         Dist(g, p) < BufSize - 1
  PROVE  /\ Cardinality(Ends(x, g, p)) \in Nat
         /\ Cardinality(Ends([x EXCEPT ![p] = b], g, At(p, 1)))
              = Cardinality(Ends(x, g, p)) + (IF b = End THEN 1 ELSE 0)
<1>1. Ends([x EXCEPT ![p] = b], g, At(p, 1))
        = IF b = End THEN Ends(x, g, p) \union {p} ELSE Ends(x, g, p)
  BY PutPlace DEF Ends
<1>2. p \notin Ends(x, g, p)
  BY PutPlace DEF Ends
<1>3. IsFiniteSet(Ends(x, g, p))
  <2>1. IsFiniteSet(Index)
    BY Sizes, FS_Interval
  <2> QED BY <2>1, FS_Subset DEF Ends
<1> QED BY <1>1, <1>2, <1>3, FS_AddElement, FS_CardinalityType

LEMMA EndsTake ==
  ASSUME NEW x \in [Index -> Byte], NEW g \in Index, NEW p \in Index, p # g
  PROVE  /\ Cardinality(Ends(x, g, p)) \in Nat /\ Cardinality(Ends(x, At(g, 1), p)) \in Nat
         /\ Cardinality(Ends(x, g, p))
              = Cardinality(Ends(x, At(g, 1), p)) + (IF x[g] = End THEN 1 ELSE 0)
<1>1. Ends(x, At(g, 1), p) = Ends(x, g, p) \ {g} /\ (g \in Ends(x, g, p) <=> x[g] = End)
  BY TakePlace DEF Ends
<1>3. IsFiniteSet(Ends(x, g, p))
  <2>1. IsFiniteSet(Index)
    BY Sizes, FS_Interval
  <2> QED BY <2>1, FS_Subset DEF Ends
<1>4. IsFiniteSet(Ends(x, At(g, 1), p))
  BY <1>1, <1>3, FS_RemoveElement
<1>5. Cardinality(Ends(x, g, p)) \in Nat /\ Cardinality(Ends(x, At(g, 1), p)) \in Nat
  BY <1>3, <1>4, FS_CardinalityType
<1>6. Cardinality(Ends(x, g, p) \ {g})
        = IF g \in Ends(x, g, p) THEN Cardinality(Ends(x, g, p)) - 1 ELSE Cardinality(Ends(x, g, p))
  BY <1>3, FS_RemoveElement
<1>7. Cardinality(Ends(x, At(g, 1), p))
        = IF x[g] = End THEN Cardinality(Ends(x, g, p)) - 1 ELSE Cardinality(Ends(x, g, p))
  BY ONLY <1>1, <1>6
<1> HIDE DEF Ends
<1> QED BY ONLY <1>5, <1>7

LEMMA EndsNone ==
  ASSUME NEW x, NEW g \in Index
  PROVE  Cardinality(Ends(x, g, g)) = 0
<1>1. Ends(x, g, g) = {}
  BY Sizes DEF Ends, Dist
<1> QED BY <1>1, FS_EmptySet

-----------------------------------------------------------------------------
(* The events in the queue. *)

Other(q) == {i \in 1 .. Len(q) : q[i] = "other"}

Event == {"line", "continue", "other"}

LEMMA OtherFinite ==
  ASSUME NEW q \in Seq(Event)
  PROVE  IsFiniteSet(Other(q)) /\ Cardinality(Other(q)) \in Nat
<1>1. IsFiniteSet(1 .. Len(q))
  BY FS_Interval
<1>2. IsFiniteSet(Other(q))
  BY <1>1, FS_Subset DEF Other
<1> QED BY <1>2, FS_CardinalityType

LEMMA OtherAll ==
  ASSUME NEW q \in Seq(Event), \A i \in 1 .. Len(q) : q[i] = "other"
  PROVE  Cardinality(Other(q)) = Len(q)
<1>1. Other(q) = 1 .. Len(q) /\ Len(q) \in Nat
  BY DEF Other
<1>2. Cardinality(1 .. Len(q)) = IF 1 > Len(q) THEN 0 ELSE Len(q) - 1 + 1
  BY <1>1, FS_Interval
<1> QED BY ONLY <1>1, <1>2

LEMMA OtherAppend ==
  ASSUME NEW q \in Seq(Event), NEW e \in Event
  PROVE  Cardinality(Other(Append(q, e)))
           = Cardinality(Other(q)) + (IF e = "other" THEN 1 ELSE 0)
<1>1. Other(Append(q, e)) = IF e = "other" THEN Other(q) \union {Len(q) + 1} ELSE Other(q)
  BY DEF Other
<1>2. Len(q) + 1 \notin Other(q)
  BY DEF Other
<1>3. IsFiniteSet(Other(q)) /\ Cardinality(Other(q)) \in Nat
  BY OtherFinite
<1>4. Cardinality(Other(q) \union {Len(q) + 1}) = Cardinality(Other(q)) + 1
  BY <1>2, <1>3, FS_AddElement
<1> QED BY ONLY <1>1, <1>3, <1>4

LEMMA OtherTail ==
  ASSUME NEW q \in Seq(Event), q # <<>>
  PROVE  Cardinality(Other(Tail(q))) <= Cardinality(Other(q))
<1> DEFINE f == [i \in Other(Tail(q)) |-> i + 1]
<1>1. f \in Injection(Other(Tail(q)), Other(q))
  <2>1. \A i \in Other(Tail(q)) : i \in Nat /\ i + 1 \in Other(q)
    BY DEF Other
  <2> QED BY <2>1 DEF Injection, IsInjective
<1> QED BY <1>1, OtherFinite, FS_Injection

-----------------------------------------------------------------------------
(* The interrupt. *)

\* What holds in every state and is used in every step.
LEMMA Facts ==
  ASSUME IInv
  PROVE  /\ put \in Index /\ get \in Index /\ ptr \in Index /\ Dist(get, put) \in Index
         /\ rx \in [Index -> Byte] /\ buf \in [Index -> Byte]
         /\ events \in Seq(Event) /\ line \in Line /\ len \in Index
         /\ bytes \in 0 .. MaxBytes /\ owed \in 0 .. MaxBytes /\ heard \in Line \union {0}
         /\ Cardinality(Ends(rx, get, put)) \in Nat
<1>1. /\ put \in Index /\ get \in Index /\ ptr \in Index
      /\ rx \in [Index -> Byte] /\ buf \in [Index -> Byte]
      /\ events \in Seq(Event) /\ line \in Line /\ len \in Index
      /\ bytes \in 0 .. MaxBytes /\ owed \in 0 .. MaxBytes /\ heard \in Line \union {0}
  BY DEF IInv, Typed, LineTypeOK, Event
<1>2. IsFiniteSet(Ends(rx, get, put))
  <2>1. IsFiniteSet(Index)
    BY Sizes, FS_Interval
  <2> QED BY <2>1, FS_Subset DEF Ends
<1> QED BY <1>1, <1>2, Places1, FS_CardinalityType

LEMMA Pairs ==
  /\ \A l \in Line : l \in Nat
  /\ \A s \in Line \X Index : s[1] \in Line /\ s[2] \in Index /\ s[1] \in Nat
  /\ \A l \in Line, k \in Index : <<l, k>> \in Line \X Index
<1>1. \A l \in Line : l \in Nat
  BY Sizes
<1> QED BY <1>1

\* What a typed byte makes of the line being typed.
LEMMA TypeGoes ==
  ASSUME IInv, ~BareErase, NEW b \in {<<line, len>>, Erase, End}, Type(b)
  PROVE  /\ Goes(b, <<line, len>>, <<line', len'>>)
         /\ line' \in Line /\ len' \in Index /\ line <= line' /\ line' <= bytes' + 1
         /\ bytes' \in 0 .. MaxBytes /\ bytes' = bytes + 1 /\ b \in Byte
         /\ b = End => line' = line + 1 /\ len' = 0
<1>1. /\ line \in Line /\ len \in Index /\ bytes \in 0 .. MaxBytes /\ line <= bytes + 1
      /\ BufSize \in Nat /\ BufSize >= 2 /\ MaxBytes \in Nat
      /\ Index = 0 .. BufSize - 1 /\ Line = 1 .. MaxBytes + 1
  BY Facts, Sizes DEF IInv, Counted
<1>2. <<line, len>> \in Char
  BY <1>1 DEF Char
<1>3. b \in Byte /\ (b = <<line, len>> => b # End /\ b # Erase) /\ End # Erase
  BY <1>2, ByteAssumption DEF Byte
<1>4. bytes < MaxBytes /\ bytes' = bytes + 1 /\ (b = Erase => len > 0)
      /\ line' = (IF b = End THEN line + 1 ELSE line)
      /\ len' = IF b = End THEN 0
                ELSE IF len = BufSize - 1 \/ (b = Erase /\ len = 0) THEN len
                ELSE IF b = Erase THEN len - 1 ELSE len + 1
  BY DEF Type
<1>5. line' \in Line /\ len' \in Index /\ line <= line' /\ line' <= bytes' + 1
      /\ bytes' \in 0 .. MaxBytes
  <2>1. bytes' \in 0 .. MaxBytes /\ line' \in Line /\ line <= line' /\ line' <= bytes' + 1
    BY ONLY <1>1, <1>4
  <2>2. len' \in Index
    BY ONLY <1>1, <1>4
  <2> QED BY <2>1, <2>2
<1>6. Goes(b, <<line, len>>, <<line', len'>>)
  <2>1. CASE b = End
    BY <2>1, <1>1, <1>4 DEF Goes
  <2>2. CASE b = Erase
    BY <2>2, <1>1, <1>3, <1>4 DEF Goes
  <2>3. CASE b = <<line, len>>
    BY <2>3, <1>1, <1>3, <1>4 DEF Goes
  <2> QED BY <2>1, <2>2, <2>3
<1> QED BY <1>3, <1>4, <1>5, <1>6

\* A byte that is refused leaves the line cut short.
LEMMA RefusedStream ==
  ASSUME IInv, line' \in Line, line <= line', overflow' = TRUE,
         UNCHANGED <<rx, put, get, buf, ptr, heard, events>>
  PROVE  Stream'
<1>1. PICK st \in [Index -> Line \X Index] : Follows(st) /\ (LineQueued => Pending(st[0][1]))
  BY DEF IInv, Stream
<1>2. LineQueued' <=> LineQueued
  BY DEF LineQueued
<1>3. Pending(st[0][1]) => Pending(st[0][1])'
  BY DEF Pending
<1>4. st[Dist(get, put)][1] <= line'
  <2>1. st[Dist(get, put)][1] \in Nat /\ line \in Nat /\ line' \in Nat
    <3>1. Dist(get, put) \in Index /\ line \in Line
      BY Facts
    <3>2. st[Dist(get, put)] \in Line \X Index
      BY <3>1, <1>1
    <3> QED BY <3>1, <3>2, Pairs
  <2>2. st[Dist(get, put)][1] <= line
    <3>1. CASE overflow
      BY <3>1, <1>1 DEF Follows
    <3>2. CASE ~overflow
      <4>1. st[Dist(get, put)] = <<line, len>>
        BY <3>2, <1>1 DEF Follows
      <4> QED BY <4>1, <2>1
    <3> QED BY <3>1, <3>2
  <2> QED BY ONLY <2>1, <2>2, line <= line'
<1>5. Follows(st)'
  BY <1>1, <1>4 DEF Follows
<1> QED BY <1>1, <1>2, <1>3, <1>5 DEF Stream

\* A byte that is put takes the stream to the line being typed.
LEMMA PutStream ==
  ASSUME IInv, NEW b \in Byte, line' \in Line, len' \in Index,
         Dist(get, put) < BufSize - 1, rx' = [rx EXCEPT ![put] = b], put' = At(put, 1),
         overflow' = FALSE, ~overflow \/ b = End, Goes(b, <<line, len>>, <<line', len'>>),
         line <= line',
         b = End => line' = line + 1,
         UNCHANGED <<get, buf, ptr, heard, events>>
  PROVE  Stream'
<1> DEFINE n == Dist(get, put)
           t == <<line', len'>>
<1>1. PICK st \in [Index -> Line \X Index] : Follows(st) /\ (LineQueued => Pending(st[0][1]))
  BY DEF IInv, Stream
<1>2. /\ n \in Index /\ n + 1 \in Index /\ BufSize \in Nat /\ put \in Index /\ get \in Index
      /\ Index = 0 .. BufSize - 1 /\ t \in Line \X Index /\ ptr \in Index
      /\ line \in Line /\ rx \in [Index -> Byte]
  <2>1. /\ n \in Index /\ BufSize \in Nat /\ put \in Index /\ get \in Index
        /\ Index = 0 .. BufSize - 1 /\ ptr \in Index /\ line \in Line /\ rx \in [Index -> Byte]
    BY Facts, Sizes
  <2>2. n + 1 \in Index
    <3>1. n < BufSize - 1
      OBVIOUS
    <3> HIDE DEF n
    <3> QED BY ONLY <2>1, <3>1
  <2>3. t \in Line \X Index
    BY Pairs
  <2> QED BY <2>1, <2>2, <2>3
<1>3. /\ Dist(get', put') = n + 1 /\ At(get, n) = put
      /\ \A j \in 0 .. n - 1 : At(get, j) # put
  BY <1>2, PutPlace
<1> HIDE DEF n
<1>4. PICK u \in [Index -> Line \X Index] : u[n + 1] = t /\ \A j \in 0 .. n : u[j] = st[j]
  <2> HIDE DEF t
  <2> DEFINE u == [st EXCEPT ![n + 1] = t]
  <2>1. \A j \in 0 .. n : j \in Index /\ j # n + 1
    BY ONLY <1>2
  <2>2. u \in [Index -> Line \X Index] /\ u[n + 1] = t
    BY ONLY <1>2, st \in [Index -> Line \X Index]
  <2> QED BY ONLY <2>1, <2>2, st \in [Index -> Line \X Index]
<1>5. u[0] = st[0]
  BY <1>2, <1>4
<1>6. Goes(b, st[n], t)
  <2>1. CASE ~overflow
    BY <2>1, <1>1 DEF Follows, n
  <2>2. CASE b = End
    <3>1. st[n][1] \in Line /\ (st[n][1] <= line \/ st[n] = <<line, len>>)
      BY <1>1, <1>2 DEF Follows, n
    <3>2. t[2] = 0 /\ t[1] = line + 1
      BY <2>2, ByteAssumption, Facts DEF Goes, Char
    <3>3. t[1] > st[n][1]
      <4>1. st[n][1] <= line
        <5>1. st[n] = <<line, len>> => st[n][1] = line
          OBVIOUS
        <5>2. line <= line
          BY <1>2, Pairs
        <5> QED BY <3>1, <5>1, <5>2
      <4>2. st[n][1] \in Nat /\ line \in Nat
        BY <3>1, <1>2, Pairs
      <4> HIDE DEF t
      <4> QED BY ONLY <4>1, <4>2, <3>2
    <3> QED BY <2>2, <3>2, <3>3 DEF Goes
  <2> QED BY <2>1, <2>2
<1>7. \A j \in 0 .. n : Goes(rx'[At(get, j)], u[j], u[j + 1])
  <2>1. \A j \in 0 .. n - 1 : Goes(rx'[At(get, j)], u[j], u[j + 1])
    <3> TAKE j \in 0 .. n - 1
    <3>1. j \in 0 .. n /\ j + 1 \in 0 .. n /\ j \in Index
      BY ONLY <1>2, j \in 0 .. n - 1
    <3>2. rx'[At(get, j)] = rx[At(get, j)]
      BY <3>1, <1>2, <1>3, Places1
    <3>3. Goes(rx[At(get, j)], st[j], st[j + 1])
      BY <1>1 DEF Follows, n
    <3> QED BY <3>1, <3>2, <3>3, <1>4
  <2>2. Goes(rx'[At(get, n)], u[n], u[n + 1])
    <3>1. rx'[put] = b /\ n \in 0 .. n
      BY <1>2
    <3> QED BY <3>1, <1>3, <1>4, <1>6
  <2>3. \A j \in 0 .. n : j = n \/ j \in 0 .. n - 1
    BY ONLY <1>2
  <2> QED BY <2>1, <2>2, <2>3
<1>8. Follows(u)'
  <2>1. 0 .. Dist(get', put') - 1 = 0 .. n
    BY <1>2, <1>3
  <2>2. /\ st[0][2] = ptr /\ heard < st[0][1]
        /\ \A i \in 0 .. ptr - 1 : buf[i] = <<st[0][1], i>>
    BY <1>1 DEF Follows
  <2>3. u[Dist(get', put')] = <<line', len'>>
    BY <1>3, <1>4
  <2>4. \A j \in 0 .. Dist(get', put') - 1 : Goes(rx'[At(get', j)], u[j], u[j + 1])
    BY <2>1, <1>7
  <2>5. u[0][2] = ptr' /\ heard' < u[0][1] /\ \A i \in 0 .. ptr' - 1 : buf'[i] = <<u[0][1], i>>
    BY <2>2, <1>5
  <2> QED BY <2>3, <2>4, <2>5, <1>4 DEF Follows
<1>9. LineQueued' <=> LineQueued
  BY DEF LineQueued
<1>10. Pending(st[0][1]) => Pending(st[0][1])'
  BY DEF Pending
<1>11. LineQueued' => Pending(u[0][1])'
  BY <1>1, <1>5, <1>9, <1>10
<1> QED BY <1>4, <1>8, <1>11 DEF Stream

LEMMA InputByteInv ==
  ASSUME IInv, ~BareErase, NEW b \in {<<line, len>>, Erase, End}, InputByte(b)
  PROVE  IInv'
<1>1. /\ Type(b) /\ needspoll' = up
      /\ UNCHANGED <<get, up, events, pt, buf, ptr, heard>>
      /\ \/ Refuse /\ overflow' = TRUE
         \/ Put(b) /\ overflow' = FALSE /\ (~overflow \/ b = End)
  BY DEF InputByte, lines, IInv, Typed, LineTypeOK
<1>2. /\ Goes(b, <<line, len>>, <<line', len'>>)
      /\ line' \in Line /\ len' \in Index /\ line <= line' /\ line' <= bytes' + 1
      /\ bytes' \in 0 .. MaxBytes /\ bytes' = bytes + 1 /\ b \in Byte
      /\ b = End => line' = line + 1 /\ len' = 0
  BY <1>1, TypeGoes
<1>3. Queued'
  BY <1>1 DEF IInv, Queued
<1>4. LineQueued' <=> LineQueued
  BY <1>1 DEF LineQueued
<1>5. CASE Refuse /\ overflow' = TRUE
  <2>1. Stream'
    BY <1>1, <1>2, <1>5, RefusedStream DEF Refuse
  <2>2. Counted'
    BY <1>1, <1>2, <1>4, <1>5, Facts DEF IInv, Counted, Refuse
  <2>3. Typed' /\ Places'
    BY <1>1, <1>2, <1>5 DEF IInv, Typed, LineTypeOK, Places, Refuse
  <2> QED BY <2>1, <2>2, <2>3, <1>3 DEF IInv
<1>6. CASE Put(b) /\ overflow' = FALSE /\ (~overflow \/ b = End)
  <2>1. /\ put \in Index /\ get \in Index /\ Dist(get, put) \in Index /\ rx \in [Index -> Byte]
        /\ BufSize \in Nat /\ BufSize >= 2 /\ Index = 0 .. BufSize - 1
    BY Facts, Sizes
  <2>2. /\ up /\ Dist(get, put) # BufSize - 1 /\ rx' = [rx EXCEPT ![put] = b]
        /\ put' = At(put, 1) /\ owed' = owed + (IF b = End THEN 1 ELSE 0)
    BY <1>6, <2>1, Modulo DEF Put, Full
  <2>3. Dist(get, put) < BufSize - 1
    BY <2>1, <2>2
  <2>4. Stream'
    BY <1>1, <1>2, <1>6, <2>2, <2>3, PutStream
  <2>5. Counted'
    <3>1. /\ Cardinality(Ends(rx, get, put)) \in Nat
          /\ Cardinality(Ends(rx', get', put'))
               = Cardinality(Ends(rx, get, put)) + (IF b = End THEN 1 ELSE 0)
      <4>1. get' = get /\ b \in Byte
        BY <1>1, <1>2
      <4> QED BY <4>1, <2>1, <2>2, <2>3, EndsPut
    <3>2. owed \in 0 .. MaxBytes /\ owed <= bytes /\ bytes \in 0 .. MaxBytes
          /\ owed = Cardinality(Ends(rx, get, put)) + (IF LineQueued THEN 1 ELSE 0)
      BY Facts DEF IInv, Counted
    <3> HIDE DEF Ends, LineQueued
    <3>3. owed' = Cardinality(Ends(rx', get', put')) + (IF LineQueued' THEN 1 ELSE 0)
      BY <3>1, <3>2, <1>4, <2>2
    <3>4. owed' <= bytes'
      BY <3>2, <1>2, <2>2
    <3> QED BY <3>3, <3>4, <1>2 DEF Counted
  <2>6. Typed'
    <3>1. put' \in Index /\ rx' \in [Index -> Byte]
      BY <1>2, <2>1, <2>2, Places1
    <3>2. owed' \in 0 .. MaxBytes
      <4>1. owed \in 0 .. MaxBytes /\ bytes' \in 0 .. MaxBytes /\ MaxBytes \in Nat /\ owed' <= bytes'
        BY <2>5, <1>2, Facts, Sizes DEF Counted
      <4> QED BY ONLY <4>1, <2>2
    <3> QED BY <1>1, <1>2, <1>6, <3>1, <3>2 DEF IInv, Typed, LineTypeOK
  <2>7. Places'
    <3>1. put' # get'
      BY <1>1, <2>1, <2>2, <2>3, PutPlace, Places1
    <3> QED BY <3>1, <2>2, <1>1 DEF IInv, Places
  <2> QED BY <2>4, <2>5, <2>6, <2>7, <1>3 DEF IInv
<1> QED BY <1>1, <1>5, <1>6

-----------------------------------------------------------------------------
(* The process. *)

LEMMA Frame ==
  ASSUME IInv, LineQueued' <=> LineQueued,
         UNCHANGED <<rx, put, get, overflow, buf, ptr, line, len, bytes, heard, owed>>
  PROVE  Stream' /\ Counted'
<1>1. PICK st \in [Index -> Line \X Index] : Follows(st) /\ (LineQueued => Pending(st[0][1]))
  BY DEF IInv, Stream
<1>2. Follows(st)' /\ (Pending(st[0][1]) => Pending(st[0][1])')
  BY <1>1 DEF Follows, Pending
<1>3. Stream'
  BY <1>1, <1>2 DEF Stream
<1>4. Counted'
  BY DEF IInv, Counted
<1> QED BY <1>3, <1>4

LEMMA BootInv == ASSUME IInv, Boot PROVE IInv'
<1>1. /\ pt = "off" /\ pt' = "test" /\ up' = TRUE /\ put' = put /\ get' = get /\ ptr' = ptr
      /\ UNCHANGED <<rx, overflow, needspoll, events, buf, line, len, bytes, heard, owed>>
  BY DEF Boot, IInv, Places, told
<1>2. LineQueued' <=> LineQueued
  BY <1>1 DEF LineQueued
<1>3. Stream' /\ Counted'
  BY <1>1, <1>2, Frame
<1>4. Typed' /\ Places' /\ Queued'
  BY <1>1 DEF IInv, Typed, LineTypeOK, Places, Queued
<1> QED BY <1>3, <1>4 DEF IInv

LEMMA TestInv == ASSUME IInv, Test PROVE IInv'
<1>1. /\ pt = "test" /\ pt' = IF put = get THEN "yield" ELSE "take"
      /\ UNCHANGED <<rx, put, get, overflow, up, needspoll, events, buf, ptr, line, len, bytes, heard, owed>>
  BY DEF Test, told, lines, ring
<1>2. LineQueued' <=> LineQueued
  BY <1>1 DEF LineQueued
<1>3. Stream' /\ Counted'
  BY <1>1, <1>2, Frame
<1>4. Typed' /\ Places' /\ Queued'
  BY <1>1 DEF IInv, Typed, LineTypeOK, Places, Queued
<1> QED BY <1>3, <1>4 DEF IInv

LEMMA DoPollInv == ASSUME IInv, DoPoll PROVE IInv'
<1>1. /\ pt \in {"yield", "wait"} /\ pt' = (IF pt = "yield" THEN "test" ELSE pt) /\ needspoll' = FALSE
      /\ UNCHANGED <<rx, put, get, overflow, up, events, buf, ptr, line, len, bytes, heard, owed>>
  BY DEF DoPoll, Rests, told, lines, ring
<1>2. LineQueued' <=> LineQueued
  BY <1>1 DEF LineQueued
<1>3. Stream' /\ Counted'
  BY <1>1, <1>2, Frame
<1>4. Queued'
  <2>1. pt' = "wait" <=> pt = "wait"
    BY <1>1
  <2> QED BY <2>1, <1>1 DEF IInv, Queued
<1>5. Typed' /\ Places'
  BY <1>1 DEF IInv, Typed, LineTypeOK, Places
<1> QED BY <1>3, <1>4, <1>5 DEF IInv

\* What is left of the stream when its first byte is taken.
LEMMA Shift ==
  ASSUME IInv, put # get, get' = At(get, 1), UNCHANGED <<rx, put, overflow, line, len>>,
         NEW st \in [Index -> Line \X Index], Follows(st)
  PROVE  /\ Goes(rx[get], st[0], st[1]) /\ 1 \in Index
         /\ \E sh \in [Index -> Line \X Index] :
              /\ sh[0] = st[1]
              /\ \A j \in 0 .. Dist(get', put') - 1 : Goes(rx'[At(get', j)], sh[j], sh[j + 1])
              /\ IF overflow' THEN sh[Dist(get', put')][1] <= line'
                 ELSE sh[Dist(get', put')] = <<line', len'>>
<1> DEFINE n == Dist(get, put)
<1>1. /\ n \in Index /\ n > 0 /\ Dist(get', put') = n - 1
      /\ \A j \in 0 .. n - 2 : At(get', j) = At(get, j + 1)
      /\ At(get, 0) = get
  BY Facts, TakePlace, Places1
<1>2. /\ \A j \in 0 .. n - 1 : Goes(rx[At(get, j)], st[j], st[j + 1])
      /\ IF overflow THEN st[n][1] <= line ELSE st[n] = <<line, len>>
  BY DEF Follows
<1> HIDE DEF n
<1>3. BufSize \in Nat /\ BufSize >= 2 /\ Index = 0 .. BufSize - 1
  BY Sizes
<1>4. Goes(rx[get], st[0], st[1])
  <2>1. 0 \in 0 .. n - 1
    BY ONLY <1>1, <1>3
  <2>2. Goes(rx[At(get, 0)], st[0], st[0 + 1])
    BY <2>1, <1>2
  <2> QED BY <2>2, <1>1
<1>5. PICK sh \in [Index -> Line \X Index] : \A j \in 0 .. n - 1 : sh[j] = st[j + 1]
  <2> DEFINE sh == [j \in Index |-> st[IF j = BufSize - 1 THEN j ELSE j + 1]]
  <2>1. \A j \in Index : (IF j = BufSize - 1 THEN j ELSE j + 1) \in Index
    BY ONLY <1>3
  <2>2. sh \in [Index -> Line \X Index]
    BY <2>1
  <2>3. \A j \in 0 .. n - 1 : j \in Index /\ j # BufSize - 1
    BY ONLY <1>1, <1>3
  <2> QED BY <2>2, <2>3
<1>6. \A j \in 0 .. n - 2 : Goes(rx[At(get', j)], sh[j], sh[j + 1])
  <2> TAKE j \in 0 .. n - 2
  <2>1. j \in 0 .. n - 1 /\ j + 1 \in 0 .. n - 1
    BY ONLY <1>1, <1>3, j \in 0 .. n - 2
  <2>2. Goes(rx[At(get, j + 1)], st[j + 1], st[j + 1 + 1])
    BY <2>1, <1>2
  <2> QED BY <2>1, <2>2, <1>1, <1>5
<1>7. sh[0] = st[1] /\ sh[n - 1] = st[n] /\ n - 1 - 1 = n - 2
  <2>1. 0 \in 0 .. n - 1 /\ n - 1 \in 0 .. n - 1 /\ n - 1 + 1 = n /\ n - 1 - 1 = n - 2
    BY ONLY <1>1, <1>3
  <2> QED BY <2>1, <1>5
<1>8. 1 \in Index
  BY <1>3
<1>9. \A j \in 0 .. Dist(get', put') - 1 : Goes(rx'[At(get', j)], sh[j], sh[j + 1])
  BY <1>1, <1>6, <1>7
<1>10. IF overflow' THEN sh[Dist(get', put')][1] <= line'
       ELSE sh[Dist(get', put')] = <<line', len'>>
  BY <1>1, <1>2, <1>7
<1> QED BY <1>4, <1>7, <1>8, <1>9, <1>10

LEMMA NoLineQueued ==
  ASSUME IInv, pt # "wait"
  PROVE  ~LineQueued /\ \A i \in 1 .. Len(events) : events[i] = "other"
BY DEF IInv, Queued, LineQueued

\* A byte of the line.
LEMMA CollectInv ==
  ASSUME IInv, Take, rx[get] # End
  PROVE  IInv'
<1> DEFINE b == rx[get]
<1>1. /\ pt = "take" /\ pt' = "test" /\ get' = At(get, 1) /\ put # get
      /\ UNCHANGED <<rx, put, overflow, up, needspoll, events, line, len, bytes, heard, owed>>
      /\ Collect(b)
  <2>1. get \in Index
    BY Facts
  <2>2. (get + 1) % BufSize = At(get, 1)
    BY <2>1, Modulo
  <2> QED BY <2>2 DEF Take, Collect, IInv, Places, told
<1>2. /\ ptr \in Index /\ get \in Index /\ put \in Index /\ rx \in [Index -> Byte]
      /\ buf \in [Index -> Byte] /\ Index = 0 .. BufSize - 1 /\ BufSize \in Nat /\ BufSize >= 2
  BY Facts, Sizes
<1>3. ~LineQueued /\ ~LineQueued' /\ Queued'
  BY <1>1, NoLineQueued DEF LineQueued, IInv, Queued
<1>4. PICK st \in [Index -> Line \X Index] : Follows(st)
  BY DEF IInv, Stream
<1>5. PICK sh \in [Index -> Line \X Index] :
        /\ sh[0] = st[1]
        /\ \A j \in 0 .. Dist(get', put') - 1 : Goes(rx'[At(get', j)], sh[j], sh[j + 1])
        /\ IF overflow' THEN sh[Dist(get', put')][1] <= line'
           ELSE sh[Dist(get', put')] = <<line', len'>>
  BY <1>1, <1>4, Shift
<1>6. Goes(b, st[0], st[1]) /\ 1 \in Index /\ b \in Byte
  BY <1>1, <1>2, <1>4, Shift
<1>7. PICK l \in Line : st[0] = <<l, ptr>> /\ heard < l /\ \A i \in 0 .. ptr - 1 : buf[i] = <<l, i>>
  <2>1. st[0] \in Line \X Index
    BY <1>2, <1>4
  <2>2. st[0] = <<st[0][1], ptr>> /\ st[0][1] \in Line
    BY <2>1, <1>4 DEF Follows
  <2> QED BY <2>2, <1>4 DEF Follows
<1>8. /\ st[1] \in Line \X Index
      /\ ptr' = st[1][2] /\ st[1][1] = l /\ ptr' \in Index /\ buf' \in [Index -> Byte]
      /\ \A i \in 0 .. ptr' - 1 : buf'[i] = <<l, i>>
  <2>1. st[1] \in Line \X Index /\ <<l, ptr>> \in Char /\ <<l, ptr>>[1] = l /\ <<l, ptr>>[2] = ptr
    BY <1>2, <1>4, <1>6 DEF Char
  <2>2. End # Erase /\ Erase # <<l, ptr>> /\ Nul \in Byte
    BY <2>1, ByteAssumption DEF Byte
  <2>3. \/ b = Erase /\ ptr > 0 /\ st[1] = IF ptr = BufSize - 1 THEN <<l, ptr>> ELSE <<l, ptr - 1>>
        \/ b = <<l, ptr>> /\ st[1] = IF ptr = BufSize - 1 THEN <<l, ptr>> ELSE <<l, ptr + 1>>
    BY <1>6, <1>7, <2>1 DEF Goes
  <2>4. IF ptr >= BufSize - 1 THEN UNCHANGED lines
        ELSE IF b = Erase
        THEN ptr' = ptr - 1 /\ buf' = [i \in Index |-> IF i = ptr - 1 THEN Nul ELSE buf[i]]
        ELSE ptr' = ptr + 1 /\ buf' = [i \in Index |-> IF i = ptr THEN b ELSE buf[i]]
    BY <1>1 DEF Collect
  <2> HIDE DEF b
  <2>5. CASE ptr >= BufSize - 1
    <3>1. ptr = BufSize - 1 /\ ptr' = ptr /\ buf' = buf
      BY <2>4, <2>5, <1>2 DEF lines
    <3>2. st[1] = <<l, ptr>>
      BY <3>1, <2>3
    <3> QED BY <3>1, <3>2, <1>2, <1>7, <2>1
  <2>6. CASE ptr < BufSize - 1 /\ b = Erase
    <3>1. ptr > 0 /\ st[1] = <<l, ptr - 1>>
      <4>1. ptr # BufSize - 1
        BY ONLY <2>6, <1>2
      <4> QED BY ONLY <2>2, <2>3, <2>6, <4>1
    <3>2. ptr' = ptr - 1 /\ buf' = [i \in Index |-> IF i = ptr - 1 THEN Nul ELSE buf[i]]
      BY <2>4, <2>6, <1>2
    <3>3. \A i \in 0 .. ptr - 2 : i \in Index /\ i # ptr - 1 /\ i \in 0 .. ptr - 1
      BY <1>2, <3>1
    <3>4. ptr - 1 \in Index /\ ptr - 1 - 1 = ptr - 2
      BY <1>2, <3>1
    <3>5. \A i \in 0 .. ptr' - 1 : buf'[i] = <<l, i>>
      BY <3>2, <3>3, <3>4, <1>7
    <3>6. buf' \in [Index -> Byte]
      BY <3>2, <1>2, <2>2
    <3>7. st[1][1] = l /\ st[1][2] = ptr - 1
      BY <3>1
    <3> QED BY ONLY <3>2, <3>4, <3>5, <3>6, <3>7, <2>1
  <2>7. CASE ptr < BufSize - 1 /\ b # Erase
    <3>1. b = <<l, ptr>> /\ st[1] = <<l, ptr + 1>>
      <4>1. ptr # BufSize - 1
        BY ONLY <2>7, <1>2
      <4> QED BY ONLY <2>2, <2>3, <2>7, <4>1
    <3>2. ptr' = ptr + 1 /\ buf' = [i \in Index |-> IF i = ptr THEN b ELSE buf[i]]
      BY <2>4, <2>7, <1>2
    <3>3. \A i \in 0 .. ptr : i \in Index /\ (i # ptr => i \in 0 .. ptr - 1)
      BY ONLY <1>2
    <3>4. ptr + 1 \in Index /\ ptr + 1 - 1 = ptr
      BY <1>2, <2>7
    <3>5. \A i \in 0 .. ptr' - 1 : buf'[i] = <<l, i>>
      <4>1. \A i \in 0 .. ptr : buf'[i] = <<l, i>>
        BY <3>1, <3>2, <3>3, <1>7
      <4>2. ptr' - 1 = ptr
        BY ONLY <3>2, <1>2
      <4> QED BY ONLY <4>1, <4>2
    <3>6. buf' \in [Index -> Byte]
      BY <3>2, <1>2, <1>6
    <3>7. st[1][1] = l /\ st[1][2] = ptr + 1
      BY <3>1
    <3> QED BY ONLY <3>2, <3>4, <3>5, <3>6, <3>7, <2>1
  <2>8. ptr >= BufSize - 1 \/ ptr < BufSize - 1
    BY ONLY <1>2
  <2> QED BY <2>5, <2>6, <2>7, <2>8
<1>9. Stream'
  <2>1. Follows(sh)'
    BY <1>1, <1>5, <1>7, <1>8 DEF Follows
  <2> QED BY <2>1, <1>3 DEF Stream
<1>10. get' \in Index
  BY <1>1, <1>2, Places1
<1>11. Typed' /\ Places'
  BY <1>1, <1>8, <1>10 DEF IInv, Typed, LineTypeOK, Places
<1>12. Counted'
  <2>1. /\ Cardinality(Ends(rx, get, put)) \in Nat /\ Cardinality(Ends(rx, get', put)) \in Nat
        /\ Cardinality(Ends(rx, get, put)) = Cardinality(Ends(rx, get', put)) + 0
    BY <1>1, <1>2, EndsTake
  <2> HIDE DEF Ends, LineQueued
  <2> QED BY <2>1, <1>1, <1>3 DEF IInv, Counted
<1> QED BY <1>3, <1>9, <1>11, <1>12 DEF IInv

\* The end of the line.
LEMMA TerminateInv ==
  ASSUME IInv, QueueHasRoom, Take, rx[get] = End
  PROVE  IInv'
<1>1. /\ pt = "take" /\ get' = At(get, 1) /\ put # get
      /\ UNCHANGED <<rx, put, overflow, up, needspoll, line, len, bytes, heard, owed>>
      /\ Terminate
  <2>1. get \in Index
    BY Facts
  <2>2. (get + 1) % BufSize = At(get, 1)
    BY <2>1, Modulo
  <2> QED BY <2>2 DEF Take, IInv, Places, told
<1>2. /\ ptr \in Index /\ get \in Index /\ put \in Index /\ rx \in [Index -> Byte]
      /\ buf \in [Index -> Byte] /\ Index = 0 .. BufSize - 1 /\ BufSize \in Nat /\ BufSize >= 2
      /\ events \in Seq(Event) /\ 0 \in Index /\ Nul \in Byte
  BY Facts, Sizes DEF Byte
<1>3. ~LineQueued /\ \A i \in 1 .. Len(events) : events[i] = "other"
  BY <1>1, NoLineQueued
<1>4. /\ Len(events) + 2 <= QueueSize /\ Len(events) \in Nat /\ QueueSize \in Nat
      /\ Cardinality(Other(events)) = Len(events) /\ Len(events) <= Others
  <2>1. Cardinality(Other(events)) = Len(events)
    BY <1>2, <1>3, OtherAll
  <2>2. Cardinality(Other(events)) <= Others
    BY DEF IInv, Queued, Other
  <2>3. Len(events) \in Nat /\ Others \in Nat /\ QueueSize \in Nat
    BY <1>2, Sizes
  <2> QED BY <2>1, <2>2, <2>3 DEF QueueHasRoom
<1> DEFINE q == Append(events, "line")
<1>5. /\ q \in Seq(Event) /\ Len(q) = Len(events) + 1
      /\ events' = Append(q, "continue") /\ pt' = "wait"
      /\ buf' = [buf EXCEPT ![ptr] = Nul] /\ ptr' = 0
  <2>1. Posted(events, "line") = q
    BY <1>4 DEF Posted
  <2>2. q \in Seq(Event) /\ Len(q) = Len(events) + 1
    BY <1>2 DEF Event
  <2>3. Len(q) < QueueSize
    BY <1>4, <2>2
  <2> HIDE DEF q
  <2> QED BY <1>1, <2>1, <2>2, <2>3 DEF Terminate, Posted
<1>6. /\ events' \in Seq(Event) /\ Len(events') = Len(events) + 2
      /\ events'[Len(events) + 1] = "line" /\ events'[Len(events) + 2] = "continue"
      /\ \A i \in 1 .. Len(events) : events'[i] = "other"
  BY <1>2, <1>3, <1>5 DEF Event
<1>7. Cardinality(Other(events')) = Len(events)
  <2>1. Cardinality(Other(q)) = Cardinality(Other(events)) + 0
    BY <1>2, OtherAppend DEF Event
  <2>2. Cardinality(Other(Append(q, "continue"))) = Cardinality(Other(q)) + 0
    BY <1>5, OtherAppend DEF Event
  <2> QED BY <2>1, <2>2, <1>4, <1>5
<1>8. Queued'
  <2>1. Cardinality({i \in 1 .. Len(events') : events'[i] = "other"}) <= Others
    BY <1>4, <1>7 DEF Other
  <2>2. \E c \in 1 .. Len(events') : \E l \in 0 .. c - 1 :
            /\ events'[c] = "continue" /\ (l > 0 => events'[l] = "line")
            /\ \A i \in (1 .. Len(events')) \ {c, l} : events'[i] = "other"
    <3>1. Len(events) + 2 \in 1 .. Len(events') /\ Len(events) + 1 \in 0 .. (Len(events) + 2) - 1
      BY <1>4, <1>6
    <3>2. \A i \in (1 .. Len(events')) \ {Len(events) + 2, Len(events) + 1} : i \in 1 .. Len(events)
      BY <1>4, <1>6
    <3> QED BY <3>1, <3>2, <1>6
  <2> QED BY <2>1, <2>2, <1>5 DEF Queued
<1>9. LineQueued'
  <2>1. Len(events) + 1 \in 1 .. Len(events')
    BY <1>4, <1>6
  <2> QED BY <2>1, <1>6 DEF LineQueued
<1>10. PICK st \in [Index -> Line \X Index] : Follows(st)
  BY DEF IInv, Stream
<1>11. PICK sh \in [Index -> Line \X Index] :
        /\ sh[0] = st[1]
        /\ \A j \in 0 .. Dist(get', put') - 1 : Goes(rx'[At(get', j)], sh[j], sh[j + 1])
        /\ IF overflow' THEN sh[Dist(get', put')][1] <= line'
           ELSE sh[Dist(get', put')] = <<line', len'>>
  BY <1>1, <1>10, Shift
<1>12. Goes(End, st[0], st[1]) /\ 1 \in Index
  BY <1>1, <1>2, <1>10, Shift
<1>13. PICK l \in Line : st[0] = <<l, ptr>> /\ heard < l /\ \A i \in 0 .. ptr - 1 : buf[i] = <<l, i>>
  <2>1. st[0] \in Line \X Index
    BY <1>2, <1>10
  <2>2. st[0] = <<st[0][1], ptr>> /\ st[0][1] \in Line
    BY <2>1, <1>10 DEF Follows
  <2> QED BY <2>2, <1>10 DEF Follows
<1>14. st[1][2] = 0 /\ st[1][1] > l
  <2>1. <<l, ptr>> \in Char /\ <<l, ptr>>[1] = l
    BY <1>2 DEF Char
  <2>2. End # Erase /\ End # <<l, ptr>>
    BY <2>1, ByteAssumption
  <2> QED BY <1>12, <1>13, <2>1, <2>2 DEF Goes
<1>15. l < sh[0][1] /\ heard < sh[0][1] /\ sh[0][2] = 0
  <2>1. l \in Nat /\ sh[0][1] \in Nat /\ heard \in Nat
    <3>1. sh[0] \in Line \X Index
      BY <1>2, <1>11
    <3>2. heard \in Line \union {0} /\ \A m \in Line : m \in Nat
      BY Facts, Pairs
    <3> QED BY <3>1, <3>2
  <2>2. heard < l /\ sh[0][1] > l
    BY <1>11, <1>13, <1>14
  <2>3. l < sh[0][1] /\ heard < sh[0][1]
    BY ONLY <2>1, <2>2
  <2> QED BY <2>3, <1>11, <1>14
<1>16. Pending(sh[0][1])'
  <2>1. \A i \in 0 .. ptr - 1 : i \in Index /\ i # ptr
    BY ONLY <1>2
  <2>2. buf'[ptr] = Nul /\ \A i \in 0 .. ptr - 1 : buf'[i] = <<l, i>>
    BY <2>1, <1>2, <1>5, <1>13
  <2>3. heard' < l
    BY <1>1, <1>13
  <2> QED BY <2>2, <2>3, <1>2, <1>15 DEF Pending
<1>17. Stream'
  <2>1. \A i \in 0 .. 0 - 1 : buf'[i] = <<sh[0][1], i>>
    OBVIOUS
  <2>2. sh[0][2] = ptr' /\ heard' < sh[0][1]
    BY <1>1, <1>5, <1>15
  <2>3. Follows(sh)'
    BY <2>1, <2>2, <1>5, <1>11 DEF Follows
  <2> QED BY <2>3, <1>16 DEF Stream
<1>18. Places'
  BY <1>1, <1>5 DEF IInv, Places
<1>19. Typed'
  <2>1. get' \in Index /\ buf' \in [Index -> Byte] /\ ptr' \in Index
    BY <1>1, <1>2, <1>5, Places1
  <2>2. Len(events') <= QueueSize /\ \A i \in 1 .. Len(events') : events'[i] \in Event
    BY <1>4, <1>6
  <2> QED BY <2>1, <2>2, <1>1, <1>5, <1>6 DEF IInv, Typed, LineTypeOK, Event
<1>20. Counted'
  <2>1. /\ Cardinality(Ends(rx, get, put)) \in Nat /\ Cardinality(Ends(rx, get', put)) \in Nat
        /\ Cardinality(Ends(rx, get, put)) = Cardinality(Ends(rx, get', put)) + 1
    BY <1>1, <1>2, EndsTake
  <2> HIDE DEF Ends, LineQueued
  <2> QED BY <2>1, <1>1, <1>3, <1>9 DEF IInv, Counted
<1> QED BY <1>8, <1>17, <1>18, <1>19, <1>20 DEF IInv

LEMMA TakeInv == ASSUME IInv, QueueHasRoom, Take PROVE IInv'
BY CollectInv, TerminateInv

-----------------------------------------------------------------------------
(* The events. *)

\* The shell reads the line that was waiting for it, and nothing else.
LEMMA TextOf ==
  ASSUME IInv, NEW m, Pending(m)
  PROVE  \E l \in Line :
           /\ heard < l /\ l < m
           /\ Text = <<>> \/ Text[1][1] = l
           /\ \A i \in 1 .. Len(Text) : Text[i] = <<l, i - 1>>
<1>1. PICK l \in Line, k \in Index :
        /\ heard < l /\ l < m /\ buf[k] = Nul
        /\ \A i \in 0 .. k - 1 : buf[i] = <<l, i>>
  BY DEF Pending
<1>2. Index = 0 .. BufSize - 1 /\ BufSize \in Nat /\ k \in Nat /\ k < BufSize
  BY Sizes
<1>3. \A i \in 0 .. k - 1 : buf[i] # Nul
  <2> TAKE i \in 0 .. k - 1
  <2>1. i \in Index
    BY <1>2
  <2>2. <<l, i>> \in Char
    BY <2>1 DEF Char
  <2> QED BY <2>2, <1>1, ByteAssumption
<1> DEFINE Good(n) == buf[n] = Nul /\ \A i \in 0 .. n - 1 : buf[i] # Nul
           all == [i \in 1 .. BufSize |-> buf[i - 1]]
<1>4. (CHOOSE n \in Index : Good(n)) = k
  <2>1. Good(k)
    BY <1>1, <1>3
  <2>2. \A n \in Index : Good(n) => n = k
    <3> TAKE n \in Index
    <3>1. n < k => n \in 0 .. k - 1
      BY <1>2
    <3>2. k < n => k \in 0 .. n - 1
      BY <1>2
    <3> QED BY <3>1, <3>2, <1>1, <1>2, <1>3
  <2> HIDE DEF Good
  <2> QED BY <2>1, <2>2
<1>5. Text = SubSeq(all, 1, k)
  BY <1>4 DEF Text
<1>6. Len(Text) = k /\ \A i \in 1 .. k : Text[i] = buf[i - 1]
  <2>1. all \in Seq(Byte) /\ Len(all) = BufSize
    <3>1. \A i \in 1 .. BufSize : i - 1 \in Index
      BY <1>2
    <3>2. \A i \in 1 .. BufSize : buf[i - 1] \in Byte
      BY <3>1, Facts
    <3> QED BY <3>2, <1>2
  <2>2. \A i \in 1 .. k : all[i] = buf[i - 1]
    BY <1>2
  <2> HIDE DEF all
  <2> QED BY <2>1, <2>2, <1>2, <1>5
<1>7. \A i \in 1 .. k : i - 1 \in 0 .. k - 1
  BY <1>2
<1>8. \A i \in 1 .. Len(Text) : Text[i] = <<l, i - 1>>
  BY <1>1, <1>6, <1>7
<1>9. Text = <<>> \/ 1 \in 1 .. k
  <2>1. k = 0 => Text = <<>>
    BY <1>5
  <2> QED BY <2>1, <1>2
<1>10. Text = <<>> \/ Text[1][1] = l
  BY <1>6, <1>8, <1>9
<1> QED BY <1>1, <1>8, <1>10

\* What stays when an event leaves the queue.
LEMMA TailQueued ==
  ASSUME NEW q \in Seq(Event), q # <<>>
  PROVE  /\ Tail(q) \in Seq(Event) /\ Len(Tail(q)) = Len(q) - 1 /\ Len(q) \in Nat /\ Len(q) > 0
         /\ \A i \in 1 .. Len(Tail(q)) : Tail(q)[i] = q[i + 1] /\ i + 1 \in 1 .. Len(q)
         /\ Head(q) = q[1] /\ 1 \in 1 .. Len(q)
OBVIOUS

LEMMA HeardStream ==
  ASSUME IInv, LineQueued, ~LineQueued',
         UNCHANGED <<rx, put, get, overflow, buf, ptr, line, len>>,
         heard' = IF Text = <<>> THEN heard ELSE Text[1][1]
  PROVE  Stream' /\ heard' \in Line \union {0}
<1>1. PICK st \in [Index -> Line \X Index] : Follows(st) /\ Pending(st[0][1])
  BY DEF IInv, Stream
<1>2. PICK l \in Line : /\ heard < l /\ l < st[0][1] /\ (Text = <<>> \/ Text[1][1] = l)
  BY <1>1, TextOf
<1>3. heard' < st[0][1] /\ heard' \in Line \union {0}
  BY <1>1, <1>2, Facts DEF Follows
<1>4. Follows(st)'
  BY <1>1, <1>3 DEF Follows
<1> QED BY <1>3, <1>4 DEF Stream

LEMMA DoEventInv == ASSUME IInv, DoEvent PROVE IInv'
<1>1. /\ events # <<>> /\ events' = Tail(events) /\ pt \in {"yield", "wait"}
      /\ UNCHANGED <<rx, put, get, overflow, up, needspoll, buf, ptr, line, len, bytes>>
      /\ \/ /\ Head(events) = "line"
            /\ heard' = IF Text = <<>> THEN heard ELSE Text[1][1]
            /\ owed' = owed - 1
            /\ pt' = IF pt = "yield" THEN "test" ELSE pt
         \/ /\ Head(events) = "continue" /\ pt' = "test"
            /\ heard' = heard /\ owed' = owed
         \/ /\ Head(events) = "other"
            /\ pt' = pt /\ heard' = heard /\ owed' = owed
  BY DEF DoEvent, Rests, ring, lines, told
<1> DEFINE q == events
<1>2. /\ q \in Seq(Event) /\ Tail(q) \in Seq(Event) /\ Len(Tail(q)) = Len(q) - 1
      /\ Len(q) \in Nat /\ Len(q) > 0 /\ Head(q) = q[1] /\ 1 \in 1 .. Len(q)
      /\ \A i \in 1 .. Len(Tail(q)) : Tail(q)[i] = q[i + 1] /\ i + 1 \in 1 .. Len(q)
  BY <1>1, Facts, TailQueued
<1>3. Cardinality({i \in 1 .. Len(events') : events'[i] = "other"}) <= Others
  <2>1. Cardinality(Other(Tail(q))) <= Cardinality(Other(q)) /\ Cardinality(Other(q)) <= Others
    BY <1>1, <1>2, OtherTail DEF IInv, Queued, Other
  <2>2. Cardinality(Other(Tail(q))) \in Nat /\ Cardinality(Other(q)) \in Nat /\ Others \in Nat
    BY <1>2, OtherFinite, Sizes
  <2>3. Cardinality(Other(Tail(q))) <= Others
    BY ONLY <2>1, <2>2
  <2> QED BY <2>3, <1>1 DEF Other
<1>4. Typed' \/ heard' \notin Line \union {0} \/ owed' \notin 0 .. MaxBytes
  <2>1. Len(events') <= QueueSize /\ events' \in Seq(Event)
        /\ \A i \in 1 .. Len(events') : events'[i] \in Event
    <3>1. Len(events) <= QueueSize /\ QueueSize \in Nat
      BY Sizes DEF IInv, Typed, LineTypeOK
    <3> QED BY <3>1, <1>1, <1>2
  <2>2. pt' \in {"off", "test", "take", "yield", "wait"}
    BY <1>1
  <2> QED BY <1>1, <2>1, <2>2 DEF IInv, Typed, LineTypeOK, Event
<1>5. Places'
  BY <1>1 DEF IInv, Places
<1>6. CASE Head(q) = "line"
  <2>1. pt = "wait" /\ LineQueued
    <3>1. pt # "wait" => q[1] = "other"
      BY <1>2, NoLineQueued
    <3> QED BY <3>1, <1>2, <1>6 DEF LineQueued
  <2>2. PICK c \in 1 .. Len(q) : \E l \in 0 .. c - 1 :
            /\ q[c] = "continue" /\ (l > 0 => q[l] = "line")
            /\ \A i \in (1 .. Len(q)) \ {c, l} : q[i] = "other"
    BY <2>1 DEF IInv, Queued
  <2>3. PICK l \in 0 .. c - 1 :
            /\ q[c] = "continue" /\ (l > 0 => q[l] = "line")
            /\ \A i \in (1 .. Len(q)) \ {c, l} : q[i] = "other"
    BY <2>2
  <2>4. l = 1
    BY <2>3, <1>2, <1>6
  <2>5. /\ c - 1 \in 1 .. Len(Tail(q)) /\ Tail(q)[c - 1] = "continue"
        /\ \A i \in (1 .. Len(Tail(q))) \ {c - 1} : Tail(q)[i] = "other"
    <3>1. c - 1 \in 1 .. Len(Tail(q)) /\ c - 1 + 1 = c
      BY <2>4, <1>2
    <3>2. \A i \in (1 .. Len(Tail(q))) \ {c - 1} : i + 1 \in (1 .. Len(q)) \ {c, l}
      BY <2>4, <1>2
    <3> QED BY <3>1, <3>2, <2>3, <1>2
  <2>6. Queued'
    <3>1. 0 \in 0 .. (c - 1) - 1 /\ ~(0 > 0)
      BY <2>4
    <3>2. pt' = "wait"
      BY <1>1, <1>6, <2>1
    <3> QED BY <3>1, <3>2, <2>5, <1>1, <1>3 DEF Queued
  <2>7. ~LineQueued'
    BY <2>5, <1>1 DEF LineQueued
  <2>8. heard' = (IF Text = <<>> THEN heard ELSE Text[1][1]) /\ owed' = owed - 1
    BY <1>1, <1>6
  <2>9. Stream' /\ heard' \in Line \union {0}
    BY <1>1, <2>1, <2>7, <2>8, HeardStream
  <2>10. Counted' /\ owed' \in 0 .. MaxBytes
    <3>1. owed = Cardinality(Ends(rx, get, put)) + 1 /\ Cardinality(Ends(rx, get, put)) \in Nat
          /\ owed <= bytes /\ bytes \in 0 .. MaxBytes /\ line <= bytes + 1 /\ owed \in 0 .. MaxBytes
      BY <2>1, Facts DEF IInv, Counted
    <3> HIDE DEF Ends, LineQueued
    <3>2. owed' = Cardinality(Ends(rx', get', put')) + (IF LineQueued' THEN 1 ELSE 0)
      BY <3>1, <2>7, <2>8, <1>1
    <3>3. owed' <= bytes' /\ line' <= bytes' + 1 /\ owed' \in 0 .. MaxBytes
      BY <3>1, <2>8, <1>1, Sizes
    <3> QED BY <3>2, <3>3 DEF Counted
  <2> QED BY <2>6, <2>9, <2>10, <1>4, <1>5 DEF IInv
<1>7. CASE Head(q) = "continue"
  <2>1. pt = "wait"
    <3>1. pt # "wait" => q[1] = "other"
      BY <1>2, NoLineQueued
    <3> QED BY <3>1, <1>2, <1>7
  <2>2. PICK c \in 1 .. Len(q), l \in 0 .. Len(q) :
            /\ l \in 0 .. c - 1 /\ q[c] = "continue" /\ (l > 0 => q[l] = "line")
            /\ \A i \in (1 .. Len(q)) \ {c, l} : q[i] = "other"
    <3>1. \A c \in 1 .. Len(q) : \A l \in 0 .. c - 1 : l \in 0 .. Len(q)
      BY <1>2
    <3> QED BY <3>1, <2>1 DEF IInv, Queued
  <2>3. c = 1 /\ l = 0
    BY <2>2, <1>2, <1>7
  <2>4. \A i \in 1 .. Len(Tail(q)) : Tail(q)[i] = "other"
    BY <2>2, <2>3, <1>2
  <2>5. Queued' /\ ~LineQueued'
    BY <2>4, <1>1, <1>3, <1>7 DEF Queued, LineQueued
  <2>6. ~LineQueued
    BY <2>2, <2>3, <1>2 DEF LineQueued
  <2>7. heard' = heard /\ owed' = owed
    BY <1>1, <1>7
  <2>8. Stream' /\ Counted'
    BY <1>1, <2>5, <2>6, <2>7, Frame
  <2> QED BY <2>5, <2>7, <2>8, <1>4, <1>5, Facts DEF IInv
<1>8. CASE Head(q) = "other"
  <2>1. pt' = pt /\ heard' = heard /\ owed' = owed
    BY <1>1, <1>8
  <2>2. LineQueued' <=> LineQueued
    <3>1. ASSUME LineQueued PROVE LineQueued'
      <4>1. PICK i \in 1 .. Len(q) : q[i] = "line"
        BY <3>1 DEF LineQueued
      <4>2. i - 1 \in 1 .. Len(Tail(q)) /\ i - 1 + 1 = i
        BY <4>1, <1>2, <1>8
      <4> QED BY <4>1, <4>2, <1>1, <1>2 DEF LineQueued
    <3>2. ASSUME LineQueued' PROVE LineQueued
      BY <3>2, <1>1, <1>2 DEF LineQueued
    <3> QED BY <3>1, <3>2
  <2>3. Stream' /\ Counted'
    BY <1>1, <2>1, <2>2, Frame
  <2>4. CASE pt # "wait"
    <3>1. \A i \in 1 .. Len(events') : events'[i] = "other"
      BY <2>4, NoLineQueued, <1>1, <1>2
    <3> QED BY <3>1, <2>1, <2>3, <2>4, <1>3, <1>4, <1>5, Facts DEF IInv, Queued
  <2>5. CASE pt = "wait"
    <3>2. PICK c \in 1 .. Len(q), l \in 0 .. Len(q) :
            /\ l \in 0 .. c - 1 /\ q[c] = "continue" /\ (l > 0 => q[l] = "line")
            /\ \A i \in (1 .. Len(q)) \ {c, l} : q[i] = "other"
      <4>1. \A c \in 1 .. Len(q) : \A l \in 0 .. c - 1 : l \in 0 .. Len(q)
        BY <1>2
      <4> QED BY <4>1, <2>5 DEF IInv, Queued
    <3>3. c # 1 /\ l # 1
      BY <3>2, <1>2, <1>8
    <3>4. PICK m \in 0 .. Len(q) : m = IF l = 0 THEN 0 ELSE l - 1
      BY <1>2
    <3>5. c - 1 \in 1 .. Len(Tail(q)) /\ c - 1 + 1 = c /\ m \in 0 .. (c - 1) - 1
          /\ (m > 0 => m \in 1 .. Len(Tail(q)) /\ m + 1 = l)
      BY <3>2, <3>3, <3>4, <1>2
    <3>6. Tail(q)[c - 1] = "continue" /\ (m > 0 => Tail(q)[m] = "line")
      BY <3>2, <3>5, <1>2
    <3>7. \A i \in (1 .. Len(Tail(q))) \ {c - 1, m} : Tail(q)[i] = "other"
      <4> TAKE i \in (1 .. Len(Tail(q))) \ {c - 1, m}
      <4>1. i + 1 \in (1 .. Len(q)) \ {c, l}
        BY <3>2, <3>3, <3>4, <1>2
      <4> QED BY <4>1, <3>2, <1>2
    <3>8. Queued'
      <4>1. pt' = "wait" /\ events' = Tail(q)
        BY <2>1, <2>5, <1>1
      <4>2. \E d \in 1 .. Len(events') : \E k \in 0 .. d - 1 :
              /\ events'[d] = "continue" /\ (k > 0 => events'[k] = "line")
              /\ \A i \in (1 .. Len(events')) \ {d, k} : events'[i] = "other"
        <5>1. PICK d \in 1 .. Len(events') : d = c - 1
          BY <3>5, <4>1
        <5>2. m \in 0 .. d - 1 /\ events'[d] = "continue" /\ (m > 0 => events'[m] = "line")
          BY ONLY <5>1, <3>5, <3>6, <4>1
        <5>3. \A i \in (1 .. Len(events')) \ {d, m} : events'[i] = "other"
          BY ONLY <5>1, <3>7, <4>1
        <5> QED BY ONLY <5>2, <5>3, d \in 1 .. Len(events')
      <4> QED BY ONLY <4>1, <4>2, <1>3 DEF Queued
    <3> QED BY <3>8, <2>1, <2>3, <1>4, <1>5, Facts DEF IInv
  <2> QED BY <2>4, <2>5
<1> QED BY <1>1, <1>6, <1>7, <1>8

LEMMA PostOtherInv == ASSUME IInv, PostOther PROVE IInv'
<1>1. /\ pt \in {"yield", "wait"} /\ pt' = pt
      /\ Cardinality(Other(events)) < Others
      /\ events' = (IF Len(events) < QueueSize THEN Append(events, "other") ELSE events)
      /\ UNCHANGED <<rx, put, get, overflow, up, needspoll, buf, ptr, line, len, bytes, heard, owed>>
  BY DEF PostOther, Posted, Rests, ring, lines, told, Other
<1>2. CASE events' = events
  <2>1. LineQueued' <=> LineQueued
    BY <1>2 DEF LineQueued
  <2>2. Stream' /\ Counted'
    BY <1>1, <2>1, Frame
  <2>3. Typed' /\ Places' /\ Queued'
    BY <1>1, <1>2 DEF IInv, Typed, LineTypeOK, Places, Queued
  <2> QED BY <2>2, <2>3 DEF IInv
<1>3. CASE Len(events) < QueueSize /\ events' = Append(events, "other")
  <2>1. /\ events \in Seq(Event) /\ events' \in Seq(Event) /\ Len(events') = Len(events) + 1
        /\ Len(events) \in Nat /\ QueueSize \in Nat
        /\ events'[Len(events) + 1] = "other" /\ \A i \in 1 .. Len(events) : events'[i] = events[i]
    BY <1>3, Facts, Sizes DEF Event
  <2>2. \A i \in 1 .. Len(events') : i \in 1 .. Len(events) \/ i = Len(events) + 1
    BY <2>1
  <2>3. LineQueued' <=> LineQueued
    <3>1. \A i \in 1 .. Len(events) : i \in 1 .. Len(events')
      BY <2>1
    <3> QED BY <3>1, <2>1, <2>2 DEF LineQueued
  <2>4. Stream' /\ Counted'
    BY <1>1, <2>3, Frame
  <2>5. Cardinality({i \in 1 .. Len(events') : events'[i] = "other"}) <= Others
    <3>1. Cardinality(Other(events')) = Cardinality(Other(events)) + 1
      BY <1>3, <2>1, OtherAppend DEF Event
    <3>2. Cardinality(Other(events)) \in Nat /\ Others \in Nat
      BY <2>1, OtherFinite, Sizes
    <3>3. Cardinality(Other(events')) <= Others
      BY ONLY <1>1, <3>1, <3>2
    <3> QED BY <3>3 DEF Other
  <2>6. Queued'
    <3>1. CASE pt # "wait"
      BY <3>1, NoLineQueued, <1>1, <2>1, <2>2, <2>5 DEF Queued
    <3>2. CASE pt = "wait"
      <4>1. PICK c \in 1 .. Len(events) : \E l \in 0 .. c - 1 :
              /\ events[c] = "continue" /\ (l > 0 => events[l] = "line")
              /\ \A i \in (1 .. Len(events)) \ {c, l} : events[i] = "other"
        BY <3>2 DEF IInv, Queued
      <4>2. PICK l \in 0 .. c - 1 :
              /\ events[c] = "continue" /\ (l > 0 => events[l] = "line")
              /\ \A i \in (1 .. Len(events)) \ {c, l} : events[i] = "other"
        BY <4>1
      <4>3. c \in 1 .. Len(events') /\ (l > 0 => l \in 1 .. Len(events))
        BY <2>1
      <4>4. events'[c] = "continue" /\ (l > 0 => events'[l] = "line")
        BY <4>2, <4>3, <2>1
      <4>5. \A i \in (1 .. Len(events')) \ {c, l} : events'[i] = "other"
        BY <4>2, <2>1, <2>2
      <4>6. \E d \in 1 .. Len(events') : \E k \in 0 .. d - 1 :
              /\ events'[d] = "continue" /\ (k > 0 => events'[k] = "line")
              /\ \A i \in (1 .. Len(events')) \ {d, k} : events'[i] = "other"
        BY <4>3, <4>4, <4>5
      <4>7. pt' = "wait"
        BY <3>2, <1>1
      <4> QED BY ONLY <4>6, <4>7, <2>5 DEF Queued
    <3> QED BY <3>1, <3>2
  <2>7. Typed'
    <3>1. Len(events') <= QueueSize /\ \A i \in 1 .. Len(events') : events'[i] \in Event
      BY <1>3, <2>1
    <3> QED BY <3>1, <1>1, <2>1 DEF IInv, Typed, LineTypeOK, Event
  <2>8. Places'
    BY <1>1 DEF IInv, Places
  <2> QED BY <2>4, <2>6, <2>7, <2>8 DEF IInv
<1> QED BY <1>1, <1>2, <1>3

-----------------------------------------------------------------------------
(* The theorems. *)

LEMMA InitInv == LineInit => IInv
<1> SUFFICES ASSUME LineInit PROVE IInv
  OBVIOUS
<1>1. /\ put = 0 /\ get = 0 /\ ptr = 0 /\ rx = [i \in Index |-> Nul] /\ buf = [i \in Index |-> Nul]
      /\ events = <<>> /\ pt = "off" /\ ~up /\ overflow = FALSE /\ line = 1 /\ len = 0 /\ bytes = 0
      /\ heard = 0 /\ owed = 0
  BY DEF LineInit
<1>2. /\ BufSize \in Nat /\ BufSize >= 2 /\ 0 \in Index /\ 1 \in Line /\ MaxBytes \in Nat
      /\ QueueSize \in Nat /\ Others \in Nat /\ Nul \in Byte
  BY Sizes DEF Byte
<1>3. Typed
  BY <1>1, <1>2 DEF LineInit, Typed, LineTypeOK
<1>4. ~LineQueued
  BY <1>1 DEF LineQueued
<1>5. Dist(get, put) = 0
  BY <1>1, <1>2, Places1
<1>6. Queued
  <2>1. {i \in 1 .. Len(events) : events[i] = "other"} = {} /\ pt # "wait"
        /\ \A i \in 1 .. Len(events) : FALSE
    BY <1>1
  <2> QED BY <2>1, <1>2, FS_EmptySet DEF Queued
<1>7. Counted
  <2>1. Cardinality(Ends(rx, get, put)) = 0
    BY <1>1, <1>2, EndsNone
  <2> QED BY <2>1, <1>1, <1>4 DEF Counted
<1>8. Stream
  <2> DEFINE st == [j \in Index |-> <<1, 0>>]
  <2>1. st \in [Index -> Line \X Index] /\ st[0] = <<1, 0>>
    BY <1>2
  <2> HIDE DEF st
  <2>2. Follows(st)
    BY <2>1, <1>1, <1>5 DEF Follows
  <2> QED BY <2>1, <2>2, <1>4 DEF Stream
<1> QED BY <1>1, <1>3, <1>6, <1>7, <1>8 DEF IInv, Places

LEMMA NextInv == ASSUME IInv, ~BareErase, QueueHasRoom, [LineNext]_lineVars PROVE IInv'
<1>1. CASE UNCHANGED lineVars
  <2>1. /\ UNCHANGED <<rx, put, get, overflow, buf, ptr, line, len, bytes, heard, owed>>
        /\ UNCHANGED <<up, needspoll, events, pt>>
    BY <1>1 DEF lineVars, ring, lines, told
  <2>2. LineQueued' <=> LineQueued
    BY <2>1 DEF LineQueued
  <2>3. Stream' /\ Counted'
    BY <2>1, <2>2, Frame
  <2>4. Queued'
    BY <2>1 DEF IInv, Queued
  <2>5. Typed' /\ Places'
    BY <2>1 DEF IInv, Typed, LineTypeOK, Places
  <2> QED BY <2>3, <2>4, <2>5 DEF IInv
<1>2. CASE LineNext
  BY <1>2, InputByteInv, BootInv, TestInv, TakeInv, DoPollInv, DoEventInv, PostOtherInv DEF LineNext
<1> QED BY <1>1, <1>2

LEMMA Invariance == ~BareErase /\ QueueHasRoom /\ LineSpec => []IInv
<1>1. ~BareErase /\ QueueHasRoom /\ IInv /\ [LineNext]_lineVars => IInv'
  BY NextInv
<1>2. CASE ~BareErase /\ QueueHasRoom
  <2>1. IInv /\ [LineNext]_lineVars => IInv'
    BY <1>1, <1>2
  <2> QED BY <2>1, InitInv, PTL DEF LineSpec
<1>3. CASE ~(~BareErase /\ QueueHasRoom)
  BY <1>3
<1> QED BY <1>2, <1>3

\* Indices of ring and line stay inside them, the event queue keeps its bound,
\* and the shell gets no more lines than terminators came in, if no backspace is
\* typed on an empty line and the queue has room for the events of a line.
THEOREM LineTypeCorrect == ~BareErase /\ QueueHasRoom /\ LineSpec => []LineTypeOK
<1>1. IInv => LineTypeOK
  BY DEF IInv, Typed
<1> QED BY <1>1, Invariance, PTL

\* The shell gets lines as they were typed, cut at most at their end, each once
\* and in order, wherever the interrupt falls.
THEOREM LinesStayIntact == ~BareErase /\ QueueHasRoom /\ LineSpec => LinesIntact
<1>1. IInv => (events # <<>> /\ Head(events) = "line" /\ events' = Tail(events) =>
                 \A i \in 1 .. Len(Text) :
                   Text[i] = <<Text[1][1], i - 1>> /\ Text[1][1] > heard)
  <2> SUFFICES ASSUME IInv, events # <<>>, Head(events) = "line", NEW i \in 1 .. Len(Text)
               PROVE  Text[i] = <<Text[1][1], i - 1>> /\ Text[1][1] > heard
    OBVIOUS
  <2>1. events \in Seq(Event)
    BY Facts
  <2>2. Head(events) = events[1] /\ 1 \in 1 .. Len(events)
    BY <2>1, TailQueued
  <2>3. LineQueued
    BY <2>2 DEF LineQueued
  <2>4. PICK m : Pending(m)
    BY <2>3 DEF IInv, Stream
  <2>5. PICK l \in Line :
          /\ heard < l /\ (Text = <<>> \/ Text[1][1] = l)
          /\ \A j \in 1 .. Len(Text) : Text[j] = <<l, j - 1>>
    BY <2>4, TextOf
  <2>6. Text # <<>>
    OBVIOUS
  <2>7. l > heard
    BY <2>5
  <2> QED BY <2>5, <2>6, <2>7
<1> QED BY <1>1, Invariance, PTL DEF LinesIntact
================================================================================
