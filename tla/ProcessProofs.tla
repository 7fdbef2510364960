----------------------------- MODULE ProcessProofs -----------------------------
(* Theorems of Process for every number of processes, every queue length and *)
(* any number of kernel calls, of threads that are orderly.                  *)
EXTENDS Process, SequenceTheorems, FiniteSetTheorems, WellFoundedInduction, TLAPS

\* No process is exited while it is called or exiting already, and no thread
\* posts a PROCESS_EVENT_INIT (process_start is the one that sends it).
Orderly == ~ExitActive /\ Inits \subseteq {FALSE}

-----------------------------------------------------------------------------
(* The inductive invariant: the list. *)

\* Under the links nx: none leads out of S.
Closed(nx, S) == \A x \in S : nx[x] \in S \union {Nil}

\* Every link within S leads to a higher rank.
Ordered(nx, S, rank) == \A x \in S : nx[x] \in S => rank[x] < rank[nx[x]]

\* The processes a loop that has come to p can still come to, over whatever
\* stale links.
Reach(nx, p) ==
  {x \in Proc : \A S \in SUBSET Proc : Closed(nx, S) /\ p \in S \union {Nil} => x \in S}

\* From p the links lead to an end, and not past any of S.
Ends(nx, p, S) ==
  \E T \in SUBSET (Proc \ S) : \E rank \in [Proc -> Nat] :
    Closed(nx, T) /\ p \in T \union {Nil} /\ Ordered(nx, T, rank)

-----------------------------------------------------------------------------
(* The call stack. *)

Event == {"init", "poll", "msg", "bcast", "exited", "exit", "synch"}

Frame ==
  [f : {"boot"}] \union [f : {"run"}, pc : {"poll", "event"}]
  \union [f : {"do_poll"}, p : Proc \union {Nil}, pc : {"test"}]
  \union [f : {"do_poll"}, p : Proc, pc : {"next"}]
  \union [f : {"broadcast"}, p : Proc \union {Nil}, pc : {"poll"}]
  \union [f : {"broadcast"}, p : Proc, pc : {"call", "next"}]
  \union [f : {"synch"}, caller : Proc \union {Nil}]
  \union [f : {"thread"}, p : Proc, ev : Event, direct : BOOLEAN]
  \union [f : {"exit"}, p : Proc, from : Proc, q : Proc \union {Nil},
          old : Proc \union {Nil}, pc : {"notify", "unlink"}]
  \union [f : {"exit"}, p : Proc, from : Proc, q : Proc,
          old : Proc \union {Nil}, pc : {"step"}]

\* G has called p through call_process, and waits for it.
Waits(G, p) ==
  \/ G = Run("poll")
  \/ G.f = "do_poll" /\ G.pc = "next" /\ G.p = p
  \/ G.f = "broadcast" /\ G.pc = "next"
  \/ G.f = "synch"
  \/ G.f = "exit" /\ G.pc = "step"

\* F may lie on the stack above G.
Fits(F, G) ==
  \/ F.f = "do_poll" /\ (G = Run("event") \/ (G.f = "broadcast" /\ G.pc = "call"))
  \/ F.f = "broadcast" /\ G = Run("poll")
  \/ F.f = "synch" /\ (G = Boot \/ (G.f = "thread" /\ F.caller = G.p))
  \/ F.f = "thread" /\ ~F.direct /\ Waits(G, F.p)
  \/ F.f = "thread" /\ F.direct /\ G.f = "exit" /\ G.p = F.p /\ G.pc = "unlink"
  \/ F.f = "exit" /\ (Waits(G, F.p) \/ (G.f = "thread" /\ F.old = G.p))

StackSound(s) ==
  /\ s \in Seq(Frame)
  /\ \A i \in 1 .. Len(s) :
       IF i = Len(s) THEN s[i].f \in {"boot", "run"} ELSE Fits(s[i], s[i + 1])

\* A call that has marked its process, and an exit.
IsCall(F) == F.f = "thread" /\ ~F.direct
IsExit(F) == F.f = "exit"
Holds(F, p) == (IsCall(F) \/ IsExit(F)) /\ F.p = p

\* The frames on the stack s say which processes are marked as called, and which
\* of those on the list are not running any more.
Held(s, st, listed) ==
  /\ \A i \in 1 .. Len(s) : IsCall(s[i]) => st[s[i].p] = "called"
  /\ \A i \in 1 .. Len(s) : IsExit(s[i]) => st[s[i].p] = "none" /\ s[i].p \in listed
  /\ \A p \in Proc : \A i, j \in 1 .. Len(s) : Holds(s[i], p) /\ Holds(s[j], p) => i = j
  /\ \A p \in Proc : st[p] = "called" => \E i \in 1 .. Len(s) : Holds(s[i], p)
  /\ \A p \in listed : st[p] = "none" => \E i \in 1 .. Len(s) : Holds(s[i], p)
  /\ \A p \in Proc : st[p] # "none" => p \in listed

-----------------------------------------------------------------------------
(* The loops. *)

\* Where the loop of a frame goes on.
Ahead(nx, F) == IF F.pc = "next" THEN nx[F.p] ELSE F.p

\* do_poll, which sets its process running whatever its state is, is at a
\* process of the list.
PollOnList(s, nx, listed) == Head(s).f = "do_poll" => Ahead(nx, Head(s)) \in listed \union {Nil}

\* A loop of do_poll on the stack s will come to all of S.
PollComes(s, nx, S) ==
  S = {} \/ \E i \in 1 .. Len(s) : s[i].f = "do_poll" /\ S \subseteq Reach(nx, Ahead(nx, s[i]))

\* So will the broadcast on the stack, if there is one.
BroadcastComes(s, nx, S) ==
  \A i \in 1 .. Len(s) : s[i].f = "broadcast" => S \subseteq Reach(nx, Ahead(nx, s[i]))

\* The broadcast goes on to no process of S.
BroadcastSpares(s, nx, S) ==
  \A i \in 1 .. Len(s) : s[i].f = "broadcast" => Ends(nx, Ahead(nx, s[i]), S)

Audience ==
  /\ \A p \in audience : state[p] # "none"
  /\ BroadcastComes(stack, next, audience \ heard)
  /\ calm => BroadcastSpares(stack, next, heard)

Polls ==
  /\ \A p \in owed : needspoll[p] /\ state[p] # "none"
  /\ pollRequested \/ PollComes(stack, next, owed)

IInv ==
  /\ TypeOK /\ StackSound(stack) /\ Ends(next, plist, {}) /\ Held(stack, state, Listed)
  /\ CurrentRuns /\ PollOnList(stack, next, Listed) /\ Polls /\ Audience

-----------------------------------------------------------------------------
(* The constants, and numbers. *)

LEMMA Params ==
  /\ IsFiniteSet(Proc) /\ Nil \notin Proc /\ IsrPolled \subseteq Proc
  /\ NumEvents \in Nat \ {0} /\ MaxOps \in Nat /\ Cardinality(Proc) \in Nat
BY ProcAssumption, FS_CardinalityType

\* Every set of numbers that is not empty has a least one.
LEMMA Least ==
  ASSUME NEW S \in SUBSET Nat, S # {}
  PROVE  \E n \in S : \A m \in S : n <= m
<1> DEFINE T == {0 .. n : n \in S}
<1>1. T \subseteq FiniteSubsetsOf(Nat)
  <2> SUFFICES ASSUME NEW n \in S PROVE 0 .. n \in FiniteSubsetsOf(Nat)
    OBVIOUS
  <2>1. IsFiniteSet(0 .. n) /\ 0 .. n \subseteq Nat
    BY FS_Interval
  <2> QED BY <2>1 DEF FiniteSubsetsOf
<1>2. T # {}
  OBVIOUS
<1>3. \E x \in T : \A y \in T : ~(<<y, x>> \in StrictSubsetOrdering(Nat))
  <2> HIDE DEF T
  <2> QED BY <1>1, <1>2, WFMin, FS_StrictSubsetOrderingWellFounded
<1>4. PICK n \in S : \A m \in S : ~(<<0 .. m, 0 .. n>> \in StrictSubsetOrdering(Nat))
  BY <1>3
<1>5. ASSUME NEW m \in S, m < n PROVE FALSE
  <2>1. 0 .. m \subseteq 0 .. n /\ n \in 0 .. n /\ n \notin 0 .. m
    BY <1>5
  <2>2. <<0 .. m, 0 .. n>> \in StrictSubsetOrdering(Nat)
    BY <2>1 DEF StrictSubsetOrdering
  <2> QED BY <2>2, <1>4
<1> QED BY <1>5

LEMMA SetInduction ==
  ASSUME NEW S \in SUBSET Nat, 0 \in S, \A n \in S : n + 1 \in S
  PROVE  S = Nat
<1> SUFFICES ASSUME Nat \ S # {} PROVE FALSE
  OBVIOUS
<1>1. PICK n \in Nat \ S : \A m \in Nat \ S : n <= m
  BY Least
<1>2. n # 0 /\ n - 1 \in Nat
  BY <1>1
<1>3. n - 1 \in S
  BY <1>1, <1>2
<1> QED BY <1>3, <1>1, <1>2

-----------------------------------------------------------------------------
(* The list. *)

LEMMA WalkDef ==
  /\ Walk[0] = plist
  /\ \A n \in 1 .. Cardinality(Proc) :
       Walk[n] = IF Walk[n - 1] = Nil THEN Nil ELSE next[Walk[n - 1]]
<1> DEFINE Of(g, n) ==
      g = [k \in 0 .. n |-> IF k = 0 THEN plist
                            ELSE IF g[k - 1] = Nil THEN Nil ELSE next[g[k - 1]]]
    S == {n \in Nat : \E g : Of(g, n)}
<1>1. 0 \in S
  <2>1. Of([k \in 0 .. 0 |-> plist], 0)
    OBVIOUS
  <2> QED BY <2>1
<1>2. ASSUME NEW n \in S PROVE n + 1 \in S
  <2>1. PICK g : Of(g, n)
    OBVIOUS
  <2> DEFINE h == [k \in 0 .. n + 1 |->
                     IF k = n + 1 THEN IF g[n] = Nil THEN Nil ELSE next[g[n]] ELSE g[k]]
  <2>2. \A k \in 0 .. n : h[k] = g[k]
    OBVIOUS
  <2>3. h[n + 1] = IF g[n] = Nil THEN Nil ELSE next[g[n]]
    OBVIOUS
  <2>4. \A k \in 0 .. n : g[k] = IF k = 0 THEN plist
                                 ELSE IF g[k - 1] = Nil THEN Nil ELSE next[g[k - 1]]
    BY <2>1, Zenon
  <2>5. ASSUME NEW k \in 0 .. n + 1
        PROVE  h[k] = IF k = 0 THEN plist
                      ELSE IF h[k - 1] = Nil THEN Nil ELSE next[h[k - 1]]
    <3> HIDE DEF h
    <3>1. CASE k = n + 1
      <4>1. k - 1 = n /\ k # 0 /\ n \in 0 .. n
        BY <3>1
      <4> QED BY <4>1, <2>2, <2>3, <3>1
    <3>2. CASE k \in 0 .. n
      <4>1. k # 0 => k - 1 \in 0 .. n
        BY <3>2
      <4> QED BY <4>1, <2>2, <2>4, <3>2
    <3> QED BY <3>1, <3>2
  <2>6. Of(h, n + 1)
    <3>1. h = [k \in 0 .. n + 1 |-> h[k]]
      OBVIOUS
    <3> HIDE DEF h
    <3> QED BY <3>1, <2>5, Zenon
  <2>7. n + 1 \in Nat
    OBVIOUS
  <2> HIDE DEF h, Of
  <2>8. \E g1 : Of(g1, n + 1)
    BY <2>6
  <2> QED BY <2>7, <2>8
<1>3. S = Nat
  <2> HIDE DEF S
  <2>1. S \in SUBSET Nat
    BY DEF S
  <2> QED BY <1>1, <1>2, <2>1, SetInduction
<1>4. \E g : Of(g, Cardinality(Proc))
  BY <1>3, Params
<1>5. Of(Walk, Cardinality(Proc))
  <2>1. Walk = CHOOSE g : Of(g, Cardinality(Proc))
    BY Zenon DEF Walk
  <2> HIDE DEF Of
  <2> QED BY <2>1, <1>4, Zenon
<1>6. \A k \in 0 .. Cardinality(Proc) :
        Walk[k] = IF k = 0 THEN plist
                  ELSE IF Walk[k - 1] = Nil THEN Nil ELSE next[Walk[k - 1]]
  BY <1>5, Zenon
<1> QED BY <1>6, Params

\* A walk stays within a set that no link leads out of.
LEMMA WalkWithin ==
  ASSUME NEW T \in SUBSET Proc, Closed(next, T), plist \in T \union {Nil}
  PROVE  \A n \in 0 .. Cardinality(Proc) : Walk[n] \in T \union {Nil}
<1> DEFINE S == {n \in Nat : n <= Cardinality(Proc) => Walk[n] \in T \union {Nil}}
<1>1. 0 \in S
  BY WalkDef
<1>2. ASSUME NEW n \in S PROVE n + 1 \in S
  <2> SUFFICES ASSUME n + 1 <= Cardinality(Proc) PROVE Walk[n + 1] \in T \union {Nil}
    OBVIOUS
  <2>1. Walk[n] \in T \union {Nil} /\ n + 1 \in 1 .. Cardinality(Proc) /\ (n + 1) - 1 = n
    BY Params
  <2>2. Walk[n + 1] = IF Walk[n] = Nil THEN Nil ELSE next[Walk[n]]
    BY <2>1, WalkDef
  <2> QED BY <2>1, <2>2 DEF Closed
<1>3. S = Nat
  <2> HIDE DEF S
  <2>1. S \in SUBSET Nat
    BY DEF S
  <2> QED BY <1>1, <1>2, <2>1, SetInduction
<1> QED BY <1>3, Params

\* On a walk the rank grows.
LEMMA WalkRank ==
  ASSUME NEW T \in SUBSET Proc, Closed(next, T), plist \in T \union {Nil},
         NEW rank \in [Proc -> Nat], Ordered(next, T, rank)
  PROVE  \A n \in 0 .. Cardinality(Proc) : Walk[n] # Nil =>
           \A m \in 0 .. n - 1 : Walk[m] # Nil /\ rank[Walk[m]] < rank[Walk[n]]
<1> DEFINE P(n) == Walk[n] # Nil =>
                     \A m \in 0 .. n - 1 : Walk[m] # Nil /\ rank[Walk[m]] < rank[Walk[n]]
           S == {n \in Nat : n <= Cardinality(Proc) => P(n)}
<1>1. 0 \in S
  OBVIOUS
<1>2. ASSUME NEW n \in S PROVE n + 1 \in S
  <2> SUFFICES ASSUME n + 1 <= Cardinality(Proc), Walk[n + 1] # Nil, NEW m \in 0 .. n
               PROVE  Walk[m] # Nil /\ rank[Walk[m]] < rank[Walk[n + 1]]
    OBVIOUS
  <2>1. n \in 0 .. Cardinality(Proc) /\ n + 1 \in 1 .. Cardinality(Proc) /\ (n + 1) - 1 = n
    BY Params
  <2>2. Walk[n + 1] = IF Walk[n] = Nil THEN Nil ELSE next[Walk[n]]
    BY <2>1, WalkDef
  <2>3. Walk[n] \in T /\ Walk[n + 1] = next[Walk[n]] /\ Walk[n + 1] \in T
    BY <2>1, <2>2, WalkWithin DEF Closed
  <2>4. Walk[n] # Nil /\ rank[Walk[n]] < rank[Walk[n + 1]]
    BY <2>3, Params DEF Ordered
  <2>5. CASE m = n
    BY <2>4, <2>5
  <2>6. CASE m \in 0 .. n - 1
    <3>1. Walk[m] # Nil /\ rank[Walk[m]] < rank[Walk[n]]
      BY <2>6, <2>4, <2>1
    <3>2. Walk[m] \in T
      <4>1. m \in 0 .. Cardinality(Proc)
        BY <2>6, <2>1, Params
      <4> QED BY <4>1, <3>1, WalkWithin
    <3>3. rank[Walk[m]] \in Nat /\ rank[Walk[n]] \in Nat /\ rank[Walk[n + 1]] \in Nat
      BY <3>2, <2>3
    <3> QED BY <3>1, <3>3, <2>4
  <2> QED BY <2>5, <2>6
<1>3. S = Nat
  <2> HIDE DEF S
  <2>1. S \in SUBSET Nat
    BY DEF S
  <2> QED BY <1>1, <1>2, <2>1, SetInduction
<1> QED BY <1>3, Params

LEMMA WalkEnds ==
  ASSUME NEW T \in SUBSET Proc, Closed(next, T), plist \in T \union {Nil},
         NEW rank \in [Proc -> Nat], Ordered(next, T, rank)
  PROVE  ListEnds
<1> SUFFICES ASSUME Walk[Cardinality(Proc)] # Nil PROVE FALSE
  BY DEF ListEnds
<1> DEFINE N == Cardinality(Proc)
           f == [n \in 0 .. N |-> Walk[n]]
<1>1. \A n \in 0 .. N : Walk[n] # Nil /\ Walk[n] \in T
  <2>1. \A n \in 0 .. N - 1 : Walk[n] # Nil
    BY WalkRank, Params
  <2> QED BY <2>1, WalkWithin, Params
<1>2. f \in [0 .. N -> Proc]
  BY <1>1
<1>3. IsFiniteSet(0 .. N) /\ Cardinality(0 .. N) = N + 1
  BY FS_Interval, Params
<1>4. \E x, y \in 0 .. N : x # y /\ f[x] = f[y]
  <2>1. Cardinality(Proc) < Cardinality(0 .. N)
    BY <1>3, Params
  <2>2. IsFiniteSet(0 .. N) /\ IsFiniteSet(Proc)
    BY <1>3, Params
  <2> HIDE DEF f, N
  <2> QED BY ONLY <2>1, <2>2, <1>2, FS_PigeonHole
<1>5. PICK x, y \in 0 .. N : x < y /\ Walk[x] = Walk[y]
  BY <1>4, Params
<1>6. rank[Walk[x]] < rank[Walk[y]] /\ rank[Walk[x]] \in Nat
  BY <1>5, <1>1, WalkRank, Params
<1> QED BY <1>5, <1>6

Links == plist \in Proc \union {Nil} /\ next \in [Proc -> Proc \union {Nil}]

\* Listed is the least set that holds the head and that no link leads out of.
ListKnown ==
  /\ ListEnds /\ Listed \in SUBSET Proc /\ plist \in Listed \union {Nil} /\ Closed(next, Listed)
  /\ \E rank \in [Proc -> Nat] : Ordered(next, Listed, rank)
  /\ \A S \in SUBSET Proc : Closed(next, S) /\ plist \in S \union {Nil} => Listed \subseteq S

LEMMA ListFacts == Links /\ Ends(next, plist, {}) => ListKnown
<1> SUFFICES ASSUME Links, Ends(next, plist, {}) PROVE ListKnown
  OBVIOUS
<1>1. PICK T \in SUBSET Proc, rank \in [Proc -> Nat] :
        Closed(next, T) /\ plist \in T \union {Nil} /\ Ordered(next, T, rank)
  BY DEF Ends
<1>2. ListEnds
  BY <1>1, WalkEnds
<1>3. ASSUME NEW S \in SUBSET Proc, Closed(next, S), plist \in S \union {Nil}
      PROVE  Listed \subseteq S
  BY <1>3, WalkWithin DEF Listed
<1>4. Listed \in SUBSET Proc /\ Listed \subseteq T
  BY <1>1, <1>3
<1>5. plist \in Listed \union {Nil}
  BY WalkDef, Params DEF Listed
<1>6. Closed(next, Listed)
  <2> SUFFICES ASSUME NEW n \in 0 .. Cardinality(Proc), Walk[n] # Nil
               PROVE  next[Walk[n]] \in Listed \union {Nil}
    BY DEF Closed, Listed
  <2>1. n # Cardinality(Proc)
    BY <1>2 DEF ListEnds
  <2>2. n + 1 \in 1 .. Cardinality(Proc) /\ (n + 1) - 1 = n /\ n + 1 \in 0 .. Cardinality(Proc)
    BY <2>1, Params
  <2>3. Walk[n + 1] = next[Walk[n]]
    BY <2>2, WalkDef
  <2> QED BY <2>2, <2>3 DEF Listed
<1>7. Ordered(next, Listed, rank)
  BY <1>1, <1>4 DEF Ordered
<1> QED BY <1>2, <1>3, <1>4, <1>5, <1>6, <1>7 DEF ListKnown

LEMMA ReachFacts ==
  /\ Reach(next, Nil) = {}
  /\ \A p \in Proc : Reach(next, p) \subseteq {p} \union Reach(next, next[p])
<1>1. Reach(next, Nil) = {}
  <2>1. Closed(next, {})
    BY DEF Closed
  <2> QED BY <2>1 DEF Reach
<1>2. ASSUME NEW p \in Proc, NEW x \in Reach(next, p), x # p PROVE x \in Reach(next, next[p])
  <2> SUFFICES ASSUME NEW S \in SUBSET Proc, Closed(next, S), next[p] \in S \union {Nil}
               PROVE  x \in S
    BY DEF Reach
  <2>1. Closed(next, S \union {p}) /\ p \in S \union {p} /\ S \union {p} \in SUBSET Proc
    BY DEF Closed
  <2> QED BY <2>1, <1>2 DEF Reach
<1> QED BY <1>1, <1>2

LEMMA ListedReached ==
  ASSUME ListKnown
  PROVE  Listed \subseteq Reach(next, plist)
BY DEF ListKnown, Reach

-----------------------------------------------------------------------------
(* What a process that leaves the list, and one that enters it, change. *)

Unlinks(x) ==
  /\ plist' = IF plist = x THEN next[x] ELSE plist
  /\ next' = IF plist = x THEN next
             ELSE [q \in Proc |-> IF q \in Listed /\ next[q] = x THEN next[x] ELSE next[q]]

LinksIn(q) == plist' = q /\ next' = [next EXCEPT ![q] = plist]

LEMMA Unlinked ==
  ASSUME Links, Ends(next, plist, {}), NEW x \in Listed, Unlinks(x)
  PROVE  /\ Links' /\ Ends(next, plist, {})' /\ Listed' = Listed \ {x}
         /\ x \in Proc /\ next'[x] = next[x] /\ next[x] \in Listed' \union {Nil}
<1>1. ListKnown
  BY ListFacts
<1>2. x \in Proc /\ x # Nil
  BY <1>1, Params DEF ListKnown
<1>3. PICK rank \in [Proc -> Nat] : Ordered(next, Listed, rank)
  BY <1>1 DEF ListKnown
<1>4. next[x] \in Listed \union {Nil} /\ next[x] # x
  <2>1. next[x] \in Listed \union {Nil}
    BY <1>1 DEF ListKnown, Closed
  <2>2. next[x] = x => rank[x] < rank[x] /\ rank[x] \in Nat
    BY <1>2, <1>3 DEF Ordered
  <2> QED BY <2>1, <2>2
<1>5. plist = x => \A y \in Listed : next[y] # x
  <2> SUFFICES ASSUME plist = x, NEW y \in Listed, next[y] = x PROVE FALSE
    OBVIOUS
  <2> DEFINE S == {z \in Listed : rank[z] >= rank[x]}
  <2>1. Closed(next, S)
    <3> SUFFICES ASSUME NEW z \in S, next[z] # Nil PROVE next[z] \in S
      BY DEF Closed
    <3>1. next[z] \in Listed /\ z \in Proc /\ next[z] \in Proc
      BY <1>1 DEF ListKnown, Closed
    <3>2. rank[z] < rank[next[z]]
      BY <1>3, <3>1 DEF Ordered
    <3>3. rank[z] \in Nat /\ rank[next[z]] \in Nat /\ rank[x] \in Nat /\ rank[z] >= rank[x]
      BY <3>1, <1>2
    <3> QED BY <3>1, <3>2, <3>3
  <2>2. x \in S /\ S \in SUBSET Proc
    BY <1>2, <1>1 DEF ListKnown
  <2>3. y \in S
    <3> HIDE DEF S
    <3> QED BY <2>1, <2>2, <1>1 DEF ListKnown
  <2>4. rank[y] < rank[x] /\ rank[y] \in Nat /\ rank[x] \in Nat
    BY <1>1, <1>2, <1>3 DEF Ordered, ListKnown
  <2> QED BY <2>3, <2>4
<1>6. \A y \in Proc : next'[y] = IF y \in Listed /\ next[y] = x THEN next[x] ELSE next[y]
  BY <1>5 DEF Unlinks, Links
<1>7. Links'
  BY <1>2 DEF Links, Unlinks
<1>8. \A y \in Listed \ {x} : next'[y] \in (Listed \ {x}) \union {Nil}
  <2> SUFFICES ASSUME NEW y \in Listed \ {x}
               PROVE  next'[y] \in (Listed \ {x}) \union {Nil}
    OBVIOUS
  <2>1. next[y] \in Listed \union {Nil} /\ y \in Proc
    BY <1>1 DEF ListKnown, Closed
  <2> QED BY <2>1, <1>6, <1>4
<1>9. plist' \in (Listed \ {x}) \union {Nil}
  BY <1>1, <1>4 DEF Unlinks, ListKnown
<1>10. \A y \in Listed \ {x} : next'[y] \in Listed \ {x} => rank[y] < rank[next'[y]]
  <2> SUFFICES ASSUME NEW y \in Listed \ {x}, next'[y] \in Listed \ {x}
               PROVE  rank[y] < rank[next'[y]]
    OBVIOUS
  <2>1. y \in Proc
    BY <1>1 DEF ListKnown
  <2>2. CASE next[y] = x
    <3>1. next'[y] = next[x]
      BY <2>2, <2>1, <1>6
    <3>2. rank[y] < rank[x] /\ rank[x] < rank[next[x]]
      BY <2>2, <3>1, <1>3 DEF Ordered
    <3>3. rank[y] \in Nat /\ rank[x] \in Nat /\ rank[next[x]] \in Nat
      BY <2>1, <1>2, <3>1, <1>1 DEF ListKnown
    <3> QED BY <3>1, <3>2, <3>3
  <2>3. CASE next[y] # x
    <3>1. next'[y] = next[y]
      BY <2>3, <2>1, <1>6
    <3> QED BY <3>1, <1>3 DEF Ordered
  <2> QED BY <2>2, <2>3
<1>11. Ends(next, plist, {})'
  <2>1. Listed \ {x} \in SUBSET (Proc \ {})
    BY <1>1 DEF ListKnown
  <2> QED BY <2>1, <1>8, <1>9, <1>10 DEF Ends, Closed, Ordered
<1>12. ListKnown'
  BY <1>7, <1>11, ListFacts, PTL

<1>13. /\ \A S \in SUBSET Proc :
             (\A y \in S : next'[y] \in S \union {Nil}) /\ plist' \in S \union {Nil}
               => Listed' \subseteq S
       /\ \A y \in Listed' : next'[y] \in Listed' \union {Nil}
       /\ plist' \in Listed' \union {Nil}
  BY <1>12 DEF ListKnown, Closed
<1>14. Listed' \subseteq Listed \ {x}
  <2>1. Listed \ {x} \in SUBSET Proc
    BY <1>1 DEF ListKnown
  <2> QED BY <2>1, <1>8, <1>9, <1>13
<1>15. Listed \ {x} \subseteq Listed'
  <2> DEFINE S == (Listed' \union {x}) \intersect Listed
  <2>1. S \in SUBSET Proc
    BY <1>1 DEF ListKnown
  <2>2. plist \in S \union {Nil}
    <3>1. plist # x => plist' = plist
      BY DEF Unlinks
    <3> QED BY <3>1, <1>13, <1>1 DEF ListKnown
  <2>3. next[x] \in Listed' \union {Nil} => Closed(next, S)
    <3> SUFFICES ASSUME next[x] \in Listed' \union {Nil}, NEW y \in S
                 PROVE  next[y] \in S \union {Nil}
      BY DEF Closed
    <3>1. next[y] \in Listed \union {Nil} /\ y \in Proc
      BY <1>1 DEF ListKnown, Closed
    <3>2. CASE y = x
      BY <3>1, <3>2
    <3>3. CASE y # x
      <4>1. next'[y] \in Listed' \union {Nil}
        BY <3>3, <1>13
      <4> QED BY <4>1, <3>1, <1>6
    <3> QED BY <3>2, <3>3
  <2>4. next[x] \in Listed' \union {Nil}
    <3> SUFFICES ASSUME next[x] \notin Listed' \union {Nil} PROVE FALSE
      OBVIOUS
    <3> DEFINE U == Listed' \intersect Listed
    <3>1. x \notin Listed'
      BY <1>13, <1>2, <1>6, <1>4
    <3>2. plist # x
      BY <1>13 DEF Unlinks
    <3>3. plist \in U \union {Nil}
      BY <3>2, <1>13, <1>1 DEF Unlinks, ListKnown
    <3>4. \A y \in U : next[y] \in U \union {Nil}
      <4> SUFFICES ASSUME NEW y \in U PROVE next[y] \in U \union {Nil}
        OBVIOUS
      <4>1. next[y] \in Listed \union {Nil} /\ y \in Proc
        BY <1>1 DEF ListKnown, Closed
      <4>2. next'[y] \in Listed' \union {Nil}
        BY <1>13
      <4> QED BY <4>1, <4>2, <1>6
    <3>5. Listed \subseteq U
      <4>1. U \in SUBSET Proc /\ Closed(next, U)
        BY <3>4, <1>1 DEF ListKnown, Closed
      <4> HIDE DEF U
      <4> QED BY <4>1, <3>3, <1>1 DEF ListKnown
    <3> QED BY <3>5, <3>1
  <2>5. Listed \subseteq S
    <3> HIDE DEF S
    <3> QED BY <2>1, <2>2, <2>3, <2>4, <1>1 DEF ListKnown
  <2> QED BY <2>5
<1>16. next'[x] = next[x]
  BY <1>2, <1>4, <1>6
<1> QED BY <1>2, <1>4, <1>7, <1>11, <1>14, <1>15, <1>16

\* A loop loses sight of no process but the one that leaves.
LEMMA UnlinkedAhead ==
  ASSUME Links, Ends(next, plist, {}), NEW x \in Listed, Unlinks(x), NEW F, F.p \in Proc \union {Nil},
         F.pc = "next" => F.p # Nil
  PROVE  /\ Reach(next, Ahead(next, F)) \subseteq {x} \union Reach(next, Ahead(next, F))'
         /\ UNCHANGED heard /\ Ends(next, Ahead(next, F), heard) => Ends(next, Ahead(next, F), heard)'
<1>1. x \in Proc /\ x # Nil
  BY Unlinked, Params
<1>2. \A y \in Proc : next'[y] = next[y] \/ (next[y] = x /\ next'[y] = next[x])
  BY DEF Unlinks, Links
<1>3. next'[x] = next[x]
  BY Unlinked
<1>4. Ahead(next, F)' = Ahead(next, F) \/ (Ahead(next, F) = x /\ Ahead(next, F)' = next[x])
  BY <1>2 DEF Ahead
<1>5. ASSUME NEW y \in Reach(next, Ahead(next, F)), y # x PROVE y \in Reach(next, Ahead(next, F))'
  <2>1. SUFFICES ASSUME NEW S \in SUBSET Proc, \A z \in S : next'[z] \in S \union {Nil},
                        Ahead(next, F)' \in S \union {Nil}
                 PROVE  y \in S
    BY <1>5 DEF Reach, Closed
  <2>2. CASE next[x] \in S \union {Nil}
    <3>1. Closed(next, S \union {x})
      <4> SUFFICES ASSUME NEW z \in S \union {x} PROVE next[z] \in S \union {x, Nil}
        BY DEF Closed
      <4> QED BY <2>1, <2>2, <1>1, <1>2
    <3>2. S \union {x} \in SUBSET Proc /\ Ahead(next, F) \in (S \union {x}) \union {Nil}
      BY <1>4, <2>1, <1>1
    <3>3. y \in S \union {x}
      BY <3>1, <3>2 DEF Reach
    <3> QED BY <3>3, <1>5
  <2>3. CASE next[x] \notin S \union {Nil}
    <3>1. \A z \in S : next[z] \in S \union {Nil}
      BY <2>1, <2>3, <1>2, <1>3, <1>1
    <3>2. Ahead(next, F) \in S \union {Nil}
      BY <1>4, <2>1, <2>3
    <3> QED BY <3>1, <3>2 DEF Reach, Closed
  <2> QED BY <2>2, <2>3
<1>6. ASSUME UNCHANGED heard, Ends(next, Ahead(next, F), heard) PROVE Ends(next, Ahead(next, F), heard)'
  <2>1. PICK T \in SUBSET (Proc \ heard), rank \in [Proc -> Nat] :
          Closed(next, T) /\ Ahead(next, F) \in T \union {Nil} /\ Ordered(next, T, rank)
    BY <1>6 DEF Ends
  <2>2. \A z \in T : next'[z] \in T \union {Nil}
    BY <2>1, <1>1, <1>2 DEF Closed
  <2>3. Ahead(next, F)' \in T \union {Nil}
    BY <2>1, <1>1, <1>4 DEF Closed
  <2>4. \A z \in T : next'[z] \in T => rank[z] < rank[next'[z]]
    <3> SUFFICES ASSUME NEW z \in T, next'[z] \in T PROVE rank[z] < rank[next'[z]]
      OBVIOUS
    <3>1. CASE next'[z] = next[z]
      BY <3>1, <2>1 DEF Ordered
    <3>2. CASE next[z] = x /\ next'[z] = next[x]
      <4>1. x \in T
        BY <3>2, <2>1, <1>1 DEF Closed
      <4>2. rank[z] < rank[x] /\ rank[x] < rank[next[x]]
        BY <3>2, <4>1, <2>1 DEF Ordered
      <4>3. rank[z] \in Nat /\ rank[x] \in Nat /\ rank[next[x]] \in Nat
        BY <3>2, <4>1
      <4> QED BY <4>2, <4>3, <3>2
    <3> QED BY <3>1, <3>2, <1>2
  <2>5. T \in SUBSET (Proc \ heard')
    BY <1>6
  <2> QED BY <2>2, <2>3, <2>4, <2>5 DEF Ends, Closed, Ordered
<1> QED BY <1>5, <1>6

LEMMA Linked ==
  ASSUME Links, Ends(next, plist, {}), NEW q \in Proc, q \notin Listed, LinksIn(q)
  PROVE  Links' /\ Ends(next, plist, {})' /\ Listed' = Listed \union {q}
<1>1. ListKnown
  BY ListFacts
<1>2. PICK rank \in [Proc -> Nat] : Ordered(next, Listed, rank)
  BY <1>1 DEF ListKnown
<1>3. Links' /\ \A y \in Proc : next'[y] = IF y = q THEN plist ELSE next[y]
  BY DEF Links, LinksIn
<1>4. Listed \in SUBSET Proc /\ \A y \in Listed : next[y] \in Listed \union {Nil}
  BY <1>1 DEF ListKnown, Closed
<1> DEFINE T == Listed \union {q}
           rank2 == [y \in Proc |-> IF y = q THEN 0 ELSE rank[y] + 1]
<1>5. T \in SUBSET (Proc \ {}) /\ plist' \in T \union {Nil}
  BY <1>4 DEF LinksIn
<1>6. \A y \in T : next'[y] \in T \union {Nil}
  BY <1>1, <1>3, <1>4 DEF ListKnown
<1>7. rank2 \in [Proc -> Nat] /\ \A y \in T : next'[y] \in T => rank2[y] < rank2[next'[y]]
  <2>1. rank2 \in [Proc -> Nat]
    OBVIOUS
  <2>2. ASSUME NEW y \in T, next'[y] \in T PROVE rank2[y] < rank2[next'[y]]
    <3>1. next'[y] \in Listed
      BY <1>1, <1>3, <1>4, <2>2, Params DEF ListKnown
    <3>2. rank2[next'[y]] = rank[next'[y]] + 1 /\ rank[next'[y]] \in Nat
      BY <3>1, <1>4
    <3>3. CASE y = q
      BY <3>2, <3>3
    <3>4. CASE y # q
      <4>1. y \in Listed /\ y \in Proc /\ next'[y] = next[y]
        BY <3>4, <1>3, <1>4
      <4>2. rank2[y] = rank[y] + 1 /\ rank[y] \in Nat
        BY <3>4, <4>1
      <4>3. rank[y] < rank[next[y]]
        BY <4>1, <3>1, <1>2 DEF Ordered
      <4> QED BY <4>1, <4>2, <4>3, <3>2
    <3> QED BY <3>3, <3>4
  <2> QED BY <2>1, <2>2
<1>8. Ends(next, plist, {})'
  <2> HIDE DEF T, rank2
  <2> QED BY <1>5, <1>6, <1>7 DEF Ends, Closed, Ordered
<1>9. ListKnown'
  BY <1>3, <1>8, ListFacts, PTL
<1>10. /\ \A S \in SUBSET Proc :
             (\A y \in S : next'[y] \in S \union {Nil}) /\ plist' \in S \union {Nil}
               => Listed' \subseteq S
       /\ \A y \in Listed' : next'[y] \in Listed' \union {Nil}
       /\ plist' \in Listed' \union {Nil}
  BY <1>9 DEF ListKnown, Closed
<1>11. Listed' \subseteq T
  <2> HIDE DEF T
  <2> QED BY <1>5, <1>6, <1>10
<1>12. q \in Listed'
  BY <1>10, Params DEF LinksIn
<1>13. Listed \subseteq Listed'
  <2> DEFINE S == Listed' \intersect Listed
  <2>1. S \in SUBSET Proc
    BY <1>4
  <2>2. plist \in S \union {Nil}
    BY <1>12, <1>10, <1>3, <1>1 DEF ListKnown
  <2>3. \A y \in S : next[y] \in S \union {Nil}
    BY <1>4, <1>10, <1>3
  <2>4. Closed(next, S)
    BY <2>3 DEF Closed
  <2>5. Listed \subseteq S
    <3> HIDE DEF S
    <3> QED BY <2>1, <2>2, <2>4, <1>1 DEF ListKnown
  <2> QED BY <2>5
<1> QED BY <1>3, <1>8, <1>11, <1>12, <1>13

\* A process that comes to the head hides no listed process from a loop.
LEMMA LinkedAhead ==
  ASSUME Links, Ends(next, plist, {}), NEW q \in Proc, q \notin Listed, LinksIn(q),
         NEW F, F.p \in Proc \union {Nil}, F.pc = "next" => F.p # Nil
  PROVE  Reach(next, Ahead(next, F)) \intersect Listed \subseteq Reach(next, Ahead(next, F))'
<1> SUFFICES ASSUME NEW y \in Reach(next, Ahead(next, F)), y \in Listed,
                    NEW S \in SUBSET Proc, \A z \in S : next'[z] \in S \union {Nil},
                    Ahead(next, F)' \in S \union {Nil}
             PROVE  y \in S
  <2>1. Listed \in SUBSET Proc
    BY ListFacts DEF ListKnown
  <2> QED BY <2>1 DEF Reach, Closed
<1>1. ListKnown
  BY ListFacts
<1>2. \A z \in Proc : next'[z] = IF z = q THEN plist ELSE next[z]
  BY DEF Links, LinksIn
<1>3. CASE plist \in S \union {Nil}
  <2> DEFINE U == S \intersect Listed
  <2>1. U \in SUBSET Proc /\ plist \in U \union {Nil}
    BY <1>1, <1>3 DEF ListKnown
  <2>2. \A z \in U : next[z] \in U \union {Nil}
    <3> SUFFICES ASSUME NEW z \in U PROVE next[z] \in U \union {Nil}
      OBVIOUS
    <3>1. next[z] \in Listed \union {Nil}
      BY <1>1 DEF ListKnown, Closed
    <3> QED BY <3>1, <1>2
  <2>3. Closed(next, U)
    BY <2>2 DEF Closed
  <2>4. Listed \subseteq U
    <3> HIDE DEF U
    <3> QED BY <2>1, <2>3, <1>1 DEF ListKnown
  <2> QED BY <2>4
<1>4. CASE plist \notin S \union {Nil}
  <2>1. q \notin S
    BY <1>2, <1>4
  <2>2. \A z \in S : next[z] \in S \union {Nil}
    BY <2>1, <1>2
  <2>3. Ahead(next, F) \in S \union {Nil}
    BY <1>2, <1>4 DEF Ahead
  <2> QED BY <2>2, <2>3 DEF Reach, Closed
<1> QED BY <1>3, <1>4

-----------------------------------------------------------------------------
(* Stacks: a frame is pushed or popped. *)

Push(F, s) == <<F>> \o s

LEMMA PushSeq ==
  ASSUME NEW S, NEW F \in S, NEW s \in Seq(S)
  PROVE  /\ Push(F, s) \in Seq(S) /\ Push(F, s) # <<>> /\ Len(Push(F, s)) = Len(s) + 1
         /\ Push(F, s)[1] = F /\ Head(Push(F, s)) = F /\ Tail(Push(F, s)) = s
         /\ \A i \in 1 .. Len(s) : Push(F, s)[i + 1] = s[i]
         /\ \A i \in 1 .. Len(s) + 1 : i # 1 => i - 1 \in 1 .. Len(s) /\ Push(F, s)[i] = s[i - 1]
<1> DEFINE t == Push(F, s)
<1>1. t \in Seq(S) /\ Len(t) = Len(s) + 1 /\ t[1] = F /\ \A i \in 1 .. Len(s) : t[i + 1] = s[i]
  BY DEF Push
<1>2. t # <<>> /\ Head(t) = F
  BY <1>1
<1>3. Tail(t) = s
  <2>1. Tail(t) \in Seq(S) /\ Len(Tail(t)) = Len(s) /\ \A i \in 1 .. Len(s) : Tail(t)[i] = t[i + 1]
    BY <1>1, <1>2
  <2>2. \A i \in 1 .. Len(s) : Tail(t)[i] = s[i]
    BY <2>1, <1>1
  <2> HIDE DEF t
  <2> QED BY <2>1, <2>2, SeqEqual
<1>4. \A i \in 1 .. Len(s) + 1 : i # 1 => i - 1 \in 1 .. Len(s) /\ t[i] = s[i - 1]
  <2> SUFFICES ASSUME NEW i \in 1 .. Len(s) + 1, i # 1
               PROVE  i - 1 \in 1 .. Len(s) /\ t[i] = s[i - 1]
    OBVIOUS
  <2>1. i - 1 \in 1 .. Len(s) /\ (i - 1) + 1 = i
    OBVIOUS
  <2> HIDE DEF t
  <2> QED BY <2>1, <1>1
<1> QED BY <1>1, <1>2, <1>3, <1>4

LEMMA PopSeq ==
  ASSUME NEW S, NEW s \in Seq(S), s # <<>>
  PROVE  /\ Head(s) = s[1] /\ Head(s) \in S /\ Tail(s) \in Seq(S)
         /\ Len(Tail(s)) = Len(s) - 1 /\ Len(s) \in Nat \ {0}
         /\ \A i \in 1 .. Len(s) - 1 : Tail(s)[i] = s[i + 1]
         /\ s = Push(Head(s), Tail(s))
<1>1. Head(s) = s[1] /\ Head(s) \in S /\ Tail(s) \in Seq(S) /\ Len(s) \in Nat \ {0}
      /\ Len(Tail(s)) = Len(s) - 1 /\ \A i \in 1 .. Len(s) - 1 : Tail(s)[i] = s[i + 1]
  OBVIOUS
<1> DEFINE h == Head(s)
           r == Tail(s)
<1>2. h \in S /\ r \in Seq(S)
  BY <1>1
<1>3. Push(h, r) \in Seq(S) /\ Len(Push(h, r)) = Len(s) /\ Push(h, r)[1] = s[1]
  <2> HIDE DEF h, r
  <2>1. Push(h, r) \in Seq(S) /\ Len(Push(h, r)) = Len(r) + 1 /\ Push(h, r)[1] = h
    BY <1>2, PushSeq
  <2> QED BY <2>1, <1>1 DEF h, r
<1>4. \A i \in 1 .. Len(s) : Push(h, r)[i] = s[i]
  <2> SUFFICES ASSUME NEW i \in 1 .. Len(s), i # 1 PROVE Push(h, r)[i] = s[i]
    BY <1>3
  <2>1. Len(r) + 1 = Len(s)
    BY <1>1
  <2>2. i - 1 \in 1 .. Len(s) - 1 /\ (i - 1) + 1 = i
    BY <1>1
  <2>3. r[i - 1] = s[i]
    BY <2>2, <1>1
  <2> HIDE DEF h, r
  <2>4. Push(h, r)[i] = r[i - 1]
    BY <2>1, <1>2, PushSeq
  <2> QED BY <2>3, <2>4
<1>5. s = Push(h, r)
  <2> HIDE DEF h, r
  <2> QED BY <1>3, <1>4, SeqEqual
<1> QED BY <1>1, <1>5

Sits(F, s) == IF s = <<>> THEN F.f \in {"boot", "run"} ELSE Fits(F, Head(s))

LEMMA PushSound ==
  ASSUME NEW s, StackSound(s), NEW F \in Frame, Sits(F, s)
  PROVE  StackSound(Push(F, s))
<1>1. s \in Seq(Frame)
  BY DEF StackSound
<1> SUFFICES ASSUME NEW i \in 1 .. Len(Push(F, s))
             PROVE  IF i = Len(Push(F, s)) THEN Push(F, s)[i].f \in {"boot", "run"}
                    ELSE Fits(Push(F, s)[i], Push(F, s)[i + 1])
  BY <1>1, PushSeq DEF StackSound
<1>2. Len(Push(F, s)) = Len(s) + 1 /\ Len(s) \in Nat
  BY <1>1, PushSeq
<1>3. CASE i = 1
  <2>1. Push(F, s)[1] = F
    BY <1>1, PushSeq
  <2>2. CASE s = <<>>
    BY <2>1, <2>2, <1>2, <1>3 DEF Sits
  <2>3. CASE s # <<>>
    <3>1. Len(s) # 0 /\ Head(s) = s[1] /\ 1 \in 1 .. Len(s)
      BY <2>3, <1>1, PopSeq
    <3>2. Push(F, s)[1 + 1] = s[1]
      BY <3>1, <1>1, PushSeq
    <3> QED BY <2>1, <2>3, <3>1, <3>2, <1>2, <1>3 DEF Sits
  <2> QED BY <2>2, <2>3
<1>4. CASE i # 1
  <2>1. i - 1 \in 1 .. Len(s) /\ Push(F, s)[i] = s[i - 1]
    <3>1. i \in 1 .. Len(s) + 1
      BY <1>2
    <3> QED BY <3>1, <1>4, <1>1, PushSeq
  <2>2. IF i - 1 = Len(s) THEN s[i - 1].f \in {"boot", "run"} ELSE Fits(s[i - 1], s[(i - 1) + 1])
    BY <2>1 DEF StackSound
  <2>3. CASE i - 1 = Len(s)
    BY <2>1, <2>2, <2>3, <1>2
  <2>4. CASE i - 1 # Len(s)
    <3>1. i \in 1 .. Len(s) /\ (i - 1) + 1 = i
      BY <2>1, <2>4
    <3>2. Push(F, s)[i + 1] = s[i]
      BY <3>1, <1>1, PushSeq
    <3> QED BY <3>1, <3>2, <2>1, <2>2, <2>4, <1>2
  <2> QED BY <2>3, <2>4
<1> QED BY <1>3, <1>4

LEMMA PopSound ==
  ASSUME NEW s, StackSound(s), s # <<>>
  PROVE  StackSound(Tail(s)) /\ Sits(Head(s), Tail(s)) /\ Head(s) \in Frame
<1> DEFINE t == Tail(s)
<1>1. s \in Seq(Frame)
  BY DEF StackSound
<1>2. Head(s) = s[1] /\ Head(s) \in Frame /\ t \in Seq(Frame)
      /\ Len(t) = Len(s) - 1 /\ Len(s) \in Nat \ {0}
      /\ \A i \in 1 .. Len(s) - 1 : t[i] = s[i + 1]
  BY <1>1, PopSeq
<1> HIDE DEF t
<1>3. \A i \in 1 .. Len(s) : IF i = Len(s) THEN s[i].f \in {"boot", "run"} ELSE Fits(s[i], s[i + 1])
  BY DEF StackSound
<1>4. StackSound(t)
  <2> SUFFICES ASSUME NEW i \in 1 .. Len(t)
               PROVE  IF i = Len(t) THEN t[i].f \in {"boot", "run"} ELSE Fits(t[i], t[i + 1])
    BY <1>2 DEF StackSound
  <2>1. i \in 1 .. Len(s) - 1 /\ i + 1 \in 1 .. Len(s) /\ t[i] = s[i + 1]
    BY <1>2
  <2>2. i # Len(t) => t[i + 1] = s[(i + 1) + 1]
    <3> SUFFICES ASSUME i # Len(t) PROVE t[i + 1] = s[(i + 1) + 1]
      OBVIOUS
    <3>1. i + 1 \in 1 .. Len(s) - 1
      BY <1>2
    <3> QED BY <3>1, <1>2
  <2> QED BY <2>1, <2>2, <1>2, <1>3
<1>5. Sits(Head(s), t)
  <2>1. 1 \in 1 .. Len(s)
    BY <1>2
  <2>2. CASE t = <<>>
    <3>1. Len(s) = 1
      BY <2>2, <1>2
    <3> QED BY <3>1, <2>1, <2>2, <1>2, <1>3 DEF Sits
  <2>3. CASE t # <<>>
    <3>1. Len(t) # 0 /\ Head(t) = t[1] /\ Len(t) \in Nat
      BY <2>3, <1>2, PopSeq
    <3>2. 1 # Len(s) /\ 1 \in 1 .. Len(s) - 1
      BY <3>1, <1>2
    <3>3. t[1] = s[1 + 1]
      BY <3>2, <1>2
    <3> QED BY <3>1, <3>2, <3>3, <2>3, <1>2, <1>3 DEF Sits
  <2> QED BY <2>2, <2>3
<1> QED BY <1>2, <1>4, <1>5 DEF t

LEMMA PushTop ==
  ASSUME NEW F \in Frame, NEW s \in Seq(Frame)
  PROVE  Push(F, s) \in Seq(Frame) /\ Push(F, s) # <<>> /\ Head(Push(F, s)) = F
BY PushSeq

\* The frames of a stack with one pushed on it.
LEMMA PushFrames ==
  ASSUME NEW s \in Seq(Frame), NEW F \in Frame
  PROVE  /\ Len(Push(F, s)) = Len(s) + 1 /\ Len(s) \in Nat
         /\ \A i \in 1 .. Len(Push(F, s)) :
              (i = 1 /\ Push(F, s)[i] = F) \/ (i - 1 \in 1 .. Len(s) /\ Push(F, s)[i] = s[i - 1])
         /\ \A i \in 1 .. Len(s) : i + 1 \in 1 .. Len(Push(F, s)) /\ Push(F, s)[i + 1] = s[i]
         /\ 1 \in 1 .. Len(Push(F, s)) /\ Push(F, s)[1] = F
<1> DEFINE t == Push(F, s)
<1>1. /\ Len(t) = Len(s) + 1 /\ t[1] = F
      /\ \A i \in 1 .. Len(s) : t[i + 1] = s[i]
  BY PushSeq
<1>2. Len(s) \in Nat
  OBVIOUS
<1>3. \A i \in 1 .. Len(s) + 1 : i # 1 => i - 1 \in 1 .. Len(s) /\ t[i] = s[i - 1]
  BY PushSeq
<1> HIDE DEF t
<1>4. \A i \in 1 .. Len(t) : (i = 1 /\ t[i] = F) \/ (i - 1 \in 1 .. Len(s) /\ t[i] = s[i - 1])
  BY <1>1, <1>2, <1>3
<1>5. \A i \in 1 .. Len(s) : i + 1 \in 1 .. Len(t) /\ t[i + 1] = s[i]
  BY <1>1, <1>2
<1> QED BY <1>1, <1>2, <1>4, <1>5 DEF t

-----------------------------------------------------------------------------
(* What the frames say of the processes, when one is pushed or popped. *)

Marks == [Proc -> {"none", "running", "called"}]

\* Frames that are neither calls nor exits say nothing.
LEMMA HeldPlain ==
  ASSUME NEW s \in Seq(Frame), NEW F \in Frame, ~IsCall(F), ~IsExit(F), NEW st, NEW l
  PROVE  Held(Push(F, s), st, l) <=> Held(s, st, l)
<1> DEFINE t == Push(F, s)
<1>1. /\ Len(t) = Len(s) + 1 /\ Len(s) \in Nat
      /\ \A i \in 1 .. Len(t) : (i = 1 /\ t[i] = F) \/ (i - 1 \in 1 .. Len(s) /\ t[i] = s[i - 1])
      /\ \A i \in 1 .. Len(s) : i + 1 \in 1 .. Len(t) /\ t[i + 1] = s[i]
      /\ 1 \in 1 .. Len(t) /\ t[1] = F
  BY PushFrames
<1> HIDE DEF t
<1>2. ASSUME Held(s, st, l) PROVE Held(t, st, l)
  <2>1. \A p \in Proc : \A i, j \in 1 .. Len(t) : Holds(t[i], p) /\ Holds(t[j], p) => i = j
    <3> SUFFICES ASSUME NEW p \in Proc, NEW i \in 1 .. Len(t), NEW j \in 1 .. Len(t),
                        Holds(t[i], p), Holds(t[j], p)
                 PROVE  i = j
      OBVIOUS
    <3>1. i # 1 /\ j # 1
      BY <1>1 DEF Holds
    <3>2. i - 1 \in 1 .. Len(s) /\ j - 1 \in 1 .. Len(s) /\ Holds(s[i - 1], p) /\ Holds(s[j - 1], p)
      BY <3>1, <1>1
    <3>3. i - 1 = j - 1
      BY <3>2, <1>2 DEF Held
    <3> QED BY <3>3
  <2>2. \A i \in 1 .. Len(t) : IsCall(t[i]) => st[t[i].p] = "called"
    BY <1>1, <1>2 DEF Held
  <2>3. \A i \in 1 .. Len(t) : IsExit(t[i]) => st[t[i].p] = "none" /\ t[i].p \in l
    BY <1>1, <1>2 DEF Held
  <2>4. \A p \in Proc : st[p] = "called" => \E i \in 1 .. Len(t) : Holds(t[i], p)
    <3> SUFFICES ASSUME NEW p \in Proc, st[p] = "called" PROVE \E i \in 1 .. Len(t) : Holds(t[i], p)
      OBVIOUS
    <3>1. PICK i \in 1 .. Len(s) : Holds(s[i], p)
      BY <1>2 DEF Held
    <3> QED BY <3>1, <1>1
  <2>5. \A p \in l : st[p] = "none" => \E i \in 1 .. Len(t) : Holds(t[i], p)
    <3> SUFFICES ASSUME NEW p \in l, st[p] = "none" PROVE \E i \in 1 .. Len(t) : Holds(t[i], p)
      OBVIOUS
    <3>1. PICK i \in 1 .. Len(s) : Holds(s[i], p)
      BY <1>2 DEF Held
    <3> QED BY <3>1, <1>1
  <2> QED BY <2>1, <2>2, <2>3, <2>4, <2>5, <1>2 DEF Held
<1>3. ASSUME Held(t, st, l) PROVE Held(s, st, l)
  <2>1. \A p \in Proc : \A i, j \in 1 .. Len(s) : Holds(s[i], p) /\ Holds(s[j], p) => i = j
    <3> SUFFICES ASSUME NEW p \in Proc, NEW i \in 1 .. Len(s), NEW j \in 1 .. Len(s),
                        Holds(s[i], p), Holds(s[j], p)
                 PROVE  i = j
      OBVIOUS
    <3>1. i + 1 = j + 1
      BY <1>1, <1>3 DEF Held
    <3> QED BY <3>1
  <2>2. \A i \in 1 .. Len(s) : IsCall(s[i]) => st[s[i].p] = "called"
    BY <1>1, <1>3 DEF Held
  <2>3. \A i \in 1 .. Len(s) : IsExit(s[i]) => st[s[i].p] = "none" /\ s[i].p \in l
    BY <1>1, <1>3 DEF Held
  <2>4. \A p : (\E i \in 1 .. Len(t) : Holds(t[i], p)) => \E i \in 1 .. Len(s) : Holds(s[i], p)
    BY <1>1 DEF Holds
  <2> QED BY <2>1, <2>2, <2>3, <2>4, <1>3 DEF Held
<1> QED BY <1>2, <1>3 DEF t

\* A process that is running is called.
LEMMA HeldCall ==
  ASSUME NEW s \in Seq(Frame), NEW F \in Frame, IsCall(F), F.p \in Proc,
         NEW st \in Marks, NEW l \in SUBSET Proc, Held(s, st, l), st[F.p] = "running"
  PROVE  Held(Push(F, s), [st EXCEPT ![F.p] = "called"], l)
<1> DEFINE t == Push(F, s)
<1>1. /\ Len(t) = Len(s) + 1 /\ Len(s) \in Nat
      /\ \A i \in 1 .. Len(t) : (i = 1 /\ t[i] = F) \/ (i - 1 \in 1 .. Len(s) /\ t[i] = s[i - 1])
      /\ \A i \in 1 .. Len(s) : i + 1 \in 1 .. Len(t) /\ t[i + 1] = s[i]
      /\ 1 \in 1 .. Len(t) /\ t[1] = F
  BY PushFrames
<1> HIDE DEF t
<1> DEFINE st2 == [st EXCEPT ![F.p] = "called"]
<1>2. st2[F.p] = "called" /\ (\A p \in Proc : p # F.p => st2[p] = st[p]) /\ F.p \in l
  BY DEF Held, Marks
<1> HIDE DEF st2
<1>3. ~(IsCall(F) /\ IsExit(F)) /\ Holds(F, F.p)
  BY DEF IsCall, IsExit, Holds
<1>4. \A i \in 1 .. Len(s) : ~Holds(s[i], F.p)
  BY DEF Held, Holds
<1>5. \A i \in 1 .. Len(s) : IsCall(s[i]) \/ IsExit(s[i]) => s[i].p \in Proc /\ s[i].p # F.p
  <2> SUFFICES ASSUME NEW i \in 1 .. Len(s), IsCall(s[i]) \/ IsExit(s[i])
               PROVE  s[i].p \in Proc /\ s[i].p # F.p
    OBVIOUS
  <2>1. s[i] \in Frame
    OBVIOUS
  <2>2. s[i].p \in Proc
    BY <2>1 DEF Frame, IsCall, IsExit
  <2> QED BY <2>2, <1>4 DEF Holds
<1>6. \A p \in Proc : \A i, j \in 1 .. Len(t) : Holds(t[i], p) /\ Holds(t[j], p) => i = j
  <2> SUFFICES ASSUME NEW p \in Proc, NEW i \in 1 .. Len(t), NEW j \in 1 .. Len(t),
                      Holds(t[i], p), Holds(t[j], p), i # 1 \/ j # 1
               PROVE  i = j
    OBVIOUS
  <2>1. \A k \in 1 .. Len(t) : k # 1 => k - 1 \in 1 .. Len(s) /\ t[k] = s[k - 1]
    BY <1>1
  <2>2. p # F.p
    <3>1. PICK k \in {i, j} : k # 1
      OBVIOUS
    <3>2. k - 1 \in 1 .. Len(s) /\ Holds(s[k - 1], p)
      BY <2>1, <3>1
    <3> QED BY <3>2, <1>4
  <2>3. i # 1 /\ j # 1
    BY <2>2, <1>1 DEF Holds
  <2>4. i - 1 \in 1 .. Len(s) /\ j - 1 \in 1 .. Len(s) /\ Holds(s[i - 1], p) /\ Holds(s[j - 1], p)
    BY <2>1, <2>3
  <2>5. i - 1 = j - 1
    BY <2>4 DEF Held
  <2> QED BY <2>5
<1>7. \A i \in 1 .. Len(t) : IsCall(t[i]) => st2[t[i].p] = "called"
  <2> SUFFICES ASSUME NEW i \in 1 .. Len(t), IsCall(t[i]) PROVE st2[t[i].p] = "called"
    OBVIOUS
  <2>1. CASE i = 1
    BY <2>1, <1>1, <1>2, <1>3
  <2>2. CASE i # 1
    <3>1. i - 1 \in 1 .. Len(s) /\ t[i] = s[i - 1]
      BY <2>2, <1>1
    <3>2. st[s[i - 1].p] = "called"
      BY <3>1 DEF Held
    <3> QED BY <3>1, <3>2, <1>2, <1>5
  <2> QED BY <2>1, <2>2
<1>8. \A i \in 1 .. Len(t) : IsExit(t[i]) => st2[t[i].p] = "none" /\ t[i].p \in l
  <2> SUFFICES ASSUME NEW i \in 1 .. Len(t), IsExit(t[i]) PROVE st2[t[i].p] = "none" /\ t[i].p \in l
    OBVIOUS
  <2>1. CASE i = 1
    BY <2>1, <1>1, <1>2, <1>3
  <2>2. CASE i # 1
    <3>1. i - 1 \in 1 .. Len(s) /\ t[i] = s[i - 1]
      BY <2>2, <1>1
    <3>2. st[s[i - 1].p] = "none" /\ s[i - 1].p \in l
      BY <3>1 DEF Held
    <3> QED BY <3>1, <3>2, <1>2, <1>5
  <2> QED BY <2>1, <2>2
<1>9. \A p \in Proc : st2[p] # "none" => p \in l
  BY <1>2 DEF Held
<1>10. \A p \in Proc : (p = F.p \/ \E i \in 1 .. Len(s) : Holds(s[i], p))
                        => \E i \in 1 .. Len(t) : Holds(t[i], p)
  BY <1>1, <1>3
<1>11. \A p \in Proc : st2[p] = "called" => \E i \in 1 .. Len(t) : Holds(t[i], p)
  BY <1>2, <1>10 DEF Held
<1>12. \A p \in l : st2[p] = "none" => \E i \in 1 .. Len(t) : Holds(t[i], p)
  BY <1>2, <1>10 DEF Held
<1> QED BY <1>6, <1>7, <1>8, <1>9, <1>11, <1>12 DEF Held, t, st2

\* A process that is running begins to exit.
LEMMA HeldExit ==
  ASSUME NEW s \in Seq(Frame), NEW F \in Frame, IsExit(F), F.p \in Proc,
         NEW st \in Marks, NEW l \in SUBSET Proc, Held(s, st, l), st[F.p] = "running"
  PROVE  Held(Push(F, s), [st EXCEPT ![F.p] = "none"], l)
<1> DEFINE t == Push(F, s)
<1>1. /\ Len(t) = Len(s) + 1 /\ Len(s) \in Nat
      /\ \A i \in 1 .. Len(t) : (i = 1 /\ t[i] = F) \/ (i - 1 \in 1 .. Len(s) /\ t[i] = s[i - 1])
      /\ \A i \in 1 .. Len(s) : i + 1 \in 1 .. Len(t) /\ t[i + 1] = s[i]
      /\ 1 \in 1 .. Len(t) /\ t[1] = F
  BY PushFrames
<1> HIDE DEF t
<1> DEFINE st2 == [st EXCEPT ![F.p] = "none"]
<1>2. st2[F.p] = "none" /\ (\A p \in Proc : p # F.p => st2[p] = st[p]) /\ F.p \in l
  BY DEF Held, Marks
<1> HIDE DEF st2
<1>3. ~(IsCall(F) /\ IsExit(F)) /\ Holds(F, F.p)
  BY DEF IsCall, IsExit, Holds
<1>4. \A i \in 1 .. Len(s) : ~Holds(s[i], F.p)
  BY DEF Held, Holds
<1>5. \A i \in 1 .. Len(s) : IsCall(s[i]) \/ IsExit(s[i]) => s[i].p \in Proc /\ s[i].p # F.p
  <2> SUFFICES ASSUME NEW i \in 1 .. Len(s), IsCall(s[i]) \/ IsExit(s[i])
               PROVE  s[i].p \in Proc /\ s[i].p # F.p
    OBVIOUS
  <2>1. s[i] \in Frame
    OBVIOUS
  <2>2. s[i].p \in Proc
    BY <2>1 DEF Frame, IsCall, IsExit
  <2> QED BY <2>2, <1>4 DEF Holds
<1>6. \A p \in Proc : \A i, j \in 1 .. Len(t) : Holds(t[i], p) /\ Holds(t[j], p) => i = j
  <2> SUFFICES ASSUME NEW p \in Proc, NEW i \in 1 .. Len(t), NEW j \in 1 .. Len(t),
                      Holds(t[i], p), Holds(t[j], p), i # 1 \/ j # 1
               PROVE  i = j
    OBVIOUS
  <2>1. \A k \in 1 .. Len(t) : k # 1 => k - 1 \in 1 .. Len(s) /\ t[k] = s[k - 1]
    BY <1>1
  <2>2. p # F.p
    <3>1. PICK k \in {i, j} : k # 1
      OBVIOUS
    <3>2. k - 1 \in 1 .. Len(s) /\ Holds(s[k - 1], p)
      BY <2>1, <3>1
    <3> QED BY <3>2, <1>4
  <2>3. i # 1 /\ j # 1
    BY <2>2, <1>1 DEF Holds
  <2>4. i - 1 \in 1 .. Len(s) /\ j - 1 \in 1 .. Len(s) /\ Holds(s[i - 1], p) /\ Holds(s[j - 1], p)
    BY <2>1, <2>3
  <2>5. i - 1 = j - 1
    BY <2>4 DEF Held
  <2> QED BY <2>5
<1>7. \A i \in 1 .. Len(t) : IsCall(t[i]) => st2[t[i].p] = "called"
  <2> SUFFICES ASSUME NEW i \in 1 .. Len(t), IsCall(t[i]) PROVE st2[t[i].p] = "called"
    OBVIOUS
  <2>1. CASE i = 1
    BY <2>1, <1>1, <1>2, <1>3
  <2>2. CASE i # 1
    <3>1. i - 1 \in 1 .. Len(s) /\ t[i] = s[i - 1]
      BY <2>2, <1>1
    <3>2. st[s[i - 1].p] = "called"
      BY <3>1 DEF Held
    <3> QED BY <3>1, <3>2, <1>2, <1>5
  <2> QED BY <2>1, <2>2
<1>8. \A i \in 1 .. Len(t) : IsExit(t[i]) => st2[t[i].p] = "none" /\ t[i].p \in l
  <2> SUFFICES ASSUME NEW i \in 1 .. Len(t), IsExit(t[i]) PROVE st2[t[i].p] = "none" /\ t[i].p \in l
    OBVIOUS
  <2>1. CASE i = 1
    BY <2>1, <1>1, <1>2, <1>3
  <2>2. CASE i # 1
    <3>1. i - 1 \in 1 .. Len(s) /\ t[i] = s[i - 1]
      BY <2>2, <1>1
    <3>2. st[s[i - 1].p] = "none" /\ s[i - 1].p \in l
      BY <3>1 DEF Held
    <3> QED BY <3>1, <3>2, <1>2, <1>5
  <2> QED BY <2>1, <2>2
<1>9. \A p \in Proc : st2[p] # "none" => p \in l
  BY <1>2 DEF Held
<1>10. \A p \in Proc : (p = F.p \/ \E i \in 1 .. Len(s) : Holds(s[i], p))
                        => \E i \in 1 .. Len(t) : Holds(t[i], p)
  BY <1>1, <1>3
<1>11. \A p \in Proc : st2[p] = "called" => \E i \in 1 .. Len(t) : Holds(t[i], p)
  BY <1>2, <1>10 DEF Held
<1>12. \A p \in l : st2[p] = "none" => \E i \in 1 .. Len(t) : Holds(t[i], p)
  BY <1>2, <1>10 DEF Held
<1> QED BY <1>6, <1>7, <1>8, <1>9, <1>11, <1>12 DEF Held, t, st2

\* A call ends.
LEMMA HeldReturn ==
  ASSUME NEW s \in Seq(Frame), NEW F \in Frame, IsCall(F), F.p \in Proc,
         NEW st \in Marks, NEW l \in SUBSET Proc, Held(Push(F, s), st, l)
  PROVE  Held(s, [st EXCEPT ![F.p] = "running"], l)
<1> DEFINE t == Push(F, s)
<1>1. /\ Len(t) = Len(s) + 1 /\ Len(s) \in Nat
      /\ \A i \in 1 .. Len(t) : (i = 1 /\ t[i] = F) \/ (i - 1 \in 1 .. Len(s) /\ t[i] = s[i - 1])
      /\ \A i \in 1 .. Len(s) : i + 1 \in 1 .. Len(t) /\ t[i + 1] = s[i]
      /\ 1 \in 1 .. Len(t) /\ t[1] = F
  BY PushFrames
<1> HIDE DEF t
<1> DEFINE st2 == [st EXCEPT ![F.p] = "running"]
           l2 == l
<1>2. (\A p \in Proc : p # F.p => st2[p] = st[p] /\ (p \in l2 <=> p \in l)) /\ l2 \in SUBSET Proc
  BY DEF Marks
<1>3. st2[F.p] = "running" /\ F.p \in l2
  BY <1>1 DEF Held, t, Marks
<1> HIDE DEF st2, l2
<1>4. Held(t, st, l)
  BY DEF t
<1>5. \A i \in 1 .. Len(s) : ~Holds(s[i], F.p)
  <2> SUFFICES ASSUME NEW i \in 1 .. Len(s), Holds(s[i], F.p) PROVE FALSE
    OBVIOUS
  <2>1. Holds(t[i + 1], F.p) /\ Holds(t[1], F.p) /\ i + 1 \in 1 .. Len(t)
    BY <1>1 DEF Holds
  <2>2. i + 1 = 1
    BY <2>1, <1>1, <1>4 DEF Held
  <2> QED BY <2>2
<1>6. \A i \in 1 .. Len(s) : IsCall(s[i]) \/ IsExit(s[i]) => s[i].p \in Proc /\ s[i].p # F.p
  <2> SUFFICES ASSUME NEW i \in 1 .. Len(s), IsCall(s[i]) \/ IsExit(s[i])
               PROVE  s[i].p \in Proc /\ s[i].p # F.p
    OBVIOUS
  <2>1. s[i] \in Frame
    OBVIOUS
  <2>2. s[i].p \in Proc
    BY <2>1 DEF Frame, IsCall, IsExit
  <2> QED BY <2>2, <1>5 DEF Holds
<1>7. \A p \in Proc : \A i, j \in 1 .. Len(s) : Holds(s[i], p) /\ Holds(s[j], p) => i = j
  <2> SUFFICES ASSUME NEW p \in Proc, NEW i \in 1 .. Len(s), NEW j \in 1 .. Len(s),
                      Holds(s[i], p), Holds(s[j], p)
               PROVE  i = j
    OBVIOUS
  <2>1. i + 1 = j + 1
    BY <1>1, <1>4 DEF Held
  <2> QED BY <2>1
<1>8. \A i \in 1 .. Len(s) : IsCall(s[i]) => st2[s[i].p] = "called"
  <2> SUFFICES ASSUME NEW i \in 1 .. Len(s), IsCall(s[i]) PROVE st2[s[i].p] = "called"
    OBVIOUS
  <2>1. st[s[i].p] = "called"
    BY <1>1, <1>4 DEF Held
  <2> QED BY <2>1, <1>2, <1>6
<1>9. \A i \in 1 .. Len(s) : IsExit(s[i]) => st2[s[i].p] = "none" /\ s[i].p \in l2
  <2> SUFFICES ASSUME NEW i \in 1 .. Len(s), IsExit(s[i])
               PROVE  st2[s[i].p] = "none" /\ s[i].p \in l2
    OBVIOUS
  <2>1. st[s[i].p] = "none" /\ s[i].p \in l
    BY <1>1, <1>4 DEF Held
  <2> QED BY <2>1, <1>2, <1>6
<1>10. \A p \in Proc : p # F.p /\ (\E i \in 1 .. Len(t) : Holds(t[i], p))
                        => \E i \in 1 .. Len(s) : Holds(s[i], p)
  BY <1>1 DEF Holds
<1>11. \A p \in Proc : st2[p] = "called" => \E i \in 1 .. Len(s) : Holds(s[i], p)
  BY <1>2, <1>3, <1>4, <1>10 DEF Held
<1>12. \A p \in l2 : st2[p] = "none" => \E i \in 1 .. Len(s) : Holds(s[i], p)
  BY <1>2, <1>3, <1>4, <1>10 DEF Held
<1>13. \A p \in Proc : st2[p] # "none" => p \in l2
  BY <1>2, <1>3, <1>4 DEF Held
<1> QED BY <1>7, <1>8, <1>9, <1>11, <1>12, <1>13 DEF Held, st2, l2

\* An exit ends.
LEMMA HeldGone ==
  ASSUME NEW s \in Seq(Frame), NEW F \in Frame, IsExit(F), F.p \in Proc,
         NEW st \in Marks, NEW l \in SUBSET Proc, Held(Push(F, s), st, l)
  PROVE  Held(s, st, l \ {F.p})
<1> DEFINE t == Push(F, s)
<1>1. /\ Len(t) = Len(s) + 1 /\ Len(s) \in Nat
      /\ \A i \in 1 .. Len(t) : (i = 1 /\ t[i] = F) \/ (i - 1 \in 1 .. Len(s) /\ t[i] = s[i - 1])
      /\ \A i \in 1 .. Len(s) : i + 1 \in 1 .. Len(t) /\ t[i + 1] = s[i]
      /\ 1 \in 1 .. Len(t) /\ t[1] = F
  BY PushFrames
<1> HIDE DEF t
<1> DEFINE st2 == st
           l2 == l \ {F.p}
<1>2. (\A p \in Proc : p # F.p => st2[p] = st[p] /\ (p \in l2 <=> p \in l)) /\ l2 \in SUBSET Proc
  BY DEF Marks
<1>3. st2[F.p] = "none" /\ F.p \notin l2
  BY <1>1 DEF Held, t, Marks
<1> HIDE DEF st2, l2
<1>4. Held(t, st, l)
  BY DEF t
<1>5. \A i \in 1 .. Len(s) : ~Holds(s[i], F.p)
  <2> SUFFICES ASSUME NEW i \in 1 .. Len(s), Holds(s[i], F.p) PROVE FALSE
    OBVIOUS
  <2>1. Holds(t[i + 1], F.p) /\ Holds(t[1], F.p) /\ i + 1 \in 1 .. Len(t)
    BY <1>1 DEF Holds
  <2>2. i + 1 = 1
    BY <2>1, <1>1, <1>4 DEF Held
  <2> QED BY <2>2
<1>6. \A i \in 1 .. Len(s) : IsCall(s[i]) \/ IsExit(s[i]) => s[i].p \in Proc /\ s[i].p # F.p
  <2> SUFFICES ASSUME NEW i \in 1 .. Len(s), IsCall(s[i]) \/ IsExit(s[i])
               PROVE  s[i].p \in Proc /\ s[i].p # F.p
    OBVIOUS
  <2>1. s[i] \in Frame
    OBVIOUS
  <2>2. s[i].p \in Proc
    BY <2>1 DEF Frame, IsCall, IsExit
  <2> QED BY <2>2, <1>5 DEF Holds
<1>7. \A p \in Proc : \A i, j \in 1 .. Len(s) : Holds(s[i], p) /\ Holds(s[j], p) => i = j
  <2> SUFFICES ASSUME NEW p \in Proc, NEW i \in 1 .. Len(s), NEW j \in 1 .. Len(s),
                      Holds(s[i], p), Holds(s[j], p)
               PROVE  i = j
    OBVIOUS
  <2>1. i + 1 = j + 1
    BY <1>1, <1>4 DEF Held
  <2> QED BY <2>1
<1>8. \A i \in 1 .. Len(s) : IsCall(s[i]) => st2[s[i].p] = "called"
  <2> SUFFICES ASSUME NEW i \in 1 .. Len(s), IsCall(s[i]) PROVE st2[s[i].p] = "called"
    OBVIOUS
  <2>1. st[s[i].p] = "called"
    BY <1>1, <1>4 DEF Held
  <2> QED BY <2>1, <1>2, <1>6
<1>9. \A i \in 1 .. Len(s) : IsExit(s[i]) => st2[s[i].p] = "none" /\ s[i].p \in l2
  <2> SUFFICES ASSUME NEW i \in 1 .. Len(s), IsExit(s[i])
               PROVE  st2[s[i].p] = "none" /\ s[i].p \in l2
    OBVIOUS
  <2>1. st[s[i].p] = "none" /\ s[i].p \in l
    BY <1>1, <1>4 DEF Held
  <2> QED BY <2>1, <1>2, <1>6
<1>10. \A p \in Proc : p # F.p /\ (\E i \in 1 .. Len(t) : Holds(t[i], p))
                        => \E i \in 1 .. Len(s) : Holds(s[i], p)
  BY <1>1 DEF Holds
<1>11. \A p \in Proc : st2[p] = "called" => \E i \in 1 .. Len(s) : Holds(s[i], p)
  BY <1>2, <1>3, <1>4, <1>10 DEF Held
<1>12. \A p \in l2 : st2[p] = "none" => \E i \in 1 .. Len(s) : Holds(s[i], p)
  BY <1>2, <1>3, <1>4, <1>10 DEF Held
<1>13. \A p \in Proc : st2[p] # "none" => p \in l2
  BY <1>2, <1>3, <1>4 DEF Held
<1> QED BY <1>7, <1>8, <1>9, <1>11, <1>12, <1>13 DEF Held, st2, l2

\* A process comes to the list.
LEMMA HeldNew ==
  ASSUME NEW s \in Seq(Frame), NEW st \in Marks, NEW l \in SUBSET Proc, NEW q \in Proc \ l,
         Held(s, st, l)
  PROVE  Held(s, [st EXCEPT ![q] = "running"], l \union {q})
<1> DEFINE st2 == [st EXCEPT ![q] = "running"]
<1>1. st2[q] = "running" /\ \A p \in Proc : p # q => st2[p] = st[p]
  BY DEF Marks
<1> HIDE DEF st2
<1>2. \A i \in 1 .. Len(s) : IsCall(s[i]) \/ IsExit(s[i]) => s[i].p \in Proc /\ s[i].p # q
  <2> SUFFICES ASSUME NEW i \in 1 .. Len(s), IsCall(s[i]) \/ IsExit(s[i])
               PROVE  s[i].p \in Proc /\ s[i].p # q
    OBVIOUS
  <2>1. s[i] \in Frame
    OBVIOUS
  <2>2. s[i].p \in Proc
    BY <2>1 DEF Frame, IsCall, IsExit
  <2> QED BY <2>2 DEF Held
<1>3. /\ \A i \in 1 .. Len(s) : IsCall(s[i]) => st2[s[i].p] = "called"
      /\ \A i \in 1 .. Len(s) : IsExit(s[i]) => st2[s[i].p] = "none" /\ s[i].p \in l \union {q}
  BY <1>1, <1>2 DEF Held
<1>4. /\ \A p \in Proc : st2[p] = "called" => \E i \in 1 .. Len(s) : Holds(s[i], p)
      /\ \A p \in l \union {q} : st2[p] = "none" => \E i \in 1 .. Len(s) : Holds(s[i], p)
      /\ \A p \in Proc : st2[p] # "none" => p \in l \union {q}
  BY <1>1 DEF Held
<1> QED BY <1>3, <1>4 DEF Held, st2

\* A frame that says the same takes the place of another.
Alike(F, G) ==
  /\ IsCall(F) <=> IsCall(G)
  /\ IsExit(F) <=> IsExit(G)
  /\ IsCall(F) \/ IsExit(F) => F.p = G.p

LEMMA HeldAlike ==
  ASSUME NEW s \in Seq(Frame), NEW F \in Frame, NEW G \in Frame, Alike(F, G),
         NEW st, NEW l, Held(Push(F, s), st, l)
  PROVE  Held(Push(G, s), st, l)
<1> DEFINE t == Push(F, s)
           u == Push(G, s)
<1>1. /\ Len(t) = Len(s) + 1 /\ Len(u) = Len(s) + 1 /\ Len(s) \in Nat
      /\ \A i \in 1 .. Len(t) : (i = 1 /\ t[i] = F) \/ (i - 1 \in 1 .. Len(s) /\ t[i] = s[i - 1])
      /\ \A i \in 1 .. Len(u) : (i = 1 /\ u[i] = G) \/ (i - 1 \in 1 .. Len(s) /\ u[i] = s[i - 1])
  BY PushFrames
<1>2. Held(t, st, l)
  OBVIOUS
<1> HIDE DEF t, u
<1>3. \A i \in 1 .. Len(t) : Alike(t[i], u[i])
  BY <1>1 DEF Alike
<1>4. \A i \in 1 .. Len(t) : \A p : Holds(t[i], p) <=> Holds(u[i], p)
  BY <1>3 DEF Alike, Holds
<1>5. /\ \A i \in 1 .. Len(t) : IsCall(u[i]) => st[u[i].p] = "called"
      /\ \A i \in 1 .. Len(t) : IsExit(u[i]) => st[u[i].p] = "none" /\ u[i].p \in l
  BY <1>2, <1>3 DEF Held, Alike
<1>6. /\ \A p \in Proc : \A i, j \in 1 .. Len(t) : Holds(u[i], p) /\ Holds(u[j], p) => i = j
      /\ \A p \in Proc : st[p] = "called" => \E i \in 1 .. Len(t) : Holds(u[i], p)
      /\ \A p \in l : st[p] = "none" => \E i \in 1 .. Len(t) : Holds(u[i], p)
      /\ \A p \in Proc : st[p] # "none" => p \in l
  BY <1>2, <1>4 DEF Held
<1>7. Len(u) = Len(t)
  BY <1>1
<1>8. Held(u, st, l)
  BY <1>5, <1>6, <1>7 DEF Held
<1> QED BY <1>8 DEF u

-----------------------------------------------------------------------------
(* The loops of the frames, when one is pushed or popped. *)

LEMMA PollPushed ==
  ASSUME NEW s \in Seq(Frame), NEW F \in Frame, NEW nx, NEW S
  PROVE  PollComes(Push(F, s), nx, S)
           <=> \/ PollComes(s, nx, S)
               \/ F.f = "do_poll" /\ S \subseteq Reach(nx, Ahead(nx, F))
<1> DEFINE t == Push(F, s)
<1>1. /\ Len(t) = Len(s) + 1 /\ Len(s) \in Nat
      /\ \A i \in 1 .. Len(t) : (i = 1 /\ t[i] = F) \/ (i - 1 \in 1 .. Len(s) /\ t[i] = s[i - 1])
      /\ \A i \in 1 .. Len(s) : i + 1 \in 1 .. Len(t) /\ t[i + 1] = s[i]
      /\ 1 \in 1 .. Len(t) /\ t[1] = F
  BY PushFrames
<1> HIDE DEF t
<1>2. PollComes(t, nx, S) => PollComes(s, nx, S) \/ (F.f = "do_poll" /\ S \subseteq Reach(nx, Ahead(nx, F)))
  BY <1>1 DEF PollComes
<1>3. PollComes(s, nx, S) => PollComes(t, nx, S)
  BY <1>1 DEF PollComes
<1>4. F.f = "do_poll" /\ S \subseteq Reach(nx, Ahead(nx, F)) => PollComes(t, nx, S)
  BY <1>1 DEF PollComes
<1> QED BY <1>2, <1>3, <1>4 DEF t

LEMMA BroadcastPushed ==
  ASSUME NEW s \in Seq(Frame), NEW F \in Frame, NEW nx, NEW S
  PROVE  /\ BroadcastComes(Push(F, s), nx, S)
              <=> /\ BroadcastComes(s, nx, S)
                  /\ F.f = "broadcast" => S \subseteq Reach(nx, Ahead(nx, F))
         /\ BroadcastSpares(Push(F, s), nx, S)
              <=> /\ BroadcastSpares(s, nx, S)
                  /\ F.f = "broadcast" => Ends(nx, Ahead(nx, F), S)
<1> DEFINE t == Push(F, s)
<1>1. /\ Len(t) = Len(s) + 1 /\ Len(s) \in Nat
      /\ \A i \in 1 .. Len(t) : (i = 1 /\ t[i] = F) \/ (i - 1 \in 1 .. Len(s) /\ t[i] = s[i - 1])
      /\ \A i \in 1 .. Len(s) : i + 1 \in 1 .. Len(t) /\ t[i + 1] = s[i]
      /\ 1 \in 1 .. Len(t) /\ t[1] = F
  BY PushFrames
<1> HIDE DEF t
<1>2. BroadcastComes(t, nx, S)
        => BroadcastComes(s, nx, S) /\ (F.f = "broadcast" => S \subseteq Reach(nx, Ahead(nx, F)))
  BY <1>1 DEF BroadcastComes
<1>3. BroadcastComes(s, nx, S) /\ (F.f = "broadcast" => S \subseteq Reach(nx, Ahead(nx, F)))
        => BroadcastComes(t, nx, S)
  BY <1>1 DEF BroadcastComes
<1>4. BroadcastSpares(t, nx, S)
        => BroadcastSpares(s, nx, S) /\ (F.f = "broadcast" => Ends(nx, Ahead(nx, F), S))
  BY <1>1 DEF BroadcastSpares
<1>5. BroadcastSpares(s, nx, S) /\ (F.f = "broadcast" => Ends(nx, Ahead(nx, F), S))
        => BroadcastSpares(t, nx, S)
  BY <1>1 DEF BroadcastSpares
<1> QED BY <1>2, <1>3, <1>4, <1>5 DEF t

LEMMA FewerComes ==
  ASSUME NEW s, NEW nx, NEW S, NEW T \in SUBSET S
  PROVE  /\ PollComes(s, nx, S) => PollComes(s, nx, T)
         /\ BroadcastComes(s, nx, S) => BroadcastComes(s, nx, T)
BY DEF PollComes, BroadcastComes

-----------------------------------------------------------------------------
(* Frames. *)

LEMMA FrameFields ==
  ASSUME NEW F \in Frame
  PROVE  /\ F.f \in {"boot", "run", "do_poll", "broadcast", "synch", "thread", "exit"}
         /\ F.f = "run" => F.pc \in {"poll", "event"} /\ F = Run(F.pc)
         /\ F.f = "boot" => F = Boot
         /\ F.f = "do_poll" => F.p \in Proc \union {Nil} /\ F.pc \in {"test", "next"}
                               /\ (F.pc = "next" => F.p \in Proc)
         /\ F.f = "broadcast" => F.p \in Proc \union {Nil} /\ F.pc \in {"poll", "call", "next"}
                               /\ (F.pc # "poll" => F.p \in Proc)
         /\ F.f = "synch" => F.caller \in Proc \union {Nil}
         /\ F.f = "thread" => F.p \in Proc /\ F.direct \in BOOLEAN
         /\ F.f = "exit" => F.p \in Proc /\ F.from \in Proc /\ F.q \in Proc \union {Nil}
                            /\ F.old \in Proc \union {Nil} /\ F.pc \in {"notify", "step", "unlink"}
                            /\ (F.pc = "step" => F.q \in Proc)
BY DEF Frame, Run, Boot

LEMMA FrameTypes ==
  /\ Boot \in Frame
  /\ \A pc \in {"poll", "event"} : Run(pc) \in Frame
  /\ \A p \in Proc \union {Nil} : DoPoll(p, "test") \in Frame /\ Bcast(p, "poll") \in Frame
                                  /\ Synch(p) \in Frame
  /\ \A p \in Proc : DoPoll(p, "next") \in Frame /\ Bcast(p, "next") \in Frame
                     /\ Bcast(p, "call") \in Frame
  /\ \A p \in Proc : \A ev \in Event : \A d \in BOOLEAN : Thread(p, ev, d) \in Frame
  /\ \A p, from \in Proc : \A q, old \in Proc \union {Nil} : \A pc \in {"notify", "unlink"} :
       ExitOf(p, from, q, old, pc) \in Frame
  /\ \A F \in Frame : F.f = "exit" =>
       /\ [F EXCEPT !.pc = "unlink"] \in Frame
       /\ F.q \in Proc => [F EXCEPT !.pc = "step"] \in Frame
       /\ \A q \in Proc \union {Nil} : [F EXCEPT !.q = q, !.pc = "notify"] \in Frame
<1>1. Boot \in Frame /\ \A pc \in {"poll", "event"} : Run(pc) \in Frame
  BY DEF Frame, Boot, Run
<1>2. \A p \in Proc \union {Nil} : DoPoll(p, "test") \in Frame /\ Bcast(p, "poll") \in Frame
                                   /\ Synch(p) \in Frame
  BY DEF Frame, DoPoll, Bcast, Synch
<1>3. \A p \in Proc : DoPoll(p, "next") \in Frame /\ Bcast(p, "next") \in Frame
                      /\ Bcast(p, "call") \in Frame
  BY DEF Frame, DoPoll, Bcast
<1>4. \A p \in Proc : \A ev \in Event : \A d \in BOOLEAN : Thread(p, ev, d) \in Frame
  BY DEF Frame, Thread
<1>5. \A p, from \in Proc : \A q, old \in Proc \union {Nil} : \A pc \in {"notify", "unlink"} :
        ExitOf(p, from, q, old, pc) \in Frame
  BY DEF Frame, ExitOf
<1>6. ASSUME NEW F \in Frame, F.f = "exit"
      PROVE  /\ [F EXCEPT !.pc = "unlink"] \in Frame
             /\ F.q \in Proc => [F EXCEPT !.pc = "step"] \in Frame
             /\ \A q \in Proc \union {Nil} : [F EXCEPT !.q = q, !.pc = "notify"] \in Frame
  BY <1>6 DEF Frame
<1> QED BY <1>1, <1>2, <1>3, <1>4, <1>5, <1>6

-----------------------------------------------------------------------------
(* The stack in a state of the invariant. *)

StackInv(s, st, l, nx, c) ==
  /\ s # <<>> /\ StackSound(s) /\ Held(s, st, l) /\ PollOnList(s, nx, l)
  /\ Head(s).f = "thread" => c = Head(s).p

\* The loops on the stack t come as far as those on s.
SameLoops(s, t, nx) ==
  \A S : /\ PollComes(s, nx, S) => PollComes(t, nx, S)
         /\ BroadcastComes(s, nx, S) => BroadcastComes(t, nx, S)
         /\ BroadcastSpares(s, nx, S) => BroadcastSpares(t, nx, S)

LEMMA Setup ==
  ASSUME IInv
  PROVE  /\ stack \in Seq(Frame) /\ stack # <<>> /\ Top \in Frame /\ Rest \in Seq(Frame)
         /\ stack = Push(Top, Rest) /\ StackSound(Rest) /\ Sits(Top, Rest)
         /\ Links /\ ListKnown /\ Listed \in SUBSET Proc
         /\ state \in Marks /\ current \in Proc \union {Nil}
         /\ StackInv(stack, state, Listed, next, current)
<1>1. stack # <<>> /\ StackSound(stack) /\ stack \in Seq(Frame)
  BY DEF IInv, TypeOK, StackSound
<1>2. Top \in Frame /\ Rest \in Seq(Frame) /\ stack = Push(Top, Rest)
      /\ StackSound(Rest) /\ Sits(Top, Rest)
  BY <1>1, PopSeq, PopSound DEF Top, Rest
<1>3. Links
  BY DEF IInv, TypeOK, Links
<1>4. ListKnown
  BY <1>3, ListFacts DEF IInv
<1>5. Listed \in SUBSET Proc
  BY <1>4 DEF ListKnown
<1>6. state \in Marks /\ current \in Proc \union {Nil}
  BY DEF IInv, TypeOK, Marks
<1>7. StackInv(stack, state, Listed, next, current)
  BY <1>1 DEF IInv, StackInv, CurrentRuns, Top
<1> QED BY <1>1, <1>2, <1>3, <1>4, <1>5, <1>6, <1>7

LEMMA EmptyStack ==
  /\ <<>> \in Seq(Frame) /\ StackSound(<<>>)
  /\ \A nx, S : BroadcastComes(<<>>, nx, S) /\ BroadcastSpares(<<>>, nx, S)
BY DEF StackSound, BroadcastComes, BroadcastSpares

\* What lies under a loop, and that something lies under a call.
LEMMA Under ==
  ASSUME NEW F \in Frame, NEW s, StackSound(s), Sits(F, s)
  PROVE  /\ F.f \in {"boot", "run"} => s = <<>>
         /\ F.f \notin {"boot", "run"} => s # <<>> /\ Head(s) \in Frame /\ Fits(F, Head(s))
         /\ F.f = "broadcast" => s = Push(Run("poll"), <<>>)
         /\ F.f = "do_poll" =>
              \/ s = Push(Run("event"), <<>>)
              \/ \E G \in Frame : /\ G.f = "broadcast" /\ G.pc = "call"
                                  /\ s = Push(G, Push(Run("poll"), <<>>))
<1>1. F.f \in {"boot", "run"} => s = <<>>
  BY DEF Sits, Fits
<1>2. F.f \notin {"boot", "run"} => s # <<>> /\ Fits(F, Head(s))
  BY DEF Sits
<1>3. s \in Seq(Frame)
  BY DEF StackSound
<1>4. s # <<>> => /\ Head(s) \in Frame /\ s = Push(Head(s), Tail(s))
                  /\ StackSound(Tail(s)) /\ Sits(Head(s), Tail(s))
  BY <1>3, PopSeq, PopSound
<1>5. \A G \in Frame : \A t : StackSound(t) /\ Sits(G, t) /\ G.f = "run" => t = <<>>
  BY DEF Sits, Fits
<1>6. \A pc : Run(pc).f = "run"
  BY DEF Run
<1>7. \A G \in Frame : \A t : StackSound(t) /\ Sits(G, t) /\ G.f = "broadcast"
                                => t = Push(Run("poll"), <<>>)
  <2> SUFFICES ASSUME NEW G \in Frame, NEW t, StackSound(t), Sits(G, t), G.f = "broadcast"
               PROVE  t = Push(Run("poll"), <<>>)
    OBVIOUS
  <2>1. t # <<>> /\ Head(t) = Run("poll")
    BY DEF Sits, Fits
  <2>2. t \in Seq(Frame)
    BY DEF StackSound
  <2>3. Head(t) \in Frame /\ t = Push(Head(t), Tail(t)) /\ StackSound(Tail(t))
        /\ Sits(Head(t), Tail(t))
    BY <2>1, <2>2, PopSeq, PopSound
  <2>4. Tail(t) = <<>>
    BY <2>1, <2>3, <1>5, <1>6
  <2> QED BY <2>1, <2>3, <2>4
<1>8. ASSUME F.f = "do_poll"
      PROVE  \/ s = Push(Run("event"), <<>>)
             \/ \E G \in Frame : /\ G.f = "broadcast" /\ G.pc = "call"
                                 /\ s = Push(G, Push(Run("poll"), <<>>))
  <2>1. s # <<>>
    BY <1>2, <1>8
  <2>2. Head(s) = Run("event") \/ (Head(s).f = "broadcast" /\ Head(s).pc = "call")
    BY <1>2, <1>8 DEF Fits
  <2>3. CASE Head(s) = Run("event")
    <3>1. Tail(s) = <<>>
      BY <2>1, <2>3, <1>4, <1>5, <1>6
    <3> QED BY <2>1, <2>3, <3>1, <1>4
  <2>4. CASE Head(s).f = "broadcast" /\ Head(s).pc = "call"
    <3>1. Tail(s) = Push(Run("poll"), <<>>)
      BY <2>1, <2>4, <1>4, <1>7
    <3> QED BY <2>1, <2>4, <3>1, <1>4
  <2> QED BY <2>2, <2>3, <2>4
<1> QED BY <1>1, <1>2, <1>4, <1>7, <1>8

\* While the scheduler runs, and not a call or an exit, the processes that run
\* are those on the list.
LEMMA SchedulerRuns ==
  ASSUME IInv, Top.f \in {"boot", "run", "do_poll", "broadcast"}
  PROVE  /\ Held(<<>>, state, Listed)
         /\ \A p \in Proc : (p \in Listed => state[p] = "running")
                            /\ (p \notin Listed => state[p] = "none")
<1>1. Held(stack, state, Listed)
  BY DEF IInv
<1>2. \A pc \in {"poll", "event"} : Run(pc) \in Frame /\ ~IsCall(Run(pc)) /\ ~IsExit(Run(pc))
  BY FrameTypes DEF Run, IsCall, IsExit
<1>3. Held(Rest, state, Listed)
  <2>1. ~IsCall(Top) /\ ~IsExit(Top)
    BY DEF IsCall, IsExit
  <2> QED BY <1>1, <2>1, Setup, HeldPlain
<1>4. ASSUME NEW pc \in {"poll", "event"}, Held(Push(Run(pc), <<>>), state, Listed)
      PROVE  Held(<<>>, state, Listed)
  BY <1>2, <1>4, EmptyStack, HeldPlain
<1>5. Held(<<>>, state, Listed)
  <2>1. CASE Top.f \in {"boot", "run"}
    BY <2>1, <1>3, Setup, Under
  <2>2. CASE Top.f = "broadcast"
    BY <2>2, <1>3, <1>4, Setup, Under
  <2>3. CASE Top.f = "do_poll"
    <3>1. CASE Rest = Push(Run("event"), <<>>)
      BY <3>1, <1>3, <1>4
    <3>2. ASSUME NEW G \in Frame, G.f = "broadcast", Rest = Push(G, Push(Run("poll"), <<>>))
          PROVE  Held(<<>>, state, Listed)
      <4>1. ~IsCall(G) /\ ~IsExit(G)
        BY <3>2 DEF IsCall, IsExit
      <4>2. Push(Run("poll"), <<>>) \in Seq(Frame)
        BY <1>2, EmptyStack, PushSeq
      <4>3. Held(Push(Run("poll"), <<>>), state, Listed)
        BY <4>1, <4>2, <3>2, <1>3, HeldPlain
      <4> QED BY <4>3, <1>4
    <3> QED BY <2>3, <3>1, <3>2, Setup, Under
  <2> QED BY <2>1, <2>2, <2>3
<1>6. \A i \in 1 .. Len(<<>>) : FALSE
  OBVIOUS
<1>7. state \in Marks
  BY Setup
<1> QED BY <1>5, <1>6, <1>7 DEF Held, Marks

LEMMA CallEffect ==
  ASSUME NEW s \in Marks, NEW p \in Proc, NEW ev \in Event, NEW st, st # <<>>,
         NEW l \in SUBSET Proc, NEW nx, StackSound(st), Held(st, s, l), PollOnList(st, nx, l),
         Waits(Head(st), p), current \in Proc \union {Nil}, CallProcess(s, p, ev, st)
  PROVE  /\ state' \in Marks /\ current' \in Proc \union {Nil}
         /\ StackInv(stack', state', l, nx, current') /\ SameLoops(st, stack', nx)
         /\ \A q \in Proc : state'[q] = "none" <=> s[q] = "none"
<1> DEFINE F == Thread(p, ev, FALSE)
<1>1. F \in Frame /\ F.f = "thread" /\ F.p = p /\ ~F.direct
  BY FrameTypes DEF Thread
<1>2. st \in Seq(Frame)
  BY DEF StackSound
<1>3. CASE s[p] = "running"
  <2>1. current' = p /\ state' = [s EXCEPT ![p] = "called"] /\ stack' = Push(F, st)
    BY <1>3 DEF CallProcess, Push
  <2> HIDE DEF F
  <2>2. StackSound(stack')
    <3>1. Sits(F, st)
      BY <1>1 DEF Sits, Fits
    <3> QED BY <1>1, <2>1, <3>1, PushSound
  <2>3. Held(stack', state', l)
    BY <1>1, <1>2, <1>3, <2>1, HeldCall DEF IsCall
  <2>4. stack' # <<>> /\ Head(stack') = F
    <3>1. Push(F, st) # <<>> /\ Head(Push(F, st)) = F
      BY <1>1, <1>2, PushSeq
    <3> QED BY <3>1, <2>1
  <2>5. SameLoops(st, stack', nx)
    BY <1>1, <1>2, <2>1, PollPushed, BroadcastPushed DEF SameLoops
  <2>6. PollOnList(stack', nx, l)
    BY <2>4, <1>1 DEF PollOnList
  <2>7. state' \in Marks /\ \A q \in Proc : state'[q] = "none" <=> s[q] = "none"
    BY <2>1, <1>3 DEF Marks
  <2> QED BY <2>1, <2>2, <2>3, <2>4, <2>5, <2>6, <2>7, <1>1 DEF StackInv
<1>4. CASE s[p] # "running"
  <2>1. current' = current /\ state' = s /\ stack' = st
    BY <1>4 DEF CallProcess
  <2>2. SameLoops(st, stack', nx)
    BY <2>1 DEF SameLoops
  <2>3. Head(st).f # "thread"
    BY DEF Waits, Run
  <2> QED BY <2>1, <2>2, <2>3 DEF StackInv
<1> QED BY <1>3, <1>4

LEMMA StackMade ==
  ASSUME NEW F \in Frame, NEW r, NEW st, NEW l, NEW nx, NEW c,
         StackSound(r), Sits(F, r), Held(Push(F, r), st, l),
         F.f = "do_poll" => Ahead(nx, F) \in l \union {Nil},
         F.f = "thread" => c = F.p
  PROVE  StackInv(Push(F, r), st, l, nx, c)
<1>1. r \in Seq(Frame)
  BY DEF StackSound
<1>2. Push(F, r) # <<>> /\ Head(Push(F, r)) = F
  BY <1>1, PushSeq
<1>3. StackSound(Push(F, r))
  BY PushSound
<1> QED BY <1>2, <1>3 DEF StackInv, PollOnList

LEMMA LoopsPush ==
  ASSUME NEW F \in Frame, NEW r \in Seq(Frame), NEW nx, F.f # "broadcast"
  PROVE  SameLoops(r, Push(F, r), nx)
BY PollPushed, BroadcastPushed DEF SameLoops

LEMMA LoopsPop ==
  ASSUME NEW F \in Frame, NEW r \in Seq(Frame), F.f = "do_poll" => F.pc = "test" /\ F.p = Nil
  PROVE  SameLoops(Push(F, r), r, next)
<1> SUFFICES ASSUME NEW S
             PROVE  /\ PollComes(Push(F, r), next, S) => PollComes(r, next, S)
                    /\ BroadcastComes(Push(F, r), next, S) => BroadcastComes(r, next, S)
                    /\ BroadcastSpares(Push(F, r), next, S) => BroadcastSpares(r, next, S)
  BY DEF SameLoops
<1>1. BroadcastComes(Push(F, r), next, S) => BroadcastComes(r, next, S)
  BY BroadcastPushed
<1>2. BroadcastSpares(Push(F, r), next, S) => BroadcastSpares(r, next, S)
  BY BroadcastPushed
<1>3. ASSUME PollComes(Push(F, r), next, S) PROVE PollComes(r, next, S)
  <2>1. PollComes(r, next, S) \/ (F.f = "do_poll" /\ S \subseteq Reach(next, Ahead(next, F)))
    BY <1>3, PollPushed
  <2>2. F.f = "do_poll" => Reach(next, Ahead(next, F)) = {}
    BY ReachFacts DEF Ahead
  <2> QED BY <2>1, <2>2 DEF PollComes
<1> QED BY <1>1, <1>2, <1>3

LEMMA LoopsAlike ==
  ASSUME NEW F \in Frame, NEW G \in Frame, NEW r \in Seq(Frame), NEW nx, F.f = G.f,
         F.f \in {"do_poll", "broadcast"} => Ahead(nx, F) = Ahead(nx, G)
  PROVE  SameLoops(Push(F, r), Push(G, r), nx)
BY PollPushed, BroadcastPushed DEF SameLoops

\* A step that leaves the links, the polls and the broadcast alone.
LEMMA LoopsKept ==
  ASSUME IInv, UNCHANGED <<next, needspoll, pollRequested, owed, history>>,
         \A q \in Proc : state'[q] = "none" <=> state[q] = "none",
         SameLoops(stack, stack', next)
  PROVE  Polls' /\ Audience'
<1>1. owed \in SUBSET Proc /\ audience \in SUBSET Proc
  BY DEF IInv, TypeOK
<1>2. next' = next /\ needspoll' = needspoll /\ pollRequested' = pollRequested
      /\ owed' = owed /\ audience' = audience /\ heard' = heard /\ calm' = calm
  BY DEF history
<1>3. pollRequested \/ PollComes(stack, next, owed)
  BY DEF IInv, Polls
<1>4. \A p \in owed : needspoll[p] /\ state'[p] # "none"
  BY <1>1 DEF IInv, Polls
<1>5. pollRequested' \/ PollComes(stack', next', owed')
  BY <1>2, <1>3 DEF SameLoops
<1>6. Polls'
  BY <1>2, <1>4, <1>5 DEF Polls
<1>7. \A p \in audience : state'[p] # "none"
  BY <1>1 DEF IInv, Audience
<1>8. BroadcastComes(stack', next', audience' \ heard')
  BY <1>2 DEF IInv, Audience, SameLoops
<1>9. calm' => BroadcastSpares(stack', next', heard')
  BY <1>2 DEF IInv, Audience, SameLoops
<1>10. Audience'
  BY <1>2, <1>7, <1>8, <1>9 DEF Audience
<1> QED BY <1>6, <1>10

LEMMA LinksKept ==
  ASSUME IInv, UNCHANGED <<plist, next>>
  PROVE  Ends(next, plist, {})' /\ Listed' = Listed
<1>1. Ends(next, plist, {})'
  BY DEF IInv
<1>2. Walk' = Walk
  BY DEF Walk
<1> QED BY <1>1, <1>2 DEF Listed

LEMMA Parts ==
  ASSUME TypeOK', Ends(next, plist, {})', Polls', Audience',
         StackInv(stack', state', Listed', next', current')
  PROVE  IInv'
BY DEF IInv, StackInv, CurrentRuns, Top

\* A step that leaves the list, the polls and the broadcast alone.
LEMMA StackStep ==
  ASSUME IInv, UNCHANGED <<plist, next, needspoll, pollRequested, history>>,
         events' = events \/ (events' \in Seq(Queued) /\ Len(events') <= NumEvents),
         ops' = ops \/ ops' \in 0 .. MaxOps,
         state' \in Marks, \A q \in Proc : state'[q] = "none" <=> state[q] = "none",
         current' \in Proc \union {Nil},
         StackInv(stack', state', Listed, next, current'), SameLoops(stack, stack', next)
  PROVE  IInv'
<1>1. Polls' /\ Audience'
  BY LoopsKept DEF history
<1>2. Ends(next, plist, {})' /\ Listed' = Listed
  BY LinksKept
<1>3. TypeOK'
  <2>1. stack' # <<>>
    BY DEF StackInv
  <2> QED BY <2>1 DEF IInv, TypeOK, history, Marks
<1> QED BY <1>1, <1>2, <1>3, Parts

\* The top frame gives way to another one that says the same of the processes.
LEMMA TopSwapped ==
  ASSUME IInv, NEW G \in Frame, Alike(Top, G), Sits(G, Rest), NEW c,
         G.f = "do_poll" => Ahead(next, G) \in Listed \union {Nil},
         G.f = "thread" => c = G.p
  PROVE  StackInv(Push(G, Rest), state, Listed, next, c)
<1>1. Held(Push(G, Rest), state, Listed)
  <2>1. Held(Push(Top, Rest), state, Listed)
    BY Setup DEF IInv
  <2> QED BY <2>1, Setup, HeldAlike
<1> QED BY <1>1, Setup, StackMade

\* The top frame returns, and said nothing of the processes.
LEMMA TopGone ==
  ASSUME IInv, ~IsCall(Top), ~IsExit(Top), Rest # <<>>, NEW c,
         Head(Rest).f # "do_poll", Head(Rest).f = "thread" => c = Head(Rest).p
  PROVE  StackInv(Rest, state, Listed, next, c)
<1>1. Held(Rest, state, Listed)
  BY Setup, HeldPlain DEF IInv
<1> QED BY <1>1, Setup DEF StackInv, PollOnList

-----------------------------------------------------------------------------
(* The steps of the scheduler. *)

LEMMA EndBootInv ==
  ASSUME IInv, EndBoot
  PROVE  IInv'
<1>1. Top \in Frame /\ Top.f = "boot" /\ Rest = <<>> /\ stack = Push(Top, Rest)
  BY Setup, Under DEF EndBoot
<1>2. stack' = Push(Run("poll"), Rest)
  BY <1>1 DEF EndBoot, Push
<1>3. UNCHANGED <<plist, next, state, needspoll, pollRequested, events, current, history>> /\ ops' = 0
  BY DEF EndBoot, kernel
<1>4. Run("poll") \in Frame /\ Run("poll").f = "run"
  BY FrameTypes DEF Run
<1>5. StackInv(stack', state, Listed, next, current)
  <2>1. Alike(Top, Run("poll")) /\ Sits(Run("poll"), Rest)
    BY <1>1, <1>4 DEF Alike, IsCall, IsExit, Sits
  <2> QED BY <2>1, <1>2, <1>4, TopSwapped
<1>6. SameLoops(stack, stack', next)
  <2>1. SameLoops(stack, <<>>, next)
    BY <1>1, EmptyStack, LoopsPop
  <2>2. SameLoops(<<>>, stack', next)
    BY <1>1, <1>2, <1>4, EmptyStack, LoopsPush
  <2> QED BY <2>1, <2>2 DEF SameLoops
<1>7. ops' \in 0 .. MaxOps
  BY <1>3, Params
<1> QED BY <1>3, <1>5, <1>6, <1>7, Setup, StackStep

\* p = p->next.
LEMMA DoPollNextInv ==
  ASSUME IInv, DoPollNext
  PROVE  IInv'
<1> DEFINE G == DoPoll(next[Top.p], "test")
<1>1. Top \in Frame /\ Top.f = "do_poll" /\ Top.pc = "next" /\ stack = Push(Top, Rest)
  BY Setup DEF DoPollNext
<1>2. stack' = Push(G, Rest)
  BY DEF DoPollNext, Push
<1>3. UNCHANGED <<plist, next, state, needspoll, pollRequested, events, current, ops, history>>
  BY DEF DoPollNext, kernel
<1>4. next[Top.p] \in Listed \union {Nil}
  BY <1>1 DEF IInv, PollOnList, Ahead, Top
<1>5. G \in Frame /\ G.f = "do_poll" /\ Ahead(next, G) = next[Top.p] /\ Ahead(next, Top) = next[Top.p]
  <2>1. next[Top.p] \in Proc \union {Nil}
    BY <1>4, Setup
  <2> QED BY <1>1, <2>1, FrameTypes DEF DoPoll, Ahead
<1> HIDE DEF G
<1>6. StackInv(stack', state, Listed, next, current)
  <2>1. Alike(Top, G)
    BY <1>1, <1>5 DEF Alike, IsCall, IsExit
  <2>2. Sits(G, Rest)
    BY <1>1, <1>5, Setup DEF Sits, Fits
  <2> QED BY <2>1, <2>2, <1>2, <1>4, <1>5, TopSwapped
<1>7. SameLoops(stack, stack', next)
  BY <1>1, <1>2, <1>5, Setup, LoopsAlike
<1> QED BY <1>3, <1>6, <1>7, Setup, StackStep

LEMMA DoPollEndInv ==
  ASSUME IInv, DoPollEnd
  PROVE  IInv'
<1>1. Top \in Frame /\ Top.f = "do_poll" /\ Top.p = Nil /\ Top.pc = "test" /\ stack = Push(Top, Rest)
  BY Setup, FrameFields, Params DEF DoPollEnd
<1>2. stack' = Rest
  BY DEF DoPollEnd
<1>3. UNCHANGED <<plist, next, state, needspoll, pollRequested, events, current, ops, history>>
  BY DEF DoPollEnd, kernel
<1>4. Rest # <<>> /\ Head(Rest).f \in {"run", "broadcast"}
  BY <1>1, Setup, Under DEF Fits, Run
<1>5. StackInv(stack', state, Listed, next, current)
  BY <1>1, <1>2, <1>4, TopGone DEF IsCall, IsExit
<1>6. SameLoops(stack, stack', next)
  BY <1>1, <1>2, Setup, LoopsPop
<1> QED BY <1>3, <1>5, <1>6, Setup, StackStep

LEMMA BcastNextInv ==
  ASSUME IInv, BcastNext
  PROVE  IInv'
<1> DEFINE G == Bcast(next[Top.p], "poll")
<1>1. Top \in Frame /\ Top.f = "broadcast" /\ Top.pc = "next" /\ stack = Push(Top, Rest)
  BY Setup DEF BcastNext
<1>2. stack' = Push(G, Rest)
  BY DEF BcastNext, Push
<1>3. UNCHANGED <<plist, next, state, needspoll, pollRequested, events, current, ops, history>>
  BY DEF BcastNext, kernel
<1>5. G \in Frame /\ G.f = "broadcast" /\ Ahead(next, G) = next[Top.p] /\ Ahead(next, Top) = next[Top.p]
  <2>1. next[Top.p] \in Proc \union {Nil}
    BY <1>1, Setup, FrameFields DEF Links
  <2> QED BY <1>1, <2>1, FrameTypes DEF Bcast, Ahead
<1> HIDE DEF G
<1>6. StackInv(stack', state, Listed, next, current)
  <2>1. Alike(Top, G)
    BY <1>1, <1>5 DEF Alike, IsCall, IsExit
  <2>2. Sits(G, Rest)
    BY <1>1, <1>5, Setup DEF Sits, Fits
  <2> QED BY <2>1, <2>2, <1>2, <1>5, TopSwapped
<1>7. SameLoops(stack, stack', next)
  BY <1>1, <1>2, <1>5, Setup, LoopsAlike
<1> QED BY <1>3, <1>6, <1>7, Setup, StackStep

LEMMA SynchReturnInv ==
  ASSUME IInv, SynchReturn
  PROVE  IInv'
<1>1. Top \in Frame /\ Top.f = "synch" /\ stack = Push(Top, Rest)
  BY Setup DEF SynchReturn
<1>2. stack' = Rest /\ current' = Top.caller
  BY DEF SynchReturn
<1>3. UNCHANGED <<plist, next, state, needspoll, pollRequested, events, ops, history>>
  BY DEF SynchReturn
<1>4. Rest # <<>> /\ Head(Rest).f # "do_poll" /\ (Head(Rest).f = "thread" => Top.caller = Head(Rest).p)
  BY <1>1, Setup, Under DEF Fits, Boot
<1>5. StackInv(stack', state, Listed, next, current')
  BY <1>1, <1>2, <1>4, TopGone DEF IsCall, IsExit
<1>6. SameLoops(stack, stack', next)
  BY <1>1, <1>2, Setup, LoopsPop
<1>7. current' \in Proc \union {Nil}
  BY <1>1, <1>2, FrameFields
<1> QED BY <1>3, <1>5, <1>6, <1>7, Setup, StackStep

LEMMA ExitHandlerReturnInv ==
  ASSUME IInv, ExitHandlerReturn
  PROVE  IInv'
<1>1. Top \in Frame /\ Top.f = "thread" /\ Top.direct /\ stack = Push(Top, Rest)
  BY Setup DEF ExitHandlerReturn
<1>2. stack' = Rest
  BY DEF ExitHandlerReturn
<1>3. UNCHANGED <<plist, next, state, needspoll, pollRequested, events, current, ops, history>>
  BY DEF ExitHandlerReturn, kernel
<1>4. Rest # <<>> /\ Head(Rest).f = "exit"
  BY <1>1, Setup, Under DEF Fits
<1>5. StackInv(stack', state, Listed, next, current)
  BY <1>1, <1>2, <1>4, TopGone DEF IsCall, IsExit
<1>6. SameLoops(stack, stack', next)
  BY <1>1, <1>2, Setup, LoopsPop
<1> QED BY <1>3, <1>5, <1>6, Setup, StackStep

LEMMA ExitStepInv ==
  ASSUME IInv, ExitStep
  PROVE  IInv'
<1> DEFINE G == [Top EXCEPT !.q = next[Top.q], !.pc = "notify"]
<1>1. Top \in Frame /\ Top.f = "exit" /\ Top.pc = "step" /\ stack = Push(Top, Rest)
  BY Setup DEF ExitStep
<1>2. stack' = Push(G, Rest)
  BY DEF ExitStep, Push
<1>3. UNCHANGED <<plist, next, state, needspoll, pollRequested, events, current, ops, history>>
  BY DEF ExitStep, kernel
<1>4. next[Top.q] \in Proc \union {Nil}
  BY <1>1, Setup, FrameFields DEF Links
<1>5. G \in Frame /\ G.f = "exit" /\ G.p = Top.p /\ G.old = Top.old
  <2>1. G \in Frame
    BY <1>1, <1>4, FrameTypes
  <2>2. G.f = "exit" /\ G.p = Top.p /\ G.old = Top.old
    BY <1>1 DEF Frame
  <2> QED BY <2>1, <2>2
<1> HIDE DEF G
<1>6. StackInv(stack', state, Listed, next, current)
  <2>1. Alike(Top, G)
    BY <1>1, <1>5 DEF Alike, IsCall, IsExit
  <2>2. Sits(G, Rest)
    BY <1>1, <1>5, Setup DEF Sits, Fits
  <2> QED BY <2>1, <2>2, <1>2, <1>5, TopSwapped
<1>7. SameLoops(stack, stack', next)
  BY <1>1, <1>2, <1>5, Setup, LoopsAlike
<1> QED BY <1>3, <1>6, <1>7, Setup, StackStep

\* The requested polls begin, in process_run or between two calls of a broadcast.
LEMMA PollsBegin ==
  ASSUME IInv, NEW st, StackInv(st, state, Listed, next, current), SameLoops(stack, st, next),
         Head(st) = Run("event") \/ (Head(st).f = "broadcast" /\ Head(st).pc = "call"),
         pollRequested' = FALSE, ops' = ops \/ ops' \in 0 .. MaxOps,
         UNCHANGED <<plist, next, state, needspoll, events, current, history>>,
         stack' = IF pollRequested THEN Push(DoPoll(plist, "test"), st) ELSE st
  PROVE  IInv'
<1> DEFINE F == DoPoll(plist, "test")
<1>1. F \in Frame /\ F.f = "do_poll" /\ Ahead(next, F) = plist
  BY Setup, FrameTypes DEF Links, DoPoll, Ahead
<1>2. st # <<>> /\ st \in Seq(Frame) /\ StackSound(st)
  BY DEF StackInv, StackSound
<1>3. ListKnown /\ Links /\ owed \in SUBSET Proc /\ Listed \in SUBSET Proc
  BY Setup DEF IInv, TypeOK
<1>4. owed \subseteq Reach(next, plist)
  <2>1. owed \subseteq Listed
    BY <1>3 DEF IInv, Polls, Held
  <2> QED BY <2>1, <1>3, ListedReached
<1> HIDE DEF F
<1>5. StackInv(stack', state, Listed, next, current)
  <2>1. CASE pollRequested
    <3>1. stack' = Push(F, st)
      BY <2>1 DEF F
    <3>2. ~IsCall(F) /\ ~IsExit(F)
      BY <1>1 DEF IsCall, IsExit
    <3>3. Held(Push(F, st), state, Listed)
      BY <3>2, <1>1, <1>2, HeldPlain DEF StackInv
    <3>4. Sits(F, st)
      BY <1>1, <1>2 DEF Sits, Fits
    <3>5. plist \in Listed \union {Nil}
      BY <1>3 DEF ListKnown
    <3> QED BY <3>1, <3>3, <3>4, <3>5, <1>1, <1>2, StackMade
  <2>2. CASE ~pollRequested
    BY <2>2
  <2> QED BY <2>1, <2>2
<1>6. SameLoops(st, stack', next)
  <2>1. CASE pollRequested
    <3>1. stack' = Push(F, st)
      BY <2>1 DEF F
    <3> QED BY <3>1, <1>1, <1>2, LoopsPush
  <2>2. CASE ~pollRequested
    BY <2>2 DEF SameLoops
  <2> QED BY <2>1, <2>2
<1>7. SameLoops(stack, stack', next)
  BY <1>6 DEF SameLoops
<1>8. PollComes(stack', next, owed)
  <2>1. CASE pollRequested
    <3>1. stack' = Push(F, st)
      BY <2>1 DEF F
    <3> QED BY <3>1, <1>1, <1>2, <1>4, PollPushed
  <2>2. CASE ~pollRequested
    BY <2>2, <1>7 DEF IInv, Polls, SameLoops
  <2> QED BY <2>1, <2>2
<1>9. UNCHANGED <<plist, next, state, needspoll, events, current, owed, audience, heard, calm>>
  BY DEF history
<1>10. Polls'
  <2>1. \A p \in owed : needspoll[p] /\ state[p] # "none"
    BY DEF IInv, Polls
  <2> QED BY <2>1, <1>8, <1>9 DEF Polls
<1>11. Audience'
  <2>1. \A p \in audience : state[p] # "none"
    BY DEF IInv, Audience
  <2>2. BroadcastComes(stack', next, audience \ heard) /\ (calm => BroadcastSpares(stack', next, heard))
    BY <1>7 DEF IInv, Audience, SameLoops
  <2> QED BY <2>1, <2>2, <1>9 DEF Audience
<1>12. TypeOK'
  <2>1. stack' # <<>>
    BY <1>5 DEF StackInv
  <2> QED BY <2>1, <1>9 DEF IInv, TypeOK
<1>13. Ends(next, plist, {})' /\ Listed' = Listed
  BY <1>9, LinksKept
<1>14. StackInv(stack', state', Listed', next', current')
  BY <1>5, <1>9, <1>13
<1> QED BY <1>10, <1>11, <1>12, <1>13, <1>14, Parts

LEMMA RunPollInv ==
  ASSUME IInv, RunPoll
  PROVE  IInv'
<1> DEFINE st == Push(Run("event"), <<>>)
<1>1. Top \in Frame /\ Top.f = "run" /\ Rest = <<>> /\ stack = Push(Top, Rest)
  BY Setup, Under DEF RunPoll, Run
<1>2. Run("event") \in Frame /\ Run("event").f = "run"
  BY FrameTypes DEF Run
<1>3. StackInv(st, state, Listed, next, current)
  <2>1. Alike(Top, Run("event")) /\ Sits(Run("event"), Rest)
    BY <1>1, <1>2 DEF Alike, IsCall, IsExit, Sits
  <2> QED BY <2>1, <1>1, <1>2, TopSwapped
<1>4. SameLoops(stack, st, next)
  BY <1>1, <1>2, EmptyStack, LoopsAlike
<1>5. stack' = IF pollRequested THEN Push(DoPoll(plist, "test"), st) ELSE st
  <2>1. st = <<Run("event")>>
    BY DEF Push
  <2> HIDE DEF st
  <2>2. CASE pollRequested
    BY <2>1, <2>2 DEF RunPoll, Push
  <2>3. CASE ~pollRequested
    BY <2>1, <2>3 DEF RunPoll
  <2> QED BY <2>2, <2>3
<1>6. Head(st) = Run("event")
  BY <1>2, EmptyStack, PushSeq
<1>7. UNCHANGED <<plist, next, state, needspoll, events, current, history>>
  BY DEF RunPoll
<1>8. pollRequested' = FALSE /\ ops' \in 0 .. MaxOps
  BY Params DEF RunPoll
<1> HIDE DEF st
<1> QED BY <1>3, <1>4, <1>5, <1>6, <1>7, <1>8, PollsBegin

LEMMA BcastPollInv ==
  ASSUME IInv, BcastPoll
  PROVE  IInv'
<1> DEFINE G == Bcast(Top.p, "call")
           st == Push(G, Rest)
<1>1. Top \in Frame /\ Top.f = "broadcast" /\ Top.pc = "poll" /\ Top.p # Nil /\ stack = Push(Top, Rest)
  BY Setup DEF BcastPoll
<1>2. G \in Frame /\ G.f = "broadcast" /\ G.pc = "call" /\ Ahead(next, G) = Ahead(next, Top)
  BY <1>1, FrameFields, FrameTypes DEF Bcast, Ahead
<1>3. stack' = IF pollRequested THEN Push(DoPoll(plist, "test"), st) ELSE st
  <2>1. CASE pollRequested
    BY <2>1 DEF BcastPoll, Push
  <2>2. CASE ~pollRequested
    BY <2>2 DEF BcastPoll, Push
  <2> QED BY <2>1, <2>2
<1> HIDE DEF G
<1>4. StackInv(st, state, Listed, next, current)
  <2>1. Alike(Top, G) /\ Sits(G, Rest)
    BY <1>1, <1>2, Setup DEF Alike, IsCall, IsExit, Sits, Fits
  <2> QED BY <2>1, <1>2, TopSwapped
<1>5. SameLoops(stack, st, next)
  BY <1>1, <1>2, Setup, LoopsAlike
<1>6. Head(st) = G
  BY <1>2, Setup, PushSeq
<1>7. UNCHANGED <<plist, next, state, needspoll, events, current, history>>
  BY DEF BcastPoll
<1>8. pollRequested' = FALSE /\ ops' = ops
  BY DEF BcastPoll
<1> HIDE DEF st
<1> QED BY <1>2, <1>3, <1>4, <1>5, <1>6, <1>7, <1>8, PollsBegin

LEMMA BcastEndInv ==
  ASSUME IInv, BcastEnd
  PROVE  IInv'
<1>1. Top \in Frame /\ Top.f = "broadcast" /\ stack = Push(Top, Rest)
  BY Setup DEF BcastEnd
<1>2. stack' = Rest /\ audience' = {} /\ heard' = {} /\ calm' = TRUE
  BY DEF BcastEnd
<1>3. UNCHANGED <<plist, next, state, needspoll, pollRequested, events, current, ops, owed>>
  BY DEF BcastEnd, kernel
<1>4. Rest = Push(Run("poll"), <<>>) /\ Run("poll") \in Frame /\ Run("poll").f = "run"
  BY <1>1, Setup, Under, FrameTypes DEF Run
<1>5. StackInv(stack', state, Listed, next, current)
  <2>1. Rest # <<>> /\ Head(Rest).f = "run"
    <3>1. Push(Run("poll"), <<>>) # <<>> /\ Head(Push(Run("poll"), <<>>)) = Run("poll")
      BY <1>4, EmptyStack, PushTop
    <3> QED BY <3>1, <1>4
  <2> QED BY <2>1, <1>1, <1>2, TopGone DEF IsCall, IsExit
<1>6. SameLoops(stack, stack', next)
  BY <1>1, <1>2, Setup, LoopsPop
<1>7. Polls'
  BY <1>3, <1>6 DEF IInv, Polls, SameLoops
<1>8. Audience'
  <2>1. \A S : BroadcastComes(Rest, next, S) /\ BroadcastSpares(Rest, next, S)
    BY <1>4, EmptyStack, BroadcastPushed
  <2> QED BY <2>1, <1>2, <1>3 DEF Audience
<1>9. TypeOK'
  <2>1. stack' # <<>>
    BY <1>5 DEF StackInv
  <2> QED BY <2>1, <1>2, <1>3 DEF IInv, TypeOK
<1> QED BY <1>3, <1>5, <1>7, <1>8, <1>9, LinksKept, Parts

\* do_poll's loop body.
LEMMA DoPollTestInv ==
  ASSUME IInv, DoPollTest
  PROVE  IInv'
<1> DEFINE p == Top.p
           G == DoPoll(p, "next")
           st == Push(G, Rest)
<1>1. Top \in Frame /\ Top.f = "do_poll" /\ Top.pc = "test" /\ p # Nil /\ stack = Push(Top, Rest)
  BY Setup DEF DoPollTest
<1>2. p \in Listed /\ p \in Proc
  <2>1. p \in Listed \union {Nil}
    BY <1>1 DEF IInv, PollOnList, Ahead, Top
  <2> QED BY <2>1, <1>1, Setup
<1>3. state[p] = "running" /\ [state EXCEPT ![p] = "running"] = state
  <2>1. state[p] = "running"
    BY <1>1, <1>2, SchedulerRuns
  <2> QED BY <2>1, Setup DEF Marks
<1>4. UNCHANGED <<plist, next, pollRequested, events, ops, audience, heard, calm>>
  BY DEF DoPollTest
<1>5. \/ /\ needspoll[p] /\ needspoll' = [needspoll EXCEPT ![p] = FALSE] /\ owed' = owed \ {p}
         /\ CallProcess(state, p, "poll", st)
      \/ /\ ~needspoll[p] /\ UNCHANGED <<needspoll, owed, state, current>> /\ stack' = st
  BY <1>3 DEF DoPollTest, Push
<1>6. G \in Frame /\ G.f = "do_poll" /\ G.pc = "next" /\ G.p = p /\ Ahead(next, G) = next[p]
  BY <1>2, FrameTypes DEF DoPoll, Ahead
<1>7. next[p] \in Listed \union {Nil}
  BY <1>2, Setup DEF ListKnown, Closed
<1> HIDE DEF G
<1>8. StackInv(st, state, Listed, next, current)
  <2>1. Alike(Top, G) /\ Sits(G, Rest)
    BY <1>1, <1>6, Setup DEF Alike, IsCall, IsExit, Sits, Fits
  <2> QED BY <2>1, <1>6, <1>7, TopSwapped
<1>9. st # <<>> /\ Head(st) = G
  BY <1>6, Setup, PushSeq
<1>10. /\ state' \in Marks /\ current' \in Proc \union {Nil}
       /\ StackInv(stack', state', Listed, next, current') /\ SameLoops(st, stack', next)
       /\ \A q \in Proc : state'[q] = "none" <=> state[q] = "none"
  <2>1. CASE UNCHANGED <<state, current>> /\ stack' = st
    <3>1. SameLoops(st, stack', next)
      BY <2>1 DEF SameLoops
    <3> QED BY <3>1, <2>1, <1>8, Setup
  <2>2. CASE CallProcess(state, p, "poll", st)
    <3>1. Waits(Head(st), p)
      BY <1>6, <1>9 DEF Waits
    <3>2. StackSound(st) /\ Held(st, state, Listed) /\ PollOnList(st, next, Listed)
      BY <1>8 DEF StackInv
    <3>3. "poll" \in Event
      BY DEF Event
    <3> HIDE DEF st, p
    <3> QED BY <2>2, <3>1, <3>2, <3>3, <1>2, <1>9, Setup, CallEffect
  <2> QED BY <1>5, <2>1, <2>2
<1>11. owed' = owed \ {p} /\ owed \in SUBSET Proc
       /\ \A q \in owed \ {p} : needspoll'[q] /\ needspoll[q]
  BY <1>5, <1>2 DEF IInv, TypeOK, Polls
<1>12. pollRequested \/ PollComes(st, next, owed \ {p})
  <2> SUFFICES ASSUME ~pollRequested PROVE PollComes(st, next, owed \ {p})
    OBVIOUS
  <2>1. PollComes(stack, next, owed)
    BY DEF IInv, Polls
  <2>2. PollComes(Rest, next, owed) \/ owed \subseteq Reach(next, p)
    BY <2>1, <1>1, Setup, PollPushed DEF Ahead
  <2>3. CASE PollComes(Rest, next, owed)
    BY <2>3, <1>6, Setup, FewerComes, PollPushed
  <2>4. CASE owed \subseteq Reach(next, p)
    <3>1. owed \ {p} \subseteq Reach(next, next[p])
      BY <2>4, <1>2, ReachFacts
    <3> QED BY <3>1, <1>6, Setup, PollPushed
  <2> QED BY <2>2, <2>3, <2>4
<1>13. Polls'
  <2>1. pollRequested' \/ PollComes(stack', next', owed')
    BY <1>4, <1>10, <1>11, <1>12 DEF SameLoops
  <2>2. \A q \in owed' : needspoll'[q] /\ state'[q] # "none"
    BY <1>10, <1>11 DEF IInv, Polls
  <2> QED BY <2>1, <2>2 DEF Polls
<1>14. BroadcastComes(st, next, audience \ heard) /\ (calm => BroadcastSpares(st, next, heard))
  BY <1>1, <1>6, Setup, BroadcastPushed DEF IInv, Audience
<1>15. Audience'
  <2>1. BroadcastComes(stack', next, audience \ heard)
        /\ (calm => BroadcastSpares(stack', next, heard))
    BY <1>10, <1>14 DEF SameLoops
  <2>2. \A q \in audience : state'[q] # "none"
    BY <1>10 DEF IInv, Audience, TypeOK
  <2> QED BY <2>1, <2>2, <1>4 DEF Audience
<1>16. TypeOK'
  <2>1. stack' # <<>>
    BY <1>10 DEF StackInv
  <2>2. needspoll' \in [Proc -> BOOLEAN]
    BY <1>5 DEF IInv, TypeOK
  <2>3. {owed', heard', audience'} \subseteq SUBSET Proc
    BY <1>4, <1>11 DEF IInv, TypeOK
  <2> QED BY <2>1, <2>2, <2>3, <1>4, <1>10 DEF IInv, TypeOK, Marks
<1>17. UNCHANGED <<plist, next>>
  BY <1>4
<1> QED BY <1>10, <1>13, <1>15, <1>16, <1>17, LinksKept, Parts

\* do_event.
LEMMA RunEventInv ==
  ASSUME IInv, Orderly, RunEvent
  PROVE  IInv'
<1> DEFINE st == Push(Run("poll"), <<>>)
           to == Head(events)[1]
           init == Head(events)[2]
<1>1. Top \in Frame /\ Top.f = "run" /\ Rest = <<>> /\ stack = Push(Top, Rest)
  BY Setup, Under DEF RunEvent, Run
<1>2. Run("poll") \in Frame /\ Run("poll").f = "run"
  BY FrameTypes DEF Run
<1>3. StackInv(st, state, Listed, next, current)
  <2>1. Alike(Top, Run("poll")) /\ Sits(Run("poll"), Rest)
    BY <1>1, <1>2 DEF Alike, IsCall, IsExit, Sits
  <2> QED BY <2>1, <1>1, <1>2, TopSwapped
<1>4. SameLoops(stack, st, next)
  BY <1>1, <1>2, EmptyStack, LoopsAlike
<1>5. st # <<>> /\ Head(st) = Run("poll") /\ st \in Seq(Frame)
  BY <1>2, EmptyStack, PushTop
<1>6. UNCHANGED <<plist, next, needspoll, pollRequested, ops, owed>>
  BY DEF RunEvent
<1>7. st = <<Run("poll")>>
  BY DEF Push
<1> HIDE DEF st
<1>8. CASE events = <<>>
  <2>1. stack' = st /\ UNCHANGED <<state, current, events, audience, heard, calm>>
    BY <1>7, <1>8 DEF RunEvent
  <2>2. UNCHANGED history
    BY <2>1, <1>6 DEF history
  <2> QED BY <2>1, <2>2, <1>3, <1>4, <1>6, Setup, StackStep
<1>9. events # <<>> => /\ events' = Tail(events)
                       /\ events' \in Seq(Queued) /\ Len(events') <= NumEvents
                       /\ to \in Proc \union {Nil} /\ init = FALSE
  <2> SUFFICES ASSUME events # <<>>
               PROVE  /\ events' = Tail(events)
                      /\ events' \in Seq(Queued) /\ Len(events') <= NumEvents
                      /\ to \in Proc \union {Nil} /\ init = FALSE
    OBVIOUS
  <2>1. events' = Tail(events)
    BY DEF RunEvent
  <2>2. events \in Seq(Queued) /\ Len(events) <= NumEvents
    BY DEF IInv, TypeOK
  <2>3. Tail(events) \in Seq(Queued) /\ Len(Tail(events)) = Len(events) - 1
        /\ Head(events) \in Queued
    BY <2>2
  <2>4. Head(events)[1] \in Proc \union {Nil} /\ Head(events)[2] \in Inits
    BY <2>3 DEF Queued
  <2>5. init = FALSE
    BY <2>4 DEF Orderly
  <2>6. Len(Tail(events)) <= NumEvents
    BY <2>2, <2>3, Params
  <2> QED BY <2>1, <2>3, <2>4, <2>5, <2>6
<1>10. CASE events # <<>> /\ to # Nil
  <2>1. CallProcess(state, to, "msg", st) /\ UNCHANGED <<audience, heard, calm>>
    BY <1>7, <1>9, <1>10 DEF RunEvent, StateFor
  <2>2. UNCHANGED history
    BY <2>1, <1>6 DEF history
  <2>3. Waits(Head(st), to) /\ "msg" \in Event
    BY <1>5 DEF Waits, Event
  <2>4. StackSound(st) /\ Held(st, state, Listed) /\ PollOnList(st, next, Listed)
    BY <1>3 DEF StackInv
  <2>5. /\ state' \in Marks /\ current' \in Proc \union {Nil}
        /\ StackInv(stack', state', Listed, next, current') /\ SameLoops(st, stack', next)
        /\ \A q \in Proc : state'[q] = "none" <=> state[q] = "none"
    BY <2>1, <2>3, <2>4, <1>5, <1>9, <1>10, Setup, CallEffect
  <2>6. SameLoops(stack, stack', next)
    BY <2>5, <1>4 DEF SameLoops
  <2> QED BY <2>2, <2>5, <2>6, <1>6, <1>9, <1>10, StackStep
<1>11. CASE events # <<>> /\ to = Nil
  <2> DEFINE F == Bcast(plist, "poll")
  <2>1. stack' = Push(F, st) /\ audience' = Listed /\ heard' = {} /\ calm' = TRUE
        /\ UNCHANGED <<state, current>>
    <3>1. stack' = <<F, Run("poll")>>
      BY <1>11 DEF RunEvent
    <3>2. <<F, Run("poll")>> = <<F>> \o <<Run("poll")>>
      OBVIOUS
    <3> QED BY <3>1, <3>2, <1>7, <1>11 DEF RunEvent, Push
  <2>2. F \in Frame /\ F.f = "broadcast" /\ Ahead(next, F) = plist
    BY Setup, FrameTypes DEF Links, Bcast, Ahead
  <2> HIDE DEF F
  <2>3. StackInv(stack', state, Listed, next, current)
    <3>1. Held(Push(F, st), state, Listed)
      BY <2>2, <1>3, <1>5, HeldPlain DEF StackInv, IsCall, IsExit
    <3>2. Sits(F, st)
      BY <2>2, <1>5 DEF Sits, Fits
    <3>3. StackSound(st)
      BY <1>3 DEF StackInv
    <3> QED BY <2>1, <2>2, <3>1, <3>2, <3>3, StackMade
  <2>4. Polls'
    <3>1. pollRequested \/ PollComes(stack', next, owed)
      BY <2>1, <2>2, <1>4, <1>5, PollPushed DEF IInv, Polls, SameLoops
    <3> QED BY <3>1, <2>1, <1>6 DEF IInv, Polls
  <2>5. Audience'
    <3>1. \A S : BroadcastComes(st, next, S) /\ BroadcastSpares(st, next, S)
      <4>1. \A S : /\ BroadcastComes(Push(Run("poll"), <<>>), next, S)
                   /\ BroadcastSpares(Push(Run("poll"), <<>>), next, S)
        BY <1>2, EmptyStack, BroadcastPushed
      <4> QED BY <4>1 DEF st
    <3>2. Listed \subseteq Reach(next, plist)
      BY Setup, ListedReached
    <3>3. BroadcastComes(stack', next, Listed \ {})
      <4>1. Listed \ {} = Listed
        OBVIOUS
      <4> QED BY <4>1, <3>1, <3>2, <2>1, <2>2, <1>5, BroadcastPushed
    <3>4. BroadcastSpares(stack', next, {})
      BY <3>1, <2>1, <2>2, <1>5, BroadcastPushed DEF IInv
    <3>5. \A p \in Listed : state[p] # "none"
      BY <1>1, SchedulerRuns, Setup
    <3> QED BY <3>3, <3>4, <3>5, <2>1, <1>6 DEF Audience
  <2>6. TypeOK'
    <3>1. stack' # <<>>
      BY <2>3 DEF StackInv
    <3>2. {owed', heard', audience'} \subseteq SUBSET Proc /\ calm' \in BOOLEAN
      BY <2>1, <1>6, Setup DEF IInv, TypeOK
    <3> QED BY <3>1, <3>2, <2>1, <1>6, <1>9, <1>11 DEF IInv, TypeOK
  <2> QED BY <2>1, <2>3, <2>4, <2>5, <2>6, <1>6, LinksKept, Parts
<1> QED BY <1>8, <1>10, <1>11

\* Past a process that was heard.
LEMMA EndsPast ==
  ASSUME NEW nx \in [Proc -> Proc \union {Nil}], NEW p \in Proc, NEW S \in SUBSET Proc,
         Ends(nx, p, S)
  PROVE  Ends(nx, nx[p], S) /\ Ends(nx, nx[p], S \union {p})
<1>1. PICK T \in SUBSET (Proc \ S), rank \in [Proc -> Nat] :
        Closed(nx, T) /\ p \in T \union {Nil} /\ Ordered(nx, T, rank)
  BY DEF Ends
<1>2. p \in T /\ nx[p] \in T \union {Nil}
  BY <1>1, Params DEF Closed
<1> DEFINE U == {x \in T : rank[x] > rank[p]}
<1>3. U \in SUBSET (Proc \ (S \union {p})) /\ U \subseteq T
  BY <1>2
<1>4. \A x \in U : nx[x] \in U \union {Nil}
  <2> SUFFICES ASSUME NEW x \in U, nx[x] # Nil PROVE nx[x] \in U
    OBVIOUS
  <2>1. nx[x] \in T /\ x \in T
    BY <1>1 DEF Closed
  <2>2. rank[x] < rank[nx[x]]
    BY <2>1, <1>1 DEF Ordered
  <2>3. rank[x] \in Nat /\ rank[nx[x]] \in Nat /\ rank[p] \in Nat /\ rank[x] > rank[p]
    BY <2>1
  <2> QED BY <2>1, <2>2, <2>3
<1>5. nx[p] \in U \union {Nil}
  BY <1>1, <1>2 DEF Ordered
<1> HIDE DEF U
<1>6. Closed(nx, U) /\ Ordered(nx, U, rank)
  BY <1>1, <1>3, <1>4 DEF Closed, Ordered
<1> QED BY <1>1, <1>2, <1>3, <1>5, <1>6 DEF Ends

\* What a broadcast gives its process.
LEMMA BcastCallInv ==
  ASSUME IInv, BcastCall
  PROVE  IInv'
<1> DEFINE p == Top.p
           G == Bcast(p, "next")
           st == Push(G, Rest)
<1>1. Top \in Frame /\ Top.f = "broadcast" /\ Top.pc = "call" /\ p \in Proc /\ stack = Push(Top, Rest)
  BY Setup, FrameFields DEF BcastCall
<1>2. CallProcess(state, p, "bcast", st)
      /\ heard' = IF state[p] = "running" THEN heard \union {p} ELSE heard
  BY DEF BcastCall, Push
<1>3. UNCHANGED <<plist, next, needspoll, pollRequested, events, ops, owed, audience, calm>>
  BY DEF BcastCall
<1>4. G \in Frame /\ G.f = "broadcast" /\ G.pc = "next" /\ Ahead(next, G) = next[p]
  BY <1>1, FrameTypes DEF Bcast, Ahead
<1> HIDE DEF G
<1>5. StackInv(st, state, Listed, next, current)
  <2>1. Alike(Top, G) /\ Sits(G, Rest)
    BY <1>1, <1>4, Setup DEF Alike, IsCall, IsExit, Sits, Fits
  <2> QED BY <2>1, <1>4, TopSwapped
<1>6. st # <<>> /\ Head(st) = G
  BY <1>4, Setup, PushTop
<1>7. Rest = Push(Run("poll"), <<>>) /\ Run("poll") \in Frame /\ Run("poll").f = "run"
  BY <1>1, Setup, Under, FrameTypes DEF Run
<1>8. \A S : BroadcastComes(Rest, next, S) /\ BroadcastSpares(Rest, next, S)
  BY <1>7, EmptyStack, BroadcastPushed
<1>9. /\ state' \in Marks /\ current' \in Proc \union {Nil}
      /\ StackInv(stack', state', Listed, next, current') /\ SameLoops(st, stack', next)
      /\ \A q \in Proc : state'[q] = "none" <=> state[q] = "none"
  <2>1. Waits(Head(st), p)
    BY <1>4, <1>6 DEF Waits
  <2>2. StackSound(st) /\ Held(st, state, Listed) /\ PollOnList(st, next, Listed)
    BY <1>5 DEF StackInv
  <2>3. "bcast" \in Event
    BY DEF Event
  <2> HIDE DEF st, p
  <2> QED BY <2>1, <2>2, <2>3, <1>1, <1>2, <1>6, Setup, CallEffect
<1>10. Polls'
  <2>1. PollComes(stack, next, owed) => PollComes(st, next, owed)
    BY <1>1, <1>4, Setup, PollPushed
  <2>2. pollRequested' \/ PollComes(stack', next', owed')
    BY <2>1, <1>3, <1>9 DEF IInv, Polls, SameLoops
  <2>3. \A q \in owed : needspoll[q] /\ state'[q] # "none"
    BY <1>9 DEF IInv, Polls, TypeOK
  <2> QED BY <2>2, <2>3, <1>3 DEF Polls
<1>11. audience \ heard \subseteq Reach(next, p)
  BY <1>1, Setup, BroadcastPushed DEF IInv, Audience, Ahead
<1>12. p \in audience => state[p] = "running"
  BY <1>1, SchedulerRuns DEF IInv, Audience
<1>13. audience \ heard' \subseteq Reach(next, next[p])
  BY <1>1, <1>2, <1>11, <1>12, ReachFacts
<1>14. BroadcastComes(stack', next, audience \ heard')
  <2>1. BroadcastComes(st, next, audience \ heard')
    BY <1>4, <1>8, <1>13, Setup, BroadcastPushed
  <2> QED BY <2>1, <1>9 DEF SameLoops
<1>15. calm => BroadcastSpares(stack', next, heard')
  <2> SUFFICES ASSUME calm PROVE BroadcastSpares(stack', next, heard')
    OBVIOUS
  <2>1. Ends(next, p, heard)
    BY <1>1, Setup, BroadcastPushed DEF IInv, Audience, Ahead
  <2>2. heard \in SUBSET Proc /\ next \in [Proc -> Proc \union {Nil}]
    BY DEF IInv, TypeOK
  <2>3. Ends(next, next[p], heard) /\ Ends(next, next[p], heard \union {p})
    <3> HIDE DEF p
    <3> QED BY <2>1, <2>2, <1>1, EndsPast
  <2>4. Ends(next, next[p], heard')
    BY <2>3, <1>2
  <2>5. BroadcastSpares(st, next, heard')
    BY <2>4, <1>4, <1>8, Setup, BroadcastPushed
  <2> QED BY <2>5, <1>9 DEF SameLoops
<1>16. Audience'
  <2>1. \A q \in audience : state'[q] # "none"
    BY <1>9 DEF IInv, Audience, TypeOK
  <2> QED BY <2>1, <1>3, <1>14, <1>15 DEF Audience
<1>17. TypeOK'
  <2>1. stack' # <<>>
    BY <1>9 DEF StackInv
  <2>2. {owed', heard', audience'} \subseteq SUBSET Proc
    BY <1>1, <1>2, <1>3 DEF IInv, TypeOK
  <2> QED BY <2>1, <2>2, <1>3, <1>9 DEF IInv, TypeOK, Marks
<1>18. UNCHANGED <<plist, next>>
  BY <1>3
<1> QED BY <1>9, <1>10, <1>16, <1>17, <1>18, LinksKept, Parts

-----------------------------------------------------------------------------
(* The rest of exit_process. *)

LEMMA ExitNotifyInv ==
  ASSUME IInv, ExitNotify
  PROVE  IInv'
<1> DEFINE q == Top.q
           G == [Top EXCEPT !.pc = "step"]
           st == Push(G, Rest)
<1>1. Top \in Frame /\ Top.f = "exit" /\ Top.pc = "notify" /\ q \in Proc /\ stack = Push(Top, Rest)
  BY Setup, FrameFields DEF ExitNotify
<1>2. \/ CallProcess(state, q, "exited", st)
      \/ stack' = st /\ UNCHANGED <<state, current>>
  BY DEF ExitNotify, Push
<1>3. UNCHANGED <<plist, next, needspoll, pollRequested, events, ops, history>>
  BY DEF ExitNotify
<1>4. G \in Frame /\ G.f = "exit" /\ G.p = Top.p /\ G.old = Top.old /\ G.pc = "step"
  <2>1. G \in Frame
    BY <1>1, FrameTypes
  <2>2. G.f = "exit" /\ G.p = Top.p /\ G.old = Top.old /\ G.pc = "step"
    BY <1>1 DEF Frame
  <2> QED BY <2>1, <2>2
<1> HIDE DEF G
<1>5. StackInv(st, state, Listed, next, current)
  <2>1. Alike(Top, G) /\ Sits(G, Rest)
    BY <1>1, <1>4, Setup DEF Alike, IsCall, IsExit, Sits, Fits
  <2> QED BY <2>1, <1>4, TopSwapped
<1>6. SameLoops(stack, st, next)
  BY <1>1, <1>4, Setup, LoopsAlike
<1>7. st # <<>> /\ Head(st) = G
  BY <1>4, Setup, PushTop
<1>8. /\ state' \in Marks /\ current' \in Proc \union {Nil}
      /\ StackInv(stack', state', Listed, next, current') /\ SameLoops(st, stack', next)
      /\ \A x \in Proc : state'[x] = "none" <=> state[x] = "none"
  <2>1. CASE stack' = st /\ UNCHANGED <<state, current>>
    <3>1. SameLoops(st, stack', next)
      BY <2>1 DEF SameLoops
    <3> QED BY <3>1, <2>1, <1>5, Setup
  <2>2. CASE CallProcess(state, q, "exited", st)
    <3>1. Waits(Head(st), q)
      BY <1>4, <1>7 DEF Waits
    <3>2. StackSound(st) /\ Held(st, state, Listed) /\ PollOnList(st, next, Listed)
      BY <1>5 DEF StackInv
    <3>3. "exited" \in Event
      BY DEF Event
    <3> HIDE DEF st, q
    <3> QED BY <2>2, <3>1, <3>2, <3>3, <1>1, <1>7, Setup, CallEffect
  <2> QED BY <1>2, <2>1, <2>2
<1>9. SameLoops(stack, stack', next)
  BY <1>6, <1>8 DEF SameLoops
<1> QED BY <1>3, <1>8, <1>9, StackStep

LEMMA ExitHandlerInv ==
  ASSUME IInv, ExitHandler
  PROVE  IInv'
<1> DEFINE G == [Top EXCEPT !.pc = "unlink"]
           F == Thread(Top.p, "exit", TRUE)
           st == Push(G, Rest)
<1>1. Top \in Frame /\ Top.f = "exit" /\ Top.p \in Proc /\ stack = Push(Top, Rest)
  BY Setup, FrameFields DEF ExitHandler
<1>2. \/ stack' = <<F, G>> \o Rest /\ current' = Top.p
      \/ stack' = st /\ current' = current
  BY DEF ExitHandler, Push
<1>3. UNCHANGED <<plist, next, state, needspoll, pollRequested, events, ops, history>>
  BY DEF ExitHandler
<1>4. G \in Frame /\ G.f = "exit" /\ G.p = Top.p /\ G.old = Top.old /\ G.pc = "unlink"
  <2>1. G \in Frame
    BY <1>1, FrameTypes
  <2>2. G.f = "exit" /\ G.p = Top.p /\ G.old = Top.old /\ G.pc = "unlink"
    BY <1>1 DEF Frame
  <2> QED BY <2>1, <2>2
<1>5. F \in Frame /\ F.f = "thread" /\ F.p = Top.p /\ F.direct
  <2>1. F \in Frame
    BY <1>1, FrameTypes DEF Event
  <2> QED BY <2>1 DEF Thread
<1> HIDE DEF F, G
<1>6. StackInv(st, state, Listed, next, current)
  <2>1. Alike(Top, G) /\ Sits(G, Rest)
    BY <1>1, <1>4, Setup DEF Alike, IsCall, IsExit, Sits, Fits
  <2> QED BY <2>1, <1>4, TopSwapped
<1>7. SameLoops(stack, st, next)
  BY <1>1, <1>4, Setup, LoopsAlike
<1>8. st # <<>> /\ Head(st) = G /\ st \in Seq(Frame)
  BY <1>4, Setup, PushTop
<1>10. CASE stack' = st /\ current' = current
  BY <1>3, <1>6, <1>7, <1>10, Setup, StackStep
<1>11. CASE stack' = Push(F, st) /\ current' = Top.p
  <2>1. StackInv(Push(F, st), state, Listed, next, Top.p)
    <3>1. Held(Push(F, st), state, Listed)
      BY <1>5, <1>6, <1>8, HeldPlain DEF StackInv, IsCall, IsExit
    <3>2. Sits(F, st)
      BY <1>4, <1>5, <1>8 DEF Sits, Fits
    <3>3. StackSound(st)
      BY <1>6 DEF StackInv
    <3> HIDE DEF st
    <3> QED BY <3>1, <3>2, <3>3, <1>5, StackMade
  <2>2. SameLoops(st, Push(F, st), next)
    BY <1>5, <1>8, LoopsPush
  <2>3. SameLoops(stack, stack', next)
    BY <2>2, <1>7, <1>11 DEF SameLoops
  <2> HIDE DEF st
  <2> QED BY <2>1, <2>3, <1>1, <1>3, <1>11, Setup, StackStep
<1>12. (stack' = Push(F, st) /\ current' = Top.p) \/ (stack' = st /\ current' = current)
  <2>1. <<F, G>> \o Rest = <<F>> \o (<<G>> \o Rest)
    BY <1>4, <1>5, Setup
  <2> QED BY <2>1, <1>2 DEF Push
<1> QED BY <1>10, <1>11, <1>12

\* The loops on the stack, when a process leaves the list.
LEMMA UnlinkedLoops ==
  ASSUME Links, Ends(next, plist, {}), NEW x \in Listed, Unlinks(x), UNCHANGED heard,
         NEW s \in Seq(Frame), NEW S, x \notin S
  PROVE  /\ PollComes(s, next, S) => PollComes(s, next', S)
         /\ BroadcastComes(s, next, S) => BroadcastComes(s, next', S)
         /\ BroadcastSpares(s, next, heard) => BroadcastSpares(s, next', heard)
<1>1. ASSUME NEW i \in 1 .. Len(s), s[i].f \in {"do_poll", "broadcast"}
      PROVE  /\ S \subseteq Reach(next, Ahead(next, s[i])) => S \subseteq Reach(next', Ahead(next', s[i]))
             /\ Ends(next, Ahead(next, s[i]), heard) => Ends(next', Ahead(next', s[i]), heard)
  <2> DEFINE F == s[i]
  <2>1. F \in Frame
    OBVIOUS
  <2>2. F.f \in {"do_poll", "broadcast"}
    BY <1>1
  <2> HIDE DEF F
  <2>3. F.p \in Proc \union {Nil} /\ (F.pc = "next" => F.p # Nil)
    BY <2>1, <2>2, FrameFields, Params
  <2>4. /\ Reach(next, Ahead(next, F)) \subseteq {x} \union Reach(next', Ahead(next', F))
        /\ Ends(next, Ahead(next, F), heard) => Ends(next', Ahead(next', F), heard)
    BY <2>3, UnlinkedAhead
  <2> QED BY <2>4 DEF F
<1>2. PollComes(s, next, S) => PollComes(s, next', S)
  BY <1>1 DEF PollComes
<1>3. BroadcastComes(s, next, S) => BroadcastComes(s, next', S)
  BY <1>1 DEF BroadcastComes
<1>4. BroadcastSpares(s, next, heard) => BroadcastSpares(s, next', heard)
  BY <1>1 DEF BroadcastSpares
<1> QED BY <1>2, <1>3, <1>4

LEMMA ExitUnlinkInv ==
  ASSUME IInv, ExitUnlink
  PROVE  IInv'
<1> DEFINE x == Top.p
<1>1. Top \in Frame /\ Top.f = "exit" /\ x \in Proc /\ stack = Push(Top, Rest)
  BY Setup, FrameFields DEF ExitUnlink
<1>2. stack' = Rest /\ current' = Top.old /\ Unlinks(x)
      /\ UNCHANGED <<state, needspoll, pollRequested, events, ops, history>>
  BY DEF ExitUnlink, Unlinks
<1>3. UNCHANGED <<owed, audience, heard, calm>>
  BY <1>2 DEF history
<1>4. IsExit(Top) /\ ~IsCall(Top) /\ Held(Push(Top, Rest), state, Listed)
  BY <1>1 DEF IsExit, IsCall, IInv
<1>5. state[x] = "none" /\ x \in Listed
  <2>1. 1 \in 1 .. Len(Push(Top, Rest)) /\ Push(Top, Rest)[1] = Top
    BY <1>1, Setup, PushFrames
  <2> QED BY <2>1, <1>4 DEF Held
<1>6. Links /\ Ends(next, plist, {})
  BY Setup DEF IInv
<1> HIDE DEF x
<1>7. /\ Links' /\ Ends(next, plist, {})' /\ Listed' = Listed \ {x}
      /\ next'[x] = next[x] /\ next[x] \in Listed' \union {Nil}
  BY <1>2, <1>5, <1>6, Unlinked
<1>8. Held(Rest, state, Listed \ {x})
  <2>1. Held(Rest, state, Listed \ {Top.p})
    BY <1>1, <1>4, Setup, HeldGone DEF x
  <2> QED BY <2>1 DEF x
<1>9. Rest # <<>> /\ (Waits(Head(Rest), x) \/ (Head(Rest).f = "thread" /\ Top.old = Head(Rest).p))
  BY <1>1, Setup, Under DEF Fits, x
<1>10. StackInv(stack', state', Listed', next', current')
  <2>1. PollOnList(Rest, next', Listed')
    <3>1. Head(Rest).f = "do_poll" => Head(Rest).pc = "next" /\ Head(Rest).p = x
      BY <1>9 DEF Waits, Run
    <3> QED BY <3>1, <1>7 DEF PollOnList, Ahead
  <2>2. Head(Rest).f = "thread" => Top.old = Head(Rest).p
    BY <1>9 DEF Waits, Run
  <2> QED BY <2>1, <2>2, <1>2, <1>7, <1>8, <1>9, Setup DEF StackInv
<1>11. x \notin owed /\ x \notin audience
  BY <1>5 DEF IInv, Polls, Audience
<1>12. SameLoops(stack, Rest, next)
  BY <1>1, Setup, LoopsPop
<1>13. Polls'
  <2>1. pollRequested \/ PollComes(Rest, next, owed)
    BY <1>12 DEF IInv, Polls, SameLoops
  <2>2. pollRequested \/ PollComes(Rest, next', owed)
    BY <2>1, <1>2, <1>3, <1>5, <1>6, <1>11, Setup, UnlinkedLoops
  <2> QED BY <2>2, <1>2, <1>3 DEF IInv, Polls
<1>14. Audience'
  <2>1. BroadcastComes(Rest, next, audience \ heard) /\ (calm => BroadcastSpares(Rest, next, heard))
    BY <1>12 DEF IInv, Audience, SameLoops
  <2>2. x \notin audience \ heard
    BY <1>11
  <2>3. BroadcastComes(Rest, next', audience \ heard) /\ (calm => BroadcastSpares(Rest, next', heard))
    BY <2>1, <2>2, <1>2, <1>3, <1>5, <1>6, Setup, UnlinkedLoops
  <2> QED BY <2>3, <1>2, <1>3 DEF IInv, Audience
<1>15. TypeOK'
  <2>1. stack' # <<>>
    BY <1>2, <1>9
  <2>2. plist' \in Proc \union {Nil} /\ next' \in [Proc -> Proc \union {Nil}]
    BY <1>7 DEF Links
  <2>3. current' \in Proc \union {Nil}
    BY <1>1, <1>2, FrameFields
  <2> QED BY <2>1, <2>2, <2>3, <1>2, <1>3 DEF IInv, TypeOK
<1> QED BY <1>7, <1>10, <1>13, <1>14, <1>15, Parts

-----------------------------------------------------------------------------
(* What threads and interrupt handlers call. *)

LEMMA ThreadPostInv ==
  ASSUME IInv, NEW to \in Proc \union {Nil}, NEW init \in Inits, ThreadPost(to, init)
  PROVE  IInv'
<1>1. UNCHANGED <<plist, next, state, needspoll, pollRequested, current, stack, history>>
  BY DEF ThreadPost
<1>2. ops' \in 0 .. MaxOps
  BY Params DEF ThreadPost, InThread, IInv, TypeOK
<1>3. events' = events \/ (events' \in Seq(Queued) /\ Len(events') <= NumEvents)
  <2>1. events \in Seq(Queued) /\ Len(events) <= NumEvents
    BY DEF IInv, TypeOK
  <2>2. CASE Len(events) = NumEvents
    BY <2>2 DEF ThreadPost
  <2>3. CASE Len(events) # NumEvents
    <3>1. events' = Append(events, <<to, init>>)
      BY <2>3 DEF ThreadPost
    <3>2. <<to, init>> \in Queued
      BY DEF Queued
    <3>3. \A e \in Queued : /\ Append(events, e) \in Seq(Queued)
                            /\ Len(Append(events, e)) = Len(events) + 1
      BY <2>1
    <3> QED BY <3>1, <3>2, <3>3, <2>1, <2>3, Params
  <2> QED BY <2>2, <2>3
<1>4. SameLoops(stack, stack', next)
  BY <1>1 DEF SameLoops
<1> QED BY <1>1, <1>2, <1>3, <1>4, Setup, StackStep

\* The frame of process_post_synch on the stack of the thread that calls it.
LEMMA SynchPushed ==
  ASSUME IInv, Top.f \in {"boot", "thread"}
  PROVE  LET st == Push(Synch(current), stack)
         IN  /\ st # <<>> /\ st \in Seq(Frame) /\ Head(st).f = "synch" /\ StackSound(st)
             /\ SameLoops(stack, st, next)
             /\ \A s, l : Held(stack, s, l) => Held(st, s, l)
<1> DEFINE F == Synch(current)
<1>1. F \in Frame /\ F.f = "synch" /\ F.caller = current
  BY Setup, FrameTypes DEF Synch
<1>2. Sits(F, stack)
  <2>1. Top.f = "boot" => Top = Boot
    BY Setup, FrameFields
  <2>2. Top.f = "thread" => current = Top.p
    BY DEF IInv, CurrentRuns
  <2>3. stack # <<>>
    BY Setup
  <2> HIDE DEF F
  <2> QED BY <1>1, <2>1, <2>2, <2>3 DEF Sits, Fits, Top
<1> HIDE DEF F
<1>3. StackSound(Push(F, stack))
  BY <1>1, <1>2, PushSound DEF IInv
<1>4. SameLoops(stack, Push(F, stack), next)
  BY <1>1, Setup, LoopsPush
<1>5. \A s, l : Held(stack, s, l) => Held(Push(F, stack), s, l)
  BY <1>1, Setup, HeldPlain DEF IsCall, IsExit
<1>6. Push(F, stack) # <<>> /\ Push(F, stack) \in Seq(Frame) /\ Head(Push(F, stack)) = F
  BY <1>1, Setup, PushTop
<1> QED BY <1>1, <1>3, <1>4, <1>5, <1>6 DEF F

LEMMA ThreadPostSynchInv ==
  ASSUME IInv, NEW q \in Proc, ThreadPostSynch(q)
  PROVE  IInv'
<1> DEFINE st == Push(Synch(current), stack)
<1>1. UNCHANGED <<plist, next, needspoll, pollRequested, events, history>>
      /\ CallProcess(state, q, "synch", st) /\ Top.f = "thread"
  BY DEF ThreadPostSynch, InThread, Push
<1>2. ops' \in 0 .. MaxOps
  BY Params DEF ThreadPostSynch, InThread, IInv, TypeOK
<1>3. st # <<>> /\ Head(st).f = "synch" /\ StackSound(st) /\ SameLoops(stack, st, next)
      /\ Held(st, state, Listed)
  BY <1>1, SynchPushed DEF IInv
<1>4. /\ state' \in Marks /\ current' \in Proc \union {Nil}
      /\ StackInv(stack', state', Listed, next, current') /\ SameLoops(st, stack', next)
      /\ \A x \in Proc : state'[x] = "none" <=> state[x] = "none"
  <2>1. Waits(Head(st), q) /\ PollOnList(st, next, Listed) /\ "synch" \in Event
    BY <1>3 DEF Waits, PollOnList, Event
  <2> HIDE DEF st
  <2> QED BY <2>1, <1>1, <1>3, Setup, CallEffect
<1>5. SameLoops(stack, stack', next)
  BY <1>3, <1>4 DEF SameLoops
<1> QED BY <1>1, <1>2, <1>4, <1>5, StackStep

LEMMA PollInv ==
  ASSUME IInv, NEW q \in Proc, Poll(q), ops' \in 0 .. MaxOps,
         UNCHANGED <<plist, next, state, events, current, stack, audience, heard, calm>>
  PROVE  IInv'
<1>1. TypeOK'
  BY DEF IInv, TypeOK, Poll
<1>2. Polls'
  BY DEF IInv, TypeOK, Poll, Polls
<1>3. Audience'
  BY DEF IInv, Audience
<1>4. Ends(next, plist, {})' /\ Listed' = Listed
  BY LinksKept
<1>5. StackInv(stack', state', Listed', next', current')
  BY <1>4, Setup
<1> QED BY <1>1, <1>2, <1>3, <1>4, <1>5, Parts

LEMMA ThreadPollInv ==
  ASSUME IInv, NEW q \in Proc, ThreadPoll(q)
  PROVE  IInv'
<1>1. ops' \in 0 .. MaxOps
  BY Params DEF ThreadPoll, InThread, IInv, TypeOK
<1> QED BY <1>1, PollInv DEF ThreadPoll

LEMMA IsrPollInv ==
  ASSUME IInv, NEW q \in IsrPolled, IsrPoll(q)
  PROVE  IInv'
<1>1. ops' \in 0 .. MaxOps /\ q \in Proc
  BY Params DEF IsrPoll, IInv, TypeOK
<1> QED BY <1>1, PollInv DEF IsrPoll

\* The loops on the stack, when a process comes to the head of the list.
LEMMA LinkedLoops ==
  ASSUME Links, Ends(next, plist, {}), NEW q \in Proc, q \notin Listed, LinksIn(q),
         NEW s \in Seq(Frame), NEW S \in SUBSET Listed
  PROVE  /\ PollComes(s, next, S) => PollComes(s, next', S)
         /\ BroadcastComes(s, next, S) => BroadcastComes(s, next', S)
<1>1. ASSUME NEW i \in 1 .. Len(s), s[i].f \in {"do_poll", "broadcast"}
      PROVE  S \subseteq Reach(next, Ahead(next, s[i])) => S \subseteq Reach(next', Ahead(next', s[i]))
  <2> DEFINE F == s[i]
  <2>1. F \in Frame
    OBVIOUS
  <2>2. F.f \in {"do_poll", "broadcast"}
    BY <1>1
  <2> HIDE DEF F
  <2>3. F.p \in Proc \union {Nil} /\ (F.pc = "next" => F.p # Nil)
    BY <2>1, <2>2, FrameFields, Params
  <2>4. Reach(next, Ahead(next, F)) \intersect Listed \subseteq Reach(next', Ahead(next', F))
    BY <2>3, LinkedAhead
  <2> QED BY <2>4 DEF F
<1>2. PollComes(s, next, S) => PollComes(s, next', S)
  BY <1>1 DEF PollComes
<1>3. BroadcastComes(s, next, S) => BroadcastComes(s, next', S)
  BY <1>1 DEF BroadcastComes
<1> QED BY <1>2, <1>3

LEMMA StartInv ==
  ASSUME IInv, NEW q \in Proc, Start(q)
  PROVE  IInv'
<1> DEFINE st == Push(Synch(current), stack)
           s == [state EXCEPT ![q] = "running"]
<1>1. ops' \in 0 .. MaxOps /\ Top.f \in {"boot", "thread"}
      /\ UNCHANGED <<needspoll, pollRequested, events, owed, audience, heard>>
  BY Params DEF Start, InThread, IInv, TypeOK
<1>2. CASE q \in Listed
  <2>1. UNCHANGED <<plist, next, state, current, stack, calm>>
    BY <1>2 DEF Start
  <2>2. SameLoops(stack, stack', next)
    BY <2>1 DEF SameLoops
  <2>3. UNCHANGED history
    BY <2>1, <1>1 DEF history
  <2> QED BY <2>1, <2>2, <2>3, <1>1, Setup, StackStep
<1>3. CASE q \notin Listed
  <2>1. LinksIn(q) /\ CallProcess(s, q, "init", st)
        /\ calm' = (calm /\ \A i \in 1 .. Len(stack) : stack[i].f # "broadcast")
    BY <1>3 DEF Start, LinksIn, Push
  <2>2. Links /\ Ends(next, plist, {})
    BY Setup DEF IInv
  <2>3. Links' /\ Ends(next, plist, {})' /\ Listed' = Listed \union {q}
    BY <2>1, <2>2, <1>3, Linked
  <2>4. state[q] = "none"
    BY <1>3 DEF IInv, Held
  <2>5. s \in Marks /\ \A p \in Proc : p # q => s[p] = state[p]
    BY Setup DEF Marks
  <2>6. Held(stack, s, Listed \union {q})
    BY <1>3, Setup, HeldNew DEF IInv
  <2>7. st # <<>> /\ st \in Seq(Frame) /\ Head(st).f = "synch" /\ StackSound(st)
        /\ SameLoops(stack, st, next) /\ Held(st, s, Listed \union {q})
    <3> HIDE DEF s
    <3> QED BY <1>1, <2>6, SynchPushed
  <2>8. PICK nx : nx = next'
    OBVIOUS
  <2>9. /\ state' \in Marks /\ current' \in Proc \union {Nil}
        /\ StackInv(stack', state', Listed \union {q}, nx, current') /\ SameLoops(st, stack', nx)
        /\ \A p \in Proc : state'[p] = "none" <=> s[p] = "none"
    <3>1. Waits(Head(st), q) /\ PollOnList(st, nx, Listed \union {q}) /\ "init" \in Event
      BY <2>7 DEF Waits, PollOnList, Event
    <3>2. Listed \union {q} \in SUBSET Proc
      BY Setup
    <3> HIDE DEF st, s
    <3> QED BY <3>1, <3>2, <2>1, <2>5, <2>7, Setup, CallEffect
  <2>10. \A p \in Proc : state[p] # "none" => state'[p] # "none" /\ p \in Listed
    <3>1. \A p \in Proc : state[p] # "none" => p \in Listed
      BY DEF IInv, Held
    <3> HIDE DEF s
    <3> QED BY <3>1, <2>5, <2>9, <1>3
  <2>11. owed \in SUBSET Listed /\ audience \in SUBSET Listed
    BY <2>10 DEF IInv, Polls, Audience, TypeOK
  <2>12. Synch(current) \in Frame /\ Synch(current).f = "synch"
    BY Setup, FrameTypes DEF Synch
  <2>13. Polls'
    <3>1. pollRequested \/ PollComes(stack, next', owed)
      BY <2>1, <2>2, <2>11, <1>3, Setup, LinkedLoops DEF IInv, Polls
    <3>2. pollRequested \/ PollComes(st, next', owed)
      BY <3>1, <2>12, Setup, PollPushed
    <3>3. pollRequested \/ PollComes(stack', next', owed)
      BY <3>2, <2>8, <2>9 DEF SameLoops
    <3>4. \A p \in owed : needspoll[p] /\ state'[p] # "none"
      BY <2>10, <2>11, Setup DEF IInv, Polls
    <3> QED BY <3>3, <3>4, <1>1 DEF Polls
  <2>14. Audience'
    <3>1. BroadcastComes(stack, next', audience \ heard)
      <4>1. audience \ heard \in SUBSET Listed
        BY <2>11
      <4> QED BY <4>1, <2>1, <2>2, <1>3, Setup, LinkedLoops DEF IInv, Audience
    <3>2. calm' => BroadcastSpares(stack, next', heard)
      BY <2>1 DEF BroadcastSpares
    <3>3. BroadcastComes(st, next', audience \ heard) /\ (calm' => BroadcastSpares(st, next', heard))
      BY <3>1, <3>2, <2>12, Setup, BroadcastPushed
    <3>4. BroadcastComes(stack', next', audience \ heard)
          /\ (calm' => BroadcastSpares(stack', next', heard))
      BY <3>3, <2>8, <2>9 DEF SameLoops
    <3>5. \A p \in audience : state'[p] # "none"
      BY <2>10, <2>11, Setup DEF IInv, Audience
    <3> QED BY <3>4, <3>5, <1>1 DEF Audience
  <2>15. TypeOK'
    <3>1. stack' # <<>>
      BY <2>9 DEF StackInv
    <3>2. plist' \in Proc \union {Nil} /\ next' \in [Proc -> Proc \union {Nil}]
      BY <2>3 DEF Links
    <3>3. calm' \in BOOLEAN
      BY <2>1 DEF IInv, TypeOK
    <3>4. state' \in [Proc -> {"none", "running", "called"}] /\ current' \in Proc \union {Nil}
      BY <2>9 DEF Marks
    <3> QED BY <3>1, <3>2, <3>3, <3>4, <1>1 DEF IInv, TypeOK
  <2>16. StackInv(stack', state', Listed', next', current')
    BY <2>3, <2>8, <2>9
  <2> QED BY <2>3, <2>13, <2>14, <2>15, <2>16, Parts
<1> QED BY <1>2, <1>3

\* exit_process begins: q leaves the processes that run.
LEMMA ExitBegins ==
  ASSUME IInv, NEW q \in Listed, NEW F \in Frame, F.f = "exit", F.p = q,
         NEW st, StackSound(st), Sits(F, st), SameLoops(stack, st, next),
         NEW s \in Marks, s[q] = "running", \A p \in Proc \ {q} : s[p] = state[p],
         Held(st, s, Listed), state' = [s EXCEPT ![q] = "none"], stack' = Push(F, st),
         audience' = audience \ {q}, owed' = owed \ {q}, ops' = ops \/ ops' \in 0 .. MaxOps,
         UNCHANGED <<plist, next, needspoll, pollRequested, events, current, heard, calm>>
  PROVE  IInv'
<1>1. q \in Proc /\ st \in Seq(Frame)
  BY Setup DEF StackSound
<1>2. state' \in Marks /\ \A p \in Proc \ {q} : state'[p] = state[p]
  BY <1>1 DEF Marks
<1>3. StackInv(stack', state', Listed, next, current)
  <2>1. Held(Push(F, st), [s EXCEPT ![q] = "none"], Listed)
    BY <1>1, Setup, HeldExit DEF IsExit
  <2> QED BY <2>1, StackMade
<1>4. SameLoops(stack, stack', next)
  <2>1. SameLoops(st, Push(F, st), next)
    BY <1>1, LoopsPush
  <2> QED BY <2>1 DEF SameLoops
<1>5. owed \in SUBSET Proc /\ audience \in SUBSET Proc
  BY DEF IInv, TypeOK
<1>6. Polls'
  <2>1. pollRequested \/ PollComes(stack', next, owed \ {q})
    BY <1>4, FewerComes DEF IInv, Polls, SameLoops
  <2>2. \A p \in owed \ {q} : needspoll[p] /\ state'[p] # "none"
    BY <1>2, <1>5 DEF IInv, Polls
  <2> QED BY <2>1, <2>2 DEF Polls
<1>7. Audience'
  <2>1. BroadcastComes(stack', next, audience \ heard) /\ (calm => BroadcastSpares(stack', next, heard))
    BY <1>4 DEF IInv, Audience, SameLoops
  <2>2. (audience \ {q}) \ heard \in SUBSET (audience \ heard)
    OBVIOUS
  <2>3. BroadcastComes(stack', next, (audience \ {q}) \ heard)
    BY <2>1, <2>2, FewerComes
  <2>4. \A p \in audience \ {q} : state'[p] # "none"
    BY <1>2, <1>5 DEF IInv, Audience
  <2> QED BY <2>1, <2>3, <2>4 DEF Audience
<1>8. TypeOK'
  <2>1. stack' # <<>>
    BY <1>3 DEF StackInv
  <2>2. {owed', heard', audience'} \subseteq SUBSET Proc
    BY <1>5 DEF IInv, TypeOK
  <2> QED BY <2>1, <2>2, <1>2 DEF IInv, TypeOK, Marks
<1>9. Ends(next, plist, {})' /\ Listed' = Listed
  BY LinksKept
<1> QED BY <1>3, <1>6, <1>7, <1>8, <1>9, Parts

LEMMA ThreadExitInv ==
  ASSUME IInv, Orderly, NEW q \in Proc, ThreadExit(q)
  PROVE  IInv'
<1> DEFINE F == ExitOf(q, current, plist, current, "notify")
<1>1. Top.f = "thread" /\ q \notin Active /\ ExitProcess(q, current, stack)
      /\ UNCHANGED <<plist, next, needspoll, pollRequested, events, current, heard, calm>>
  BY DEF ThreadExit, InThread, Orderly
<1>2. ops' \in 0 .. MaxOps
  BY Params DEF ThreadExit, InThread, IInv, TypeOK
<1>3. CASE q \notin Listed
  <2>1. UNCHANGED <<stack, state, audience, owed>>
    BY <1>1, <1>3 DEF ExitProcess
  <2>2. SameLoops(stack, stack', next)
    BY <2>1 DEF SameLoops
  <2>3. UNCHANGED history
    BY <2>1, <1>1 DEF history
  <2> QED BY <2>1, <2>2, <2>3, <1>1, <1>2, Setup, StackStep
<1>4. CASE q \in Listed
  <2>1. \A i \in 1 .. Len(stack) : ~Holds(stack[i], q)
    BY <1>1 DEF Active, Holds, IsCall, IsExit
  <2>2. state[q] = "running"
    BY <2>1, <1>4, Setup DEF IInv, Held, Marks
  <2>3. state' = [state EXCEPT ![q] = "none"] /\ stack' = Push(F, stack)
        /\ audience' = audience \ {q} /\ owed' = owed \ {q}
    BY <1>1, <1>4, <2>2 DEF ExitProcess, Push
  <2>4. current = Top.p /\ Top.p \in Proc
    BY <1>1, Setup, FrameFields DEF IInv, CurrentRuns
  <2>5. F \in Frame /\ F.f = "exit" /\ F.p = q /\ F.old = Top.p
    <3>1. F \in Frame
      BY <2>4, Setup, FrameTypes DEF Links
    <3> QED BY <3>1, <2>4 DEF ExitOf
  <2> HIDE DEF F
  <2>6. Sits(F, stack)
    BY <2>5, <1>1, Setup DEF Sits, Fits, Top
  <2>7. SameLoops(stack, stack, next) /\ StackSound(stack) /\ Held(stack, state, Listed)
    BY DEF SameLoops, IInv
  <2> QED BY <2>2, <2>3, <2>5, <2>6, <2>7, <1>1, <1>2, <1>4, Setup, ExitBegins
<1> QED BY <1>3, <1>4

LEMMA ThreadReturnInv ==
  ASSUME IInv, NEW ended \in BOOLEAN, ThreadReturn(ended)
  PROVE  IInv'
<1> DEFINE p == Top.p
           s == [state EXCEPT ![p] = "running"]
           F == ExitOf(p, p, plist, current, "notify")
<1>1. Top \in Frame /\ Top.f = "thread" /\ ~Top.direct /\ p \in Proc /\ stack = Push(Top, Rest)
  BY Setup, FrameFields DEF ThreadReturn
<1>2. UNCHANGED <<plist, next, needspoll, pollRequested, events, current, ops, heard, calm>>
  BY DEF ThreadReturn
<1>3. IsCall(Top) /\ Held(Push(Top, Rest), state, Listed)
  BY <1>1 DEF IsCall, IInv
<1>4. state[p] = "called" /\ p \in Listed
  <2>1. 1 \in 1 .. Len(Push(Top, Rest)) /\ Push(Top, Rest)[1] = Top
    BY <1>1, Setup, PushFrames
  <2> QED BY <2>1, <1>1, <1>3 DEF Held
<1>5. s \in Marks /\ s[p] = "running" /\ \A x \in Proc \ {p} : s[x] = state[x]
  BY <1>1, Setup DEF Marks
<1>6. Held(Rest, s, Listed)
  BY <1>1, <1>3, Setup, HeldReturn
<1>7. Rest # <<>> /\ Waits(Head(Rest), p)
  BY <1>1, Setup, Under DEF Fits
<1>8. SameLoops(stack, Rest, next)
  BY <1>1, Setup, LoopsPop
<1>9. CASE ~ended
  <2>1. state' = s /\ stack' = Rest /\ UNCHANGED <<audience, owed>>
    BY <1>9 DEF ThreadReturn
  <2>2. UNCHANGED history
    BY <2>1, <1>2 DEF history
  <2>3. StackInv(Rest, s, Listed, next, current)
    <3>1. next[p] \in Listed \union {Nil}
      BY <1>4, Setup DEF ListKnown, Closed
    <3>2. PollOnList(Rest, next, Listed)
      BY <3>1, <1>7 DEF Waits, PollOnList, Ahead, Run
    <3>3. Head(Rest).f # "thread"
      BY <1>7 DEF Waits, Run
    <3> HIDE DEF s
    <3> QED BY <3>2, <3>3, <1>6, <1>7, Setup DEF StackInv
  <2>4. \A x \in Proc : s[x] = "none" <=> state[x] = "none"
    BY <1>4, <1>5
  <2> HIDE DEF s
  <2> QED BY <2>1, <2>2, <2>3, <2>4, <1>2, <1>5, <1>8, Setup, StackStep
<1>10. CASE ended
  <2>1. state' = [state EXCEPT ![p] = "none"] /\ stack' = Push(F, Rest)
        /\ audience' = audience \ {p} /\ owed' = owed \ {p}
    BY <1>4, <1>10 DEF ThreadReturn, ExitProcess, Push
  <2>2. state' = [s EXCEPT ![p] = "none"]
    BY <2>1, Setup DEF Marks
  <2>3. F \in Frame /\ F.f = "exit" /\ F.p = p
    <3>1. F \in Frame
      BY <1>1, Setup, FrameTypes DEF Links
    <3> QED BY <3>1 DEF ExitOf
  <2> HIDE DEF F, s
  <2>4. Sits(F, Rest)
    BY <2>3, <1>7 DEF Sits, Fits
  <2> QED BY <2>1, <2>2, <2>3, <2>4, <1>2, <1>4, <1>5, <1>6, <1>8, Setup, ExitBegins
<1> QED BY <1>9, <1>10

-----------------------------------------------------------------------------
(* The invariant. *)

LEMMA InitInv ==
  ASSUME Init
  PROVE  IInv
<1>1. plist = Nil /\ next = [p \in Proc |-> Nil] /\ state = [p \in Proc |-> "none"]
      /\ stack = <<Boot>> /\ owed = {} /\ audience = {} /\ heard = {}
  BY DEF Init
<1>2. TypeOK
  <2>1. <<>> \in Seq(Queued) /\ Len(<<>>) <= NumEvents /\ <<Boot>> # <<>>
    BY Params
  <2>2. 0 \in 0 .. MaxOps
    BY Params
  <2>3. events \in Seq(Queued) /\ Len(events) <= NumEvents /\ stack # <<>>
    BY <2>1, Zenon DEF Init
  <2>4. next \in [Proc -> Proc \union {Nil}] /\ needspoll \in [Proc -> BOOLEAN]
        /\ state \in [Proc -> {"none", "running", "called"}]
    BY DEF Init
  <2>5. {owed, heard, audience} \subseteq SUBSET Proc /\ calm \in BOOLEAN /\ pollRequested \in BOOLEAN
    BY DEF Init
  <2>6. plist \in Proc \union {Nil} /\ current \in Proc \union {Nil} /\ ops \in 0 .. MaxOps
    BY <2>2 DEF Init
  <2> QED BY <2>3, <2>4, <2>5, <2>6 DEF TypeOK
<1>3. stack \in Seq(Frame) /\ Len(stack) = 1 /\ stack[1] = Boot /\ Top = Boot /\ Boot.f = "boot"
  <2>1. Boot \in Frame /\ Boot.f = "boot"
    BY FrameTypes DEF Boot
  <2>2. \A F \in Frame : /\ <<F>> \in Seq(Frame) /\ Len(<<F>>) = 1
                          /\ <<F>>[1] = F /\ Head(<<F>>) = F
    OBVIOUS
  <2> QED BY <2>1, <2>2, <1>1, Zenon DEF Top
<1>4. StackSound(stack)
  BY <1>3 DEF StackSound
<1>5. Ends(next, plist, {})
  <2>1. [p \in Proc |-> 0] \in [Proc -> Nat]
    OBVIOUS
  <2>2. Closed(next, {}) /\ plist \in {} \union {Nil} /\ Ordered(next, {}, [p \in Proc |-> 0])
    BY <1>1 DEF Closed, Ordered
  <2> QED BY <2>1, <2>2 DEF Ends
<1>6. Listed = {}
  <2>1. Closed(next, {}) /\ plist \in {} \union {Nil}
    BY <1>1 DEF Closed
  <2> QED BY <2>1, WalkWithin DEF Listed
<1>7. Held(stack, state, Listed)
  <2>1. \A i \in 1 .. Len(stack) : ~IsCall(stack[i]) /\ ~IsExit(stack[i])
    BY <1>3 DEF IsCall, IsExit
  <2> QED BY <2>1, <1>1, <1>6 DEF Held, Holds
<1>8. CurrentRuns /\ PollOnList(stack, next, Listed)
  BY <1>3 DEF CurrentRuns, PollOnList, Top
<1>9. Polls /\ Audience
  <2>1. \A i \in 1 .. Len(stack) : stack[i].f # "broadcast"
    BY <1>3
  <2> QED BY <2>1, <1>1 DEF Polls, Audience, PollComes, BroadcastComes, BroadcastSpares
<1> QED BY <1>2, <1>4, <1>5, <1>7, <1>8, <1>9 DEF IInv

LEMMA StepInv ==
  ASSUME IInv, Orderly, [Next]_vars
  PROVE  IInv'
<1>1. CASE Scheduler
  BY <1>1, EndBootInv, RunPollInv, DoPollTestInv, DoPollNextInv, DoPollEndInv, RunEventInv,
     BcastPollInv, BcastCallInv, BcastNextInv, BcastEndInv, ExitNotifyInv, ExitStepInv,
     ExitHandlerInv, ExitUnlinkInv, SynchReturnInv DEF Scheduler
<1>2. CASE ThreadCall
  BY <1>2, ThreadPostInv, ThreadPostSynchInv, ThreadPollInv, StartInv, ThreadExitInv,
     ThreadReturnInv, ExitHandlerReturnInv DEF ThreadCall
<1>3. CASE \E p \in IsrPolled : IsrPoll(p)
  BY <1>3, IsrPollInv
<1>4. CASE UNCHANGED vars
  <2>1. UNCHANGED <<plist, next, state, needspoll, pollRequested, events, current, stack, ops,
                    owed, audience, heard, calm>>
    BY <1>4 DEF vars, kernel, history
  <2>2. SameLoops(stack, stack', next)
    BY <2>1 DEF SameLoops
  <2> QED BY <2>1, <2>2, Setup, StackStep DEF history
<1> QED BY <1>1, <1>2, <1>3, <1>4 DEF Next

LEMMA Invariance ==
  ASSUME Orderly
  PROVE  Spec => []IInv
<1>1. Init => IInv
  BY InitInv
<1>2. IInv /\ [Next]_vars => IInv'
  BY StepInv
<1> QED BY <1>1, <1>2, PTL DEF Spec

-----------------------------------------------------------------------------
(* What a thread that is on the stack may rely on. *)

\* The kernel's state stays well-formed: the queue never holds more than
\* PROCESS_CONF_NUMEVENTS events, and every pointer is a process or NULL.
THEOREM TypeCorrect ==
  ASSUME Orderly
  PROVE  Spec => []TypeOK
<1>1. IInv => TypeOK
  BY DEF IInv
<1> QED BY <1>1, Invariance, PTL

\* However calls, starts and exits nest, process_list stays a chain that ends,
\* so that every loop over it comes to its end.
THEOREM ListAlwaysEnds ==
  ASSUME Orderly
  PROVE  Spec => []ListEnds
<1>1. IInv => ListEnds
  BY Setup DEF ListKnown
<1> QED BY <1>1, Invariance, PTL

\* The test of PROCESS_STATE_CALLED in call_process, and exit_process taking its
\* process out of call_process's reach, keep a protothread from being entered
\* while it is on the stack.
THEOREM NeverReentered ==
  ASSUME Orderly
  PROVE  Spec => []NoReentry
<1>1. IInv => NoReentry
  <2> SUFFICES ASSUME IInv, NEW i \in 1 .. Len(stack), NEW j \in 1 .. Len(stack),
                      stack[i].f = "thread", stack[j].f = "thread", stack[i].p = stack[j].p
               PROVE  i = j
    BY DEF NoReentry
  <2> DEFINE p == stack[i].p
             Exits(k) == k + 1 \in 1 .. Len(stack) /\ IsExit(stack[k + 1]) /\ stack[k + 1].p = p
  <2>1. stack \in Seq(Frame) /\ Len(stack) \in Nat
    BY Setup
  <2>2. p \in Proc
    BY <2>1, FrameFields
  <2>3. \A k, l \in 1 .. Len(stack) : Holds(stack[k], p) /\ Holds(stack[l], p) => k = l
    BY <2>2 DEF IInv, Held
  <2>4. ASSUME NEW k \in 1 .. Len(stack), stack[k].f = "thread", stack[k].p = p
        PROVE  Holds(stack[k], p) \/ Exits(k)
    <3>1. k # Len(stack) /\ Fits(stack[k], stack[k + 1])
      BY <2>4, <2>1 DEF IInv, StackSound
    <3>2. CASE stack[k].direct
      <4>1. k + 1 \in 1 .. Len(stack)
        BY <3>1, <2>1
      <4> QED BY <4>1, <3>1, <3>2, <2>4 DEF Fits, IsExit
    <3>3. CASE ~stack[k].direct
      BY <3>3, <2>4 DEF Holds, IsCall
    <3> QED BY <3>2, <3>3
  <2>5. \A k : Exits(k) => Holds(stack[k + 1], p)
    BY DEF Holds
  <2>6. ASSUME NEW k \in 1 .. Len(stack), NEW l \in 1 .. Len(stack),
               Holds(stack[k], p), Exits(l), stack[k].f = "thread"
        PROVE  FALSE
    <3>1. k = l + 1
      BY <2>3, <2>5, <2>6
    <3> QED BY <3>1, <2>6 DEF IsExit
  <2>7. CASE Holds(stack[i], p) /\ Holds(stack[j], p)
    BY <2>7, <2>3
  <2>8. CASE Exits(i) /\ Exits(j)
    <3>1. i + 1 = j + 1
      BY <2>8, <2>3, <2>5
    <3> QED BY <3>1
  <2> QED BY <2>4, <2>6, <2>7, <2>8
<1> QED BY <1>1, Invariance, PTL

\* A thread that runs, also when it regains control from the calls it made, is
\* PROCESS_CURRENT().
THEOREM CurrentKept ==
  ASSUME Orderly
  PROVE  Spec => []CurrentRuns
<1>1. IInv => CurrentRuns
  BY DEF IInv
<1> QED BY <1>1, Invariance, PTL

-----------------------------------------------------------------------------
(* What the scheduler owes the processes. *)

LEMMA IdleFrame ==
  ASSUME IInv, Idle
  PROVE  Top.f \in {"boot", "run"} /\ Len(stack) = 1 /\ stack[1] = Top
<1>1. stack[1] = Top /\ Len(stack) = 1
  BY Setup, PopSeq DEF Idle, Top
<1>2. stack[1].f \in {"boot", "run"}
  BY <1>1 DEF IInv, StackSound
<1> QED BY <1>1, <1>2

\* Between two handlers the processes that are running are those on the list,
\* and none is left marked as called.
THEOREM RunningAreListed ==
  ASSUME Orderly
  PROVE  Spec => []RunningIffListed
<1>1. IInv => RunningIffListed
  <2> SUFFICES ASSUME IInv, Idle, NEW p \in Proc
               PROVE  state[p] # "called" /\ (state[p] = "running" <=> p \in Listed)
    BY DEF RunningIffListed
  <2>1. (p \in Listed => state[p] = "running") /\ (p \notin Listed => state[p] = "none")
    BY IdleFrame, SchedulerRuns
  <2> QED BY <2>1
<1> QED BY <1>1, Invariance, PTL

\* A poll that was requested, by a thread or by an interrupt between any two
\* steps, still stands when process_run is entered, unless it was delivered.
THEOREM PollsStand ==
  ASSUME Orderly
  PROVE  Spec => []NoPollForgotten
<1>1. IInv => NoPollForgotten
  <2> SUFFICES ASSUME IInv, Idle
               PROVE  /\ \A p \in owed : needspoll[p] /\ p \in Listed
                      /\ owed # {} => pollRequested
    BY DEF NoPollForgotten
  <2>1. \A p \in owed : needspoll[p] /\ p \in Listed
    BY DEF IInv, Polls, TypeOK, Held
  <2>2. \A i \in 1 .. Len(stack) : stack[i].f # "do_poll"
    <3>1. Top.f \in {"boot", "run"} /\ Len(stack) = 1 /\ stack[1] = Top
      BY IdleFrame
    <3> QED BY <3>1
  <2>3. PollComes(stack, next, owed) => owed = {}
    BY <2>2 DEF PollComes
  <2> QED BY <2>1, <2>3 DEF IInv, Polls
<1> QED BY <1>1, Invariance, PTL

\* When the broadcast loop of do_event comes to the end of the list, it has
\* given the event to every process that stayed on the list from its beginning.
THEOREM BroadcastComplete ==
  ASSUME Orderly
  PROVE  Spec => []BroadcastReachesAll
<1>1. IInv => BroadcastReachesAll
  <2> SUFFICES ASSUME IInv, Top.f = "broadcast", Top.p = Nil
               PROVE  audience \subseteq heard
    BY DEF BroadcastReachesAll
  <2>1. Ahead(next, Top) = Nil
    BY Setup, FrameFields, Params DEF Ahead
  <2>2. audience \ heard \subseteq Reach(next, Nil)
    BY <2>1, Setup, BroadcastPushed DEF IInv, Audience
  <2> QED BY <2>2, ReachFacts
<1> QED BY <1>1, Invariance, PTL

\* No step gives a broadcast to a process that had it, as long as no process
\* was started since it began.
THEOREM BroadcastNotRepeated ==
  ASSUME Orderly
  PROVE  Spec => BroadcastOnce
<1>1. ASSUME IInv, Top.f = "broadcast", Top.pc = "call", calm
      PROVE  Top.p \notin heard
  <2>1. Top.p \in Proc /\ Ahead(next, Top) = Top.p
    BY <1>1, Setup, FrameFields DEF Ahead
  <2>2. Ends(next, Top.p, heard)
    BY <1>1, <2>1, Setup, BroadcastPushed DEF IInv, Audience
  <2> QED BY <2>1, <2>2, Params DEF Ends
<1>2. IInv => (Top.f = "broadcast" /\ Top.pc = "call" /\ state[Top.p] = "running"
                 /\ stack' # stack /\ calm => Top.p \notin heard)
  BY <1>1
<1> QED BY <1>2, Invariance, PTL DEF BroadcastOnce
=============================================================================
