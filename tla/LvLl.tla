-------------------------------- MODULE LvLl --------------------------------
(***************************************************************************)
(* lv_mem/lv_ll.c: doubly linked lists whose nodes carry their links       *)
(* behind their data.  A list is a record of the two ends and of the links *)
(* as they stand in memory, whoever owns that memory; the functions lead   *)
(* from list to list.  Allocation is the caller's: n is a node it got.     *)
(***************************************************************************)
EXTENDS Integers, FiniteSets

CONSTANTS
  Node,   \* the addresses a node may have
  Null    \* NULL

\* node_set_prev and node_set_next pass over NULL.
SetPrev(l, n, p) == IF n = Null THEN l ELSE [l EXCEPT !.prev[n] = p]
SetNext(l, n, p) == IF n = Null THEN l ELSE [l EXCEPT !.next[n] = p]

\* lv_ll_init.
Empty ==
  [head |-> Null, tail |-> Null,
   prev |-> [n \in Node |-> Null], next |-> [n \in Node |-> Null]]

\* lv_ll_ins_head.
InsHead(l, n) ==
  LET m == SetPrev(SetNext(SetPrev(l, n, Null), n, l.head), l.head, n)
  IN  [m EXCEPT !.head = n, !.tail = IF @ = Null THEN n ELSE @]

\* lv_ll_ins_tail.
InsTail(l, n) ==
  LET m == SetNext(SetPrev(SetNext(l, n, Null), n, l.tail), l.tail, n)
  IN  [m EXCEPT !.tail = n, !.head = IF @ = Null THEN n ELSE @]

\* n between b and a, either of which may be NULL.
Between(l, b, n, a) == SetNext(SetPrev(SetPrev(SetNext(l, b, n), n, b), a, n), n, a)

\* A faulty InsPrev: the node before is not told.
InsPrevUntold(l, n, act) ==
  IF l.head = act THEN InsHead(l, n)
  ELSE SetNext(SetPrev(SetPrev(l, n, l.prev[act]), act, n), n, act)

\* lv_ll_ins_prev.
InsPrev(l, n, act) ==
  IF l.head = act THEN InsHead(l, n) ELSE Between(l, l.prev[act], n, act)

\* lv_ll_rem.
Rem(l, n) ==
  LET p == l.prev[n]
      s == l.next[n]
  IN  IF l.head = n THEN [SetPrev(l, s, Null) EXCEPT !.head = s,
                                                     !.tail = IF s = Null THEN Null ELSE @]
      ELSE IF l.tail = n THEN [SetNext(l, p, Null) EXCEPT !.tail = p,
                                                          !.head = IF p = Null THEN Null ELSE @]
      ELSE SetPrev(SetNext(l, p, s), s, p)

\* lv_ll_move_before: behind all others when after is NULL.
MoveBefore(l, act, after) ==
  LET before == IF after = Null THEN l.tail ELSE l.prev[after]
      m      == Between(Rem(l, act), before, act, after)
  IN  IF act \in {after, before} THEN l
      ELSE [m EXCEPT !.tail = IF after = Null THEN act ELSE @,
                     !.head = IF before = Null THEN act ELSE @]

\* LV_LL_READ up to the first node that is in S: that node, or NULL.
FirstIn(l, S) ==
  LET walk[i \in 0 .. Cardinality(Node)] ==
        IF i = 0 THEN l.head
        ELSE IF walk[i - 1] \in Node \ S THEN l.next[walk[i - 1]] ELSE walk[i - 1]
  IN  walk[Cardinality(Node)]

\* The nodes one meets on the way from the head.
Reached(l) == {n \in Node : FirstIn(l, {n}) = n}
=============================================================================
