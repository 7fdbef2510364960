------------------------------ MODULE ByteFifo ------------------------------
(***************************************************************************)
(* What a byte ring buffer promises its callers: a bounded first-in,       *)
(* first-out queue of bytes.  A write appends the longest prefix that      *)
(* fits, a read takes the longest prefix that is asked for, a peek copies  *)
(* without taking, and bytes the hardware left in the free cells join the  *)
(* queue at its end.  Each call names itself in `call', so a call of the   *)
(* implementation can only be matched with the same call here.             *)
(***************************************************************************)
EXTENDS Integers, Sequences

CONSTANTS Capacity, Byte, MaxLen

VARIABLES
  queue,   \* the unread bytes, oldest first
  call,    \* the last call, with its arguments
  count,   \* what it returned
  taken    \* the bytes the last read, peek or transfer gave out

vars == <<queue, call, count, taken>>

Smaller(x, y) == IF x < y THEN x ELSE y
Room == Capacity - Len(queue)
Lens == 0 .. MaxLen

Init == queue = <<>> /\ call = <<"none">> /\ count = 0 /\ taken = <<>>

Write(d) ==
  LET n == Smaller(Room, Len(d))
  IN  /\ call' = <<"write", d>>
      /\ queue' = queue \o SubSeq(d, 1, n)
      /\ count' = n
      /\ UNCHANGED taken

Read(n) ==
  LET m == Smaller(Len(queue), n)
  IN  /\ call' = <<"read", n>>
      /\ taken' = SubSeq(queue, 1, m)
      /\ queue' = SubSeq(queue, m + 1, Len(queue))
      /\ count' = m

Peek(s, n) ==
  /\ call' = <<"peek", s, n>>
  /\ taken' = SubSeq(queue, s + 1, Smaller(Len(queue), s + n))
  /\ count' = Len(taken')
  /\ UNCHANGED queue

\* A skip and an advance tell the number they were asked for, not the number
\* they moved.
Skip(n) ==
  /\ call' = <<"skip", n>>
  /\ queue' = SubSeq(queue, Smaller(Len(queue), n) + 1, Len(queue))
  /\ count' = n
  /\ UNCHANGED taken

\* The hardware's bytes are not known to the software before it reads them.
Advance(n) ==
  /\ call' = <<"advance", n>>
  /\ \E d \in [1 .. Smaller(Room, n) -> Byte] : queue' = queue \o d
  /\ count' = n
  /\ UNCHANGED taken

\* The hardware writes into free cells only: no unread byte changes.
Fill(b) ==
  /\ call' = <<"fill", b>>
  /\ count' \in 0 .. Room
  /\ UNCHANGED <<queue, taken>>

\* The hardware sends a prefix, and not nothing when there is something.
Send ==
  /\ call' = <<"send">>
  /\ \E n \in 0 .. Len(queue) :
       /\ n = 0 => queue = <<>>
       /\ taken' = SubSeq(queue, 1, n)
       /\ count' = n
  /\ UNCHANGED queue

Clear ==
  /\ call' \in {<<"init">>, <<"free">>, <<"reset">>}
  /\ queue' = <<>>
  /\ count' \in Nat
  /\ UNCHANGED taken

Next ==
  \/ \E d \in UNION {[1 .. n -> Byte] : n \in 1 .. MaxLen} : Write(d)
  \/ \E n \in Lens : Read(n) \/ Skip(n) \/ Advance(n)
  \/ \E s, n \in Lens : Peek(s, n)
  \/ \E b \in Byte : Fill(b)
  \/ Send \/ Clear

Spec == Init /\ [][Next]_vars

=============================================================================
