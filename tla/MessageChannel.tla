---------------------------- MODULE MessageChannel ----------------------------
(***************************************************************************)
(* What message_queue.h promises of a queue that is set up: a fixed pool   *)
(* of messages, each of which is free, held by a client or queued, and a   *)
(* queue that hands them on in the order in which they were written.       *)
(* Where the header has message_alloc_blocking and read wait, they give    *)
(* NULL here, as alloc and tryread do: in this port nothing waits.         *)
(***************************************************************************)
EXTENDS Sequences

CONSTANTS Msg, Null

VARIABLES
  pool,   \* the free messages
  held,   \* the messages clients allocated or read, and still hold
  fifo,   \* the queued messages, oldest first
  ret     \* what the last call returned

chan == <<pool, held, fifo, ret>>

Init == pool = Msg /\ held = {} /\ fifo = <<>> /\ ret = Null

Alloc ==
  \/ /\ pool = {} /\ ret' = Null
     /\ UNCHANGED <<pool, held, fifo>>
  \/ /\ \E m \in pool : pool' = pool \ {m} /\ held' = held \union {m} /\ ret' = m
     /\ UNCHANGED fifo

Free ==
  /\ \E m \in held : held' = held \ {m} /\ pool' = pool \union {m}
  /\ ret' = Null
  /\ UNCHANGED fifo

Write ==
  /\ \E m \in held : held' = held \ {m} /\ fifo' = Append(fifo, m)
  /\ ret' = Null
  /\ UNCHANGED pool

Read ==
  \/ /\ fifo = <<>> /\ ret' = Null
     /\ UNCHANGED <<pool, held, fifo>>
  \/ /\ fifo # <<>> /\ ret' = Head(fifo)
     /\ fifo' = Tail(fifo) /\ held' = held \union {Head(fifo)}
     /\ UNCHANGED pool

\* Taken down with whatever it holds, it is as new when it is next set up.
Renew == pool' = Msg /\ held' = {} /\ fifo' = <<>> /\ ret' = Null

Next == Alloc \/ Free \/ Write \/ Read \/ Renew

Spec == Init /\ [][Next]_chan
=============================================================================
