------------------------------ MODULE Process -------------------------------
(***************************************************************************)
(* The Contiki process kernel (contiki/core/sys/process.c): cooperative    *)
(* processes called through events and polls, on one stack, with interrupt *)
(* handlers that request polls between any two steps.                      *)
(*                                                                         *)
(* The kernel is re-entrant: the thread it calls may itself post           *)
(* synchronously, start or exit processes, so the C call stack is a state  *)
(* variable.  Its top frame says which function runs, and every field of a *)
(* frame is a local variable of that function.                             *)
(***************************************************************************)
EXTENDS Naturals, Sequences, FiniteSets

CONSTANTS
  Proc,        \* the process structures
  Nil,         \* NULL: no process, and PROCESS_BROADCAST as a receiver
  IsrPolled,   \* processes interrupt handlers poll (drivers, etimer)
  NumEvents,   \* PROCESS_CONF_NUMEVENTS
  MaxOps,      \* bound: kernel calls the threads make in one process_run
  ExitActive,  \* may a process be exited while it is called or already exiting
  Inits        \* of events threads post: may it be a PROCESS_EVENT_INIT, or not

ASSUME ProcAssumption ==
  /\ IsFiniteSet(Proc) /\ Nil \notin Proc /\ IsrPolled \subseteq Proc
  /\ NumEvents \in 1 .. 128 /\ MaxOps \in Nat
  /\ ExitActive \in BOOLEAN /\ Inits \subseteq BOOLEAN

VARIABLES
  plist,          \* process_list, the head of the list
  next,           \* p->next; a process that left the list keeps its pointer
  state,          \* p->state
  needspoll,      \* p->needspoll
  pollRequested,  \* poll_requested
  events,         \* receivers of the queued events, oldest first, each with
                  \* whether the event is a PROCESS_EVENT_INIT
  current,        \* process_current
  stack,          \* the call stack, innermost frame first
  ops,            \* kernel calls made since process_run was entered
  owed,           \* history: polled since their start, poll not delivered
  audience,       \* history: listed since the current broadcast began
  heard,          \* history: processes the current broadcast was given to
  calm            \* history: no process was started during it

kernel  == <<plist, next, state, needspoll, pollRequested, events, current>>
history == <<owed, audience, heard, calm>>
vars    == <<kernel, stack, ops, history>>

-----------------------------------------------------------------------------
(* Frames, and the process list as a set. *)

Top  == Head(stack)
Rest == Tail(stack)

Boot             == [f |-> "boot"]
Run(pc)          == [f |-> "run", pc |-> pc]
DoPoll(p, pc)    == [f |-> "do_poll", p |-> p, pc |-> pc]
Bcast(p, pc)     == [f |-> "broadcast", p |-> p, pc |-> pc]
Synch(c)         == [f |-> "synch", caller |-> c]
Thread(p, ev, d) == [f |-> "thread", p |-> p, ev |-> ev, direct |-> d]
ExitOf(p, from, q, old, pc) ==
  [f |-> "exit", p |-> p, from |-> from, q |-> q, old |-> old, pc |-> pc]

\* The n-th process reached from the head of the list.
Walk[n \in 0 .. Cardinality(Proc)] ==
  IF n = 0 THEN plist
  ELSE LET p == Walk[n - 1] IN IF p = Nil THEN Nil ELSE next[p]

Listed == {Walk[n] : n \in 0 .. Cardinality(Proc)} \ {Nil}

\* Processes whose thread is on the stack, or whose exit is under way.
Active ==
  {stack[i].p : i \in {j \in 1 .. Len(stack) : stack[j].f \in {"thread", "exit"}}}

Init ==
  /\ plist = Nil /\ next = [p \in Proc |-> Nil]
  /\ state = [p \in Proc |-> "none"]
  /\ needspoll = [p \in Proc |-> FALSE]
  /\ pollRequested = FALSE /\ events = <<>> /\ current = Nil
  /\ stack = <<Boot>> /\ ops = 0
  /\ owed = {} /\ audience = {} /\ heard = {} /\ calm = TRUE

-----------------------------------------------------------------------------
(* The functions a kernel step calls.  s is the state array on entry and st *)
(* the stack to come back to.                                               *)

\* A faulty CallProcess: a process that is being called is called again.
CallAnyProcess(s, p, ev, st) ==
  IF s[p] # "none"
  THEN /\ current' = p
       /\ state' = [s EXCEPT ![p] = "called"]
       /\ stack' = <<Thread(p, ev, FALSE)>> \o st
  ELSE /\ state' = s /\ stack' = st /\ UNCHANGED current

\* call_process: only a process that is running, and not being called, is.
CallProcess(s, p, ev, st) ==
  IF s[p] = "running"
  THEN /\ current' = p
       /\ state' = [s EXCEPT ![p] = "called"]
       /\ stack' = <<Thread(p, ev, FALSE)>> \o st
  ELSE /\ state' = s
       /\ stack' = st
       /\ UNCHANGED current

\* exit_process, up to its first call: a process that is not running is only
\* taken off the list.
ExitProcess(p, from, st) ==
  IF p \notin Listed
  THEN /\ stack' = st
       /\ UNCHANGED <<state, audience, owed>>
  ELSE IF state[p] # "none"
  THEN /\ state' = [state EXCEPT ![p] = "none"]
       /\ stack' = <<ExitOf(p, from, plist, current, "notify")>> \o st
       /\ audience' = audience \ {p}
       /\ owed' = owed \ {p}
  ELSE /\ stack' = <<ExitOf(p, from, Nil, current, "unlink")>> \o st
       /\ UNCHANGED <<state, audience, owed>>

\* A faulty Poll: the process is marked and the scheduler is not told.
PollUnrequested(p) ==
  IF state[p] # "none"
  THEN /\ needspoll' = [needspoll EXCEPT ![p] = TRUE]
       /\ owed' = owed \union {p}
       /\ UNCHANGED pollRequested
  ELSE UNCHANGED <<needspoll, pollRequested, owed>>

\* process_poll.
Poll(p) ==
  IF state[p] # "none"
  THEN /\ needspoll' = [needspoll EXCEPT ![p] = TRUE]
       /\ pollRequested' = TRUE
       /\ owed' = owed \union {p}
  ELSE UNCHANGED <<needspoll, pollRequested, owed>>

-----------------------------------------------------------------------------
(* The scheduler: process_run, do_poll, do_event. *)

\* main: the processes are started, the endless loop on process_run begins.
EndBoot ==
  /\ Top.f = "boot"
  /\ stack' = <<Run("poll")>>
  /\ ops' = 0
  /\ UNCHANGED <<kernel, history>>

\* process_run tests poll_requested; do_poll clears it before its loop.
RunPoll ==
  /\ Top = Run("poll")
  /\ stack' = (IF pollRequested THEN <<DoPoll(plist, "test")>> ELSE <<>>)
              \o <<Run("event")>>
  /\ pollRequested' = FALSE
  /\ ops' = 0
  /\ UNCHANGED <<plist, next, state, needspoll, events, current, history>>

\* do_poll's loop body: a process that asked is called with a poll event.
DoPollTest ==
  LET p == Top.p
  IN  /\ Top.f = "do_poll" /\ Top.pc = "test" /\ p # Nil
      /\ IF needspoll[p]
         THEN /\ needspoll' = [needspoll EXCEPT ![p] = FALSE]
              /\ owed' = owed \ {p}
              /\ CallProcess([state EXCEPT ![p] = "running"], p, "poll",
                             <<DoPoll(p, "next")>> \o Rest)
         ELSE /\ stack' = <<DoPoll(p, "next")>> \o Rest
              /\ UNCHANGED <<needspoll, owed, state, current>>
      /\ UNCHANGED <<plist, next, pollRequested, events, ops, audience, heard, calm>>

\* p = p->next, read after the call came back.
DoPollNext ==
  /\ Top.f = "do_poll" /\ Top.pc = "next"
  /\ stack' = <<DoPoll(next[Top.p], "test")>> \o Rest
  /\ UNCHANGED <<kernel, ops, history>>

\* A faulty DoPollEnd: poll_requested is cleared behind the loop.
DoPollEndClears ==
  /\ Top.f = "do_poll" /\ Top.p = Nil
  /\ stack' = Rest
  /\ pollRequested' = FALSE
  /\ UNCHANGED <<plist, next, state, needspoll, events, current, ops, history>>

DoPollEnd ==
  /\ Top.f = "do_poll" /\ Top.p = Nil
  /\ stack' = Rest
  /\ UNCHANGED <<kernel, ops, history>>

\* The states the receiver of an event is called in: "if the event was an INIT
\* event, we should also update the state of the process", listed or not.
StateFor(to, init) == IF init THEN [state EXCEPT ![to] = "running"] ELSE state

\* do_event: the oldest event leaves the queue before it is delivered.
RunEvent ==
  /\ Top = Run("event")
  /\ IF events = <<>>
     THEN /\ stack' = <<Run("poll")>>
          /\ UNCHANGED <<state, current, events, audience, heard, calm>>
     ELSE LET to   == Head(events)[1]
              init == Head(events)[2]
          IN
          /\ events' = Tail(events)
          /\ IF to = Nil
             THEN /\ stack' = <<Bcast(plist, "poll"), Run("poll")>>
                  /\ audience' = Listed /\ heard' = {} /\ calm' = TRUE
                  /\ UNCHANGED <<state, current>>
             ELSE /\ CallProcess(StateFor(to, init), to, IF init THEN "init" ELSE "msg",
                                 <<Run("poll")>>)
                  /\ UNCHANGED <<audience, heard, calm>>
  /\ UNCHANGED <<plist, next, needspoll, pollRequested, ops, owed>>

\* The broadcast loop runs the poll handlers before each delivery.
BcastPoll ==
  /\ Top.f = "broadcast" /\ Top.pc = "poll" /\ Top.p # Nil
  /\ stack' = (IF pollRequested THEN <<DoPoll(plist, "test")>> ELSE <<>>)
              \o <<Bcast(Top.p, "call")>> \o Rest
  /\ pollRequested' = FALSE
  /\ UNCHANGED <<plist, next, state, needspoll, events, current, ops, history>>

BcastCall ==
  /\ Top.f = "broadcast" /\ Top.pc = "call"
  /\ CallProcess(state, Top.p, "bcast", <<Bcast(Top.p, "next")>> \o Rest)
  /\ heard' = IF state[Top.p] = "running" THEN heard \union {Top.p} ELSE heard
  /\ UNCHANGED <<plist, next, needspoll, pollRequested, events, ops,
                 owed, audience, calm>>

\* A faulty BcastNext: the loop starts over when its process left the list.
BcastNextOver ==
  /\ Top.f = "broadcast" /\ Top.pc = "next"
  /\ stack' = <<Bcast(IF Top.p \in Listed THEN next[Top.p] ELSE plist, "poll")>> \o Rest
  /\ UNCHANGED <<kernel, ops, history>>

BcastNext ==
  /\ Top.f = "broadcast" /\ Top.pc = "next"
  /\ stack' = <<Bcast(next[Top.p], "poll")>> \o Rest
  /\ UNCHANGED <<kernel, ops, history>>

BcastEnd ==
  /\ Top.f = "broadcast" /\ Top.p = Nil
  /\ stack' = Rest
  /\ audience' = {} /\ heard' = {} /\ calm' = TRUE
  /\ UNCHANGED <<kernel, ops, owed>>

-----------------------------------------------------------------------------
(* The rest of exit_process. *)

\* Every other process on the list is called with PROCESS_EVENT_EXITED.
ExitNotify ==
  LET q == Top.q
  IN  /\ Top.f = "exit" /\ Top.pc = "notify" /\ q # Nil
      /\ IF q # Top.p
         THEN CallProcess(state, q, "exited",
                          <<[Top EXCEPT !.pc = "step"]>> \o Rest)
         ELSE /\ stack' = <<[Top EXCEPT !.pc = "step"]>> \o Rest
              /\ UNCHANGED <<state, current>>
      /\ UNCHANGED <<plist, next, needspoll, pollRequested, events, ops, history>>

ExitStep ==
  /\ Top.f = "exit" /\ Top.pc = "step"
  /\ stack' = <<[Top EXCEPT !.q = next[Top.q], !.pc = "notify"]>> \o Rest
  /\ UNCHANGED <<kernel, ops, history>>

\* The thread itself is called with PROCESS_EVENT_EXIT, unless it is the
\* process that called the exit; its state is not looked at.
ExitHandler ==
  /\ Top.f = "exit" /\ Top.pc = "notify" /\ Top.q = Nil
  /\ LET frame == [Top EXCEPT !.pc = "unlink"]
     IN  IF Top.p # Top.from
         THEN /\ current' = Top.p
              /\ stack' = <<Thread(Top.p, "exit", TRUE), frame>> \o Rest
         ELSE /\ stack' = <<frame>> \o Rest
              /\ UNCHANGED current
  /\ UNCHANGED <<plist, next, state, needspoll, pollRequested, events, ops, history>>

\* Faulty ExitUnlinks: the pointer of the process that leaves is cleared; only
\* the head of the list can leave it.
ExitUnlinkClears ==
  LET p == Top.p
  IN  /\ Top.f = "exit" /\ Top.pc = "unlink"
      /\ plist' = IF plist = p THEN next[p] ELSE plist
      /\ next' = [q \in Proc |-> IF q = p THEN Nil
                                 ELSE IF q \in Listed /\ next[q] = p THEN next[p]
                                 ELSE next[q]]
      /\ current' = Top.old
      /\ stack' = Rest
      /\ UNCHANGED <<state, needspoll, pollRequested, events, ops, history>>

ExitUnlinkHead ==
  LET p == Top.p
  IN  /\ Top.f = "exit" /\ Top.pc = "unlink"
      /\ plist' = IF plist = p THEN next[p] ELSE plist
      /\ current' = Top.old
      /\ stack' = Rest
      /\ UNCHANGED <<next, state, needspoll, pollRequested, events, ops, history>>

ExitUnlink ==
  LET p == Top.p
  IN  /\ Top.f = "exit" /\ Top.pc = "unlink"
      /\ plist' = IF plist = p THEN next[p] ELSE plist
      /\ next' = IF plist = p THEN next
                 ELSE [q \in Proc |-> IF q \in Listed /\ next[q] = p THEN next[p]
                                      ELSE next[q]]
      /\ current' = Top.old
      /\ stack' = Rest
      /\ UNCHANGED <<state, needspoll, pollRequested, events, ops, history>>

\* A faulty SynchReturn: process_current stays with the process called.
SynchReturnForgets ==
  /\ Top.f = "synch"
  /\ stack' = Rest
  /\ UNCHANGED <<kernel, ops, history>>

\* process_post_synch gives process_current back to its caller.
SynchReturn ==
  /\ Top.f = "synch"
  /\ current' = Top.caller
  /\ stack' = Rest
  /\ UNCHANGED <<plist, next, state, needspoll, pollRequested, events, ops, history>>

-----------------------------------------------------------------------------
(* What a running thread (or main, while it boots) may call. *)

InThread == Top.f = "thread" /\ ops < MaxOps

\* A faulty ThreadPost: a full queue is not noticed.
ThreadPostUnchecked(to, init) ==
  /\ InThread
  /\ ops' = ops + 1
  /\ events' = Append(events, <<to, init>>)
  /\ UNCHANGED <<plist, next, state, needspoll, pollRequested, current, stack, history>>

\* process_post, to one process or to all; a full queue refuses.
ThreadPost(to, init) ==
  /\ InThread
  /\ ops' = ops + 1
  /\ events' = IF Len(events) = NumEvents THEN events ELSE Append(events, <<to, init>>)
  /\ UNCHANGED <<plist, next, state, needspoll, pollRequested, current, stack, history>>

\* process_post_synch.
ThreadPostSynch(q) ==
  /\ InThread
  /\ ops' = ops + 1
  /\ CallProcess(state, q, "synch", <<Synch(current)>> \o stack)
  /\ UNCHANGED <<plist, next, needspoll, pollRequested, events, history>>

\* process_poll.
ThreadPoll(q) ==
  /\ InThread
  /\ ops' = ops + 1
  /\ Poll(q)
  /\ UNCHANGED <<plist, next, state, events, current, stack, audience, heard, calm>>

\* A faulty Start: a process that is on the list is put there again.
StartTwice(q) ==
  /\ InThread \/ (Top.f = "boot" /\ ops < MaxOps)
  /\ ops' = ops + 1
  /\ next' = [next EXCEPT ![q] = plist]
  /\ plist' = q
  /\ CallProcess([state EXCEPT ![q] = "running"], q, "init", <<Synch(current)>> \o stack)
  /\ UNCHANGED <<needspoll, pollRequested, events, owed, audience, heard, calm>>

\* process_start: nothing when the process is on the list, else it becomes
\* the head and is called with PROCESS_EVENT_INIT.
Start(q) ==
  /\ InThread \/ (Top.f = "boot" /\ ops < MaxOps)
  /\ ops' = ops + 1
  /\ IF q \in Listed
     THEN UNCHANGED <<plist, next, state, current, stack, calm>>
     ELSE /\ next' = [next EXCEPT ![q] = plist]
          /\ plist' = q
          /\ CallProcess([state EXCEPT ![q] = "running"], q, "init",
                         <<Synch(current)>> \o stack)
          /\ calm' = (calm /\ \A i \in 1 .. Len(stack) : stack[i].f # "broadcast")
  /\ UNCHANGED <<needspoll, pollRequested, events, owed, audience, heard>>

\* process_exit, of another process or of the caller.
ThreadExit(q) ==
  /\ InThread
  /\ ExitActive \/ q \notin Active
  /\ ops' = ops + 1
  /\ ExitProcess(q, current, stack)
  /\ UNCHANGED <<plist, next, needspoll, pollRequested, events, current, heard, calm>>

\* The thread returns to call_process: ended (PT_EXITED, PT_ENDED), or
\* waiting for its next event.
ThreadReturn(ended) ==
  /\ Top.f = "thread" /\ ~Top.direct
  /\ IF ended
     THEN ExitProcess(Top.p, Top.p, Rest)
     ELSE /\ state' = [state EXCEPT ![Top.p] = "running"]
          /\ stack' = Rest
          /\ UNCHANGED <<audience, owed>>
  /\ UNCHANGED <<plist, next, needspoll, pollRequested, events, current, ops,
                  heard, calm>>

\* The thread returns to exit_process, which ignores what it returns.
ExitHandlerReturn ==
  /\ Top.f = "thread" /\ Top.direct
  /\ stack' = Rest
  /\ UNCHANGED <<kernel, ops, history>>

-----------------------------------------------------------------------------
\* An interrupt handler polls a process; it runs to its end between two steps.
IsrPoll(p) ==
  /\ Poll(p)
  /\ UNCHANGED <<plist, next, state, events, current, stack, ops,
                 audience, heard, calm>>

Scheduler ==
  \/ EndBoot \/ RunPoll \/ DoPollTest \/ DoPollNext \/ DoPollEnd
  \/ RunEvent \/ BcastPoll \/ BcastCall \/ BcastNext \/ BcastEnd
  \/ ExitNotify \/ ExitStep \/ ExitHandler \/ ExitUnlink \/ SynchReturn

ThreadCall ==
  \/ \E to \in Proc \union {Nil}, init \in Inits : ThreadPost(to, init)
  \/ \E q \in Proc : ThreadPostSynch(q) \/ ThreadPoll(q) \/ Start(q) \/ ThreadExit(q)
  \/ \E ended \in BOOLEAN : ThreadReturn(ended)
  \/ ExitHandlerReturn

Next == Scheduler \/ ThreadCall \/ \E p \in IsrPolled : IsrPoll(p)

\* The processor executes main's code as long as there is any, and a thread
\* returns: it makes at most MaxOps calls.  Interrupts owe nothing.
Spec == Init /\ [][Next]_vars /\ WF_vars(Scheduler \/ ThreadCall)

-----------------------------------------------------------------------------
\* What the queue holds.
Queued == (Proc \union {Nil}) \X Inits

TypeOK ==
  /\ plist \in Proc \union {Nil} /\ next \in [Proc -> Proc \union {Nil}]
  /\ state \in [Proc -> {"none", "running", "called"}]
  /\ needspoll \in [Proc -> BOOLEAN] /\ pollRequested \in BOOLEAN
  /\ events \in Seq(Queued) /\ Len(events) <= NumEvents
  /\ current \in Proc \union {Nil}
  /\ stack # <<>> /\ ops \in 0 .. MaxOps
  /\ {owed, heard, audience} \subseteq SUBSET Proc /\ calm \in BOOLEAN

\* process_run is between two handlers: nothing is being called.
Idle == Len(stack) = 1

\* However calls, starts and exits nest, the list stays a chain that ends:
\* every loop over it terminates (process.c:105, 131, 147, 163, 231, 277).
ListEnds == Walk[Cardinality(Proc)] = Nil

\* Between two handlers the processes that are_running are exactly those on the
\* list, and none is left marked as called (process.c:98-199).  An exit of a
\* process that is being called breaks it (ProcessSelfExit.cfg), and so does an
\* INIT event posted to a process off the list (ProcessInit.cfg).
RunningIffListed ==
  Idle => \A p \in Proc :
            state[p] # "called" /\ (state[p] = "running" <=> p \in Listed)

\* A protothread, whose locals do not survive a call, is never entered while it
\* is already on the stack (the PROCESS_STATE_CALLED test, process.c:185-191).
NoReentry ==
  \A i, j \in 1 .. Len(stack) :
    stack[i].f = "thread" /\ stack[j].f = "thread" /\ i # j
      => stack[i].p # stack[j].p

\* A thread that runs is PROCESS_CURRENT(), also when it regains control from
\* nested calls: a timer it sets is its own (process.c:127, 155, 171, 188, 364-367).
CurrentRuns == Top.f = "thread" => current = Top.p

\* When process_run is entered, a requested poll that is not yet delivered
\* still stands, wherever the interrupt fell (process.c:229-236, 370-380).
NoPollForgotten ==
  Idle => /\ \A p \in owed : needspoll[p] /\ p \in Listed
          /\ owed # {} => pollRequested

\* A broadcast reaches every process that is there from its beginning to its
\* end, although the list changes under the loop (process.c:276-285).
BroadcastReachesAll ==
  Top.f = "broadcast" /\ Top.p = Nil => audience \subseteq heard

\* A broadcast is given to no process twice, unless a process is started while
\* it goes round and comes to the head of the list (process.c:276-285).
BroadcastOnce ==
  [][Top.f = "broadcast" /\ Top.pc = "call" /\ state[Top.p] = "running"
       /\ stack' # stack /\ calm
     => Top.p \notin heard]_vars

\* A requested poll is delivered, unless the process exits first.
PollDelivered == \A p \in Proc : p \in owed ~> p \notin owed
=============================================================================
