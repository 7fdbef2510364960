------------------------------- MODULE LvTask -------------------------------
(***************************************************************************)
(* lv_mem/lv_task.c: tasks with a period and a priority on an lv_ll list,  *)
(* the handler that calls them, and lv_async.c, which makes tasks for one  *)
(* call.  What a task calls while it is called changes the list on which   *)
(* the handler stands: the handler is one action per element it looks at,  *)
(* and the call of a task is an interval in which the task makes calls.    *)
(* The node of a deleted task is memory that the next one may get.         *)
(***************************************************************************)
EXTENDS LvLl

CONSTANTS
  Junk,            \* what lv_mem_free leaves in a node (LV_MEM_ADD_JUNK)
  Prios, Periods,  \* bound: the priorities and periods that are asked for
  MaxOps,          \* bound: calls a task makes while it is called
  DeletesOthers    \* do tasks of the highest priority delete others and stay

ASSUME TaskAssumption ==
  /\ IsFiniteSet(Node) /\ Null \notin Node /\ Junk \notin Node \union {Null}
  /\ Prios \subseteq 0 .. 5 /\ Periods \subseteq Nat /\ IsFiniteSet(Periods)
  /\ MaxOps \in Nat /\ DeletesOthers \in BOOLEAN

VARIABLES
  ll,                    \* _lv_task_ll
  mem,                   \* the nodes that are allocated
  prio, period, once,    \* the fields of the tasks
  since,                 \* lv_tick_elaps(last_run), up to the longest period
  run,                   \* lv_task_run
  created, deleted,      \* task_created, task_deleted
  act,                   \* _lv_task_act
  pc,                    \* where the handler is, and its local variables
  seen                   \* history: tasks looked at since a lower one was called

fields  == <<prio, period, once, since>>
flags   == <<created, deleted>>
vars    == <<ll, mem, fields, run, flags, act, pc, seen>>

\* LV_TASK_PRIO_OFF, DEF_PRIO and LV_TASK_PRIO_HIGHEST.
Off == 0
DefPrio == 3
Highest == 5

Longest == CHOOSE p \in Periods \union {0} : \A q \in Periods \union {0} : q <= p
Elapsed(n) == IF n < Longest THEN n ELSE Longest

\* The handler does not run; it is about to look at act; it called act.
Out == [at |-> "out"]
Look(intr) == [at |-> "look", intr |-> intr]
Call(intr, next, top) ==
  [at |-> "call", intr |-> intr, next |-> next, top |-> top, left |-> MaxOps]

\* lv_task_core_init.
Init ==
  /\ ll = Empty /\ mem = {}
  /\ prio = [n \in Node |-> Junk] /\ period = [n \in Node |-> Junk]
  /\ once = [n \in Node |-> Junk] /\ since = [n \in Node |-> 0]
  /\ run = TRUE /\ created = FALSE /\ deleted = FALSE
  /\ act = Null /\ pc = Out /\ seen = {}

\* The tick interrupt: lv_tick_inc.
Tick ==
  /\ since' = [n \in Node |-> IF n \in mem THEN Elapsed(since[n] + 1) ELSE 0]
  /\ UNCHANGED <<ll, mem, prio, period, once, run, flags, act, pc, seen>>

-----------------------------------------------------------------------------
(* What main calls, and tasks while they are called. *)

\* main, or a task that has calls left, makes a call.
Caller ==
  \/ pc = Out /\ UNCHANGED pc
  \/ pc.at = "call" /\ pc.left > 0 /\ pc' = [pc EXCEPT !.left = @ - 1]

\* A faulty Inserted: the task goes to the end whatever its priority.
InsertedLast(l, t) == InsTail(l, t)

\* Where lv_task_create_basic puts a task.
Inserted(l, t) ==
  LET i == FirstIn(l, {n \in mem : prio[n] <= DefPrio})
  IN  IF i = Null THEN InsTail(l, t) ELSE InsPrev(l, t, i)

\* Where lv_task_set_prio moves it, pr being the priorities so far.
Moved(l, pr, t, p) ==
  LET i == FirstIn(l, {n \in mem \union {t} : pr[n] <= p})
  IN  IF p = pr[t] \/ i = t THEN l ELSE MoveBefore(l, t, i)

\* lv_task_create, and lv_async_call, which makes a task of period 0 that is
\* called once.  Either returns NULL when there is no memory.
Create(t, per, p, o) ==
  /\ Caller /\ t \notin mem
  /\ ll' = Moved(Inserted(ll, t), [prio EXCEPT ![t] = DefPrio], t, p)
  /\ mem' = mem \union {t}
  /\ prio' = [prio EXCEPT ![t] = p] /\ period' = [period EXCEPT ![t] = per]
  /\ once' = [once EXCEPT ![t] = o] /\ since' = [since EXCEPT ![t] = 0]
  /\ created' = TRUE
  /\ UNCHANGED <<run, deleted, act, seen>>

AsyncCall(t) == Create(t, 0, Highest, TRUE)

\* A faulty Delete: the node is freed before it is unlinked.
DeleteFreed(t) ==
  /\ mem' = mem \ {t}
  /\ ll' = Rem([ll EXCEPT !.prev[t] = Junk, !.next[t] = Junk], t)
  /\ prio' = [prio EXCEPT ![t] = Junk] /\ period' = [period EXCEPT ![t] = Junk]
  /\ once' = [once EXCEPT ![t] = Junk] /\ since' = [since EXCEPT ![t] = 0]
  /\ deleted' = (deleted \/ act = t)

\* A faulty Delete: that it was the active task is not noted.
DeleteUnnoted(t) ==
  /\ mem' = mem \ {t}
  /\ ll' = [Rem(ll, t) EXCEPT !.prev[t] = Junk, !.next[t] = Junk]
  /\ prio' = [prio EXCEPT ![t] = Junk] /\ period' = [period EXCEPT ![t] = Junk]
  /\ once' = [once EXCEPT ![t] = Junk] /\ since' = [since EXCEPT ![t] = 0]
  /\ UNCHANGED deleted

\* lv_task_del: the node of t is unlinked and freed.
Delete(t) ==
  /\ mem' = mem \ {t}
  /\ ll' = [Rem(ll, t) EXCEPT !.prev[t] = Junk, !.next[t] = Junk]
  /\ prio' = [prio EXCEPT ![t] = Junk] /\ period' = [period EXCEPT ![t] = Junk]
  /\ once' = [once EXCEPT ![t] = Junk] /\ since' = [since EXCEPT ![t] = 0]
  /\ deleted' = (deleted \/ act = t)

\* Whether the handler stops behind the task that is being called.
Stops == created \/ deleted \/ once[act] = TRUE

Del(t) ==
  /\ Caller /\ t \in mem
  /\ (pc.at = "call" /\ pc.top) => (DeletesOthers \/ t = act \/ Stops)
  /\ Delete(t)
  /\ UNCHANGED <<run, created, act, seen>>

\* lv_task_set_prio.  The pass under way meets the others in an order that
\* is no longer theirs: it has no more to answer for.
SetPrio(t, p) ==
  /\ Caller /\ t \in mem
  /\ ll' = Moved(ll, prio, t, p)
  /\ prio' = [prio EXCEPT ![t] = p]
  /\ seen' = IF pc = Out THEN seen ELSE mem
  /\ UNCHANGED <<mem, period, once, since, run, flags, act>>

\* lv_task_ready and lv_task_reset.
Ready(t) ==
  /\ Caller /\ t \in mem
  /\ since' = [since EXCEPT ![t] = Elapsed(period[t] + 1)]
  /\ UNCHANGED <<ll, mem, prio, period, once, run, flags, act, seen>>

Reset(t) ==
  /\ Caller /\ t \in mem
  /\ since' = [since EXCEPT ![t] = 0]
  /\ UNCHANGED <<ll, mem, prio, period, once, run, flags, act, seen>>

\* lv_task_set_period.
SetPeriod(t, per) ==
  /\ Caller /\ t \in mem
  /\ period' = [period EXCEPT ![t] = per]
  /\ UNCHANGED <<ll, mem, prio, once, since, run, flags, act, seen>>

\* lv_task_once.
Once(t) ==
  /\ Caller /\ t \in mem
  /\ once' = [once EXCEPT ![t] = TRUE]
  /\ UNCHANGED <<ll, mem, prio, period, since, run, flags, act, seen>>

\* lv_task_enable; a handler that runs is not stopped by it.
Enable(en) ==
  /\ Caller
  /\ run' = en
  /\ UNCHANGED <<ll, mem, fields, flags, act, seen>>

-----------------------------------------------------------------------------
(* lv_task_handler.  A call of it from a task returns at once. *)

\* A pass over the list, in which intr and its equals in front of it rest.
Pass(intr) ==
  /\ created' = FALSE /\ deleted' = FALSE
  /\ act' = ll'.head
  /\ pc' = Look(intr)

Enter ==
  /\ pc = Out /\ run
  /\ UNCHANGED <<ll, mem, fields, run>>
  /\ Pass(Null)
  /\ seen' = {}

\* The pass, and the handler, ends at the end of the list or at a task that is off.
PassEnds ==
  /\ pc.at = "look"
  /\ act = Null \/ (act \in mem /\ prio[act] = Off)
  /\ pc' = Out /\ seen' = {}
  /\ UNCHANGED <<ll, mem, fields, run, flags, act>>

LookAt == pc.at = "look" /\ act \in mem /\ prio[act] # Off

\* The task in act is one to be called, if it is due.
Eligible ==
  \/ prio[act] = Highest
  \/ pc.intr # Null => prio[act] > prio[pc.intr]

\* lv_task_exec: the period has elapsed.
Due == since[act] >= period[act]

SkipInterrupter ==
  /\ LookAt /\ act = pc.intr
  /\ pc' = Look(Null) /\ act' = ll.next[act]
  /\ seen' = seen \union {act}
  /\ UNCHANGED <<ll, mem, fields, run, flags>>

PassOver ==
  /\ LookAt /\ act # pc.intr /\ ~(Eligible /\ Due)
  /\ UNCHANGED pc /\ act' = ll.next[act]
  /\ seen' = seen \union {act}
  /\ UNCHANGED <<ll, mem, fields, run, flags>>

Exec ==
  /\ LookAt /\ act # pc.intr /\ Eligible /\ Due
  /\ since' = [since EXCEPT ![act] = 0]
  /\ created' = FALSE /\ deleted' = FALSE
  /\ pc' = Call(pc.intr, ll.next[act], prio[act] = Highest)
  /\ seen' = seen \union {act}
  /\ UNCHANGED <<ll, mem, prio, period, once, run, act>>

\* A faulty GoOn: the handler goes on from where it is, whatever was called.
GoOnBehind == pc' = Look(pc.intr) /\ act' = pc.next /\ UNCHANGED flags

\* Behind a call: the next task after one of the highest priority, and all
\* tasks anew after another.
GoOn ==
  \/ pc.top /\ pc' = Look(pc.intr) /\ act' = pc.next /\ UNCHANGED flags
  \/ ~pc.top /\ Pass(act)

\* The task returns, and goes if it was to be called once; the handler ends
\* if the list is not what it was.
Return ==
  /\ pc.at = "call"
  /\ IF once[act] = TRUE /\ ~deleted
     THEN Delete(act)
     ELSE UNCHANGED <<ll, mem, fields, deleted>>
  /\ IF Stops THEN pc' = Out /\ UNCHANGED <<created, act>> ELSE GoOn
  /\ seen' = IF pc.top /\ ~Stops THEN seen ELSE {}
  /\ UNCHANGED run

Next ==
  \/ Tick
  \/ \E t \in Node :
       \/ \E p \in Prios : SetPrio(t, p) \/ \E per \in Periods : Create(t, per, p, FALSE)
       \/ AsyncCall(t) \/ Del(t) \/ Once(t) \/ Ready(t) \/ Reset(t)
       \/ \E per \in Periods : SetPeriod(t, per)
  \/ \E en \in BOOLEAN : Enable(en)
  \/ Enter \/ PassEnds \/ SkipInterrupter \/ PassOver \/ Exec \/ Return

Spec == Init /\ [][Next]_vars

-----------------------------------------------------------------------------
TypeOK ==
  /\ ll \in [head : Node \union {Null}, tail : Node \union {Null},
              prev : [Node -> Node \union {Null, Junk}],
              next : [Node -> Node \union {Null, Junk}]]
  /\ mem \subseteq Node /\ seen \subseteq Node
  /\ prio \in [Node -> 0 .. 5 \union {Junk}]
  /\ period \in [Node -> Periods \union {0, Junk}]
  /\ once \in [Node -> BOOLEAN \union {Junk}]
  /\ since \in [Node -> 0 .. Longest]
  /\ run \in BOOLEAN /\ created \in BOOLEAN /\ deleted \in BOOLEAN
  /\ act \in Node \union {Null}
  /\ \/ pc = Out
     \/ pc.at = "look" /\ pc.intr \in Node \union {Null}
     \/ /\ pc.at = "call" /\ pc.top \in BOOLEAN /\ pc.left \in 0 .. MaxOps
        /\ pc.intr \in Node \union {Null} /\ pc.next \in Node \union {Null}

\* After every call, one made inside a task or not, the list of lv_ll.c holds
\* the tasks that exist and no other, from the highest to the lowest priority
\* as lv_task_handler takes them, and reads the same from both ends.
ListSound ==
  /\ Reached(ll) = mem
  /\ ll.head = Null <=> ll.tail = Null
  /\ ll.head # Null => ll.prev[ll.head] = Null /\ ll.next[ll.tail] = Null
  /\ \A n \in mem : LET s == ll.next[n] IN
       s # Null => ll.prev[s] = n /\ prio[n] >= prio[s]

\* The task at which lv_task_handler is about to look, and the interrupter
\* with whose priority it compares, have not been freed.
NoDangling ==
  pc.at = "look" => {act, pc.intr} \subseteq mem \union {Null}

\* No task is called before all tasks of a higher priority have been looked at
\* since a task below the highest priority was called ("If a lower priority
\* task is executed check task again from the highest priority").
PriorityRespected ==
  [][(pc.at = "look" /\ pc'.at = "call")
       => \A u \in mem : prio[u] > prio[act] => u \in seen]_vars
=============================================================================
