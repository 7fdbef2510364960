------------------------------- MODULE Etimer --------------------------------
(***************************************************************************)
(* Contiki's event timers (core/sys/etimer.c, timer.c) and the SysTick     *)
(* interrupt that drives them (cpu/stm32f407/clock.c).                     *)
(*                                                                         *)
(* The interrupt compares the clock with next_expiration and polls the     *)
(* etimer process; the process posts a TIMER event for each timer that     *)
(* expired.  The interrupt falls between any two steps of the main         *)
(* program, which is cut where it reads the clock or writes something the  *)
(* interrupt reads.  All times are modulo W, the width of clock_time_t;    *)
(* the history variable left counts the same time without a modulus.       *)
(***************************************************************************)
EXTENDS Integers, Sequences, FiniteSets

CONSTANTS
  Timer,      \* the etimer structures
  Proc,       \* the processes that use them
  None,       \* PROCESS_NONE
  W,          \* 2^32, the modulus of clock_time_t
  Intervals,  \* intervals the processes ask for
  Adjusts,    \* differences given to etimer_adjust
  NumEvents,  \* PROCESS_CONF_NUMEVENTS
  Slack,      \* bound: ticks the main program may be late for a timer
  MayExit,    \* do processes exit
  LastWords,  \* intervals of timers they set when called with PROCESS_EVENT_EXIT
  MayWrap     \* does the clock pass its end

ASSUME TimerAssumption ==
  /\ IsFiniteSet(Timer) /\ None \notin Proc
  /\ W \in Nat \ {0} /\ Slack \in Nat \ {0} /\ NumEvents \in Nat \ {0}
  /\ Intervals \subseteq 1 .. W - Slack - 2 /\ Adjusts \subseteq Int
  /\ MayExit \in BOOLEAN /\ LastWords \subseteq Intervals /\ MayWrap \in BOOLEAN

VARIABLES
  now,        \* current_clock
  list,       \* timerlist, from its head
  start,      \* et->timer.start
  interval,   \* et->timer.interval
  owner,      \* et->p
  nextExp,    \* next_expiration
  poll,       \* the etimer process was polled and not called since
  queue,      \* TIMER events the kernel holds, as receiver and timer
  alive,      \* processes that run
  pc,         \* where the main program is
  left        \* history: ticks from now to the expiration of each timer

timers == <<list, start, interval, owner, left>>
kernel == <<queue, alive>>
vars   == <<now, timers, nextExp, poll, kernel, pc>>

-----------------------------------------------------------------------------
(* The main program is in process_run, in the etimer process at list       *)
(* position i, or in update_time, before and after it computed its result. *)
Idle           == [at |-> "idle"]
Scan(i)        == [at |-> "scan", i |-> i]
Update(then)   == [at |-> "update", then |-> then]
Store(v, then) == [at |-> "store", v |-> v, then |-> then]

\* The elements of s that are in S, in the order of s: SelectSeq in terms the
\* proofs can use.
Kept(s, S) ==
  LET at == {i \in DOMAIN s : s[i] \in S}
      place(k) == CHOOSE i \in at : Cardinality({j \in at : j <= i}) = k
  IN  [k \in 1 .. Cardinality(at) |-> s[place(k)]]

Listed       == {list[i] : i \in 1 .. Len(list)}
Without(t)   == Kept(list, Timer \ {t})
Distance(t)  == (start[t] + interval[t] - now) % W
Distances    == {Distance(t) : t \in Listed}
Nearest      == CHOOSE d \in Distances : \A e \in Distances : d <= e

\* A faulty Expired: one is added to the difference and equality still counts.
ExpiredOneEarly(t) == interval[t] <= (now - start[t] + 1) % W

\* timer_expired.
Expired(t) == interval[t] < (now - start[t] + 1) % W

Init ==
  /\ now = 0 /\ nextExp = 0 /\ poll = FALSE /\ pc = Idle
  /\ list = <<>>
  /\ start = [t \in Timer |-> 0] /\ interval = [t \in Timer |-> 0]
  /\ owner = [t \in Timer |-> None] /\ left = [t \in Timer |-> 0]
  /\ queue = <<>> /\ alive = Proc

-----------------------------------------------------------------------------
(* The interrupt. *)

\* The main program is never more than Slack ticks behind.
Prompt == \A t \in Listed : left[t] > -Slack

\* A faulty SysTick: the clock is compared before it is counted on.
SysTickEarly ==
  /\ Prompt /\ (MayWrap \/ now < W - 1)
  /\ now' = (now + 1) % W
  /\ left' = [t \in Timer |-> IF left[t] > -Slack THEN left[t] - 1 ELSE left[t]]
  /\ poll' = (poll \/ (list # <<>> /\ nextExp <= now))
  /\ UNCHANGED <<list, start, interval, owner, nextExp, kernel, pc>>

\* SysTick_Handler.
SysTick ==
  /\ Prompt /\ (MayWrap \/ now < W - 1)
  /\ now' = (now + 1) % W
  /\ left' = [t \in Timer |-> IF left[t] > -Slack THEN left[t] - 1 ELSE left[t]]
  /\ poll' = (poll \/ (list # <<>> /\ nextExp <= now'))
  /\ UNCHANGED <<list, start, interval, owner, nextExp, kernel, pc>>

-----------------------------------------------------------------------------
(* update_time: the clock is read, the distances are compared, the result is *)
(* stored; ticks may fall between.                                           *)

UpdateRead ==
  /\ pc.at = "update"
  /\ IF list = <<>>
     THEN /\ nextExp' = 0
          /\ pc' = pc.then
     ELSE /\ pc' = Store((now + Nearest) % W, pc.then)
          /\ UNCHANGED nextExp
  /\ UNCHANGED <<now, timers, poll, kernel>>

UpdateStore ==
  /\ pc.at = "store"
  /\ nextExp' = pc.v
  /\ pc' = pc.then
  /\ UNCHANGED <<now, timers, poll, kernel>>

-----------------------------------------------------------------------------
(* The etimer process. *)

\* do_poll clears the request and calls the process.
PollBegin ==
  /\ pc = Idle /\ poll
  /\ poll' = FALSE
  /\ pc' = Scan(1)
  /\ UNCHANGED <<now, timers, nextExp, kernel>>

ScanEnd ==
  /\ pc.at = "scan" /\ pc.i > Len(list)
  /\ pc' = Idle
  /\ UNCHANGED <<now, timers, nextExp, poll, kernel>>

ScanSkip ==
  /\ pc.at = "scan" /\ pc.i <= Len(list) /\ ~Expired(list[pc.i])
  /\ pc' = Scan(pc.i + 1)
  /\ UNCHANGED <<now, timers, nextExp, poll, kernel>>

\* The timer expired: its event is posted, it leaves the list, and when the
\* next expiration is known the list is walked again from its head.
ScanPost ==
  /\ pc.at = "scan" /\ pc.i <= Len(list) /\ Len(queue) < NumEvents
  /\ LET t == list[pc.i]
     IN  /\ Expired(t)
         /\ queue' = Append(queue, [to |-> owner[t], t |-> t])
         /\ owner' = [owner EXCEPT ![t] = None]
         /\ list' = Without(t)
  /\ pc' = Update(Scan(1))
  /\ UNCHANGED <<now, start, interval, left, nextExp, poll, alive>>

\* Faulty ScanFulls: the event is put into a full queue; the timer is left for later and nobody comes back.
ScanPostUnchecked ==
  /\ pc.at = "scan" /\ pc.i <= Len(list) /\ Expired(list[pc.i])
  /\ queue' = Append(queue, [to |-> owner[list[pc.i]], t |-> list[pc.i]])
  /\ pc' = Scan(pc.i + 1)
  /\ UNCHANGED <<now, timers, nextExp, poll, alive>>

ScanFullGivesUp ==
  /\ pc.at = "scan" /\ pc.i <= Len(list) /\ Len(queue) = NumEvents
  /\ Expired(list[pc.i])
  /\ pc' = Scan(pc.i + 1)
  /\ UNCHANGED <<now, timers, nextExp, poll, kernel>>

\* The event queue is full: the process polls itself.
ScanFull ==
  /\ pc.at = "scan" /\ pc.i <= Len(list) /\ Len(queue) = NumEvents
  /\ Expired(list[pc.i])
  /\ poll' = TRUE
  /\ pc' = Scan(pc.i + 1)
  /\ UNCHANGED <<now, timers, nextExp, kernel>>

\* A faulty Exit: only the head of the list is looked at.
ExitHead(p) ==
  /\ MayExit /\ pc = Idle /\ p \in alive
  /\ alive' = alive \ {p}
  /\ list' = IF list # <<>> /\ owner[Head(list)] = p THEN Tail(list) ELSE list
  /\ UNCHANGED <<now, start, interval, owner, left, nextExp, poll, queue, pc>>

\* The etimer process, called with PROCESS_EVENT_EXITED, drops the timers of the
\* process that exits and leaves next_expiration as it is.
OthersTimers(p) == Kept(list, {t \in Timer : owner[t] # p})

\* After that the process, if another one made it exit, is called once more, with
\* PROCESS_EVENT_EXIT, and may set a timer.
LastTimer(p, t, i) ==
  LET on == OthersTimers(p)
  IN  /\ poll' = TRUE
      /\ list' = IF owner[t] \notin {None, p} /\ t \in Listed THEN on ELSE <<t>> \o on
      /\ owner' = [owner EXCEPT ![t] = p]
      /\ interval' = [interval EXCEPT ![t] = i]
      /\ start' = [start EXCEPT ![t] = now]
      /\ left' = [left EXCEPT ![t] = i]
      /\ pc' = Update(Idle)

\* A process exits.
Exit(p) ==
  /\ MayExit /\ pc = Idle /\ p \in alive
  /\ alive' = alive \ {p}
  /\ \/ /\ list' = OthersTimers(p)
        /\ UNCHANGED <<start, interval, owner, left, poll, pc>>
     \/ \E t \in Timer, i \in LastWords : LastTimer(p, t, i)
  /\ UNCHANGED <<now, nextExp, queue>>

-----------------------------------------------------------------------------
(* What the processes call, from their handlers. *)

\* A faulty AddTimer: the list is not searched.
AddTimerUnlooked(p, t) ==
  /\ pc = Idle /\ p \in alive
  /\ poll' = TRUE
  /\ list' = <<t>> \o list
  /\ owner' = [owner EXCEPT ![t] = p]
  /\ pc' = Update(Idle)
  /\ UNCHANGED <<now, nextExp, kernel>>

\* add_timer, of a timer whose start and interval were just set: the etimer
\* process is polled before the list is touched.
AddTimer(p, t) ==
  /\ pc = Idle /\ p \in alive
  /\ poll' = TRUE
  /\ list' = IF owner[t] # None /\ t \in Listed THEN list ELSE <<t>> \o list
  /\ owner' = [owner EXCEPT ![t] = p]
  /\ pc' = Update(Idle)
  /\ UNCHANGED <<now, nextExp, kernel>>

\* etimer_set.
Set(p, t, i) ==
  /\ AddTimer(p, t)
  /\ interval' = [interval EXCEPT ![t] = i]
  /\ start' = [start EXCEPT ![t] = now]
  /\ left' = [left EXCEPT ![t] = i]

\* etimer_reset: the interval runs from the time the timer expires, which may lie
\* behind, by less than Slack, or, when it is pending or was stopped, ahead; the
\* code does not ask (timer.c:84-87).  Bound: it ends within the clock's range.
Reset(p, t) ==
  /\ interval[t] # 0 /\ left[t] \in 1 - Slack .. W - 1 - interval[t]
  /\ AddTimer(p, t)
  /\ start' = [start EXCEPT ![t] = (@ + interval[t]) % W]
  /\ left' = [left EXCEPT ![t] = @ + interval[t]]
  /\ UNCHANGED interval

\* etimer_restart.
Restart(p, t) ==
  /\ interval[t] # 0
  /\ AddTimer(p, t)
  /\ start' = [start EXCEPT ![t] = now]
  /\ left' = [left EXCEPT ![t] = interval[t]]
  /\ UNCHANGED interval

\* etimer_adjust, of a timer that is set; nobody is polled.
Adjust(t, d) ==
  /\ pc = Idle /\ t \in Listed /\ left[t] + d \in 1 - Slack .. W - 1
  /\ start' = [start EXCEPT ![t] = (@ + d) % W]
  /\ left' = [left EXCEPT ![t] = @ + d]
  /\ pc' = Update(Idle)
  /\ UNCHANGED <<now, list, interval, owner, nextExp, poll, kernel>>

\* etimer_stop: the expiration is computed anew if the timer was on the list.
Stop(t) ==
  /\ pc = Idle
  /\ list' = Without(t)
  /\ owner' = [owner EXCEPT ![t] = None]
  /\ pc' = IF t \in Listed THEN Update(Idle) ELSE Idle
  /\ UNCHANGED <<now, start, interval, left, nextExp, poll, kernel>>

\* do_event: the oldest event is taken from the queue.
Deliver ==
  /\ pc = Idle /\ queue # <<>>
  /\ queue' = Tail(queue)
  /\ UNCHANGED <<now, timers, nextExp, poll, alive, pc>>

Start(p) ==
  /\ pc = Idle /\ p \notin alive
  /\ alive' = alive \union {p}
  /\ UNCHANGED <<now, timers, nextExp, poll, queue, pc>>

-----------------------------------------------------------------------------
EtimerStep == UpdateRead \/ UpdateStore \/ ScanEnd \/ ScanSkip \/ ScanPost \/ ScanFull

SetAny(p, t) == Reset(p, t) \/ Restart(p, t) \/ \E i \in Intervals : Set(p, t, i)

Client ==
  \/ \E p \in Proc, t \in Timer : SetAny(p, t)
  \/ \E t \in Timer : Stop(t) \/ \E d \in Adjusts : Adjust(t, d)
  \/ \E p \in Proc : Exit(p) \/ Start(p)

Next == SysTick \/ EtimerStep \/ PollBegin \/ Deliver \/ Client

\* The processor goes on with the function it is in, and the clock ticks.  The
\* main loop calls process_run without end, which first looks for polls and
\* then takes one event, whatever its handlers do (main.c:157-162, process.c:301-313).
Spec ==
  Init /\ [][Next]_vars
    /\ WF_vars(EtimerStep) /\ WF_vars(SysTick) /\ SF_vars(PollBegin) /\ SF_vars(Deliver)

-----------------------------------------------------------------------------
Pcs == {Idle} \union {Scan(i) : i \in 1 .. Cardinality(Timer) + 1}

TypeOK ==
  /\ {now, nextExp} \subseteq 0 .. W - 1 /\ poll \in BOOLEAN
  /\ list \in Seq(Timer)
  /\ start \in [Timer -> 0 .. W - 1] /\ interval \in [Timer -> Intervals \union {0}]
  /\ owner \in [Timer -> Proc \union {None}]
  /\ left \in [Timer -> -Slack .. W - 1]
  /\ queue \in Seq([to : Proc, t : Timer]) /\ Len(queue) <= NumEvents
  /\ alive \subseteq Proc
  /\ pc \in Pcs \union {Update(q) : q \in Pcs}
         \union {Store(v, q) : v \in 0 .. W - 1, q \in Pcs}

\* Each timer is on the list once, and those on it have an owner: the test by
\* which add_timer avoids a second entry, which would close the list to a ring,
\* is sufficient (etimer.c:157-171).
ListedOnce ==
  /\ Cardinality(Listed) = Len(list)
  /\ \A t \in Listed : owner[t] # None

\* When the etimer process has not been polled, nothing is due: the one number
\* the interrupt looks at is never too late, whenever ticks fell in the code
\* that maintains it (etimer.c:58-78, clock.c:41-46).
NothingDueUnpolled == pc = Idle /\ ~poll => \A t \in Listed : left[t] > 0

\* A timer that is on the list belongs to a process that runs: after an exit
\* no event is ever posted to who is not there (etimer.c:91-107), unless the
\* process set a timer in the call that told it to exit (EtimerLastWord.cfg).
OwnersAlive == \A t \in Listed : owner[t] \in alive

\* The timer whose event was posted by a step.
JustPosted == queue'[Len(queue')].t

\* A TIMER event is posted when the time asked for has passed, also across the
\* end of the clock.  Only a timer whose start lies ahead of the clock, as a reset
\* before the expiration and an adjustment by more than what has passed leave it,
\* gets its event early (timer.c:121-128, etimer.c:117-118).
NeverEarly ==
  [][Len(queue') > Len(queue) => left[JustPosted] <= 0 \/ left[JustPosted] > interval[JustPosted]]_vars

\* "When the event timer expires, the event PROCESS_EVENT_TIMER will be posted"
\* (etimer.h:93-95), and not before.  It does not hold: a timer that is reset while
\* it is pending or stopped is posted at once (EtimerStartAhead.cfg).
EventDue == [][Len(queue') > Len(queue) => left[JustPosted] <= 0]_vars
=============================================================================
