-------------------------------- MODULE Ctimer --------------------------------
(***************************************************************************)
(* Callback timers (contiki/core/sys/ctimer.c, on core/lib/list.c) over    *)
(* the event timers: every etimer of a ctimer belongs to ctimer_process,   *)
(* which makes the callback when it is given the TIMER event.  The other   *)
(* processes set ctimers, and etimers of their own, from their handlers    *)
(* and from callbacks; to the timers both are the main program between two *)
(* steps.  The state is that after ctimer_init, which main calls before    *)
(* any process that sets a ctimer is started (main.c:130-143).             *)
(***************************************************************************)
EXTENDS Etimer

CONSTANTS
  CtimerProcess,   \* ctimer_process
  Callback         \* the etimers that are part of a ctimer

ASSUME CtimerAssumption == CtimerProcess \in Proc /\ Callback \subseteq Timer

VARIABLE clist     \* ctimer_list, from its head

cvars == <<vars, clist>>

CInit == Init /\ clist = <<>>

\* list_remove and list_add, which removes first.
Removed(t) == Kept(clist, Timer \ {t})
Added(t)   == Append(Removed(t), t)

Called == {clist[i] : i \in 1 .. Len(clist)}

-----------------------------------------------------------------------------
\* A faulty CSet: the etimer is set in the context of the caller.
CSetOwn(t, i) ==
  /\ \E p \in Proc \ {CtimerProcess} : Set(p, t, i)
  /\ clist' = Added(t)

\* ctimer_set, in the context of ctimer_process.
CSet(t, i) == Set(CtimerProcess, t, i) /\ clist' = Added(t)

\* ctimer_reset.
CReset(t) == Reset(CtimerProcess, t) /\ clist' = Added(t)

\* ctimer_restart.
CRestart(t) == Restart(CtimerProcess, t) /\ clist' = Added(t)

\* ctimer_stop: an event that is already queued is not taken back.
CStop(t) == Stop(t) /\ clist' = Removed(t)

\* An event is delivered.  ctimer_process looks for its timer on the list,
\* takes it off and makes the callback; it passes over what is not there.
CDeliver ==
  /\ Deliver
  /\ clist' = IF Head(queue).to = CtimerProcess THEN Removed(Head(queue).t) ELSE clist

-----------------------------------------------------------------------------
\* What the other processes do with etimers of their own.
Plain ==
  \E t \in Timer \ Callback :
    Stop(t) \/ \E p \in Proc \ {CtimerProcess} : SetAny(p, t)

CClient ==
  \E t \in Callback : CReset(t) \/ CRestart(t) \/ CStop(t) \/ \E i \in Intervals : CSet(t, i)

CNext ==
  \/ (SysTick \/ EtimerStep \/ PollBegin \/ Plain) /\ UNCHANGED clist
  \/ CDeliver \/ CClient

\* The fairness of Etimer: the main loop and the clock go on.
CSpec ==
  /\ CInit /\ [][CNext]_cvars
  /\ WF_cvars(EtimerStep /\ UNCHANGED clist) /\ WF_cvars(SysTick /\ UNCHANGED clist)
  /\ SF_cvars(PollBegin /\ UNCHANGED clist) /\ SF_cvars(CDeliver)

-----------------------------------------------------------------------------
\* A timer is given a start that lies ahead of the clock.
StartedAhead == \E t \in Timer : left'[t] > left[t] /\ left'[t] > interval'[t]

\* A timer that is not set for ever is served: an etimer leaves the timer list
\* with its event posted, a ctimer leaves its list with its callback made, even
\* when the event queue is full at first, when the clock wraps, and when the
\* ctimer was set anew while its last event was still queued, unless timers are
\* for ever reset before they expire: posted at once, they may take each place
\* in the queue before the timers behind them on the list
\* (etimer.c:116-137, ctimer.c:74-86, 104-115).
Served ==
  \A t \in Timer : \/ []<>(t \notin Listed /\ t \notin Called)
                  \/ []<><<left'[t] > left[t]>>_cvars
                  \/ []<><<StartedAhead>>_cvars

\* "A function to be called when the timer expires" (ctimer.h:105): a callback
\* is made when the time asked for has passed, also of a timer whose start does
\* not lie ahead.  It does not hold: the event of the time before is still queued
\* when the ctimer is set anew (CtimerSetAnew.cfg).
CallbackDue ==
  [][Len(clist') < Len(clist) /\ Len(queue') < Len(queue)
       => LET t == Head(queue).t IN left[t] <= 0 \/ left[t] > interval[t]]_cvars
=============================================================================
