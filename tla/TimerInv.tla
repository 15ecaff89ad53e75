------------------------------ MODULE TimerInv ------------------------------
(***************************************************************************)
(* What software timers promise, over the states of module Timer.          *)
(***************************************************************************)
EXTENDS Timer, TaskInv

(* Timers that tasks destroy, start again or stop.                         *)
Taken(x) == \E op \in {"destroy", "restart", "stop"} : <<op, x>> \in TaskCalls

(* How timers are to be used, since nothing keeps a call, which reads and  *)
(* writes the state of a timer with interrupts enabled, from a timer that  *)
(* another call or the walk has in hand: a timer that is taken off by      *)
(* tasks is periodic and one task's, and callbacks leave it and the timers *)
(* of other callbacks as they are.                                         *)
CarefulUse ==
    /\ \A x \in Timer : Taken(x) =>
          /\ \A s \in Settings[x] : s.opt = "PERIODIC"
          /\ \A t, u \in Task \ {Idle, TimerTask} : t = u
    /\ \A c \in CallbackCalls :
          /\ c[2] \in {"start", "change"} => ~Taken(c[3])
          /\ c[2] \in {"restart", "stop", "destroy"} => c[1] = c[3]
          /\ c[2] \in {"stop", "destroy"} => ~Taken(c[3])

(* Timers a call or the walk has in its hands.                             *)
InHand(x) == \/ \E t \in Task : call[t].timer = x
             \/ walk.at = "place" /\ walk.cur = x

Linked(w) == \A n \in Listed(w) \cup {ListHead} : w.pv[w.nx[n]] = n

(* The list holds the running timers, in the order they expire, and        *)
(* next_expires is when the first is due, whatever calls, callbacks and    *)
(* interrupts take timers off and place them in between (timer_place,      *)
(* timer_takeoff and their callers, whose state changes are unprotected).  *)
TimerListExact ==
    /\ Linked(tim) /\ NodeAt(tim)[Cardinality(Timer)] = ListHead
    /\ \A x \in Listed(tim) :
          tim.nx[x] # ListHead => tim.expires[x] <= tim.expires[tim.nx[x]]
    /\ \A x \in Timer : InHand(x) \/ (x \in Listed(tim) <=> tim.state[x] = "RUNNING")
    /\ Listed(tim) # {} => tim.next = tim.expires[tim.nx[ListHead]]

(* While the timer task is asleep it wakes up in time for the first timer, *)
(* but for the ticks that come between its look at the next expiry and its *)
(* delay, and it is suspended only when there is no timer to wait for      *)
(* (timer_task_entry, timer_place).                                        *)
InTime ==
    Listed(tim) # {} =>
       /\ ~IsSuspended(knl, TimerTask)
       /\ IsSleeping(knl, TimerTask) =>
             Remaining(knl, TimerTask) <= tim.expires[tim.nx[ListHead]] + walk.slip

(* No step makes it late, neither a start, a stop, a change nor a tick,    *)
(* with the one exception timer_task_entry leaves: it goes to sleep by a   *)
(* look that no longer holds, when a task of a better priority has started *)
(* a timer since then.                                                     *)
Outdated == /\ walk.at = "wait" /\ Listed(tim) # {}
            /\ \/ walk.wait = Never
               \/ walk.wait > tim.expires[tim.nx[ListHead]] + walk.slip
TimerTaskInTime == [][InTime => InTime' \/ (TimerTaskWait /\ Outdated)]_timerVars

(* Nothing but the walk can tell that a timer rings.                       *)
Alarms == INSTANCE AbsAlarm WITH
    Alarm <- Timer, Silence <- NoTimer, Off <- Never,
    left    <- [x \in Timer |-> IF x \in Listed(tim) THEN tim.expires[x] ELSE Never],
    delay   <- tim.delay, period <- tim.period,
    repeats <- [x \in Timer |-> tim.opt[x] = "PERIODIC"],
    ringing <- IF walk.at \in {"place", "cb", "next"} THEN walk.cur ELSE NoTimer,
    punctual <- proc

(* Refinement: a timer's callback is called when its time has come, at     *)
(* that very tick if the tick interrupt calls it, once per expiry, and not *)
(* after the timer was taken off by tos_timer_stop or tos_timer_destroy.   *)
ImplementsAlarm == Alarms!AlarmSpec
=============================================================================
