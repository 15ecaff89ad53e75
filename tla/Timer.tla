------------------------------- MODULE Timer --------------------------------
(***************************************************************************)
(* Software timers (tos_timer.c) on top of the scheduler.  Timers that     *)
(* have come are walked by the tick interrupt (TOS_CFG_TIMER_AS_PROC) or   *)
(* by a task of their own, k_timer_task; proc says which was built.        *)
(*                                                                         *)
(* A timer call reads the timer's state with interrupts enabled and then   *)
(* passes one or two interrupts-disabled sections: call says what is left  *)
(* of the call of each task.  Callbacks run in the interrupt or under the  *)
(* scheduler lock: no other context uses timers meanwhile, and the call a  *)
(* callback makes is one step.                                             *)
(***************************************************************************)
EXTENDS Task, TimerList

CONSTANTS
    TimerTask,     \* k_timer_task
    TimerPrios,    \* the values of TOS_CFG_TIMER_TASK_PRIO tried
    Builds,        \* the values of TOS_CFG_TIMER_AS_PROC tried
    TaskCalls,     \* what tasks do to which timer, pairs <<call, timer>>
    CallbackCalls, \* what callbacks do, triples <<timer of the callback, call, timer>>
    Settings,      \* delay, period and option each timer is created with
    Changes,       \* delays and periods set later
    MaxSlip        \* bound: ticks between the look at the next expiry and the delay

TimerCall == {"create", "destroy", "start", "restart", "stop", "change"}
Setting   == [delay : 0 .. LongestDelay, period : 0 .. LongestDelay, opt : TimerOpt]

ASSUME TimerTaskAssumption ==
    /\ TimerTask \in Task \ {Idle, Main} /\ TimerPrios \subseteq Prio \ {MainPrio, PrioIdle}
    /\ Builds \subseteq BOOLEAN /\ LongestDelay <= TimeMax /\ MaxIrqNest = 1
ASSUME TimerCallAssumption ==
    /\ TaskCalls \subseteq TimerCall \X Timer
    /\ CallbackCalls \subseteq Timer \X TimerCall \X Timer
    /\ Settings \in [Timer -> SUBSET Setting] /\ Changes \subseteq 0 .. LongestDelay
    /\ MaxSlip \in Nat

VARIABLES
    tim,  \* k_timer_ctl and the timers
    call, \* the timer call each task is in: timer, sections left
    walk, \* soft_timer_update or timer_task_entry
    proc  \* TOS_CFG_TIMER_AS_PROC

timerVars == <<knl, isr, pc, arg, tim, call, walk, proc>>

NoCall  == [timer |-> NoTimer, todo |-> << >>]
WalkTop == [at |-> "top", cur |-> ListHead, tmp |-> ListHead, wait |-> 0, slip |-> 0]

(* knl_init has created the timer task; tos_knl_start picks the best task. *)
BootWithTimerTask(prio) ==
    LET k == readyqueue_add_tail(NewTask(BootKernel, TimerTask, prio, 0), TimerTask)
    IN  [k EXCEPT !.curr = readyqueue_highest_ready_task_get(k), !.next = k.rdyq[k.highest][1]]

TimerInit ==
    /\ proc \in Builds
    /\ \E prio \in TimerPrios : knl = IF proc THEN BootKernel ELSE BootWithTimerTask(prio)
    /\ isr = << >>
    /\ pc  = [t \in Task |-> IF t \in knl.obj THEN "run" ELSE "none"]
    /\ arg = [t \in Task |-> NoObj]
    /\ tim = NoTimers /\ walk = WalkTop
    /\ call = [t \in Task |-> NoCall]

----------------------------------------------------------------------------
(* The timer calls.  Begun: what a call does before its first section.     *)
(* "start" and "restart" are tos_timer_start, on a timer that is not       *)
(* running and on one that is.                                             *)

Allowed(op, x, w) ==
    CASE op = "create"  -> w.state[x] = "UNUSED"
      [] op = "destroy" -> w.state[x] # "UNUSED"
      [] op \in {"start", "change"} -> w.state[x] \in {"STOPPED", "COMPLETED"}
      [] op \in {"restart", "stop"} -> w.state[x] = "RUNNING"

Begun(op, x, w) ==
    CASE op = "start" -> [w EXCEPT !.state[x] = "RUNNING", !.expires[x] = FirstDelay(w, x)]
      [] op = "stop"  -> [w EXCEPT !.state[x] = "STOPPED"]
      [] OTHER        -> w

(* What is left then: interrupts-disabled sections, and "reset".           *)
Sections(op, x, w) ==
    CASE op = "start"   -> <<"place">>
      [] op = "restart" -> <<"reload", "place">>
      [] op = "stop"    -> <<"takeoff">>
      [] op = "destroy" -> IF w.state[x] = "RUNNING" THEN <<"takeoff", "reset">>
                                                     ELSE <<"reset">>

(* "reload" takes the timer off and gives it its delay again.              *)
Section(s, x, w, g) ==
    CASE s = "takeoff" -> timer_takeoff(w, x, g)
      [] s = "reload"  -> [timer_takeoff(w, x, g) EXCEPT !.expires[x] = w.delay[x]]
      [] s = "place"   -> timer_place(w, x)
      [] s = "reset"   -> timer_reset(w, x)

(* The whole of a call: it has one section or two.                         *)
InOneGo(op, x, w, g) ==
    LET s  == Sections(op, x, w)
        w1 == Section(s[1], x, Begun(op, x, w), g)
    IN  IF Len(s) = 1 THEN w1 ELSE Section(s[2], x, w1, g)

(* tos_timer_create, and timer_change of a delay or a period.              *)
AtOnce(op, x, w) ==
    CASE op = "create" -> { tos_timer_create(w, x, s.delay, s.period, s.opt) :
                              s \in {r \in Settings[x] : ~CreateRefused(r.delay, r.period, r.opt)} }
      [] op = "change" -> { [w EXCEPT !.delay[x] = v] :
                              v \in Changes \ (IF w.opt[x] = "ONESHOT" THEN {0} ELSE {}) }
                   \cup { [w EXCEPT !.period[x] = v] :
                              v \in Changes \ (IF w.opt[x] = "PERIODIC" THEN {0} ELSE {}) }

TimerTaskRuns == ~proc /\ TaskRuns /\ knl.curr = TimerTask
AppRuns       == TaskRuns /\ knl.curr # Idle /\ ~TimerTaskRuns

CallTimer(op, x) ==
    /\ AppRuns /\ call[knl.curr] = NoCall
    /\ <<op, x>> \in TaskCalls /\ Allowed(op, x, tim)
    /\ IF op \in {"create", "change"}
       THEN tim' \in AtOnce(op, x, tim) /\ UNCHANGED call
       ELSE /\ tim' = Begun(op, x, tim)
            /\ call' = [call EXCEPT ![knl.curr] = [timer |-> x, todo |-> Sections(op, x, tim)]]
    /\ UNCHANGED <<knl, isr, pc, arg, walk, proc>>

(* Fault: a timer that comes first does not wake the task from its delay.  *)
timer_task_wake_Asleep(k, w, x) ==
    IF IsSuspended(k, TimerTask) THEN knl_sched(task_resume(k, TimerTask)) ELSE k

(* The end of timer_place when the timers have a task: it is woken from    *)
(* its delay when x is the first timer now, from its suspension always.    *)
timer_task_wake(k, w, x) ==
    LET k1 == IF w.nx[ListHead] = x /\ IsSleeping(k, TimerTask) /\ ~IsSuspended(k, TimerTask)
              THEN knl_sched(readyqueue_add(tick_list_remove(k, TimerTask), TimerTask)) ELSE k
    IN  IF IsSuspended(k1, TimerTask) THEN knl_sched(task_resume(k1, TimerTask)) ELSE k1

CallGoesOn ==
    /\ AppRuns /\ call[knl.curr] # NoCall
    /\ LET c == call[knl.curr]
       IN  /\ \E g \in Garbage : tim' = Section(Head(c.todo), c.timer, tim, g)
           /\ knl' = IF Head(c.todo) = "place" /\ ~proc
                     THEN timer_task_wake(knl, tim', c.timer) ELSE knl
           /\ call' = [call EXCEPT ![knl.curr] = IF Len(c.todo) = 1 THEN NoCall
                                                 ELSE [c EXCEPT !.todo = Tail(@)]]
    /\ UNCHANGED <<isr, pc, arg, walk, proc>>

----------------------------------------------------------------------------
(* The walk over the timers that have come.                                *)

(* Timers whose expires is not yet counted from now on.                    *)
Fresh == {call[t].timer : t \in {u \in Task : call[u].todo = <<"place">>}}
            \cup (IF walk.at = "place" THEN {walk.cur} ELSE {})

(* tick_update counts the tick; slip counts those that come between the    *)
(* timer task's look at the next expiry and its delay.                     *)
TimerTick ==
    /\ isr # << >> /\ Head(isr) = "tick"
    /\ knl' = tick_update(knl, 1)
    /\ isr' = <<IF proc THEN "soft" ELSE IF RoundRobin THEN "robin" ELSE "leave">> \o Tail(isr)
    /\ tim' = Later(tim, Fresh)
    /\ walk' = IF walk.at = "wait" THEN [walk EXCEPT !.slip = @ + 1] ELSE walk
    /\ UNCHANGED <<pc, arg, call, proc>>

SoftReturn == isr' = <<IF RoundRobin THEN "robin" ELSE "leave">> \o Tail(isr)
WalkRuns == IF proc THEN isr # << >> /\ Head(isr) = "soft" ELSE TimerTaskRuns

(* Where TOS_LIST_FOR_EACH_ENTRY_SAFE begins and where it goes on.         *)
WalkFrom(w, x) == [WalkTop EXCEPT !.at = "look", !.cur = x, !.tmp = w.nx[x]]

(* soft_timer_update: its scheduler lock is refused in the interrupt.      *)
SoftTimerUpdate ==
    /\ proc /\ WalkRuns /\ walk.at = "top"
    /\ IF tim.next > 0 THEN SoftReturn /\ UNCHANGED walk
                       ELSE walk' = WalkFrom(tim, tim.nx[ListHead]) /\ UNCHANGED isr
    /\ UNCHANGED <<knl, pc, arg, tim, call, proc>>

(* timer_task_entry: look at the next expiry, then delay or suspend.       *)
TimerTaskLook ==
    /\ TimerTaskRuns /\ walk.at = "top"
    /\ walk' = [walk EXCEPT !.at = "wait", !.wait = soft_timer_next_expires_get(tim), !.slip = 0]
    /\ UNCHANGED <<knl, isr, pc, arg, tim, call, proc>>

TimerTaskWait ==
    /\ TimerTaskRuns /\ walk.at = "wait"
    /\ walk' = [walk EXCEPT !.at = "lock"]
    /\ CASE walk.wait = Never -> ThenSched(task_suspend(knl, TimerTask))
         [] walk.wait = 0     -> ThenReturn(knl)
         [] OTHER -> ThenSched(readyqueue_remove(tick_list_add(knl, TimerTask, walk.wait),
                                                 TimerTask))
    /\ UNCHANGED <<tim, call, proc>>

TimerTaskLock ==
    /\ TimerTaskRuns /\ walk.at = "lock"
    /\ ThenReturn([knl EXCEPT !.schedLock = @ + 1])
    /\ walk' = WalkFrom(tim, tim.nx[ListHead])
    /\ UNCHANGED <<tim, call, proc>>

(* The walk ends at the list head or at a timer whose time has not come.   *)
WalkOver == IF walk.cur = ListHead THEN TRUE ELSE tim.expires[walk.cur] > 0

WalkEnd ==
    /\ WalkRuns /\ walk.at = "look" /\ WalkOver
    /\ walk' = WalkTop
    /\ IF proc THEN SoftReturn /\ UNCHANGED <<knl, pc, arg>>
               ELSE ThenSched([knl EXCEPT !.schedLock = @ - 1])
    /\ UNCHANGED <<tim, call, proc>>

(* Fault: a periodic timer goes on with its first delay.                   *)
WalkExpire_Delay ==
    /\ WalkRuns /\ walk.at = "look" /\ ~WalkOver
    /\ LET x == walk.cur
       IN  \E g \in Garbage :
             tim' = IF tim.opt[x] = "PERIODIC"
                    THEN [timer_takeoff(tim, x, g) EXCEPT !.expires[x] = tim.delay[x]]
                    ELSE [timer_takeoff(tim, x, g) EXCEPT !.state[x] = "COMPLETED"]
    /\ walk' = [walk EXCEPT !.at = IF tim.opt[walk.cur] = "PERIODIC" THEN "place" ELSE "cb"]
    /\ UNCHANGED <<knl, isr, pc, arg, call, proc>>

(* Time's up: off the list; a one-shot timer is done, a periodic one is    *)
(* placed again.                                                           *)
WalkExpire ==
    /\ WalkRuns /\ walk.at = "look" /\ ~WalkOver
    /\ LET x == walk.cur
       IN  \E g \in Garbage :
             tim' = IF tim.opt[x] = "PERIODIC"
                    THEN [timer_takeoff(tim, x, g) EXCEPT !.expires[x] = tim.period[x]]
                    ELSE [timer_takeoff(tim, x, g) EXCEPT !.state[x] = "COMPLETED"]
    /\ walk' = [walk EXCEPT !.at = IF tim.opt[walk.cur] = "PERIODIC" THEN "place" ELSE "cb"]
    /\ UNCHANGED <<knl, isr, pc, arg, call, proc>>

WalkPlace ==
    /\ WalkRuns /\ walk.at = "place"
    /\ tim' = timer_place(tim, walk.cur)
    /\ walk' = [walk EXCEPT !.at = "cb"]
    /\ UNCHANGED <<knl, isr, pc, arg, call, proc>>

(* The callback of walk.cur makes a call, or goes straight to its end.     *)
Callback(op, x) ==
    /\ WalkRuns /\ walk.at = "cb"
    /\ <<walk.cur, op, x>> \in CallbackCalls /\ Allowed(op, x, tim)
    /\ IF op \in {"create", "change"} THEN tim' \in AtOnce(op, x, tim)
       ELSE \E g \in Garbage : tim' = InOneGo(op, x, tim, g)
    /\ walk' = [walk EXCEPT !.at = "next"]
    /\ UNCHANGED <<knl, isr, pc, arg, call, proc>>

WalkNext ==
    /\ WalkRuns /\ walk.at \in {"cb", "next"}
    /\ walk' = WalkFrom(tim, walk.tmp)
    /\ UNCHANGED <<knl, isr, pc, arg, tim, call, proc>>

TimerStep ==
    \/ \E op \in TimerCall, x \in Timer : CallTimer(op, x) \/ Callback(op, x)
    \/ CallGoesOn \/ TimerTick \/ SoftTimerUpdate
    \/ TimerTaskLook \/ TimerTaskWait \/ TimerTaskLock
    \/ WalkEnd \/ WalkExpire \/ WalkPlace \/ WalkNext

(* The rest of the kernel; timer calls are not interrupted by other calls  *)
(* of their task.                                                          *)
OtherTaskStep ==
    /\ \/ PendSV_Handler \/ SchedPoint \/ RobinSched \/ IrqLeave
       \/ (walk.at = "wait" => walk.slip < MaxSlip) /\ IrqEnter("tick")
       \/ IrqEnter("isr")
       \/ AppRuns /\ call[knl.curr] = NoCall /\ OtherApi
       \/ isr # << >> /\ OtherApi
    /\ UNCHANGED <<tim, call, walk, proc>>

TimerNext == TimerStep \/ OtherTaskStep
TimerSpec == TimerInit /\ [][TimerNext]_timerVars
=============================================================================
