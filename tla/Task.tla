-------------------------------- MODULE Task --------------------------------
(***************************************************************************)
(* The scheduler at work: tasks calling the task API (tos_task.c), the     *)
(* scheduler lock and the interrupt prologue and epilogue (tos_sys.c), the *)
(* tick interrupt (tos_tick.c, tos_robin.c) and the context switch.        *)
(*                                                                         *)
(* An interrupts-disabled section of the code is one step.  Between such a *)
(* section and the knl_sched() call behind it interrupts are enabled: the  *)
(* calling task stands at "sched", and an interrupt may come first.        *)
(* A step runs in the context of knl.curr unless a handler is active.      *)
(***************************************************************************)
EXTENDS Kernel

CONSTANTS
    Main, MainPrio, \* the task main() creates before tos_knl_start
    Api,            \* the task-level calls the application makes
    IsrApi,         \* the calls interrupt handlers make
    AppPrio,        \* priorities the application asks for
    Delays,         \* delays and timeouts it asks for
    Timeslices,     \* time slices it asks for, 0 for the default
    SlowTick,       \* whether a tick waits for the consequences of the last
    MaxIrqNest,     \* bound: nested interrupts
    MaxSchedLock    \* bound: nested tos_knl_sched_lock, 250 in the code

ASSUME MainAssumption  == Main \in Task \ {Idle} /\ MainPrio \in Prio \ {PrioIdle}
ASSUME InputAssumption == /\ AppPrio \subseteq Prio \ {PrioIdle}
                          /\ Delays \subseteq 1 .. TimeMax
                          /\ Timeslices \subseteq Nat
ASSUME BoundAssumption == MaxIrqNest \in Nat /\ MaxSchedLock \in Nat /\ SlowTick \in BOOLEAN

VARIABLES
    knl,  \* the kernel, see module Kernel; knl.obj: objects past TOS_OBJ_VERIFY
    isr,  \* what each active interrupt handler does next, innermost first
    pc,   \* where each task is in its current kernel call
    arg   \* the object of the pend call each task is in

vars == <<knl, isr, pc, arg>>

(* "psched" and "pret": in a pend call, before knl_sched() and after it.   *)
(* "estore" and "escan": in tos_event_post, before its store and after it. *)
Label   == {"none", "run", "sched", "psched", "pret", "estore", "escan"}
(* "tick": before tick_update; "robin": before robin_sched; "leave": done; *)
(* "isr": a device handler, free to call what IsrApi allows.               *)
(* "soft": before soft_timer_update, see module Timer.                     *)
Handler == {"tick", "soft", "robin", "leave", "isr"}

TaskRuns  == knl.irqNest = 0 /\ ~knl.pendsv /\ pc[knl.curr] = "run"
Preamble(api)    == api \in Api /\ TaskRuns /\ knl.curr # Idle
IsrPreamble(api) == api \in IsrApi /\ isr # << >> /\ Head(isr) = "isr"

(* A task-level call ends its interrupts-disabled section in kernel k and  *)
(* goes on to knl_sched(), or returns.                                     *)
ThenSched(k)  == /\ knl' = k
                 /\ pc' = [pc EXCEPT ![knl.curr] = "sched"]
                 /\ UNCHANGED <<isr, arg>>
ThenReturn(k) == /\ knl' = k
                 /\ UNCHANGED <<isr, pc, arg>>

(* A call without a check for interrupt context: from a task or a handler. *)
FromAnywhere(api, k) == \/ Preamble(api) /\ ThenSched(k)
                        \/ IsrPreamble(api) /\ ThenReturn(k)
ReturnAnywhere(api, k) == (Preamble(api) \/ IsrPreamble(api)) /\ ThenReturn(k)

(* The tail of every blocking call; k is the kernel it has prepared.       *)
(* NOWAIT and a locked scheduler make the call fail with no change.        *)
BlockIn(k, o, timeout) ==
    /\ timeout # 0 /\ ~knl_is_sched_locked(k)
    /\ knl' = pend_task_block(k, k.curr, o, timeout)
    /\ pc' = [pc EXCEPT ![k.curr] = "psched"]
    /\ arg' = [arg EXCEPT ![k.curr] = o]
    /\ UNCHANGED isr

(* Back from knl_sched(): the call returns                                 *)
(* pend_state2errno(k_curr_task->pend_state).                              *)
PendReturn ==
    /\ knl.irqNest = 0 /\ ~knl.pendsv /\ pc[knl.curr] = "pret"
    /\ pc' = [pc EXCEPT ![knl.curr] = "run"]
    /\ arg' = [arg EXCEPT ![knl.curr] = NoObj]
    /\ UNCHANGED <<knl, isr>>

(* tos_knl_init with the idle task, main() creating Main, tos_knl_start.   *)
BootKernel ==
    [ state    |-> [t \in Task |-> {}],
      obj      |-> {Idle, Main},
      prio     |-> [t \in Task |-> IF t = Main THEN MainPrio ELSE PrioIdle],
      rdyq     |-> [p \in Prio |-> IF p = MainPrio THEN <<Main>>
                                   ELSE IF p = PrioIdle THEN <<Idle>> ELSE << >>],
      mask     |-> {MainPrio, PrioIdle},
      highest  |-> MainPrio,
      pend     |-> [o \in Obj |-> << >>],
      pendingObj |-> [t \in Task |-> NoObj],
      pendState  |-> [t \in Task |-> "NONE"],
      tick     |-> << >>,
      expires  |-> [t \in Task |-> 0],
      curr     |-> Main,
      next     |-> Main,
      pendsv   |-> FALSE,
      irqNest  |-> 0,
      schedLock |-> 0,
      timeslice |-> [t \in Task |-> IF RoundRobin THEN RobinDefault ELSE 0],
      timesliceReload |-> [t \in Task |-> 0],
      owner    |-> [m \in Mutex |-> NoTask],
      nesting  |-> [m \in Mutex |-> 0],
      ownerOrigPrio |-> [m \in Mutex |-> PrioInvalid],
      own      |-> [t \in Task |-> << >>],
      prioPending |-> [t \in Task |-> PrioInvalid] ]

Init ==
    /\ knl = BootKernel
    /\ isr = << >>
    /\ pc  = [t \in Task |-> IF t \in {Idle, Main} THEN "run" ELSE "none"]
    /\ arg = [t \in Task |-> NoObj]

----------------------------------------------------------------------------
(* The context switch and the scheduling point of a call.                  *)

(* PendSV has the lowest exception priority: it waits for every handler.   *)
PendSV_Handler ==
    /\ knl.pendsv /\ knl.irqNest = 0
    /\ ThenReturn([knl EXCEPT !.curr = knl.next, !.pendsv = FALSE])

SchedPoint ==
    /\ knl.irqNest = 0 /\ ~knl.pendsv
    /\ pc[knl.curr] \in {"sched", "psched"}
    /\ knl' = knl_sched(knl)
    /\ pc' = [pc EXCEPT ![knl.curr] = IF @ = "sched" THEN "run" ELSE "pret"]
    /\ UNCHANGED <<isr, arg>>

----------------------------------------------------------------------------
(* Interrupts.                                                             *)

IrqEnter(kind) ==
    /\ Len(isr) < MaxIrqNest
    /\ kind = "isr" => IsrApi # {}
    /\ kind = "tick" /\ SlowTick => TaskRuns
    /\ isr' = <<kind>> \o isr
    /\ knl' = [knl EXCEPT !.irqNest = @ + 1]
    /\ UNCHANGED <<pc, arg>>

TickUpdate ==
    /\ isr # << >> /\ Head(isr) = "tick"
    /\ knl' = tick_update(knl, 1)
    /\ isr' = <<IF RoundRobin THEN "robin" ELSE "leave">> \o Tail(isr)
    /\ UNCHANGED <<pc, arg>>

RobinSched ==
    /\ isr # << >> /\ Head(isr) = "robin"
    /\ knl' = robin_sched(knl)
    /\ isr' = <<"leave">> \o Tail(isr)
    /\ UNCHANGED <<pc, arg>>

IrqLeave ==
    /\ isr # << >> /\ Head(isr) \in {"isr", "leave"}
    /\ knl' = irq_leave(knl)
    /\ isr' = Tail(isr)
    /\ UNCHANGED <<pc, arg>>

----------------------------------------------------------------------------
(* The task API.                                                           *)

(* task_reset and the initialisation of the task control block.            *)
TaskReset(k, t) ==
    [k EXCEPT !.own[t] = << >>, !.prioPending[t] = PrioInvalid,
              !.pendState[t] = "NONE", !.pendingObj[t] = NoObj]

NewTask(k, t, p, slice) ==
    [TaskReset(k, t) EXCEPT
        !.obj = @ \cup {t}, !.prio[t] = p, !.state[t] = {},
        !.timesliceReload[t] = IF RoundRobin THEN slice ELSE 0,
        !.timeslice[t] = IF ~RoundRobin THEN 0
                         ELSE IF slice = 0 THEN RobinDefault ELSE slice]

Create(t, p, slice) ==
    /\ Preamble("create") /\ t \notin knl.obj
    /\ knl' = readyqueue_add_tail(NewTask(knl, t, p, slice), t)
    /\ pc' = [pc EXCEPT ![knl.curr] = "sched", ![t] = "run"]
    /\ arg' = [arg EXCEPT ![t] = NoObj]
    /\ UNCHANGED isr

task_do_destroy(k, t) ==
    LET k1 == IF k.own[t] # << >> THEN task_mutex_release(k, t) ELSE k
        k2 == IF IsReady(k1, t) THEN readyqueue_remove(k1, t) ELSE k1
        k3 == IF IsSleeping(k2, t) THEN tick_list_remove(k2, t) ELSE k2
        k4 == IF IsPending(k3, t) THEN pend_list_remove(k3, t) ELSE k3
    IN  [TaskReset(k4, t) EXCEPT !.state[t] = {"DELETED"}, !.obj = @ \ {t}]

(* tos_task_destroy, on a task or on the caller itself.                    *)
Destroy(t) ==
    /\ Preamble("destroy") /\ t \in knl.obj \ {Idle}
    /\ ~ (t = knl.curr /\ knl_is_sched_locked(knl))
    /\ knl' = task_do_destroy(knl, t)
    /\ pc' = [pc EXCEPT ![t] = "none", ![knl.curr] = "sched"]
    /\ arg' = [arg EXCEPT ![t] = NoObj]
    /\ UNCHANGED isr

Yield ==
    /\ Preamble("yield")
    /\ ThenSched(readyqueue_add_tail(readyqueue_remove(knl, knl.curr), knl.curr))

(* The code does not refuse the idle task here, as it does in destroy and  *)
(* suspend; see Next.                                                      *)
PrioChange(t, p) ==
    /\ Preamble("prio_change") /\ t \in knl.obj
    /\ ThenSched(prio_assign(knl, t, p))

task_suspend(k, t) ==
    LET k1 == IF IsReady(k, t) THEN readyqueue_remove(k, t) ELSE k
        k2 == IF IsPending(k1, t) THEN pend_list_remove(k1, t) ELSE k1
        k3 == IF IsSleeping(k2, t) THEN tick_list_remove(k2, t) ELSE k2
    IN  [k3 EXCEPT !.state[t] = @ \cup {"SUSPENDED"}]

(* Fault: a task may suspend itself under the scheduler lock.              *)
Suspend_Locked(t) ==
    /\ t \in knl.obj \ {Idle}
    /\ Preamble("suspend") /\ ThenSched(task_suspend(knl, t))

(* tos_task_suspend and tos_task_resume may be called in interrupts too.   *)
Suspend(t) ==
    /\ t \in knl.obj \ {Idle}
    /\ ~ (t = knl.curr /\ knl_is_sched_locked(knl))
    /\ \/ Preamble("suspend") /\ ThenSched(task_suspend(knl, t))
       \/ IsrPreamble("suspend") /\ ThenReturn(task_suspend(knl, t))

task_resume(k, t) ==
    LET k1 == [k EXCEPT !.state[t] = @ \ {"SUSPENDED"}]
    IN  IF IsReady(k1, t) THEN readyqueue_add(k1, t) ELSE k1

Resume(t) ==
    /\ t \in knl.obj /\ t # knl.curr /\ IsSuspended(knl, t)
    /\ \/ Preamble("resume") /\ ThenSched(task_resume(knl, t))
       \/ IsrPreamble("resume") /\ ThenReturn(task_resume(knl, t))

(* tos_task_delay; a delay of 0 is a Yield.                                *)
Delay(d) ==
    /\ Preamble("delay") /\ ~knl_is_sched_locked(knl)
    /\ ThenSched(readyqueue_remove(tick_list_add(knl, knl.curr, d), knl.curr))

(* A task that sleeps because it pends with a timeout is not told apart    *)
(* from one that sleeps in tos_task_delay; see Next.                       *)
DelayAbort(t) ==
    /\ Preamble("delay_abort") /\ t \in knl.obj /\ t # knl.curr
    /\ IsSleeping(knl, t) /\ ~IsSuspended(knl, t)
    /\ ThenSched(readyqueue_add(tick_list_remove(knl, t), t))

SchedLock ==
    /\ Preamble("sched_lock") /\ knl.schedLock < MaxSchedLock
    /\ ThenReturn([knl EXCEPT !.schedLock = @ + 1])

(* Fault: no scheduling point behind the unlock.                           *)
SchedUnlock_Return ==
    /\ Preamble("sched_lock") /\ knl_is_sched_locked(knl)
    /\ ThenReturn([knl EXCEPT !.schedLock = @ - 1])

SchedUnlock ==
    /\ Preamble("sched_lock") /\ knl_is_sched_locked(knl)
    /\ ThenSched([knl EXCEPT !.schedLock = @ - 1])

(* tos_robin_timeslice_set: a longer slice counts at once.                 *)
TimesliceSet(t, slice) ==
    /\ RoundRobin /\ t \in knl.obj
    /\ Preamble("timeslice_set") \/ IsrPreamble("timeslice_set")
    /\ LET reload == IF slice = 0 THEN RobinDefault ELSE slice
       IN  ThenReturn([knl EXCEPT !.timesliceReload[t] = reload,
                                  !.timeslice[t] = IF reload > @ THEN reload ELSE @])

----------------------------------------------------------------------------
KernelStep == PendSV_Handler \/ SchedPoint \/ TickUpdate \/ RobinSched \/ IrqLeave

(* The application does not touch the idle task's priority (it would be    *)
(* queued twice), and aborts the delay of delayed tasks only (a waiter     *)
(* would be queued as ready while it is linked in its pend list).  Nothing *)
(* reads the idle task's time slice.                                       *)
SetPrio(t, p) == \/ t # Idle /\ PrioChange(t, p)
                 \/ \E s \in Timeslices : Create(t, p, s)

OtherApi ==
    \/ \E t \in Task : \/ Destroy(t) \/ Suspend(t) \/ Resume(t)
                       \/ ~IsPending(knl, t) /\ DelayAbort(t)
    \/ \E d \in Delays : Delay(d)
    \/ \E t \in Task \ {Idle}, s \in Timeslices : TimesliceSet(t, s)
    \/ Yield \/ SchedLock \/ SchedUnlock

OtherStep == KernelStep \/ (\E kind \in {"tick", "isr"} : IrqEnter(kind)) \/ OtherApi

Next == OtherStep \/ \E t \in Task, p \in AppPrio : SetPrio(t, p)

Spec == Init /\ [][Next]_vars
=============================================================================
