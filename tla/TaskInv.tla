------------------------------ MODULE TaskInv ------------------------------
(***************************************************************************)
(* What the scheduler promises, stated over the state of module Task.      *)
(***************************************************************************)
EXTENDS Task

KernelType == [
    state    : [Task -> SUBSET Flags],
    obj      : SUBSET (Task \cup Obj),
    prio     : [Task -> Prio],
    rdyq     : [Prio -> Seq(Task)],
    mask     : SUBSET Prio,
    highest  : Prio,
    pend     : [Obj -> Seq(Task)],
    pendingObj : [Task -> Obj \cup {NoObj}],
    pendState  : [Task -> PendState],
    tick     : Seq(Task),
    expires  : [Task -> Nat],
    curr     : Task,
    next     : Task,
    pendsv   : BOOLEAN,
    irqNest  : Nat,
    schedLock : Nat,
    timeslice : [Task -> Nat],
    timesliceReload : [Task -> Nat],
    owner    : [Mutex -> Task \cup {NoTask}],
    nesting  : [Mutex -> 0 .. NestingMax],
    ownerOrigPrio : [Mutex -> 0 .. PrioInvalid],
    own      : [Task -> Seq(Mutex)],
    prioPending : [Task -> 0 .. PrioInvalid] ]

(* The type invariant.                                                     *)
TypeOK ==
    /\ knl \in KernelType
    /\ isr \in Seq(Handler) /\ knl.irqNest = Len(isr)
    /\ pc \in [Task -> Label]
    /\ arg \in [Task -> Obj \cup {NoObj}]

----------------------------------------------------------------------------
(* The state flags say which lists a task is in (tos_task.h: "task state   *)
(* is just a flag, indicating which manager list we are in").              *)

(* Each priority's queue holds, once each, exactly the ready tasks of that *)
(* priority; the bitmap and the cached best priority agree with the queues *)
(* (readyqueue_add/_remove and every caller that changes state or prio).   *)
ReadyQueueExact ==
    /\ \A p \in Prio :
          /\ IsInjective(knl.rdyq[p])
          /\ ToSet(knl.rdyq[p]) = {t \in knl.obj \cap Task : IsReady(knl, t) /\ knl.prio[t] = p}
    /\ knl.mask = {p \in Prio : knl.rdyq[p] # << >>}
    /\ knl.highest = ListMin(knl.mask)

(* An object's pend list holds, once each, exactly the tasks that pend on  *)
(* it, best priority first whatever priorities change while they wait.     *)
PendListExact ==
    /\ \A o \in Obj :
          /\ IsInjective(knl.pend[o])
          /\ ToSet(knl.pend[o]) = {t \in Task : IsPending(knl, t) /\ knl.pendingObj[t] = o}
          /\ \A i, j \in DOMAIN knl.pend[o] :
                i < j => knl.prio[knl.pend[o][i]] <= knl.prio[knl.pend[o][j]]
    /\ \A t \in Task : IsPending(knl, t) <=> knl.pendingObj[t] # NoObj

InPend(t) == pc[t] \in {"psched", "pret"}

(* A task in a pend call whose wait is still undecided is in the pend list *)
(* of that very object, and a pend call never comes back undecided         *)
(* (pend_task_block, pend_task_wakeup, pend_state2errno).                  *)
PendDecided ==
    \A t \in Task \cap knl.obj : InPend(t) =>
        IF knl.pendState[t] = "NONE"
        THEN IsPending(knl, t) /\ knl.pendingObj[t] = arg[t]
        ELSE ~IsPending(knl, t) /\ ~IsSleeping(knl, t)

(* The tick list holds, once each, exactly the sleeping tasks.             *)
TickListExact ==
    /\ IsInjective(knl.tick)
    /\ ToSet(knl.tick) = {t \in Task : IsSleeping(knl, t)}

(* Whenever a task runs, or is about to be switched to, it is the first of *)
(* the ready tasks with the best priority, unless the scheduler is locked  *)
(* or the task is just about to call knl_sched (knl_sched, irq_leave and   *)
(* the PendSV exception, with an interrupt between any two steps).         *)
Chosen  == IF knl.pendsv THEN knl.next ELSE knl.curr
Settled == /\ knl.irqNest = 0 /\ knl.schedLock = 0
           /\ knl.pendsv \/ pc[knl.curr] \notin {"sched", "psched"}
HighestRuns == Settled => Chosen = readyqueue_highest_ready_task_get(knl)

(* Outside of kernel calls the processor is with a live, ready task,       *)
(* scheduler lock or not: no switch goes to a task that was suspended, put *)
(* to sleep or destroyed after it had been chosen.                         *)
RunningIsReady ==
    knl.irqNest = 0 /\ ~knl.pendsv /\ pc[knl.curr] \in {"run", "none"}
       => knl.curr \in knl.obj /\ IsReady(knl, knl.curr)

(* The ticks a sleeper has still to sleep.                                 *)
Remaining(k, t) == Deadlines(k)[PosOf(k.tick, t)]

----------------------------------------------------------------------------
(* Fairness (of the modules built on Task).  A handler runs to its end:    *)
(* weak fairness.  Interrupts leave the processor time to go on with       *)
(* kernel code and to take a PendSV, and the tick interrupt stays latched  *)
(* until it is taken: strong fairness.  (WF and SF are written out, with   *)
(* the ENABLED conditions in plain terms.)                                 *)
InHandler == isr # << >>
GoesOn    == isr = << >> /\ (knl.pendsv \/ pc[knl.curr] \in {"sched", "psched"})

(* With round robin on, a ready task of the best priority gets the         *)
(* processor although its peers never yield (robin_sched), if the tick     *)
(* period is longer than a pass through the kernel.                        *)
TicksAreSlow == <>[][IrqEnter("tick") => TaskRuns]_vars
Contends(t)  == t \in knl.obj /\ IsReady(knl, t) /\ knl.prio[t] = knl.highest
PeersAlternate ==
    TicksAreSlow => \A t \in Task \ {Idle} : Contends(t) ~> ~Contends(t) \/ knl.curr = t
=============================================================================
