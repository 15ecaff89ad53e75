------------------------------- MODULE SemInv -------------------------------
(***************************************************************************)
(* What semaphores promise, over the states of module Sem.                 *)
(***************************************************************************)
EXTENDS Sem, TaskInv

(* Clients whose pend on s was answered by a post and that have not yet    *)
(* returned to the application with their token.                           *)
Granted(s) == {t \in Task : InPend(t) /\ arg[t] = s /\ knl.pendState[t] = "POST"}

(* No wake-up is lost: tokens and waiters never coexist, and the count     *)
(* stays within its limit (sem_do_post against tos_sem_pend, tick_update   *)
(* and destruction, from tasks and from interrupts).                       *)
NoLostWakeup ==
    \A s \in Waitable \cap knl.obj :
        /\ count[s] > 0 => pend_is_nopending(knl, s)
        /\ count[s] <= countMax[s]

(* The kernel's semaphores implement the abstract ones.                    *)
Abs == INSTANCE AbsSemaphore WITH
           Semaphore <- Waitable, Client <- Task,
           tokens    <- count, limit <- countMax,
           waiting   <- [s \in Waitable |-> ToSet(knl.pend[s])],
           granted   <- [s \in Waitable |-> Granted(s)]

(* Refinement: every step is a step of AbsSemaphore or a stutter: a token  *)
(* is neither lost nor given twice, and a timeout, a destruction or an     *)
(* interrupt after a grant does not take it back.                          *)
ImplementsSemaphore == Abs!AbsSpec

(* Fairness as in TaskInv; a pend call goes on when it is switched to.     *)
PendGoesOn  == isr = << >> /\ ~knl.pendsv /\ pc[knl.curr] = "pret"
SemFairSpec ==
    /\ SemSpec
    /\ []<>~InHandler \/ []<><<TickUpdate \/ RobinSched \/ IrqLeave>>_semVars
    /\ \/ <>[]~(GoesOn \/ PendGoesOn)
       \/ []<><<PendSV_Handler \/ SchedPoint \/ SemPendReturn>>_semVars
    /\ SF_semVars(IrqEnter("tick") /\ UNCHANGED <<count, countMax>>)

(* A pend with a timeout is decided, by a post or by its deadline.         *)
TimedPendEnds ==
    \A t \in Task : IsPending(knl, t) /\ IsSleeping(knl, t) ~> ~IsPending(knl, t)
=============================================================================
