------------------------------ MODULE MutexInv ------------------------------
(***************************************************************************)
(* What mutexes promise, over the states of module Mutex.                  *)
(***************************************************************************)
EXTENDS Mutex, TaskInv

(* Mutual exclusion as the application sees it: a task told that it has a  *)
(* mutex is the recorded owner until it posts it or the mutex is destroyed,*)
(* across hand-over, timeouts, death of owners and waiters.                *)
MutexExclusive ==
    \A t \in Task : \A m \in holds[t] : m \in knl.obj /\ knl.owner[m] = t

(* The two records of ownership agree, owners are alive, and a mutex is    *)
(* free exactly when its nesting count is zero, and then nobody waits.     *)
OwnershipExact ==
    /\ \A t \in Task : /\ IsInjective(knl.own[t])
                       /\ ToSet(knl.own[t]) = {m \in Mutex : knl.owner[m] = t}
                       /\ knl.own[t] # << >> => t \in knl.obj
    /\ \A m \in Mutex :
          /\ knl.nesting[m] = 0 <=> knl.owner[m] = NoTask
          /\ knl.owner[m] = NoTask => knl.pend[m] = << >>

(* The mutex is handed over: a waiter answered by a post owns the mutex    *)
(* before it runs, so the poster cannot take it again in between.          *)
HandOver ==
    \A t \in {u \in Task \cap knl.obj : arg[u] \in Mutex} :
        /\ InPend(t) /\ knl.pendState[t] = "POST" /\ arg[t] \in knl.obj
              => knl.owner[arg[t]] = t
        /\ InPend(t) /\ knl.pendState[t] \in {"NONE", "TIMEOUT", "OWNER_DIE"}
              => arg[t] \notin ToSet(knl.own[t])

(* No step leaves an owner with a worse priority than a task that waits    *)
(* for its mutex: not a wait, a hand-over, a deadline, a destruction nor a *)
(* change of the owner's own priority (tos_task.h: "to avoid PRIORITY      *)
(* INVERSION, must make sure our priority is higher than any one who is    *)
(* pending for the mutex we hold").  The one exception is a waiter that is *)
(* raised while it waits, by the application or by one who waits for it:   *)
(* tos_task_prio_change does not pass that on, and the waiter stays ahead  *)
(* of its owner until the mutex changes hands.                             *)
Outranks(k, u, m) == u \in ToSet(k.pend[m]) /\ k.prio[u] < k.prio[k.owner[m]]
OwnerOutranksWaiters ==
    [][\A m \in Mutex, u \in Task : Outranks(knl', u, m) =>
          /\ u \in ToSet(knl.pend[m]) /\ knl'.owner[m] = knl.owner[m]
          /\ Outranks(knl, u, m) \/ knl'.prio[u] < knl.prio[u]]_mutexVars

(* A task that owns no mutex has the priority the application gave it,     *)
(* whatever was lent to it meanwhile, and a change that was put off while  *)
(* it owned one is made (mutex_old_owner_release, tos_task_prio_change).   *)
PriorityRestored ==
    \A t \in Task \cap knl.obj :
        knl.own[t] = << >> /\ base[t] # PrioInvalid => knl.prio[t] = base[t]

(* A call to tos_mutex_pend comes back with an answer a post, a deadline,  *)
(* a destruction or the death of the owner gave.                           *)
MutexPendDecided ==
    \A t \in Task \cap knl.obj :
        InPend(t) /\ knl.pendState[t] = "NONE" =>
            IsPending(knl, t) /\ knl.pendingObj[t] = arg[t]
=============================================================================
