------------------------------- MODULE Mutex --------------------------------
(***************************************************************************)
(* Mutexes with recursive locking and priority inheritance (tos_mutex.c)   *)
(* on top of the scheduler.  Ownership lives in the kernel record, because *)
(* tos_task_prio_change and tos_task_destroy look at it.                   *)
(***************************************************************************)
EXTENDS Task

CONSTANT MutexTimeouts  \* timeouts of tos_mutex_pend_timed, as in Sem

ASSUME MutexAssumption == MutexTimeouts \subseteq 0 .. Forever

VARIABLES
    holds,  \* history: the mutexes each application task was told it has
    base    \* history: the priority each task is to have when it owns no mutex

mutexVars == <<knl, isr, pc, arg, holds, base>>

MutexInit == /\ Init
             /\ holds = [t \in Task |-> {}]
             /\ base  = [t \in Task |-> knl.prio[t]]

MutexCreate(m) ==
    /\ Preamble("mutex_create") /\ m \notin knl.obj
    /\ ThenReturn([knl EXCEPT !.pend[m] = << >>, !.nesting[m] = 0, !.owner[m] = NoTask,
                              !.ownerOrigPrio[m] = PrioInvalid, !.obj = @ \cup {m}])
    /\ UNCHANGED holds

MutexDestroy(m) ==
    /\ Preamble("mutex_destroy") /\ m \in knl.obj
    /\ LET k1 == pend_wakeup_all(knl, m, "DESTROY")
           k2 == IF k1.owner[m] # NoTask THEN mutex_old_owner_release(k1, m) ELSE k1
       IN  ThenSched([k2 EXCEPT !.pend[m] = << >>, !.obj = @ \ {m}])
    /\ holds' = [t \in Task |-> holds[t] \ {m}]

(* Fault: whoever comes is the first.                                      *)
MutexPendFirst_Always(m) ==
    /\ Preamble("mutex_pend") /\ m \in knl.obj
    /\ ThenReturn(mutex_fresh_owner_mark(knl, m, knl.curr))
    /\ holds' = [holds EXCEPT ![knl.curr] = @ \cup {m}]

(* tos_mutex_pend_timed, "first come".                                     *)
MutexPendFirst(m) ==
    /\ Preamble("mutex_pend") /\ m \in knl.obj
    /\ knl.nesting[m] = 0
    /\ ThenReturn(mutex_fresh_owner_mark(knl, m, knl.curr))
    /\ holds' = [holds EXCEPT ![knl.curr] = @ \cup {m}]

(* "come again": refused at the largest k_nesting_t.                       *)
MutexPendAgain(m) ==
    /\ Preamble("mutex_pend") /\ m \in knl.obj
    /\ knl.nesting[m] > 0 /\ knl.owner[m] = knl.curr /\ knl.nesting[m] < NestingMax
    /\ ThenReturn([knl EXCEPT !.nesting[m] = @ + 1])
    /\ UNCHANGED holds

(* Fault: the owner is lent no priority.                                   *)
MutexBlock_NoLending(m, timeout) ==
    /\ Preamble("mutex_pend") /\ m \in knl.obj
    /\ knl.nesting[m] > 0 /\ knl.owner[m] # knl.curr
    /\ BlockIn(knl, m, timeout)
    /\ UNCHANGED holds

(* Lend the owner our priority and wait.                                   *)
MutexBlock(m, timeout) ==
    /\ Preamble("mutex_pend") /\ m \in knl.obj
    /\ knl.nesting[m] > 0 /\ knl.owner[m] # knl.curr
    /\ LET o == knl.owner[m]
           k == IF knl.prio[o] > knl.prio[knl.curr]
                THEN tos_task_prio_change(knl, o, knl.prio[knl.curr]) ELSE knl
       IN  BlockIn(k, m, timeout)
    /\ UNCHANGED holds

MutexPendReturn ==
    /\ PendReturn
    /\ holds' = IF pend_state2errno(knl.pendState[knl.curr]) = "K_ERR_NONE"
                THEN [holds EXCEPT ![knl.curr] = @ \cup {arg[knl.curr]}] ELSE holds

MutexPostNested(m) ==
    /\ Preamble("mutex_post") /\ m \in knl.obj
    /\ knl.owner[m] = knl.curr /\ knl.nesting[m] > 1
    /\ ThenReturn([knl EXCEPT !.nesting[m] = @ - 1])
    /\ UNCHANGED holds

(* Fault: the waiter is woken without being made the owner.                *)
MutexPost_NoHandOver(m) ==
    /\ Preamble("mutex_post") /\ m \in knl.obj
    /\ knl.owner[m] = knl.curr /\ knl.nesting[m] = 1
    /\ LET k1 == mutex_old_owner_release(knl, m)
       IN  IF pend_is_nopending(k1, m) THEN ThenReturn(k1)
           ELSE ThenSched(pend_wakeup_one(k1, m, "POST"))
    /\ holds' = [holds EXCEPT ![knl.curr] = @ \ {m}]

(* The last post hands the mutex to the best waiter at once.               *)
MutexPost(m) ==
    /\ Preamble("mutex_post") /\ m \in knl.obj
    /\ knl.owner[m] = knl.curr /\ knl.nesting[m] = 1
    /\ LET k1 == mutex_old_owner_release(knl, m)
           t  == pend_highest_pending_task_get(k1, m)
       IN  IF pend_is_nopending(k1, m) THEN ThenReturn(k1)
           ELSE ThenSched(pend_wakeup_one(mutex_new_owner_mark(k1, m, t), m, "POST"))
    /\ holds' = [holds EXCEPT ![knl.curr] = @ \ {m}]

MutexApi ==
    \/ \E m \in Mutex : \/ MutexCreate(m) \/ MutexDestroy(m)
                        \/ MutexPendFirst(m) \/ MutexPendAgain(m)
                        \/ MutexPostNested(m) \/ MutexPost(m)
    \/ \E m \in Mutex, timeout \in MutexTimeouts : MutexBlock(m, timeout)
    \/ MutexPendReturn

(* A destroyed task no longer believes anything.                           *)
Forget == holds' = [t \in Task |-> IF t \in knl'.obj THEN holds[t] ELSE {}]

(* The priority the application asks for is to come back with the last     *)
(* mutex.  mutex_old_owner_release does not see to it in three cases, for  *)
(* which PrioInvalid stands.  It knows one priority per mutex: a second    *)
(* mutex taken at a lent priority gives that one back.  Of the changes     *)
(* asked for while the task owns a mutex it knows those that were put off, *)
(* and undoes the others.  And a lend can be put off too, in the place of  *)
(* a change, when another waiter was raised above it while it waited.      *)
Remember ==
    base' = [t \in Task |->
        IF Len(knl'.own[t]) > 1 \/ knl'.prioPending[t] \notin {knl.prioPending[t], PrioInvalid}
        THEN PrioInvalid ELSE base[t]]
Asked(t, p) ==
    base' = [base EXCEPT ![t] = IF knl.own[t] = << >> \/ knl'.prioPending[t] = p
                                THEN p ELSE PrioInvalid]

MutexNext ==
    \/ OtherStep /\ Forget /\ Remember
    \/ \E t \in Task, p \in AppPrio : SetPrio(t, p) /\ Asked(t, p) /\ UNCHANGED holds
    \/ MutexApi /\ Remember

MutexSpec == MutexInit /\ [][MutexNext]_mutexVars
=============================================================================
