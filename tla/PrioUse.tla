------------------------------ MODULE PrioUse -------------------------------
(***************************************************************************)
(* Contexts that call the priority queue directly (tos_priority_queue.c).  *)
(* tos_prio_q_enqueue and tos_prio_q_dequeue look at the queue first and   *)
(* disable interrupts afterwards: other contexts may come in between.      *)
(***************************************************************************)
EXTENDS PrioQueue

CONSTANTS
    Producers, Consumers, \* the contexts: tasks or interrupt handlers
    UsePrios,             \* priorities of the items
    UseSize               \* item_cnt

ASSUME UseAssumption == UsePrios \subseteq Nat /\ UseSize \in Nat \ {0}

VARIABLES
    prioq,    \* the queue
    checked,  \* contexts past tos_prio_q_is_full or tos_prio_q_is_empty
    asserted  \* a TOS_ASSERT has failed

useVars == <<prioq, checked, asserted>>

UseInit == prioq = tos_prio_q_create(UseSize) /\ checked = {} /\ asserted = FALSE

EnqueueCheck(c) ==
    /\ c \in Producers \ checked /\ ~tos_prio_q_is_full(prioq)
    /\ checked' = checked \cup {c} /\ UNCHANGED <<prioq, asserted>>

(* Fault: the chain of free slots ends one slot early.                     *)
SlotLeft_Early(q) == Len(q.free) > 1

SlotLeft(q) == q.free # << >>

(* TOS_ASSERT(the_slot != PRIO_Q_POOL_SLOT_INVALID).                       *)
Enqueue(c, x, prio) ==
    /\ c \in Producers \cap checked /\ ~asserted
    /\ IF SlotLeft(prioq)
       THEN prioq' = tos_prio_q_enqueue(prioq, x, prio) /\ UNCHANGED asserted
       ELSE asserted' = TRUE /\ UNCHANGED prioq
    /\ checked' = checked \ {c}

DequeueCheck(c) ==
    /\ c \in Consumers \ checked /\ ~tos_prio_q_is_empty(prioq)
    /\ checked' = checked \cup {c} /\ UNCHANGED <<prioq, asserted>>

(* TOS_ASSERT(err == K_ERR_NONE) behind tos_bin_heap_pop.                  *)
Dequeue(c) ==
    /\ c \in Consumers \cap checked /\ ~asserted
    /\ IF prioq.heap # << >>
       THEN prioq' = tos_prio_q_dequeue(prioq) /\ UNCHANGED asserted
       ELSE asserted' = TRUE /\ UNCHANGED prioq
    /\ checked' = checked \ {c}

Flush(c) ==
    /\ c \in Consumers \ checked
    /\ prioq' = tos_prio_q_flush(prioq) /\ UNCHANGED <<checked, asserted>>

UseNext ==
    \/ \E c \in Producers : \/ EnqueueCheck(c)
                            \/ \E x \in Item, prio \in UsePrios : Enqueue(c, x, prio)
    \/ \E c \in Consumers : DequeueCheck(c) \/ Dequeue(c) \/ Flush(c)
=============================================================================
