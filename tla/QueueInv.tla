------------------------------ MODULE QueueInv ------------------------------
(***************************************************************************)
(* What message and mail queues promise, over the states of module Queue.  *)
(***************************************************************************)
EXTENDS Queue, TaskInv

(* Nobody waits at a queue that holds an item, through deadlines, flushes  *)
(* and destruction (the pend and post calls against tick_update); and the  *)
(* store is sound: the counters of the ring agree, the slots of the        *)
(* priority queue are free or ranked, once, and its heap is ordered.       *)
NoItemIdle ==
    \A q \in Waitable : /\ IF q \in Ranked THEN PrioSound(store[q]) ELSE RingSound(store[q])
                        /\ store[q].total > 0 => pend_is_nopending(knl, q)

(* Clients that a post woke and that have not yet returned with the item.  *)
Handed(t) == InPend(t) /\ knl.pendState[t] = "POST"

(* A post to one waiter reaches a waiter no other waiter outranks, even if *)
(* priorities changed while they waited (TOS_LIST_FIRST_ENTRY of the pend  *)
(* list, pend_list_adjust).                                                *)
PostReachesBest ==
    [][ \A q \in Waitable : \A t \in ToSet(knl.pend[q]) :
          Handed(t)' => \A u \in ToSet(knl'.pend[q]) : knl.prio[t] <= knl.prio[u] ]_queueVars

(* The kernel's queues implement the abstract ones.                        *)
Abs == INSTANCE AbsQueue WITH
           Queues <- Waitable, Client <- Task, Thing <- Item, Nothing <- NoItem,
           Ranks <- MsgPrios,
           kept    <- [q \in Waitable |-> IF q \in Ranked THEN << >> ELSE RingItems(store[q])],
           ranked  <- [q \in Waitable |-> IF q \in Ranked THEN PrioItems(store[q]) ELSE {}],
           size    <- [q \in Waitable |-> store[q].cnt],
           waiting <- [q \in Waitable |-> ToSet(knl.pend[q])],
           handed  <- [t \in Task |-> IF Handed(t) THEN msg[t] ELSE NoItem],
           given   <- out

(* Refinement: an item is buffered or handed over, once, and what a pend   *)
(* call returns is the item it was handed, or the oldest of the buffered   *)
(* ones, or of a prioritised queue one of the best.                        *)
ImplementsQueue == Abs!AbsSpec
=============================================================================
