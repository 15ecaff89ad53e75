------------------------------- MODULE Queue --------------------------------
(***************************************************************************)
(* Message queues and mail queues (tos_message_queue.c, tos_mail_queue.c)  *)
(* and their prioritised kinds (tos_priority_message_queue.c,              *)
(* tos_priority_mail_queue.c) on top of the scheduler: a store of buffered *)
(* messages, a ring or a priority queue, and a pend list.  A message is a  *)
(* pointer, a mail is copied; both are members of Item.                    *)
(***************************************************************************)
EXTENDS Task, PrioQueue

CONSTANTS
    Mails,        \* the mail queues, of one kind or the other; others hold messages
    Ranked,       \* the prioritised queues, of messages or of mails
    WrongSize,    \* mails that do not have the size of the mail queues
    QueueSizes,   \* msg_cnt and mail_cnt tried at creation
    MsgPrios,     \* priorities of the messages of the prioritised queues
    QueueTimeouts,\* timeouts of the pend calls, as in Sem
    MaxQueues     \* bound: queues alive at a time

ASSUME QueueAssumption ==
    /\ Mails \subseteq Waitable /\ Ranked \subseteq Waitable /\ WrongSize \subseteq Item
    /\ QueueSizes \subseteq Nat \ {0} /\ QueueTimeouts \subseteq 0 .. Forever
    /\ MsgPrios \subseteq Nat /\ MaxQueues \in Nat

VARIABLES
    store, \* msg_q->ring_q or prio_msg_q->prio_q
    msg,   \* task->msg, or what was copied to task->mail
    out    \* history: what the call that has just returned gave its caller

queueVars == <<knl, isr, pc, arg, store, msg, out>>

(* What the calls below do to the ring or to the priority queue of q.      *)
Created(q, cnt) == IF q \in Ranked THEN tos_prio_q_create(cnt) ELSE tos_ring_q_create(cnt)
Flushed(q)      == IF q \in Ranked THEN tos_prio_q_flush(store[q])
                                   ELSE tos_ring_q_flush(store[q])
Enqueued(q, x, prio) == IF q \in Ranked THEN tos_prio_q_enqueue(store[q], x, prio)
                                        ELSE tos_ring_q_enqueue(store[q], x)
Dequeued(q)     == IF q \in Ranked THEN tos_prio_q_dequeue(store[q])
                                   ELSE tos_ring_q_dequeue(store[q])
FirstItem(q)    == IF q \in Ranked THEN PrioFirst(store[q]) ELSE RING_HEAD_ITEM(store[q])
IsEmpty(q)      == IF q \in Ranked THEN tos_prio_q_is_empty(store[q])
                                   ELSE tos_ring_q_is_empty(store[q])
IsFull(q)       == IF q \in Ranked THEN tos_prio_q_is_full(store[q])
                                   ELSE tos_ring_q_is_full(store[q])

QueueInit == /\ Init
             /\ store = [q \in Waitable |-> Created(q, 0)]
             /\ msg  = [t \in Task |-> NoItem]
             /\ out  = NoItem

QueueCreate(q, cnt) ==
    /\ q \notin knl.obj /\ Cardinality(knl.obj \cap Waitable) < MaxQueues
    /\ ReturnAnywhere("queue_create", [knl EXCEPT !.pend[q] = << >>, !.obj = @ \cup {q}])
    /\ store' = [store EXCEPT ![q] = Created(q, cnt)]
    /\ out' = NoItem /\ UNCHANGED msg

(* The store is destroyed first, then the waiters are told.                *)
QueueDestroy(q) ==
    /\ q \in knl.obj
    /\ FromAnywhere("queue_destroy",
          [pend_wakeup_all(knl, q, "DESTROY") EXCEPT !.pend[q] = << >>, !.obj = @ \ {q}])
    /\ store' = [store EXCEPT ![q] = Created(q, 0)]
    /\ out' = NoItem /\ UNCHANGED msg

QueueFlush(q) ==
    /\ q \in knl.obj
    /\ ReturnAnywhere("queue_flush", knl)
    /\ store' = [store EXCEPT ![q] = Flushed(q)]
    /\ out' = NoItem /\ UNCHANGED msg

----------------------------------------------------------------------------
(* tos_msg_q_pend, tos_mail_q_pend and their prioritised kinds.            *)

QueueTake(q) ==
    /\ Preamble("queue_pend") /\ q \in knl.obj
    /\ ~IsEmpty(q)
    /\ ThenReturn(knl)
    /\ store' = [store EXCEPT ![q] = Dequeued(q)]
    /\ out' = FirstItem(q) /\ UNCHANGED msg

QueueBlock(q, timeout) ==
    /\ Preamble("queue_pend") /\ q \in knl.obj
    /\ IsEmpty(q)
    /\ BlockIn(knl, q, timeout)
    /\ out' = NoItem /\ UNCHANGED <<store, msg>>

QueuePendReturn ==
    /\ PendReturn
    /\ IF pend_state2errno(knl.pendState[knl.curr]) = "K_ERR_NONE"
       THEN /\ out' = msg[knl.curr]
            /\ msg' = [msg EXCEPT ![knl.curr] = NoItem]
       ELSE out' = NoItem /\ UNCHANGED msg
    /\ UNCHANGED store

----------------------------------------------------------------------------
(* The post calls, opt "ONE" or "ALL".                                     *)

PostBuffered_First(q, x, prio, fits) ==
    /\ fits /\ ~IsFull(q)
    /\ ReturnAnywhere("queue_post", knl)
    /\ store' = [store EXCEPT ![q] = Enqueued(q, x, prio)]
    /\ out' = NoItem /\ UNCHANGED msg

(* Buffered when nobody waits; a full store is refused, and a mail that    *)
(* does not have the size of the queue's mails.                            *)
PostBuffered(q, x, prio, fits) ==
    /\ pend_is_nopending(knl, q)
    /\ fits /\ ~IsFull(q)
    /\ ReturnAnywhere("queue_post", knl)
    /\ store' = [store EXCEPT ![q] = Enqueued(q, x, prio)]
    /\ out' = NoItem /\ UNCHANGED msg

Receivers(q, opt) == IF opt = "ONE" THEN <<Head(knl.pend[q])>> ELSE knl.pend[q]

(* Handed to the first waiter or to all, without a look at the store.     *)
PostHanded(q, x, opt) ==
    /\ ~pend_is_nopending(knl, q)
    /\ FromAnywhere("queue_post", wakeup_each(knl, Receivers(q, opt), "POST"))
    /\ msg' = [t \in Task |-> IF t \in ToSet(Receivers(q, opt)) THEN x ELSE msg[t]]
    /\ out' = NoItem /\ UNCHANGED store

(* msg_q_do_post, mail_q_do_post and their prioritised kinds.  The size of *)
(* a mail is checked only when it is buffered; the priority ranks what is  *)
(* buffered.                                                               *)
QueuePost(q, x, prio, opt) ==
    /\ q \in knl.obj
    /\ PostBuffered(q, x, prio, q \in Mails => x \notin WrongSize) \/ PostHanded(q, x, opt)

QueueApi ==
    \/ \E q \in Waitable, cnt \in QueueSizes : QueueCreate(q, cnt)
    \/ \E q \in Waitable : QueueDestroy(q) \/ QueueFlush(q) \/ QueueTake(q)
    \/ \E q \in Waitable, timeout \in QueueTimeouts : QueueBlock(q, timeout)
    \/ \E q \in Waitable, x \in Item, opt \in {"ONE", "ALL"} :
          \E prio \in (IF q \in Ranked THEN MsgPrios ELSE {0}) : QueuePost(q, x, prio, opt)
    \/ QueuePendReturn

(* The calls of module Task; a task_reset clears the message as well.       *)
TaskStep == /\ Next
            /\ msg' = [t \in Task |-> IF t \in knl'.obj THEN msg[t] ELSE NoItem]
            /\ out' = NoItem /\ UNCHANGED store

QueueNext == TaskStep \/ QueueApi

QueueSpec == QueueInit /\ [][QueueNext]_queueVars
=============================================================================
