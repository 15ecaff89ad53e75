------------------------------ MODULE MCQueue -------------------------------
(* Clients of a message queue, a mail queue or a prioritised mail queue,   *)
(* and handlers that post.                                                 *)
EXTENDS QueueInv

CONSTANTS idle, t1, t2, t3, q1, q2, q3, x1, x2

MCTasks == {idle, t1, t2, t3}

QueueCalls == {"create", "destroy", "prio_change", "queue_create", "queue_destroy",
               "queue_flush", "queue_pend", "queue_post"}
IsrPosts   == {"queue_post"}

(* A client that is never created, if there is one: it tells the two kinds *)
(* of behaviours apart.                                                    *)
VARIABLE absent
MCVars == <<knl, isr, pc, arg, store, msg, out, absent>>

(* With three clients they use one message queue and one message, and the  *)
(* priorities of those in its pend list change; ticks come between calls,  *)
(* and there are no other handlers.                                        *)
Queues == /\ knl.obj \subseteq knl'.obj /\ knl'.obj \cap Waitable \subseteq {q1}
          /\ ~ \E opt \in {"ONE", "ALL"} : QueuePost(q1, x2, 0, opt)
          /\ knl'.irqNest > knl.irqNest => TaskRuns /\ isr' = <<"tick">>

(* With two, of which t2 is one, all queues, items and handlers are there, *)
(* and clients and queues are destroyed.                                   *)
Races  == absent \notin knl'.obj

MCInit == QueueInit /\ absent \in {NoTask, t3}
MCNext == QueueNext /\ absent' = absent /\ IF absent = NoTask THEN Queues ELSE Races
MCSpec == MCInit /\ [][MCNext]_MCVars
=============================================================================
