------------------------------ MODULE MCMutex -------------------------------
EXTENDS MutexInv

CONSTANTS idle, t1, t2, t3, m1, m2

MCTasks == {idle, t1, t2, t3}
Alike   == Permutations({t2, t3}) \cup Permutations({m1, m2})

(* All calls of the two scenarios below.                                   *)
OwnCalls  == {"create", "destroy", "prio_change", "mutex_create", "mutex_destroy",
              "mutex_pend", "mutex_post"}

(* Priorities change and tasks are destroyed under a mutex.                *)
DoomCalls == {"create", "mutex_create", "mutex_pend", "mutex_post", "prio_change", "destroy"}

(* A client that is never created, if there is one: it tells the two kinds *)
(* of behaviours apart.                                                    *)
VARIABLE absent
MCVars == <<knl, isr, pc, arg, holds, base, absent>>

(* With three clients there is one mutex at a time, and its owner and      *)
(* those in its pend list get other priorities; ticks come between calls.  *)
Queues == /\ Cardinality(knl'.obj \cap Mutex) <= 1 /\ knl.obj \subseteq knl'.obj
          /\ knl'.irqNest > knl.irqNest => TaskRuns

(* With two there are two mutexes; clients and mutexes are destroyed, in   *)
(* use or not, and the clients may wait for each other.                    *)
Dies   == absent \notin knl'.obj /\ ~ \E t \in Task, p \in AppPrio : PrioChange(t, p)

MCInit == MutexInit /\ absent \in {NoTask, t2, t3}
MCNext == MutexNext /\ absent' = absent /\ IF absent = NoTask THEN Queues ELSE Dies
MCSpec == MCInit /\ [][MCNext]_MCVars

(* Both at once: what DoomCalls allow.                                     *)
DoomSpec == MutexInit /\ absent = NoTask /\ [][MutexNext /\ UNCHANGED absent]_MCVars
=============================================================================
