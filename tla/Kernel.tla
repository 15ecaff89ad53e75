------------------------------- MODULE Kernel -------------------------------
(***************************************************************************)
(* The data structures of the TobudOS kernel and the functions that change *)
(* them with interrupts disabled: ready queue (tos_sched.c), pend lists    *)
(* (tos_pend.c), tick list (tos_tick.c), the scheduling decision           *)
(* (tos_sys.c), priority changes (tos_task.c) and mutex ownership          *)
(* (tos_mutex.c).                                                          *)
(*                                                                         *)
(* The kernel is one record k.  A C function that runs with interrupts     *)
(* disabled is an operator from kernels to kernels and keeps its C name; a *)
(* doubly linked list is the sequence of its entries, first entry first.   *)
(* The actions of the modules that extend this one apply these operators.  *)
(***************************************************************************)
EXTENDS Integers, FiniteSets, SequencesExt

CONSTANTS
    Task,           \* task control blocks, the idle task included
    Idle,           \* k_idle_task
    Mutex,          \* mutexes
    Waitable,       \* the other objects a task can pend on
    NoTask, NoObj,  \* K_NULL for a task and for a pend object
    PrioMax,        \* TOS_CFG_TASK_PRIO_MAX
    TimeMax,        \* K_TIME_MAX, the longest finite timeout
    NestingMax,     \* largest k_nesting_t, 255 in the code
    RoundRobin,     \* TOS_CFG_ROUND_ROBIN_EN
    RobinDefault    \* k_robin_default_timeslice

Obj         == Mutex \cup Waitable
Prio        == 0 .. PrioMax - 1
PrioIdle    == PrioMax - 1
PrioInvalid == PrioMax
Forever     == TimeMax + 1          \* TOS_TIME_FOREVER
Flags       == {"SLEEP", "PEND", "SUSPENDED", "DELETED"}
PendState   == {"NONE", "POST", "TIMEOUT", "DESTROY", "OWNER_DIE"}

ASSUME IdleAssumption     == Idle \in Task
ASSUME NullAssumption     == NoTask \notin Task /\ NoObj \notin Obj
ASSUME KindAssumption     == Task \cap Obj = {}
ASSUME PrioAssumption     == PrioMax \in Nat /\ PrioMax >= 2
ASSUME TimeAssumption     == TimeMax \in Nat \ {0}
ASSUME NestingAssumption  == NestingMax \in Nat \ {0}
ASSUME RobinAssumption    == RoundRobin \in BOOLEAN /\ RobinDefault \in Nat \ {0}

(* task->state is a set of flags, K_TASK_STATE_READY the empty one.        *)
IsReady(k, t)     == k.state[t] = {}
IsSleeping(k, t)  == "SLEEP" \in k.state[t]
IsPending(k, t)   == "PEND" \in k.state[t]
IsSuspended(k, t) == "SUSPENDED" \in k.state[t]

(* tos_list_del: unlink an entry from the list it is in.                   *)
PosOf(s, x)        == CHOOSE i \in DOMAIN s : s[i] = x
tos_list_del(s, x) == RemoveAt(s, PosOf(s, x))
ListMin(S)         == CHOOSE x \in S : \A y \in S : x <= y

----------------------------------------------------------------------------
(* tos_sched.c: a FIFO per priority, the set of non-empty priorities       *)
(* (prio_mask) and the cached best priority (highest_prio).                *)

readyqueue_prio_highest_get(k) == ListMin(k.mask)

readyqueue_highest_ready_task_get(k) == Head(k.rdyq[k.highest])

readyqueue_prio_mark(k, p) ==
    [k EXCEPT !.mask = @ \cup {p}, !.highest = IF p < @ THEN p ELSE @]

readyqueue_add_head(k, t) ==
    LET p  == k.prio[t]
        k1 == IF k.rdyq[p] = << >> THEN readyqueue_prio_mark(k, p) ELSE k
    IN  [k1 EXCEPT !.rdyq[p] = <<t>> \o @]

readyqueue_add_tail(k, t) ==
    LET p  == k.prio[t]
        k1 == IF k.rdyq[p] = << >> THEN readyqueue_prio_mark(k, p) ELSE k
    IN  [k1 EXCEPT !.rdyq[p] = Append(@, t)]

readyqueue_add(k, t) ==
    IF k.prio[t] = k.prio[k.curr] THEN readyqueue_add_tail(k, t)
                                  ELSE readyqueue_add_head(k, t)

(* Fault: highest_prio is not refreshed.                                   *)
readyqueue_remove_Stale(k, t) ==
    LET p  == k.prio[t]
        k1 == [k EXCEPT !.rdyq[p] = tos_list_del(@, t)]
    IN  IF t = Idle THEN k
        ELSE IF k1.rdyq[p] = << >> THEN [k1 EXCEPT !.mask = @ \ {p}] ELSE k1

(* The idle task never leaves its queue.                                   *)
readyqueue_remove(k, t) ==
    LET p  == k.prio[t]
        k1 == [k EXCEPT !.rdyq[p] = tos_list_del(@, t)]
        k2 == IF k1.rdyq[p] = << >> THEN [k1 EXCEPT !.mask = @ \ {p}] ELSE k1
    IN  IF t = Idle THEN k
        ELSE IF p = k2.highest
             THEN [k2 EXCEPT !.highest = readyqueue_prio_highest_get(k2)]
             ELSE k2

readyqueue_move_head_to_tail(k, p) ==
    IF k.rdyq[p] = << >> THEN k
    ELSE [k EXCEPT !.rdyq[p] = Append(Tail(@), Head(@))]

----------------------------------------------------------------------------
(* tos_tick.c: the sleepers in the order they expire; tick_expires is the  *)
(* distance to the sleeper before.  Deadlines(k)[i] is when entry i is due. *)

Deadlines(k) ==
    LET d[i \in 0 .. Len(k.tick)] ==
            IF i = 0 THEN 0 ELSE d[i - 1] + k.expires[k.tick[i]]
    IN  d

(* Fault: the next sleeper keeps its distance.                             *)
tick_task_place_NoShift(k, t, timeout) ==
    LET due == Deadlines(k)
        p   == ListMin({i \in DOMAIN k.tick : timeout < due[i]} \cup {Len(k.tick) + 1})
    IN  [k EXCEPT !.tick = InsertAt(@, p, t), !.expires[t] = timeout - due[p - 1]]

tick_task_place(k, t, timeout) ==
    LET due        == Deadlines(k)
        Precedes(i) == \/ timeout < due[i]
                       \/ timeout = due[i] /\ k.prio[t] < k.prio[k.tick[i]]
        p          == ListMin({i \in DOMAIN k.tick : Precedes(i)}
                                 \cup {Len(k.tick) + 1})
        delta      == timeout - due[p - 1]
        shifted    == IF p <= Len(k.tick)
                      THEN [k.expires EXCEPT ![k.tick[p]] = @ - delta]
                      ELSE k.expires
    IN  [k EXCEPT !.tick = InsertAt(@, p, t), !.expires = [shifted EXCEPT ![t] = delta]]

(* The next sleeper inherits the distance, saturated at K_TIME_MAX.  The   *)
(* distance of a task outside the list is dead: it is kept at 0 here.      *)
tick_task_takeoff(k, t) ==
    LET p    == PosOf(k.tick, t)
        left == [k.expires EXCEPT ![t] = 0]
        sum  == k.expires[k.tick[p + 1]] + k.expires[t]
    IN  [k EXCEPT
            !.tick    = tos_list_del(@, t),
            !.expires = IF p < Len(k.tick)
                        THEN [left EXCEPT ![k.tick[p + 1]] =
                                 IF sum <= TimeMax THEN sum ELSE TimeMax]
                        ELSE left]

tick_list_add(k, t, timeout) ==
    [tick_task_place(k, t, timeout) EXCEPT !.state[t] = @ \cup {"SLEEP"}]

(* Fault: the flag is cleared, the task stays in the list.                 *)
tick_list_remove_Flag(k, t) == [k EXCEPT !.state[t] = @ \ {"SLEEP"}]

tick_list_remove(k, t) ==
    [tick_task_takeoff(k, t) EXCEPT !.state[t] = @ \ {"SLEEP"}]

----------------------------------------------------------------------------
(* tos_pend.c: the tasks waiting for an object, best priority first.       *)

(* Fault: first come, first served.                                        *)
pend_list_add_Fifo(k, t, o) ==
    [k EXCEPT !.pend[o] = Append(@, t), !.pendingObj[t] = o, !.state[t] = @ \cup {"PEND"}]

pend_list_add(k, t, o) ==
    LET s == k.pend[o]
        p == ListMin({i \in DOMAIN s : k.prio[t] < k.prio[s[i]]} \cup {Len(s) + 1})
    IN  [k EXCEPT !.pend[o] = InsertAt(@, p, t), !.pendingObj[t] = o,
                  !.state[t] = @ \cup {"PEND"}]

pend_list_remove(k, t) ==
    [k EXCEPT !.pend[k.pendingObj[t]] = tos_list_del(@, t), !.pendingObj[t] = NoObj,
              !.state[t] = @ \ {"PEND"}]

(* Fault: a waiter keeps its place.                                        *)
pend_list_adjust_Stays(k, t) == k

pend_list_adjust(k, t) ==
    LET o == k.pendingObj[t]
    IN  pend_list_add([k EXCEPT !.pend[o] = tos_list_del(@, t)], t, o)

pend_is_nopending(k, o) == k.pend[o] = << >>

pend_highest_pending_prio_get(k, o) ==
    IF pend_is_nopending(k, o) THEN PrioInvalid ELSE k.prio[Head(k.pend[o])]

pend_highest_pending_task_get(k, o) == Head(k.pend[o])

pend_state2errno(st) ==
    CASE st = "POST"      -> "K_ERR_NONE"
      [] st = "TIMEOUT"   -> "K_ERR_PEND_TIMEOUT"
      [] st = "DESTROY"   -> "K_ERR_PEND_DESTROY"
      [] st = "OWNER_DIE" -> "K_ERR_PEND_OWNER_DIE"
      [] OTHER            -> "K_ERR_PEND_ABNORMAL"

(* Fault: the waiter is not told why it was woken.                         *)
pend_task_wakeup_Mute(k, t, st) ==
    LET k1 == IF IsPending(k, t) THEN pend_list_remove(k, t) ELSE k
        k2 == IF IsSleeping(k1, t) THEN tick_list_remove(k1, t) ELSE k1
    IN  IF IsSuspended(k2, t) THEN k2 ELSE readyqueue_add(k2, t)

pend_task_wakeup(k, t, st) ==
    LET k1 == IF IsPending(k, t)
              THEN pend_list_remove([k EXCEPT !.pendState[t] = st], t) ELSE k
        k2 == IF IsSleeping(k1, t) THEN tick_list_remove(k1, t) ELSE k1
    IN  IF IsSuspended(k2, t) THEN k2 ELSE readyqueue_add(k2, t)

(* Fault: the answer to the last wait is kept.                             *)
pend_task_block_Stale(k, t, o, timeout) ==
    LET k1 == pend_list_add(readyqueue_remove(k, t), t, o)
    IN  IF timeout # Forever THEN tick_list_add(k1, t, timeout) ELSE k1

pend_task_block(k, t, o, timeout) ==
    LET k1 == [readyqueue_remove(k, t) EXCEPT !.pendState[t] = "NONE"]
        k2 == pend_list_add(k1, t, o)
    IN  IF timeout # Forever THEN tick_list_add(k2, t, timeout) ELSE k2

(* The loop "for each task of ts in turn, if A has it: pend_task_wakeup".  *)
wakeup_those(k, ts, A, st) ==
    LET after[n \in 0 .. Len(ts)] ==
            IF n = 0 THEN k
            ELSE IF ts[n] \in A THEN pend_task_wakeup(after[n - 1], ts[n], st)
            ELSE after[n - 1]
    IN  after[Len(ts)]

wakeup_each(k, ts, st) == wakeup_those(k, ts, ToSet(ts), st)

pend_wakeup_one(k, o, st) == pend_task_wakeup(k, Head(k.pend[o]), st)
pend_wakeup_all(k, o, st) == wakeup_each(k, k.pend[o], st)

(* opt is OPT_POST_ONE or OPT_POST_ALL.                                    *)
pend_wakeup(k, o, st, opt) ==
    IF opt = "ONE" THEN pend_wakeup_one(k, o, st) ELSE pend_wakeup_all(k, o, st)

(* Fault: the loop stops at a sleeper whose distance is zero.              *)
tick_update_Stops(k, n) ==
    IF k.tick = << >> THEN k
    ELSE [k EXCEPT !.expires[Head(k.tick)] = IF @ <= n THEN 0 ELSE @ - n]

(* The first distance shrinks by n ticks, one at a tick interrupt; when it *)
(* reaches zero every sleeper at distance zero is woken.                   *)
tick_update(k, n) ==
    LET first == Head(k.tick)
        k1    == [k EXCEPT !.expires[first] = IF @ <= n THEN 0 ELSE @ - n]
        awake == ListMin({i \in DOMAIN k1.tick : k1.expires[k1.tick[i]] > 0}
                            \cup {Len(k1.tick) + 1})
    IN  IF k.tick = << >> THEN k
        ELSE IF k.expires[first] <= n
             THEN wakeup_each(k1, SubSeq(k1.tick, 1, awake - 1), "TIMEOUT")
             ELSE k1

----------------------------------------------------------------------------
(* tos_sys.c and the Cortex-M port: choosing k_next_task and asking for    *)
(* the context switch (the PendSV exception).                              *)

knl_is_sched_locked(k) == k.schedLock > 0
knl_is_inirq(k)        == k.irqNest > 0

switch_request(k) ==
    LET next == readyqueue_highest_ready_task_get(k)
    IN  [k EXCEPT !.next = next, !.pendsv = @ \/ next # k.curr]

knl_sched(k) ==
    IF knl_is_inirq(k) \/ knl_is_sched_locked(k) THEN k ELSE switch_request(k)

(* Fault: the lock is looked at before the nesting count.                  *)
irq_leave_Early(k) ==
    IF knl_is_sched_locked(k) THEN k
    ELSE LET k1 == [k EXCEPT !.irqNest = @ - 1]
         IN  IF knl_is_inirq(k1) THEN k1 ELSE switch_request(k1)

irq_leave(k) ==
    LET k1 == [k EXCEPT !.irqNest = @ - 1]
    IN  IF knl_is_inirq(k1) \/ knl_is_sched_locked(k1) THEN k1 ELSE switch_request(k1)

(* Fault: the time slice is reloaded without a turn.                       *)
robin_sched_NoTurn(k) ==
    [k EXCEPT !.timeslice[k.curr] = IF @ > 1 THEN @ - 1 ELSE RobinDefault]

(* tos_robin.c, from tos_tick_handler with the priority of the current     *)
(* task; its knl_sched() does nothing inside the tick interrupt.           *)
robin_sched(k) ==
    LET p     == k.prio[k.curr]
        first == Head(k.rdyq[p])
        k1    == [k EXCEPT !.timeslice[first] = IF @ > 0 THEN @ - 1 ELSE 0]
        k2    == readyqueue_move_head_to_tail(k1, p)
        new   == Head(k2.rdyq[p])
    IN  IF k.rdyq[p] = << >> \/ Len(k.rdyq[p]) = 1 \/ first = Idle \/ knl_is_sched_locked(k)
        THEN k
        ELSE IF k1.timeslice[first] > 0 THEN k1
        ELSE [k2 EXCEPT !.timeslice[new] =
                 IF k2.timesliceReload[new] = 0 THEN RobinDefault
                 ELSE k2.timesliceReload[new]]

----------------------------------------------------------------------------
(* tos_task.c: priority of a task, given the mutexes it owns.              *)

task_highest_pending_prio_get(k, t) ==
    ListMin({pend_highest_pending_prio_get(k, k.own[t][i]) : i \in DOMAIN k.own[t]}
               \cup {PrioInvalid})

(* The part of tos_task_prio_change that runs with interrupts disabled.    *)
(* A suspended task that neither pends nor sleeps is left as it is.        *)
prio_assign(k, t, new) ==
    LET waiting == task_highest_pending_prio_get(k, t)
        defer   == k.own[t] # << >> /\ new > waiting
        p       == IF defer THEN waiting ELSE new
        k1      == IF defer THEN [k EXCEPT !.prioPending[t] = new] ELSE k
        Moved(kk) == [kk EXCEPT !.prio[t] = p]
        k2      == Moved(readyqueue_remove(k1, t))
    IN  IF k.prio[t] = new THEN k
        ELSE IF IsPending(k, t) THEN pend_list_adjust(Moved(k1), t)
        ELSE IF IsSleeping(k, t) THEN Moved(k1)
        ELSE IF ~IsReady(k, t) THEN k1
        ELSE IF t = k.curr THEN readyqueue_add_head(k2, t)
        ELSE readyqueue_add_tail(k2, t)

(* tos_task_prio_change called inside an interrupts-disabled section: its  *)
(* knl_sched() runs at once.  It refuses priorities from PrioIdle on.      *)
tos_task_prio_change(k, t, new) ==
    IF new >= PrioIdle THEN k ELSE knl_sched(prio_assign(k, t, new))

----------------------------------------------------------------------------
(* tos_mutex.c: who owns which mutex.                                      *)

(* Fault: a lent priority is kept.                                         *)
mutex_old_owner_release_Keep(k, m) ==
    [k EXCEPT !.own[k.owner[m]] = tos_list_del(@, m), !.owner[m] = NoTask, !.nesting[m] = 0]

mutex_old_owner_release(k, m) ==
    LET o  == k.owner[m]
        k1 == [k EXCEPT !.own[o] = tos_list_del(@, m), !.owner[m] = NoTask,
                        !.nesting[m] = 0]
    IN  IF k1.prioPending[o] # PrioInvalid
        THEN [tos_task_prio_change(k1, o, k1.prioPending[o])
                 EXCEPT !.prioPending[o] = PrioInvalid]
        ELSE IF k1.prio[o] # k1.ownerOrigPrio[m]
        THEN [tos_task_prio_change(k1, o, k1.ownerOrigPrio[m])
                 EXCEPT !.ownerOrigPrio[m] = PrioInvalid]
        ELSE k1

mutex_fresh_owner_mark(k, m, t) ==
    [k EXCEPT !.owner[m] = t, !.ownerOrigPrio[m] = k.prio[t], !.nesting[m] = 1,
              !.own[t] = <<m>> \o @]

mutex_new_owner_mark(k, m, t) ==
    LET k1      == mutex_fresh_owner_mark(k, m, t)
        waiting == pend_highest_pending_prio_get(k1, m)
    IN  IF k1.prio[t] > waiting THEN tos_task_prio_change(k1, t, waiting) ELSE k1

mutex_release(k, m) ==
    pend_wakeup_all(mutex_old_owner_release(k, m), m, "OWNER_DIE")

(* Fault: the dying task keeps its mutexes.                                *)
task_mutex_release_Skip(k, t) == k

(* task_mutex_release: release every mutex of a dying task, in list order. *)
task_mutex_release(k, t) ==
    LET ms == k.own[t]
        after[n \in 0 .. Len(ms)] ==
            IF n = 0 THEN k ELSE mutex_release(after[n - 1], ms[n])
    IN  after[Len(ms)]
=============================================================================
