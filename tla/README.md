# A verification of the TobudOS kernel in TLA+

TobudOS is a preemptive real-time kernel for microcontrollers (`src/core`, C).
This directory holds TLA+ modules translated from its source, the TLC
configurations that model-check them on small instances, and proofs that TLAPS
checks for every value of the constants.  `PROJECT.json` maps each definition
to the lines it models and lists runs, mutants, hazards and theorems.

## 1. The system

### Components, state and interaction

| Component | State | Operations | Uses / is used by |
|---|---|---|---|
| ready queue (`tos_sched.c`) | a FIFO per priority, `prio_mask`, `highest_prio` | add head/tail, remove, rotate, best task | every call that makes a task ready or not |
| tick list (`tos_tick.c`) | the sleepers, each with its distance to the one before | place, take off, `tick_update` | delays, every pend with a timeout |
| pend lists (`tos_pend.c`) | per object: the waiters by priority; per task: `pending_obj`, `pend_state` | block, wake one or all, reorder | every blocking object |
| tasks (`tos_task.c`) | state flags, priority, mutexes owned, deferred priority | create, destroy, yield, priority, suspend, resume, delay, delay abort | lists above; mutexes |
| scheduler, lock, interrupts (`tos_sys.c`) | `k_curr_task`, `k_next_task`, nesting count, lock count | `knl_sched`, lock/unlock, irq enter/leave | PendSV of the port (`port_s.S`) |
| round robin (`tos_robin.c`) | time slices | `robin_sched` in the tick interrupt | ready queue |
| semaphore (`tos_sem.c`) | count, limit | create, destroy, post one/all, pend | pend lists |
| mutex (`tos_mutex.c`) | owner, nesting, the owner's original priority | create, destroy, pend, post | pend lists, `tos_task_prio_change` |
| event (`tos_event.c`) | flags; per waiting task what it expects | create, destroy, post, post-keep, pend (any/all, clearing or not) | pend lists |
| completion, count-down latch, barrier | a count each | create, destroy, pend, post, reset | pend lists |
| read-write lock (`tos_rwlock.c`) | readers, writing flag | pend and post of readers and writers | a mutex and a semaphore |
| timers (`tos_timer.c`) | sorted list of running timers | create, start, stop, change, expiry in a task or in the tick | tick list, callbacks |
| queues: ring, message, mail, priority variants | buffered items | post one/all, pend | pend lists, ring queue, binary heap |
| byte FIFO, block pools, heap (TLSF), bitmap | free lists, ring indices | alloc/free, push/pop | – |
| tickless and power management (`src/pm`) | next expiry, low-power mode | jump over several ticks | tick list, timers |
| POSIX and CMSIS layers, ports, HAL | – | wrappers | – |

Shared state is global and is guarded by disabling interrupts.  A call changes
the lists with interrupts disabled, enables them, and only then calls
`knl_sched()`.  That function asks for the PendSV exception, which is the
context switch and waits until no handler is active.

### What is hard

* Interrupts come between a call's change and its `knl_sched()`, between that
  and PendSV, and inside each other; handlers may post, suspend and resume.
* The decision to switch (`k_next_task`) is stored and used later.
* One list node per task serves both the ready queue and the pend lists: the
  flags must say exactly which list a task is in.
* The tick list stores differences: each insertion and removal has to correct
  a neighbour.
* Priorities change while tasks wait, sleep, own mutexes or are suspended.
* Owners, waiters and objects die while others wait.

What makes each part right: *ready queue, tasks* – flags, queues, bitmap and
cached best priority agree, and the best ready task gets the processor;
*tick list* – deadlines do not move and sleepers wake; *pend lists* – the best
waiter is woken, each wait is answered once; *semaphore* – no token is lost or
given twice; *mutex* – exclusion, hand-over, inheritance and its end, release
at death; *events, latches, barriers* – no wake-up is lost when posts race the
wait; *queues* – FIFO or priority order, an item is either buffered or handed
over; *timers* – a stopped timer does not fire, periods do not drift;
*pools, FIFO, heap* – a block has one owner, nothing is lost at the limits;
*tickless* – a jump equals the same number of single ticks.

## 2. Modules

```
Kernel <- Task <- TaskInv <- Tickless                     <- MCTask     MCTask_sched
          Task <- Sem                     <- SemInv       <- MCSem      MCSem_race
          Task <- Mutex                   <- MutexInv     <- MCMutex    MCMutex_own, MCMutex_doom
          Mutex, Sem <- Rwlock            <- RwlockInv    <- MCRwlock   MCRwlock_share, MCRwlock_wait
          Task <- Sync                    <- SyncInv      <- MCSync     MCSync_race
          Task, RingQueue, PrioQueue <- Queue <- QueueInv <- MCQueue    MCQueue_race
          Task, TimerList <- Timer        <- TimerInv     <- MCTimer    MCTimer_ring
MmHeap, MmBlk, CharFifo, PrioUse, Bitmap <- Store         <- MCStore    MCStore_all
Pthread                                                   <- MCPthread  MCPthread_join, MCPthread_early

SemInv   -- INSTANCE AbsSemaphore     QueueInv -- INSTANCE AbsQueue
TimerInv -- INSTANCE AbsAlarm

TaskInv <- TaskProofs <- LockProofs, SyncProofs, QueueProofs
Tickless, TimerInv, TaskProofs <- TimeProofs
RingQueue, PrioQueue <- BufferLemmas <- StoreProofs, QueueProofs
Pthread <- PthreadProofs
```

**Kernel** has no variables.  The kernel is one record: a field per global
variable, and per task or object a function.  Every C function that runs with
interrupts disabled is an operator from kernels to kernels with its C name, so
that a call of one function by another is an application.  A `tos_list` is the
sequence of its entries.  `prio_mask` is the set of its bits.  `tick_expires`
of a task outside the tick list is dead and kept at 0; a dead `pend_state`
keeps its value, as in the code.

**Task** has the actions.  `knl` is the kernel record, `isr` the stack of active
handlers with what each does next, `pc[t]` where task *t* is inside a call and
`arg[t]` the object of its pend.  One interrupts-disabled section of the code
is one step.  After it, the task stands at `"sched"` (or `"psched"` inside a
pend) until `SchedPoint` runs `knl_sched`; `IrqEnter` may come before, and
`PendSV_Handler` after.  The tick handler has three sections: `TickUpdate`,
`RobinSched` and `IrqLeave`.  A handler `"isr"` makes the calls in `IsrApi`
before it leaves.  `BlockIn` and `PendReturn` are the tail every blocking call
has in common: the refusals, `pend_task_block`, `knl_sched` and the answer.
`SchedLock`/`SchedUnlock` are `tos_knl_sched_lock/_unlock`;
`task_do_destroy`, `task_suspend`, `task_resume` are the bodies of the calls.

`Next` leaves out two things the code accepts: changing the idle task's
priority (`tos_task.c:352`; `readyqueue_remove` leaves the idle task in its
queue, so that it is queued twice), and `tos_task_delay_abort` on a task that
pends with a timeout (`tos_task.c:518`; the task's one list node goes into the
ready queue while it is still linked into the pend list).

**Tickless** lets the idle task sleep through ticks.  Time is counted in
milliseconds while it does; afterwards `tick_update` jumps over the ticks that
were planned.  The code takes the planned time for the time slept, so the
module describes boards on which the alarm is the only interrupt during a
sleep.

**Sem**, **Mutex**, **Sync** and **Queue** add their own state and calls;
**SemInv**, **MutexInv**, **SyncInv** and **QueueInv** state what they promise.
`holds` and `base` of module Mutex are history variables: what the application
was told it owns, and the priority each task is to have once it owns no mutex.
`Remember` and `Asked` update `base`; they say where the code does not see to it.  **AbsSemaphore** is a
semaphore without scheduler, lists and ticks; `SemInv` maps the kernel to it.

**Rwlock** composes Mutex and Sem.  A call on a read-write lock passes several
sections of its mutex and its semaphore, with the counts changed in between;
`rwcall[t]` says where task *t* is, and what its stopwatch shows, which
`RwTick` counts down.  `share` is a history variable: what each task was told
it has.  A call refused at the limit of a count keeps the mutex; every later call of
that task gets `K_ERR_MUTEX_NESTING` from it and returns at once, with the nesting
raised (`RwPend`).

Sync holds events, completions, latches and barriers, which are a flag set or a
count and a pend list.  `event_do_post` stores the flags *before* it disables
interrupts, so a post by a task is several steps: `EventPostLoad` and
`EventPostStore` (`|=` loads and stores) or `EventPost` (a plain store), then
`EventScan`, the search through the waiters.  A handler's post is one step,
since handlers do not nest in this module (`HandlersDoNotNest`).  `total` is a
history variable: the count a barrier was last given.

**RingQueue** has the ring (head, tail, total and slots) as operators on one
record; a slot that holds no item is kept at `NoItem`, its bytes are dead.
**PrioQueue** has the binary heap over slots, and the slots that are free; the
heap promises no order among equal priorities.  **Queue** puts message and
mail queues on the first and their priority variants on the second.  Their code
differs in what is copied and in that a mail has a size, which
`PostBuffered` compares and `PostHanded` does not; the rest is one set of actions.  `msg` is `task->msg`, or what was copied
to the buffer `task->mail` points to; `TaskStep` clears it when a task is reset.
`out` is a history variable: what the call that has just returned gave its
caller.  **AbsQueue** is a queue without scheduler, ring, heap and ticks: a sequence of
items, or a set of ranked items of which a taker gets one of the best.
`QueueInv` maps the kernel to it.

**TimerList** is the timer list as linked nodes, since `timer_takeoff` follows
the links of a node it has unlinked and reads the list head as a timer;
`Garbage` is what it may read.  Expiries are counted from now on, `Later` moves
on by a tick.  **Timer** has the calls and the walk over the timers that have
come, made by the tick interrupt or by the timer task (`proc`).  A call reads
the state of the timer with interrupts enabled, then passes one or two
protected sections.  The bookkeeping a callback's own call does is one step
(`InOneGo`), since no other context is in the list meanwhile.  **AbsAlarm** is a set of
alarms without a list; its `Cancel` also covers creation and new settings, which take
place while the timer is not in the list.

**Store** puts what uses no scheduler side by side: **MmHeap** (block headers,
two-level lists, bitmaps; sizes in words), **MmBlk** (the chain of free blocks
lies in the blocks), **CharFifo**, **PrioUse** (a priority queue used directly:
its tests run before interrupts are disabled and are steps of their own) and
**Bitmap**.  Their steps are whole calls but for PrioUse; a behaviour uses one
of them.  The module states their promises too.

**Pthread** has the life of a POSIX thread.  Below it are the mutex, the
semaphores and the scheduler of the other modules, taken at their word: of the
threads that can run one of the best does; a thread that finds `pthread_mutex` owned
joins its pend list (`LockPend`), lends its priority from there, and is the only kind
of thread a post hands the mutex to (`Unlock`).  A `pthread_create` that
`tos_task_create` refuses has reaped others nevertheless (`CreateRefused`); its
stack is the application's in the model, since one from the heap is given back at
an address the heap never handed out (hazard `pthread.c:626`).

An operator whose comment says "Fault" is a plausible error in the operator of
the same prefix.  Nothing refers to it; it is put in its place to see that a
property notices.

### Assumptions

* `TOS_CFG_OBJECT_VERIFY_EN` and `TOS_CFG_MUTEX_EN` are 1: calls on objects
  that are not alive return an error.  Kernel calls that return an error at once change
  nothing and are stuttering steps.  Those that fail later, or after a change, are
  actions: a pend that times out, a read-write lock refused at a limit or entered
  twice, `pthread_create` without a task.
* The port is a Cortex-M: PendSV has the lowest exception priority.
* The idle task calls nothing; all other tasks call whatever `Api` allows,
  in any order.  A task that returns from its entry is destroyed by
  `tos_task_destroy`, hence covered by it.
* A barrier is reset only while nobody waits at it.  The last post of a latch
  finds a waiter.
* A read-write lock is destroyed when no call is in it, posted by those who have
  it, and its tasks are not destroyed meanwhile.
* Verification of an object and the section behind it are one step, although
  interrupts are enabled in between.
* Timers are used as `CarefulUse` (module TimerInv) says: a timer that tasks stop,
  restart or destroy is periodic and there is one application task that does;
  a callback restarts, stops or destroys at most its own timer, and leaves the settings
  and the state of a timer that tasks take off alone.  Nothing in the code keeps a call, which reads and
  writes the state of a timer with interrupts enabled, apart from another call or
  from the walk.
* The memory heap is asked for no more than its largest block.  `tos_mmheap_realloc`
  takes a larger request for 0, trims the block to nothing and returns it as if it
  had grown.
* POSIX: a thread that was detached is not joined, as the standard demands.

What happens outside of these is listed under "hazards" in `PROJECT.json`.

## 3. What is checked

| Run | Question | Bounds |
|---|---|---|
| `MCTask_sched` | do lists, flags, priorities and processor stay consistent, and are deadlines kept, through ticks and jumps? | 3 tasks + idle, 2 priorities, 1 interrupt level, lock depth 1, delays 1-2, sleeps of up to 2 ticks |
| `MCSem_race` | is a token ever lost or given twice, is each pend answered, do timed pends end, do equal tasks take turns? (refinement of AbsSemaphore, liveness) | 2 tasks + idle, 1 semaphore, handlers that post, timeouts 0, 2 and forever, slices of 1, destruction |
| `MCMutex_own` | ownership, pend lists and answers when owners, waiters or mutexes die; do owners keep up with their waiters, and does what was lent or put off end with the mutex? | behaviours of two kinds (`Queues`, `Dies` in MCMutex): 3 tasks + idle, 1 mutex at a time, priority changes, ticks between calls, no destruction; 2 tasks + idle, 2 mutexes, destruction, deadlocks included, no priority changes. Timeouts 1 and forever, nesting 2. Two of the tasks, and the mutexes, are interchangeable (symmetry) |
| `MCRwlock_share` | do readers exclude writers, are the counts and the inner mutex right on every path; exclusion and hand-over for mutexes | 3 tasks + idle, 1 read-write lock or 1 mutex alive, timeouts 0, 1 and forever, limit of 2 readers, nesting 2 |
| `MCSync_race` | is an event wake-up ever lost, are cleared flags consumed once, does a barrier open for the right task? | one event, completion, latch and barrier, one alive at a time; 2 clients, a third for the barrier; handlers that post |
| `MCQueue_race` | is each item buffered or handed over, once, in order, to the best waiter? (refinement of AbsQueue) | behaviours of two kinds (`Races`, `Queues` in MCQueue): 2 tasks + idle, a message, a mail and a prioritised mail queue of 2 items, one alive at a time, 2 items of which 1 is no mail of the right size, handlers that post, priority changes, flushes, destruction; 3 tasks + idle, 1 message queue and 1 message, priority changes while two of them queue, ticks between calls, no destruction. Timeouts 0 and 1 |
| `MCTimer_ring` | is the timer list right, is the timer task up in time, does each timer ring when it should? (refinement of AbsAlarm) | 1 one-shot and 1 periodic timer, delays 0-2, 1 task, both builds, the timer task above or below that task, at most 1 tick between the look and the delay |
| `MCStore_all` | do the heap, the pool, the FIFO, the priority queue and the bitmap keep their promises for all sequences of calls? | 2 pools, 3 allocations of 1-9 words, alignments 2 and 4; pools of 1 and 4 blocks; 3 bytes, streams of 2; 4 slots and 3 priorities; bitmaps with `bit_max` 3, 4 and 6 in words of 4 |
| `MCPthread_join` | is a thread reaped alive or twice, does a join get its value, and return? (liveness) | 3 threads, 3 table entries, 2 values; the one that joins ranks below the others |
| `MCMutex_doom`, `MCRwlock_wait`, `MCPthread_early` | three statements of comments that the code does not keep | see below |

Every passing run explores all reachable states of its instance.

**Why the bounds are enough.**  The lists treat a task by comparing its
priority with its neighbours': three tasks on two priorities give equal,
better and worse neighbours on either side, and head, middle and tail
positions.  Two waiters of different priorities, and a third task that owns or posts, are
what a reordering of a pend list needs.  Delays of 1 and 2 give equal and different deadlines and zero
distances.  One lock level reaches both branches of the test against 0, one
interrupt level each of the windows.  `NestingMax` 2 or
3 stands for 255, `CountTop` 3 for the largest `completion_done_t`, `RwMax` 2
for the largest `rw_cnt_t`, so that the limits are reached.  `MaxLive` 1 and
`MaxQueues` 1 lose nothing: these objects have no state in common but the
tasks, and a task waits for one of them at a time.  A ring of two or three slots
has every relation of head and tail, and wraps; a heap of four entries has a node
with two children and one with one.  Two timers give equal, earlier and later
neighbours, and a saved next timer during the walk.  `SlLog2` 2 and `FlMax` 5
give four size classes with four lists each, so that splits, merges with either
neighbour and searches in a larger class all happen.
`ThirdForBarrier`, a constraint, lets the third client in when a barrier is
alive: a barrier for three has two waiters when it opens, while the search of
`EventScan` needs two waiters and a handler that posts.

**Fairness** (`SemFairSpec`).  A handler runs to its end (weak fairness).
Interrupts leave the processor time to go on with kernel code and to take a
requested PendSV, and the tick interrupt stays latched until it is taken
(strong fairness; WF and SF are written out with their enabling conditions).
Nothing is assumed of the application.  `TimedPendEnds` says that a pend with a
deadline is decided, `PeersAlternate` that equal tasks which never
yield take turns; that is what `robin_sched` is for.  The run sets time slices of one tick
at any moment, from tasks and handlers.  A task that keeps extending its own
slice does keep the processor (hazard `tos_robin.c:91`).

(`ThreadSpec`.)  A thread does not keep the processor for ever: it waits in some
other kernel call or exits from time to time, and when it is in the library it gets
the processor from time to time (strong fairness, since better threads interrupt
it).  Under that, a thread that exits does not leave its joiner waiting.

**What the runs found.**

1. `MCMutex_doom`: in `tos_task_destroy` the restored priority of a dying owner
   runs `knl_sched()` while the task is still queued.  It stores
   `k_next_task`; when the best task is the current one at the end, the early
   return leaves PendSV pending with the old choice, and the switch goes to the
   task that was just destroyed.  `tos_mutex_post` has the same window: there
   the processor may go to a task of lower priority than the best.
2. `MCRwlock_wait`: a reader or writer that has to wait sleeps on the semaphore
   with the mutex of the lock owned.  Every post begins with that mutex, so the
   one who holds the lock cannot give it back; with a deadline the wait always
   runs into it, without one both wait for ever.
3. `MCPthread_early`: `pthread_exit` marks a detached thread for reaping and
   unlocks `pthread_mutex` before it destroys its task.  With time slices a thread of
   the same priority (`MCRank`) may come in between and free the stack the thread runs
   on.  One of lower priority does not run before the other is gone.

Other places where the model shows the code to fall short of a statement are
hazards with a note: `tos_event_post_keep` loses flags a handler posts in
between, the last post of a latch wakes one waiter only, a mail's size is
compared with the queue's only when the mail is buffered (`tos_mail_queue.c:198`),
two producers reach the assertion of the priority queue, and a bitmap whose `bit_max`
is a multiple of the word has its last bit behind its table, and answers `bit_max` when
no bit is set.

Two promises about priorities hold with exceptions, which the properties name:

* `OwnerOutranksWaiters` is about steps: none leaves an owner below one of its
  waiters.  The exception is a waiter that is raised while it waits, by
  `tos_task_prio_change` or by who waits for a mutex it owns: line 374 of
  `tos_task.c` reorders the pend list and passes nothing on to the owner, with one
  mutex as well as in a chain.  The next hand-over mends it (`mutex_new_owner_mark`).
* `PriorityRestored` says that a task that owns no mutex has the priority it was
  given last.  `base` drops what the code does not restore, in three cases:
  a change asked of an owner that no waiter holds back takes effect at once and is
  undone when the mutex is posted (`tos_mutex.c:36-38`); a task that takes a second
  mutex while it is raised gets the raised priority back with that one; and a lend
  to an owner may itself be put off in `prio_pending`, in the place of a change, when
  a waiter was raised as above.

`TimerTaskInTime` is about steps too: no start, stop, change or tick makes the timer
task late.  The exception is its own going to sleep by an outdated look
(`tos_timer.c:391`).  With the default, lowest priority any task may start a
timer between the look and the sleep; if there was none before, the timer task
suspends itself although one is running now, until the next is started.

Suspending a waiter ends its wait with `K_ERR_PEND_ABNORMAL`, without object and
without timeout; `PendDecided` and `MutexPendDecided` are checked without
`tos_task_suspend`.  1 is why the passing mutex runs do not claim `HighestRuns`
and `RunningIsReady`; `MCTask_sched` does, without mutexes.

## 4. What is proved

`TaskProofs` proves of `Spec` (module Task), for any finite or infinite set of
tasks, any number of priorities, interrupt levels, lock depth and time slices,
with and without round robin:

* `TypeCorrect`, `QueueAlwaysExact`, `TickListAlwaysExact`,
  `HighestAlwaysRuns`, `RunningAlwaysReady`: `Spec => []P` for the five
  invariants of run `MCTask_sched`.

The assumptions are the named ones of the modules (`...Assumption`): the idle
task and the main task are different tasks, there are at least two priorities,
the application asks for priorities better than the idle task's, a task is not
an object, objects of different kinds are different objects, queues have room for
an item, and `NoItem` is no item.

The inductive invariant is

    IInv  == Safe /\ Quiet /\ HighestRuns
    Safe  == TypeOK /\ Sound(knl) /\ LockHolds /\ ChosenOK
    Quiet == Unowned(knl) /\ ChosenReady

* `Sound(k)`: the ready queue holds exactly the live tasks without flags, the
  tick list exactly the tasks flagged as sleeping, each pend list exactly the
  tasks flagged as pending on its object, ordered by priority; no live task is
  flagged as deleted, whoever sleeps or pends is alive, and the idle task is
  ready.  Without the last, `highest_prio` would not be defined once all other
  tasks sleep; without "whoever sleeps is alive" a tick could queue a destroyed
  task.
* `Quiet` is what only a system without mutexes has.  `Unowned`: nobody owns one.
* `HighestRuns` gives that a running task is ready as long as the scheduler is
  unlocked.  Under the lock it is `LockHolds` that says so, and it holds
  because the calls refuse to block, suspend or destroy the running task.
* `ChosenReady`: the task the processor has, or will have after the pending
  PendSV, is ready unless it is about to call the scheduler.  This half
  of `HighestRuns` survives calls that wake a better task without a scheduling
  point (a barrier that opens, `tos_barrier.c:75`), so it is kept apart.  With
  mutexes it fails: the scheduling call inside of `tos_mutex_post` and
  `tos_task_destroy` may choose the task that is about to die.  `ChosenOK` is what
  remains: the chosen task is ready, or it is one that was destroyed.

The argument is layered like the code.  The first part of `TaskProofs`: what insertion and
removal do to the entries of a list; what each queue, tick list and pend list
operation does to the *set* of tasks it holds, and that it changes nothing
else; then, call by call, that sound kernels become sound kernels and which
tasks are ready, asleep and waiting afterwards.  The loops that wake waiters
(`wakeup_those`) are unfolded once (`WakeThoseUnfolds`) and followed by
induction on the number of waiters.  The second part has one lemma per action.

A step of any module over `Task` does one of a few things to a waiting task:
its wait goes on, ends with an outcome, is dropped by a suspension, or begins.
`WaitInv` is the invariant these preserve: a task flagged as waiting
is inside the call it waits in; a task that has been told its outcome no longer
sleeps; and, unless the application suspends tasks, a call without outcome is
still in its list.  (A suspended waiter is taken out of its pend list and
gets no outcome, `tos_task.c:424`: hence `~SuspendUsed` in `SemAlwaysDecided`
and `BarriersExact`.)

`LockProofs` adds the semaphore calls, for any tasks, semaphores and counts:

    SemIInv == IInv /\ WaitInv /\ CountOK /\ NoIdleToken

`NoWakeupIsLost` (no token and waiter coexist), `SemListAlwaysExact`,
`SemAlwaysDecided`, `SemKeepsScheduling` (the five invariants above hold with
semaphores too) follow.  `SemRefines` proves the refinement of `AbsSemaphore`:
every step of the kernel is classified by what it does to tokens and waiters
(`SemStep`), and each class is an abstract action or a stutter.

`SyncProofs` does the same for events, completions, latches and barriers:

    SyncIInv == Safe /\ Quiet /\ WaitInv /\ SyncTypes /\ PostersLive
                /\ \A e : Met(e)  /\ \A b : Full(b)

`Met(e)`: once no task stands between its store of the flags and its search of
the waiters, nobody waits for flags that are set.  `Full(b)`: a barrier has
counted exactly those who wait at it, and none of these waits has a deadline.
The theorems are `EventsLoseNoWakeup`, `FlagsConsumedOnce` (an action property:
the task that clears is the last one told, in priority order, and leaves no
flag), `BarriersExact` and `SyncListsAlwaysExact`.  `EventsLoseNoWakeup` assumes
that the application destroys no task: one destroyed between store and search
tells nobody.  `BarriersExact` assumes that it destroys and suspends none: such a
waiter stays counted.  `HighestRuns` is not among them, because
`BarrierOpen` has no scheduling point.

`LockProofs` also does it for mutexes, for any tasks, mutexes and priorities:

    MutexIInv == Safe /\ WaitInv /\ Owned(knl) /\ HandInv /\ HoldType /\ HoldInv

`Owned(k)` has three parts.  The list of mutexes of a task and the owner field
of a mutex say the same, and the nesting count is 0 exactly without an owner;
owners and owned mutexes are alive; nobody waits for a mutex that has no owner.
The last is what makes a post complete: it looks for a waiter once, and if
there is none, the next pend must not find one either.  `HandInv` relates a call in
`tos_mutex_pend` to its answer: only who is told of a post is the owner.
`HoldInv` relates what the application was told (`holds`) to the owner field.
`OwnershipExact` follows from `Owned`, `HandOver` from `HandInv`,
`MutexExclusive` from `HoldInv` and `MutexPendDecided` from `WaitInv`.

A hand-over changes up to three priorities, each of which may move a task in the
ready queue or in a pend list and run `knl_sched` in the middle of the call.
`PrioCall` says once that such a change moves nobody out of a list, keeps owners
and leaves a good choice of next task (`Rechosen`); `GrabSound`, `FreeSound` and
`ReleaseSound` follow the functions of `tos_mutex.c` from call to call.  A dying
owner releases its mutexes in a loop, during which the kernel is sound but
not `Owned`: the induction carries "all mutexes but the first *n* of the list
are as they were, those *n* have new owners or none".

`MutexHandsOver` and `MutexAlwaysExclusive` assume that the application destroys no
mutex (`MutexesLast`): one destroyed and created again before a woken waiter
has returned makes that waiter believe it owns the new one.  In the run of these
two the mutexes the application uses itself are not destroyed either (`Direct` in
module Rwlock).  `MutexAlwaysDecided` assumes that no task is suspended, as
explained above.

The third part of `LockProofs` is about read-write locks, for any number of tasks,
priorities and deadlines, on top of the lemmas for their mutex and their semaphore:

    RwIInv  == Base /\ RwInv2                 Base == Safe /\ WaitInv /\ Owned(knl)
    RwInv2  == RwType /\ (\A t \in Task : Shaped(t) /\ Placed(t)) /\ MadeOK /\ Ledger

`Shaped` says what the fields of a call allow of each other.  `Placed` ties a call
to the kernel: it waits for the mutex or for the semaphore exactly at those points of
its way, it owns the mutex from there on, a waiter owns it exactly when it was told of a
post, and nobody else does.  `MadeOK`: a lock is there as long as somebody uses it.
`Ledger` relates the counts to who reads, writes and waits to write, where a
call that gives the lock back counts until it has the mutex.  `RwAlwaysExclusive` and
`RwMutexAlwaysReturned` need no assumption.  `RwCountsAlwaysExact` assumes that the
application suspends and destroys no task: a call to give the lock back whose
wait for the mutex is cut short by either returns with its share still counted.

Not proved of mutexes: `OwnerOutranksWaiters` and `PriorityRestored`, which are about the
history of each priority, and `HighestRuns` and `RunningIsReady`, which do not hold
(run `MCMutex_doom`).

`TimeProofs` carries this over to `TicklessSpec`
(`TicklessKeepsScheduling`): the jump is `tick_update` with another number, and
the lemmas hold for each.  `NeverOversleeps` proves, for every tick rate, every
limit of the alarm and every state of the tick list, that the planned sleep,
converted to milliseconds and back, does not pass the first deadline.  Its
invariant is `NapInv == IInv /\ NapType /\ NoOversleep`; while the idle task is
asleep the tick list does not change, which is what the module's assumption about
interrupts gives.

The deadlines themselves are proved to be kept: `SleepersAlwaysKeepTime`, an action
property of `TicklessSpec`, for any number of sleepers, any delays and any tick rate.  The
kernel stores distances only, so the invariant says that there are deadlines they agree with:

    ClockInv == NapInv /\ NapSpan /\ Timely
    Timely   == \E R \in [Task -> 1 .. TimeMax] : Ticking(knl, R)

`Ticking` holds of `R` when, along the tick list, `R` grows by the distances.  For each
kernel operation a lemma of `TaskProofs` says what it does to every such `R`.
`tick_task_place` gives the new sleeper its delay and changes nobody else's time.
`tick_task_takeoff` adds a distance to the next one: the sum is the difference of two
times in `R`, at most `TimeMax`, so the saturation at `K_TIME_MAX` never cuts off a deadline.
`tick_update` by `n`, not beyond the first deadline, takes `n` from each time and wakes
those it brings to zero and nobody else.  All other operations leave the clock alone, or only take
tasks from it.  The step property then follows: `Elapses(Passed)` holds of every step, with 1
for a tick, the slept ticks for a wake-up and 0 for the rest.  `NapSpan` is needed for the
wake-up: the time slept is the time planned when the alarm rings.

The larger part of `TimeProofs` is about software timers, for any finite number of
them, any delays and periods, any tasks, and both builds:

    TimerInvariant == KInv /\ TInv
    KInv == IInv /\ WalkAlone /\ Calm(knl) /\ DeadRest(knl)
    TInv == Fits(tim, call, walk, Listed(tim))

`WalkAlone`: while the walk is on, the processor is in the tick interrupt, or with
the timer task under its scheduler lock, so that no task's call moves.  `Calm` and
`DeadRest`: no task pends, and no dead one is suspended, which lets `timer_place` wake
the timer task by the same functions a task would use.  `Fits` has four parts.
`ListOK`: the nodes form a ring in both directions, without a detour (there is a rank that
grows along it), in the order they expire, and `next_expires` is what the first has left.
`WalkOK`: the node the walk looks at and the one it has saved for later are in the list or
its head.  `CallsOK`: what is left of each task's call fits where its timer is.
`StatesOK`: a timer that nobody has in hand is in the list exactly when it is marked as
running.  `TimerListAlwaysExact` and `TimersKeepScheduling` follow.

`TimersRefineAlarms` is the refinement of `AbsAlarm`.  It needs two more invariants.
`SetOK`: a timer that is about to be placed has its delay or its period left, and a
periodic one has a period.  `Prompt`: in the build where the tick interrupt walks, no timer whose
time has come stays in the list once the walk has passed.  Before the walk looks at a
node, nothing in front of that node is overdue (`Ahead`), and callbacks keep it so,
whatever they take off or place there (`Tidy`); the list is in order, so nothing behind the
first timer that still has time is overdue either.

These theorems assume that there are finitely many timers and `CarefulUse`.  The second
is what every attempt without it came down to: a call tests the state of a timer with
interrupts enabled, and a timer that expires, or that another task stops, before the
section begins is taken off twice, which follows the links of a node outside the list.
The window is in the code, not only in the model: hazard `tos_timer.c:250`.  Module MCTimer
assumes `CarefulUse` of the run's constants, so that TLC evaluates it.

`BufferLemmas` has what queues and FIFO are built on, for every size.  `Sane` is
the shape of the ring: `tail` is `total` places behind `head`, and exactly those
places hold an item; `EnqueueSane` and `DequeueSane` say that the ring's
operations keep it and what they do to the list of its items.  `PrioOK` is the
shape of a priority queue: each slot is once in the free list or in the heap, a
slot in the heap holds an item, and no entry of the heap is better than its parent.
`PushRight` and `PopRight` follow the entry that moves up or down, by induction on
its place: all other pairs of parent and child are in order meanwhile.  That no
slot occurs twice is not said by position but by counting: as many entries as
slots, which cover all slots (`SlotsOnce`).  `HeadIsBest`: the top is one of the best.

`QueueProofs` does for all four kinds of queue, of any size, number and
items, with any tasks, what `LockProofs` does for semaphores:

    QueueIInv == IInv /\ WaitInv /\ StoreOK /\ NoItemWaits /\ MsgOK

`StoreOK`: each buffer is `Sane` or `PrioOK`.  `NoItemWaits`: nobody waits at a
queue that holds an item, the heart of `NoItemIsIdle`.  `MsgOK`: who was woken by a
post is still in its call and has the item.  `QueueStep` classifies every step of
the kernel by what it does to one queue: it empties, buffers or takes an item, blocks a
taker, hands an item to waiters, ends a wait, or leaves the queue alone.  From it follow
`QueueListsExact`, `QueueKeepsScheduling` (the five invariants of tasks hold with queues
too), `PostAlwaysReachesBest` (an action property: no waiter that is left
outranks the one a post has woken) and `QueueRefines`, the refinement of `AbsQueue`.
No assumption beyond those named above is needed.

`StoreProofs` proves four properties of `StoreSpec`.

`BlocksAlwaysHandedOnce`: `BlocksHandedOnce` for pools of any size.  The property
follows the chain of free blocks from `free_list`.  The proof
gives the chain as a function from positions to blocks: a step takes the block
at position 0 off or puts one in front, which preserves that no block is met
twice, that the chain meets exactly the blocks the application does not hold,
and that each block points to the next.  `ChainFollowed` then gives the property.

`BytesAlwaysInOrder`: `BytesInOrder` for every FIFO size, stream length and set
of bytes.  The invariant is `FifoInv`: a sane ring whose items are what went in and
has not come out.  `PushRounds` and `PopRounds` carry the lemmas on the ring through
the loops of a stream, by induction on the round, up to the byte that no longer fits
or the last one held.

`CheckAlwaysHolds`: `CheckStillHolds` for every size and set of priorities, *if* at most one
producer and one consumer use the queue (`OneEach`): between the test and
the section only the other side can have come in, and that makes room or an item.  With
two producers the assertion can fail, which is one of the hazards.

`BitsAlwaysExact`: `BitsExact` for every bitmap and word size.  `K_BITMAP_TBL_SIZE`
leaves room for the bits below `bit_max` only, and the functions accept `bit_max`
itself: its word is behind the table when `bit_max` is a multiple of the word size
(`LastBitOutside`, one of the hazards).  `BitsExact` says in both cases what the table
holds and what may be written behind it.  For `tos_bitmap_lsb` the proof follows its
search to the first word that is not 0 and the lowest bit in it.

`PthreadProofs` proves the three invariants of threads, for any number of threads,
table entries and values, if one thread does all creating, joining and detaching
(`OneUser`, as in the runs):

    ThreadIInv == ThreadType /\ TableOK(lib) /\ \A t : Started(t) /\ Valued(t) /\ Sought(t)

`TableOK`: the entries of the table and the allocated blocks are the same.  `Started`: a
thread that has not marked its end is allocated and neither `JOIN` nor `EXITED`.  `Valued`: a
thread marked `JOIN` has stored the value it passed.  `Sought`: what `pthread_join` has looked
up is still allocated, and not detached, at each later point where it is used.  From
it `JoinAlwaysGetsValue` follows, time slices or not.  With two users `Sought` is not
kept: one can reap, and reuse, the block the other one has looked up.

`ReapedAlwaysDead` and `TableAlwaysExact` also need `NoneAbove`: no time slices, and no thread
outranks those that only exit.  Then a thread runs from its mark to its end without a
break (`DiesAtOnce`).  Run `MCPthread_early` shows that time slices cannot be allowed when
a reaper has the priority of a thread that exits.  A reaper of better priority breaks
the property without them, as TLC finds when the ranks of `MCRank` are exchanged.  What
the assumption leaves out although it seems to hold (TLC, three threads of three
priorities) is a reaper below all others, whatever their priorities are.

With TLC only: the priorities of mutex owners, how long the timer task sleeps
(`TimerTaskInTime`), the memory heap, the latches' and completions' promises
beyond exact lists, and liveness (fairness and `ENABLED` are out of the prover's
reach).  What recursive functions compute is proved only where a bound, a
membership or a difference is enough: `ListMin`, `Deadlines`, the wake-up loop, the way of
an entry through the binary heap and the loops of the byte FIFO are characterised by
finite induction on their length.

## 5. What is not modelled

* The `_dyn` variants of all objects: they allocate control blocks and buffers
  around calls that are modelled.
* The statistic list, the stack depth, `tos_task_find` and the walk-through,
  `tos_mmheap_calloc`, the check of a pool and its statistics, unit conversions
  of time: reads, and arithmetic without state.
* Devices and low power modes of `tos_pm.c`: registration tables and board
  callbacks.
* Cancellation, keys, attributes and synchronisation objects of POSIX; the
  other POSIX files, the CMSIS-RTOS and COSIT layers: wrappers that call one
  kernel object each.
* Registers, stacks, ports of other processors and the HAL: assembly and
  interfaces without kernel logic.  Most lines of the repository are of this
  kind: the register header of one chip alone is nearly half of them, so the
  share of lines the map covers stays small although nearly all of `src/core` is
  modelled.

## 6. What could follow

1. Verification of objects as a step of its own (a handler destroys the object
   in between), and handlers during a tickless sleep.
2. Two reapers and two creators in Pthread, and cancellation.
3. Theorems: `TimerTaskInTime`, from the lemmas about deadlines; `OwnerOutranksWaiters`
   for any number of waiters; `HeapSound`.
