------------------------------ MODULE Pthread -------------------------------
(***************************************************************************)
(* The life of a POSIX thread (osal/posix, pthread.c and pthread_prv.c):   *)
(* created, joined or detached, exiting, and reaped by whoever enters the  *)
(* library next.  Its control block lies at the bottom of its stack, and   *)
(* the block, the task and the stack go back to the heap together.         *)
(*                                                                         *)
(* Below the library are the mutex, the semaphores and the scheduler of    *)
(* the other modules, taken here at their word: the mutex is handed to the *)
(* best of the threads in its pend list, which lend its owner their        *)
(* priority, and of the threads that can run one of the best does.  A step *)
(* goes from one point where another thread may come in to the next.       *)
(***************************************************************************)
EXTENDS Integers, FiniteSets, FiniteSetsExt

CONSTANTS
    Thread,     \* control blocks with their stacks
    Main,       \* the thread that is there at the start
    Makers,     \* threads that create threads
    Joiners,    \* threads that join, and detach, others
    Rank,       \* their priorities, the smallest is the best
    Ids,        \* indices of thread_ctl_table
    Values,     \* what threads pass to pthread_exit
    RoundRobin, \* TOS_CFG_ROUND_ROBIN_EN: threads of one priority take turns
    Nobody, Null

ASSUME PthreadAssumption ==
    /\ IsFiniteSet(Thread) /\ Main \in Thread /\ Rank \in [Thread -> Nat]
    /\ Ids \subseteq Nat /\ 0 \in Ids /\ IsFiniteSet(Ids)
    /\ Makers \cup Joiners \subseteq Thread
    /\ RoundRobin \in BOOLEAN /\ Nobody \notin Thread /\ Null \notin Values

VARIABLES
    lib,    \* thread_ctl_table, the control blocks, pthreads_ready2reap, the
            \* blocks that are allocated
    lock,   \* pthread_mutex: its owner, the places in its pend list (0 is none)
    at,     \* where each thread is, whom it joins or detaches, what it has read and got
    turn,   \* the thread that ran last
    passed  \* history: what each thread passed to pthread_exit

threadVars == <<lib, lock, at, turn, passed>>

Idle   == [pc |-> "gone", whom |-> Nobody, read |-> 0, got |-> Null]
At(pc) == [Idle EXCEPT !.pc = pc]

NewCtl(id, state) ==
    [id |-> id, state |-> state, retval |-> Null, joinable |-> state = "RUNNING",
     sem |-> IF state = "RUNNING" THEN 0 ELSE -1]  \* count of joinner_sem, -1 without one

Freed == NewCtl(0, "EXITED")

ThreadInit ==
    /\ lib = [ table |-> [i \in Ids |-> IF i = 0 THEN Main ELSE Nobody],
               ctl   |-> [t \in Thread |-> NewCtl(0, IF t = Main THEN "RUNNING" ELSE "EXITED")],
               ready2reap |-> 0,
               memory |-> {Main} ]
    /\ lock = [owner |-> Nobody, pend |-> [t \in Thread |-> 0]] /\ turn = Main
    /\ at = [t \in Thread |-> IF t = Main THEN At("run") ELSE Idle]
    /\ passed = [t \in Thread |-> Null]

----------------------------------------------------------------------------
(* Who runs.                                                               *)

Waiters      == { t \in Thread : lock.pend[t] > 0 }
CanRun(t)    == at[t].pc \notin {"gone", "nap", "jwait"} /\ t \notin Waiters
Lent(t)      == IF t = lock.owner THEN Min({ Rank[u] : u \in Waiters \cup {t} }) ELSE Rank[t]
First(t)     == CanRun(t) /\ \A u \in Thread : CanRun(u) => Lent(t) <= Lent(u)
Runs(t, pc)  == /\ at[t].pc = pc /\ First(t) /\ turn' = t
                /\ RoundRobin \/ (First(turn) => turn = t)

Goto(t, pc)  == at' = [at EXCEPT ![t].pc = pc]

----------------------------------------------------------------------------
(* pthread_mutex.                                                          *)

(* The mutex is free, or it was handed to t, which waited for it.          *)
Lock(t) == lock.owner \in {Nobody, t} /\ lock' = [lock EXCEPT !.owner = t]

(* The mutex is owned: t goes behind those of its priority.                *)
WantsLock == {"jlock", "jlock2", "dlock", "elock"}
LockPend(t) ==
    /\ \E pc \in WantsLock : Runs(t, pc)
    /\ lock.owner \notin {Nobody, t}
    /\ LET place == 1 + Cardinality({ u \in Waiters : Rank[u] <= Rank[t] })
       IN  lock' = [lock EXCEPT !.pend = [u \in Thread |->
              IF u = t THEN place ELSE IF @[u] >= place THEN @[u] + 1 ELSE @[u]]]
    /\ UNCHANGED <<lib, at, passed>>

(* tos_mutex_post, once: the first waiter owns the mutex before it runs.   *)
Unlock ==
    \E t \in Waiters \cup {Nobody} :
        /\ IF Waiters = {} THEN t = Nobody ELSE t \in Waiters /\ lock.pend[t] = 1
        /\ lock' = [owner |-> t,
                    pend  |-> [u \in Thread |-> IF u \in Waiters THEN lock.pend[u] - 1 ELSE 0]]

(* A thread that waits in another kernel call, until a deadline or a       *)
(* handler ends the wait.                                                  *)
Nap(t)  == Runs(t, "run") /\ Goto(t, "nap") /\ UNCHANGED <<lib, lock, passed>>
Wake(t) == at[t].pc = "nap" /\ Goto(t, "run") /\ UNCHANGED <<lib, lock, turn, passed>>

----------------------------------------------------------------------------
(* Helpers of pthread_prv.c.                                               *)

(* Fault: the state of the thread is not looked at.                        *)
Exited_Any(p) == { i \in Ids : p.table[i] # Nobody }

Exited(p) == { i \in Ids : p.table[i] # Nobody /\ p.ctl[p.table[i]].state = "EXITED" }

(* Fault: the entry of a reaped thread is kept.                            *)
pthread_id_free_Keep(table, ids) == table

pthread_id_free(table, ids) == [i \in Ids |-> IF i \in ids THEN Nobody ELSE table[i]]

(* pthread_dead_reap: the first ready2reap exited threads of the table.    *)
(* Their semaphores are destroyed and their memory is freed.               *)
Victims(p) == { i \in Exited(p) : Cardinality({ j \in Exited(p) : j < i }) < p.ready2reap }
Reaped(p)  ==
    LET dead == { p.table[i] : i \in Victims(p) }
    IN  [p EXCEPT !.table = pthread_id_free(@, Victims(p)),
                  !.ctl = [t \in Thread |-> IF t \in dead THEN Freed ELSE p.ctl[t]],
                  !.memory = @ \ dead,
                  !.ready2reap = @ - Cardinality(Victims(p))]

JoinersOf(t) == { u \in Thread : at[u].pc = "jwait" /\ at[u].whom = t }

(* Fault: a thread that nobody waits for yet is not counted.               *)
PostAll_Lost(p, t) == p

(* tos_sem_post_all on joinner_sem.                                        *)
PostAll(p, t) == IF p.ctl[t].sem >= 0 /\ JoinersOf(t) = {}
                 THEN [p EXCEPT !.ctl[t].sem = @ + 1] ELSE p
Posted(t, u, pc) == at' = [w \in Thread |-> IF w \in JoinersOf(u) /\ lib.ctl[u].sem >= 0
                                            THEN [at[w] EXCEPT !.pc = "jloop"]
                                            ELSE IF w = t THEN [at[w] EXCEPT !.pc = pc] ELSE at[w]]

pthread_ctl_by_id(i) ==
    IF lib.table[i] # Nobody /\ lib.ctl[lib.table[i]].state # "EXITED" THEN lib.table[i] ELSE Nobody

----------------------------------------------------------------------------
(* pthread_create: the first free entry is chosen before the scheduler is  *)
(* locked, the rest happens while it is.                                   *)
Create(t, u, state) ==
    /\ t \in Makers /\ Runs(t, "run")
    /\ u \notin lib.memory /\ at[u].pc = "gone"
    /\ \E i \in Ids : /\ lib.table[i] = Nobody /\ \A j \in Ids : j < i => lib.table[j] # Nobody
                      /\ LET p == Reaped(lib)
                         IN  lib' = [p EXCEPT !.table[i] = u, !.ctl[u] = NewCtl(i, state),
                                              !.memory = @ \cup {u}]
    /\ at' = [at EXCEPT ![u] = At("run")]
    /\ passed' = [passed EXCEPT ![u] = Null]
    /\ UNCHANGED lock

(* tos_task_create refuses, when others have been reaped already.  The     *)
(* stack is the application's here: one from the heap would be given back  *)
(* at an address behind its start, which the heap does not know.           *)
CreateRefused(t) ==
    /\ t \in Makers /\ Runs(t, "run")
    /\ \E i \in Ids : lib.table[i] = Nobody
    /\ lib' = Reaped(lib)
    /\ passed' = [u \in Thread |-> IF u \in lib'.memory THEN passed[u] ELSE Null]
    /\ UNCHANGED <<lock, at>>

----------------------------------------------------------------------------
(* pthread_exit, and the end of a start routine.                           *)

Exit(t, v) ==
    /\ Runs(t, "run") /\ Goto(t, "elock")
    /\ passed' = [passed EXCEPT ![t] = v] /\ UNCHANGED <<lib, lock>>

ExitLocked(t) ==
    /\ Runs(t, "elock") /\ Lock(t) /\ Goto(t, "emark") /\ UNCHANGED <<lib, passed>>

(* Fault: the value is not stored.                                         *)
ExitMark_NoValue(t) ==
    /\ Runs(t, "emark")
    /\ lib' = [lib EXCEPT !.ctl[t].state = IF @ = "DETACHED" THEN "EXITED" ELSE "JOIN",
                          !.ready2reap = IF lib.ctl[t].state = "DETACHED" THEN @ + 1 ELSE @]
    /\ Goto(t, "epost") /\ UNCHANGED <<lock, passed>>

ExitMark(t) ==
    /\ Runs(t, "emark")
    /\ lib' = [lib EXCEPT !.ctl[t].retval = passed[t],
                          !.ctl[t].state = IF @ = "DETACHED" THEN "EXITED" ELSE "JOIN",
                          !.ready2reap = IF lib.ctl[t].state = "DETACHED" THEN @ + 1 ELSE @]
    /\ Goto(t, "epost") /\ UNCHANGED <<lock, passed>>

ExitPost(t) ==
    /\ Runs(t, "epost") /\ lib' = PostAll(lib, t) /\ Posted(t, t, "eunlock")
    /\ UNCHANGED <<lock, passed>>

ExitUnlock(t) ==
    /\ Runs(t, "eunlock") /\ Unlock /\ Goto(t, "edie") /\ UNCHANGED <<lib, passed>>

(* tos_task_destroy of the thread's own task.                              *)
ExitDie(t) ==
    /\ Runs(t, "edie") /\ at' = [at EXCEPT ![t] = Idle]
    /\ UNCHANGED <<lib, lock, passed>>

----------------------------------------------------------------------------
(* pthread_join.  POSIX forbids to join a thread that was detached.        *)

Join(t, i) ==
    /\ t \in Joiners /\ Runs(t, "run")
    /\ lib.table[i] # Nobody => lib.ctl[lib.table[i]].state # "DETACHED"
    /\ at' = [at EXCEPT ![t] = [At("jlock") EXCEPT !.read = i]]
    /\ UNCHANGED <<lib, lock, passed>>

JoinLocked(t, pc, next) ==
    /\ Runs(t, pc) /\ Lock(t) /\ Goto(t, next) /\ UNCHANGED <<lib, passed>>

JoinReap(t, pc, next) ==
    /\ Runs(t, pc) /\ lib' = Reaped(lib) /\ Unlock
    /\ at' = [at EXCEPT ![t] = IF next = "run" THEN At("run") ELSE [@ EXCEPT !.pc = next]]
    /\ passed' = [u \in Thread |-> IF u \in lib'.memory THEN passed[u] ELSE Null]

(* The lookup takes no lock; a thread created detached cannot be joined.   *)
JoinLook(t) ==
    /\ Runs(t, "jlook")
    /\ LET u == pthread_ctl_by_id(at[t].read)
       IN  at' = [at EXCEPT ![t] = IF u \in {Nobody, t} \/ ~lib.ctl[u].joinable THEN At("run")
                                   ELSE [At("jloop") EXCEPT !.whom = u]]
    /\ UNCHANGED <<lib, lock, passed>>

(* The loop over tos_sem_pend, for as long as the thread is RUNNING.       *)
JoinLoop(t) ==
    /\ Runs(t, "jloop")
    /\ Goto(t, IF lib.ctl[at[t].whom].state = "RUNNING" THEN "jpend" ELSE "jtake")
    /\ UNCHANGED <<lib, lock, passed>>

JoinPend(t) ==
    /\ Runs(t, "jpend")
    /\ LET u == at[t].whom
       IN  IF lib.ctl[u].sem > 0 THEN lib' = [lib EXCEPT !.ctl[u].sem = @ - 1] /\ Goto(t, "jloop")
           ELSE Goto(t, "jwait") /\ UNCHANGED lib
    /\ UNCHANGED <<lock, passed>>

(* ++pthreads_ready2reap, without the lock: it is read here.               *)
JoinTake(t) ==
    /\ Runs(t, "jtake")
    /\ lib' = [lib EXCEPT !.ctl[at[t].whom].state = "EXITED"]
    /\ at' = [at EXCEPT ![t].pc = "jcount", ![t].read = lib.ready2reap,
                         ![t].got = lib.ctl[at[t].whom].retval]
    /\ UNCHANGED <<lock, passed>>

JoinCount(t) ==
    /\ Runs(t, "jcount")
    /\ lib' = [lib EXCEPT !.ready2reap = at[t].read + 1]
    /\ Goto(t, "jlock2") /\ UNCHANGED <<lock, passed>>

----------------------------------------------------------------------------
(* pthread_detach of another thread.                                       *)

Detach(t, i) ==
    /\ t \in Joiners /\ lib.table[i] # t /\ Runs(t, "run")
    /\ at' = [at EXCEPT ![t] = [At("dlock") EXCEPT !.read = i]]
    /\ UNCHANGED <<lib, lock, passed>>

DetachMark(t) ==
    /\ Runs(t, "dlock") /\ Lock(t)
    /\ LET u == pthread_ctl_by_id(at[t].read)
       IN  IF u = Nobody \/ lib.ctl[u].state = "DETACHED" THEN Goto(t, "dreap") /\ UNCHANGED lib
           ELSE /\ lib' = [lib EXCEPT !.ctl[u].state = "DETACHED"]
                /\ at' = [at EXCEPT ![t] = [At("dpost") EXCEPT !.whom = u]]
    /\ UNCHANGED passed

DetachPost(t) ==
    /\ Runs(t, "dpost") /\ lib' = PostAll(lib, at[t].whom) /\ Posted(t, at[t].whom, "dreap")
    /\ UNCHANGED <<lock, passed>>

----------------------------------------------------------------------------
(* The steps of a library call in progress, and those of the application.  *)
Proceed(t) ==
    \/ LockPend(t) \/ ExitLocked(t) \/ ExitMark(t) \/ ExitPost(t) \/ ExitUnlock(t) \/ ExitDie(t)
    \/ JoinLocked(t, "jlock", "jreap") \/ JoinReap(t, "jreap", "jlook")
    \/ JoinLook(t) \/ JoinLoop(t) \/ JoinPend(t) \/ JoinTake(t) \/ JoinCount(t)
    \/ JoinLocked(t, "jlock2", "jreap2") \/ JoinReap(t, "jreap2", "run")
    \/ DetachMark(t) \/ DetachPost(t) \/ JoinReap(t, "dreap", "run")

Ends(t) == Nap(t) \/ \E v \in Values : Exit(t, v)

Calls(t) ==
    \/ \E u \in Thread, state \in {"RUNNING", "DETACHED"} : Create(t, u, state)
    \/ CreateRefused(t)
    \/ \E i \in Ids : Join(t, i) \/ Detach(t, i)

ThreadNext == \E t \in Thread : Proceed(t) \/ Ends(t) \/ Calls(t) \/ Wake(t)

(* A thread does not keep the processor for ever, and gets it from time to *)
(* time when it is in the library.                                         *)
ThreadSpec == /\ ThreadInit /\ [][ThreadNext]_threadVars
              /\ \A t \in Thread : SF_threadVars(Proceed(t)) /\ WF_threadVars(Ends(t))

----------------------------------------------------------------------------
(* What the threads promise.                                               *)

Alive == { t \in Thread : at[t].pc # "gone" }

(* The stack a thread runs on, with its control block and its task, is     *)
(* not given back to the heap before the thread has destroyed its task     *)
(* (pthread_exit against the reaping in pthread_join, pthread_detach and   *)
(* pthread_create).                                                        *)
ReapedIsDead == Alive \subseteq lib.memory

(* Every entry of the table is a control block that is still allocated and *)
(* knows its index; a live thread has an entry, and just one               *)
(* (pthread_id_alloc, pthread_id_add, pthread_id_free).                    *)
TableExact ==
    /\ \A i \in Ids : lib.table[i] # Nobody =>
                         lib.table[i] \in lib.memory /\ lib.ctl[lib.table[i]].id = i
    /\ \A t \in Alive : \E i \in Ids : lib.table[i] = t

(* A successful join gives the value the thread passed to pthread_exit,    *)
(* and only when it did (pthread_exit against the loop in pthread_join).   *)
JoinGetsValue ==
    \A t \in Thread : at[t].pc = "jcount" => at[t].got # Null /\ at[t].got = passed[at[t].whom]

(* A thread that exits, or is gone, does not leave its joiner waiting,     *)
(* even if it marked its end, posted and died between the joiner's test of *)
(* its state and the pend (tos_sem_post_all on joinner_sem against the     *)
(* loop in pthread_join).                                                  *)
Leaving(t)  == at[t].pc \in {"elock", "emark", "epost", "eunlock", "edie"}
JoinReturns ==
    \A t \in Joiners, u \in Thread \ {Main} :
        (at[t].pc = "jwait" /\ at[t].whom = u /\ (Leaving(u) \/ at[u].pc = "gone"))
            ~> at[t].pc # "jwait"
=============================================================================
