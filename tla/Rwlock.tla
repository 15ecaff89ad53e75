------------------------------- MODULE Rwlock -------------------------------
(***************************************************************************)
(* The read-write lock (tos_rwlock.c): a mutex, Lock, that guards two      *)
(* counts and a flag, and a semaphore, Signal, that a caller waits for     *)
(* while it holds the mutex.  A call passes several sections of the mutex  *)
(* and the semaphore: rwcall says where each task is in its call.  The     *)
(* application uses the other mutexes itself.                              *)
(***************************************************************************)
EXTENDS Mutex, Sem

CONSTANTS
    Lock, Signal,  \* rwlock->lock and rwlock->signal
    RwMax,         \* largest rw_cnt_t, 65535 in the code
    SignalMax,     \* largest k_sem_cnt_t, 65535 in the code
    RwTimeouts,    \* timeouts of the timed calls
    MaxObjects     \* bound: objects alive; a read-write lock is two

ASSUME RwAssumption == /\ Lock \in Mutex /\ Signal \in Waitable \ Mutex
                       /\ RwMax \in Nat /\ SignalMax \in Nat /\ MaxObjects \in Nat
                       /\ RwTimeouts \subseteq 0 .. Forever

VARIABLES
    rw,     \* made; n_readers, n_writers, is_writting;
            \* history: tasks whose call returned at a limit
    rwcall, \* the read-write lock call each task is in
    share   \* history: the lock each task was told it has

rwOnly == <<rw, rwcall, share>>
rwVars == <<knl, isr, pc, arg, holds, base, count, countMax, rw, rwcall, share>>

Timed == {"rpend", "wpend"}  \* the calls that may wait, with a timeout
Trying  == {"rpend_try", "wpend_try"}
Posting == {"rpost", "wpost", "post"}

(* at: "lock" waits for the mutex, "held" has it, "first" and "again" are  *)
(* before tos_stopwatch_remain, "read1" and "read2" inside of it, "wait"   *)
(* heads the loop, "sleep" waits for the semaphore, "fail" gave up, "post" *)
(* has to return the mutex, "sem" and "mutex" create or destroy them.      *)
NoCall == [op |-> "none", at |-> "none", timeout |-> 0, left |-> 0, got |-> "none"]
NoRw   == [made |-> FALSE, readers |-> 0, writers |-> 0, writing |-> FALSE, excess |-> {}]

RwInit == /\ MutexInit
          /\ count    = [s \in Waitable |-> 0]
          /\ countMax = [s \in Waitable |-> 0]
          /\ rw = NoRw
          /\ rwcall = [t \in Task |-> NoCall]
          /\ share = [t \in Task |-> "none"]

Me == rwcall[knl.curr]
At(place) == TaskRuns /\ Me.at = place
GoTo(place) == rwcall' = [rwcall EXCEPT ![knl.curr].at = place]
EndCall == rwcall' = [rwcall EXCEPT ![knl.curr] = NoCall]
NoKernelChange == UNCHANGED <<knl, isr, pc, arg, holds, count, countMax>>
NoSemChange    == UNCHANGED <<count, countMax>>
NoMutexChange  == UNCHANGED holds

----------------------------------------------------------------------------
(* tos_rwlock_create and tos_rwlock_destroy.                               *)

Begins(op, place) ==
    /\ TaskRuns /\ knl.curr # Idle /\ Me = NoCall
    /\ rwcall' = [rwcall EXCEPT ![knl.curr] = [NoCall EXCEPT !.op = op, !.at = place]]
    /\ NoKernelChange /\ UNCHANGED <<rw, share>>

RwCreate  == /\ ~rw.made /\ Begins("create", "sem")
             /\ Cardinality(knl.obj \ Task) + 2 <= MaxObjects
RwDestroy == rw.made /\ Begins("destroy", "sem")

CreateSem    == /\ At("sem") /\ Me.op = "create"
                /\ SemCreate(Signal, 0, SignalMax) /\ NoMutexChange
                /\ GoTo("mutex") /\ UNCHANGED <<rw, share>>
CreateMutex  == /\ At("mutex") /\ Me.op = "create"
                /\ MutexCreate(Lock) /\ NoSemChange
                /\ rw' = [NoRw EXCEPT !.made = TRUE]
                /\ EndCall /\ UNCHANGED share
DestroySem   == /\ At("sem") /\ Me.op = "destroy"
                /\ SemDestroy(Signal) /\ NoMutexChange
                /\ GoTo("mutex") /\ UNCHANGED <<rw, share>>
DestroyMutex == /\ At("mutex") /\ Me.op = "destroy"
                /\ MutexDestroy(Lock) /\ NoSemChange
                /\ rw' = NoRw
                /\ EndCall /\ UNCHANGED share

----------------------------------------------------------------------------
(* Taking the mutex, at the start of every other call.                     *)

TimeoutOf(op) == CASE op \in Timed -> RwTimeouts
                   [] op \in Trying  -> {0}
                   [] op \in Posting -> {Forever}

(* Whoever posts has given the lock up.                                    *)
Enters(op, place, timeout) ==
    /\ rwcall' = [rwcall EXCEPT ![knl.curr] =
          [op |-> op, at |-> place, timeout |-> timeout, left |-> timeout, got |-> "none"]]
    /\ share' = IF op \in Posting THEN [share EXCEPT ![knl.curr] = "none"] ELSE share

(* Fault: a caller that has the mutex already goes on.                     *)
RwPend_Nested(op, timeout) ==
    /\ rw.made /\ Me = NoCall /\ knl.curr # Idle
    /\ \/ (MutexPendFirst(Lock) \/ MutexPendAgain(Lock)) /\ Enters(op, "held", timeout)
       \/ MutexBlock(Lock, timeout) /\ Enters(op, "lock", timeout)
    /\ NoSemChange /\ UNCHANGED rw

(* Every call returns at once on an error, K_ERR_MUTEX_NESTING included,   *)
(* which a caller gets that has kept the mutex, see TooMany: it then has   *)
(* the mutex once more.                                                    *)
RwPend(op, timeout) ==
    /\ rw.made /\ Me = NoCall /\ knl.curr # Idle
    /\ \/ MutexPendFirst(Lock) /\ Enters(op, "held", timeout)
       \/ MutexBlock(Lock, timeout) /\ Enters(op, "lock", timeout)
       \/ MutexPendAgain(Lock) /\ UNCHANGED <<rwcall, share>>
    /\ NoSemChange /\ UNCHANGED rw

RwPendReturn ==
    /\ MutexPendReturn /\ Me.at = "lock"
    /\ IF pend_state2errno(knl.pendState[knl.curr]) = "K_ERR_NONE"
       THEN GoTo("held") ELSE EndCall
    /\ NoSemChange /\ UNCHANGED <<rw, share>>

----------------------------------------------------------------------------
(* What a call does with the mutex.                                        *)

Free      == rw.readers = 0 /\ ~rw.writing
NoWriters == rw.writers = 0 /\ ~rw.writing

Granted_(what) == rwcall' = [rwcall EXCEPT ![knl.curr].at = "post", ![knl.curr].got = what]

(* At the limit the call returns with the mutex.                           *)
TooMany ==
    /\ At("held") /\ Me.op \in {"rpend", "rpend_try", "wpend"}
    /\ RwMax = IF Me.op = "wpend" THEN rw.writers ELSE rw.readers
    /\ rw' = [rw EXCEPT !.excess = @ \cup {knl.curr}]
    /\ EndCall
    /\ NoKernelChange /\ UNCHANGED share

(* Fault: a reader comes in although a writer is in.                       *)
Read_Blind ==
    /\ At("held") /\ Me.op \in {"rpend", "rpend_try"} /\ rw.readers < RwMax
    /\ IF rw.writers = 0
       THEN rw' = [rw EXCEPT !.readers = @ + 1] /\ Granted_("read")
       ELSE UNCHANGED rw /\ GoTo(IF Me.op = "rpend" THEN "first" ELSE "post")
    /\ NoKernelChange /\ UNCHANGED share

Read ==
    /\ At("held") /\ Me.op \in {"rpend", "rpend_try"} /\ rw.readers < RwMax
    /\ IF NoWriters
       THEN rw' = [rw EXCEPT !.readers = @ + 1] /\ Granted_("read")
       ELSE UNCHANGED rw /\ GoTo(IF Me.op = "rpend" THEN "first" ELSE "post")
    /\ NoKernelChange /\ UNCHANGED share

Write ==
    /\ At("held") /\ Me.op = "wpend" /\ rw.writers < RwMax
    /\ rw' = [rw EXCEPT !.writers = @ + 1]
    /\ GoTo("first")
    /\ NoKernelChange /\ UNCHANGED share

WriteTry ==
    /\ At("held") /\ Me.op = "wpend_try"
    /\ IF Free THEN rw' = [rw EXCEPT !.writing = TRUE] /\ Granted_("write")
               ELSE UNCHANGED rw /\ GoTo("post")
    /\ NoKernelChange /\ UNCHANGED share

(* tos_sem_post_all, refused at the limit of the count.                    *)
SignalAll == IF count[Signal] = SignalMax THEN UNCHANGED <<knl, isr, pc, arg, count, countMax>>
                                          ELSE SemPost(Signal, "ALL")

(* "post" takes the lock for a reader's if there are readers.              *)
LeavesReader == Me.op \in {"rpost", "post"} /\ rw.readers > 0
LeavesWriter == \/ Me.op = "wpost" /\ rw.writing
                \/ Me.op = "post" /\ rw.readers = 0 /\ rw.writing

Leave ==
    /\ At("held") /\ Me.op \in Posting
    /\ rw' = IF LeavesReader THEN [rw EXCEPT !.readers = @ - 1]
             ELSE IF LeavesWriter THEN [rw EXCEPT !.writing = FALSE] ELSE rw
    /\ IF (LeavesReader /\ rw.readers = 1) \/ LeavesWriter
       THEN SignalAll ELSE UNCHANGED <<knl, isr, pc, arg, count, countMax>>
    /\ GoTo("post")
    /\ NoMutexChange /\ UNCHANGED share

----------------------------------------------------------------------------
(* Waiting, with the mutex held.                                           *)

(* tos_stopwatch_remain reads the time twice: left may have passed zero    *)
(* when it is taken for the rest of the time, which then wraps around.  A  *)
(* rest of zero still waits one tick the first time, and gives up later.   *)
Remain ==
    /\ \/ At("first") /\ (IF Me.timeout = Forever THEN GoTo("wait") ELSE
             IF Me.left > 0 THEN GoTo("read1")
             ELSE rwcall' = [rwcall EXCEPT ![knl.curr].at = "wait", ![knl.curr].timeout = 1])
       \/ At("again") /\ (IF Me.timeout = Forever THEN GoTo("wait") ELSE
             IF Me.left > 0 THEN GoTo("read2") ELSE GoTo("fail"))
    /\ NoKernelChange /\ UNCHANGED <<rw, share>>

RemainRead ==
    /\ \/ At("read1") \/ At("read2")
    /\ LET rest == IF Me.left < 0 THEN Forever ELSE Me.left
       IN  rwcall' = [rwcall EXCEPT
              ![knl.curr].at = IF Me.at = "read2" /\ rest = 0 THEN "fail" ELSE "wait",
              ![knl.curr].timeout = IF rest = 0 THEN 1 ELSE rest]
    /\ NoKernelChange /\ UNCHANGED <<rw, share>>

MustWait == IF Me.op = "rpend" THEN ~NoWriters ELSE ~Free

(* The head of the loop.  A reader that has waited is not counted.         *)
WaitOver ==
    /\ At("wait") /\ ~MustWait
    /\ rw' = IF Me.op = "wpend" THEN [rw EXCEPT !.writing = TRUE, !.writers = @ - 1] ELSE rw
    /\ Granted_(IF Me.op = "wpend" THEN "write" ELSE "read")
    /\ NoKernelChange /\ UNCHANGED share

WaitTakesToken ==
    /\ At("wait") /\ MustWait
    /\ SemTake(Signal)
    /\ GoTo("again")
    /\ NoMutexChange /\ UNCHANGED <<rw, share>>

(* A locked scheduler makes tos_sem_pend fail.                             *)
WaitSleeps ==
    /\ At("wait") /\ MustWait
    /\ IF knl_is_sched_locked(knl) /\ count[Signal] = 0
       THEN NoKernelChange /\ GoTo("fail")
       ELSE SemBlock(Signal, Me.timeout) /\ NoMutexChange /\ GoTo("sleep")
    /\ UNCHANGED <<rw, share>>

WaitReturns ==
    /\ SemPendReturn /\ Me.at = "sleep"
    /\ GoTo(IF pend_state2errno(knl.pendState[knl.curr]) = "K_ERR_NONE" THEN "again" ELSE "fail")
    /\ NoMutexChange /\ UNCHANGED <<rw, share>>

(* Fault: a writer that gives up stays counted.                            *)
WaitFails_Keep ==
    /\ At("fail")
    /\ IF Me.op = "wpend" THEN SignalAll ELSE UNCHANGED <<knl, isr, pc, arg, count, countMax>>
    /\ GoTo("post")
    /\ NoMutexChange /\ UNCHANGED <<rw, share>>

WaitFails ==
    /\ At("fail")
    /\ IF Me.op = "wpend"
       THEN SignalAll /\ rw' = [rw EXCEPT !.writers = @ - 1]
       ELSE UNCHANGED <<knl, isr, pc, arg, count, countMax, rw>>
    /\ GoTo("post")
    /\ NoMutexChange /\ UNCHANGED share

(* Fault: the mutex is kept when the call could not wait.                  *)
RwPost_Keep ==
    /\ At("post")
    /\ IF Me.got = "none" /\ Me.op \in Timed THEN NoKernelChange
       ELSE MutexPost(Lock) /\ NoSemChange
    /\ share' = IF Me.got = "none" THEN share ELSE [share EXCEPT ![knl.curr] = Me.got]
    /\ EndCall /\ UNCHANGED rw

(* A call has taken the mutex once: its post is the last one.              *)
RwPost ==
    /\ At("post")
    /\ MutexPost(Lock)
    /\ share' = IF Me.got = "none" THEN share ELSE [share EXCEPT ![knl.curr] = Me.got]
    /\ EndCall /\ NoSemChange /\ UNCHANGED rw

----------------------------------------------------------------------------
RwInside == \/ CreateSem \/ CreateMutex \/ DestroySem \/ DestroyMutex
            \/ RwPendReturn \/ TooMany \/ Read \/ Write \/ WriteTry \/ Leave
            \/ Remain \/ RemainRead \/ WaitOver \/ WaitTakesToken \/ WaitSleeps
            \/ WaitReturns \/ WaitFails \/ RwPost

(* The application posts what it has, asks for one lock at a time, and     *)
(* destroys a read-write lock that nobody uses or will use.                *)
RwCalls ==
    \/ RwCreate
    \/ RwDestroy /\ \A t \in Task : rwcall[t] = NoCall /\ share[t] = "none"
    \/ \E op \in Timed \cup Trying \cup Posting : \E timeout \in TimeoutOf(op) :
          /\ \A t \in Task : rwcall[t].op # "destroy"
          /\ share[knl.curr] \in (CASE op = "rpost" -> {"read"} [] op = "wpost" -> {"write"}
                                    [] op = "post" -> {"read", "write"} [] OTHER -> {"none"})
          /\ RwPend(op, timeout)

(* The mutexes the application uses itself; it does not destroy them.      *)
Direct ==
    /\ \/ \E m \in Mutex \ {Lock} :
             \/ Cardinality(knl.obj \ Task) < MaxObjects /\ MutexCreate(m)
             \/ MutexPendFirst(m) \/ MutexPendAgain(m) \/ MutexPostNested(m) \/ MutexPost(m)
             \/ \E timeout \in MutexTimeouts : MutexBlock(m, timeout)
       \/ arg[knl.curr] \in Mutex \ {Lock} /\ MutexPendReturn
    /\ NoSemChange

(* Every tick brings a stopwatch closer to zero, and past it.              *)
RwTick == /\ TickUpdate
          /\ rwcall' = [t \in Task |->
                IF /\ rwcall[t].timeout # Forever
                   /\ rwcall[t].left > 0 \/ (rwcall[t].at \in {"read1", "read2"} /\ rwcall[t].left = 0)
                THEN [rwcall[t] EXCEPT !.left = @ - 1] ELSE rwcall[t]]
          /\ UNCHANGED <<holds, count, countMax, rw, share>>

AppCalls == knl.irqNest > 0 \/ Me = NoCall

(* The rest of the kernel; a task that uses the read-write lock is not     *)
(* destroyed.                                                              *)
RwTaskStep ==
    /\ \/ PendSV_Handler \/ SchedPoint \/ RobinSched \/ IrqLeave
       \/ \E kind \in {"tick", "isr"} : IrqEnter(kind)
       \/ AppCalls /\ OtherApi
    /\ \A t \in Task : t \in knl.obj \ knl'.obj => rwcall[t] = NoCall /\ share[t] = "none"
    /\ Forget /\ NoSemChange /\ UNCHANGED <<rw, rwcall, share>>

RwNext ==
    \/ (RwTick \/ RwTaskStep \/ RwInside \/ RwCalls) /\ Remember
    \/ AppCalls /\ Direct /\ Remember /\ UNCHANGED rwOnly
    \/ \E t \in Task, p \in AppPrio :
          /\ AppCalls /\ SetPrio(t, p) /\ Asked(t, p)
          /\ NoSemChange /\ UNCHANGED <<holds, rw, rwcall, share>>

RwSpec == RwInit /\ [][RwNext]_rwVars
=============================================================================
