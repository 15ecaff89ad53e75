-------------------------------- MODULE Sync --------------------------------
(***************************************************************************)
(* Events (tos_event.c), completions (tos_completion.c), count-down        *)
(* latches (tos_countdownlatch.c) and barriers (tos_barrier.c) on top of   *)
(* the scheduler.  They are the Waitable objects; o's waiters are          *)
(* knl.pend[o].  A set of event flags is a subset of Bits.                 *)
(***************************************************************************)
EXTENDS Task

CONSTANTS
    Event, Completion, Latch, Barrier, \* the objects of each kind
    Bits,        \* the bits of a k_event_flag_t
    Posted,      \* flag sets the application posts
    Expectation, \* what it pends for: flag_expect and opt_pend
    SyncCounts,  \* counts of latches and barriers at creation and reset
    CountTop,    \* largest completion_done_t
    SyncTimeouts,\* timeouts, as in Sem
    MaxLive      \* bound: objects alive at a time

Waits == [flags : SUBSET Bits, all : BOOLEAN, clr : BOOLEAN]

ASSUME SyncAssumption ==
    /\ Waitable = Event \cup Completion \cup Latch \cup Barrier
    /\ Posted \subseteq SUBSET Bits /\ Expectation \subseteq Waits
    /\ SyncCounts \subseteq Nat /\ CountTop \in Nat /\ SyncTimeouts \subseteq 0 .. Forever
    /\ MaxLive \in Nat

ASSUME DisjointAssumption == /\ Event \cap (Completion \cup Latch \cup Barrier) = {}
                             /\ Completion \cap (Latch \cup Barrier) = {}
                             /\ Latch \cap Barrier = {}

(* A handler posts an event in one step: nothing comes in between.         *)
ASSUME HandlersDoNotNest == MaxIrqNest <= 1

VARIABLES
    flag,   \* event->flag
    count,  \* completion->done, countdownlatch->count, barrier->count
    want,   \* task->flag_expect and task->opt_event_pend
    post,   \* event and flags of the tos_event_post each task is in
    total   \* history: the count a barrier was last given

objVars  == <<flag, count, want, post, total>>
syncVars == <<knl, isr, pc, arg, flag, count, want, post, total>>

NoWait == [flags |-> {}, all |-> FALSE, clr |-> FALSE]
NoPost == [event |-> NoObj, flags |-> {}]

SyncInit == /\ Init
            /\ flag  = [e \in Event |-> {}]
            /\ count = [o \in Waitable \ Event |-> 0]
            /\ want  = [t \in Task |-> NoWait]
            /\ post  = [t \in Task |-> NoPost]
            /\ total = [b \in Barrier |-> 0]

Live == knl.obj \cap Waitable

(* tos_*_create; only a barrier refuses the count 0.                       *)
CreateObject(o) ==
    /\ o \notin knl.obj /\ Cardinality(Live) < MaxLive
    /\ ReturnAnywhere("obj_create", [knl EXCEPT !.pend[o] = << >>, !.obj = @ \cup {o}])
    /\ UNCHANGED <<want, post>>

EventCreate(e, init)   == /\ CreateObject(e)
                          /\ flag' = [flag EXCEPT ![e] = init]
                          /\ UNCHANGED <<count, total>>
CompletionCreate(o)    == /\ CreateObject(o)
                          /\ count' = [count EXCEPT ![o] = 0]
                          /\ UNCHANGED <<flag, total>>
LatchCreate(o, n)      == /\ CreateObject(o)
                          /\ count' = [count EXCEPT ![o] = n]
                          /\ UNCHANGED <<flag, total>>
BarrierCreate(o, n)    == /\ CreateObject(o) /\ n # 0
                          /\ count' = [count EXCEPT ![o] = n]
                          /\ total' = [total EXCEPT ![o] = n]
                          /\ UNCHANGED flag

(* tos_*_destroy.  The count of a destroyed object is dead: 0 here.        *)
DestroyObject(o) ==
    /\ o \in knl.obj
    /\ FromAnywhere("obj_destroy",
          [pend_wakeup_all(knl, o, "DESTROY") EXCEPT !.pend[o] = << >>, !.obj = @ \ {o}])
    /\ flag'  = [e \in Event |-> IF e = o THEN {} ELSE flag[e]]
    /\ count' = [c \in Waitable \ Event |-> IF c = o THEN 0 ELSE count[c]]
    /\ total' = [b \in Barrier |-> IF b = o THEN 0 ELSE total[b]]
    /\ UNCHANGED <<want, post>>

----------------------------------------------------------------------------
(* tos_event.c                                                             *)

event_is_match(f, w) == IF w.all THEN w.flags \subseteq f ELSE w.flags \cap f # {}

EventTake(e, w) ==
    /\ e \in knl.obj
    /\ Preamble("pend") /\ ThenReturn(knl)
    /\ event_is_match(flag[e], w)
    /\ flag' = IF w.clr THEN [flag EXCEPT ![e] = {}] ELSE flag
    /\ UNCHANGED <<count, want, post, total>>

EventBlock(e, w, timeout) ==
    /\ e \in knl.obj
    /\ Preamble("pend") /\ BlockIn(knl, e, timeout)
    /\ ~event_is_match(flag[e], w)
    /\ want' = [want EXCEPT ![knl.curr] = w]
    /\ UNCHANGED <<flag, count, post, total>>

(* event_do_post stores the flags with interrupts enabled.  What it then   *)
(* does with them disabled, for flags f: waiters are looked at in turn, up *)
(* to the first match that clears; flags left and tasks woken.             *)
Matching(e, f) == {i \in DOMAIN knl.pend[e] : event_is_match(f, want[knl.pend[e][i]])}
Clearing(e, f) == {i \in Matching(e, f) : want[knl.pend[e][i]].clr}
FlagsLeft(e, f) == IF Clearing(e, f) = {} THEN f ELSE {}
(* Fault: a clearing match does not end the search.                        *)
Woken_All(e, f) == {knl.pend[e][i] : i \in Matching(e, f)}

(* Fault: every match ends it.                                             *)
Woken_First(e, f) == {knl.pend[e][i] : i \in {j \in Matching(e, f) :
                                                \A m \in Matching(e, f) : j <= m}}

Woken(e, f) == {knl.pend[e][i] : i \in {j \in Matching(e, f) :
                                          \A c \in Clearing(e, f) : j <= c}}

event_scan(e, f) == /\ knl' = wakeup_those(knl, knl.pend[e], Woken(e, f), "POST")
                    /\ flag' = [flag EXCEPT ![e] = FlagsLeft(e, f)]

(* tos_event_post_keep: event->flag |= flag is a load and a store.         *)
EventPostLoad(e, f) ==
    /\ Preamble("post") /\ e \in knl.obj
    /\ post' = [post EXCEPT ![knl.curr] = [event |-> e, flags |-> flag[e] \cup f]]
    /\ pc' = [pc EXCEPT ![knl.curr] = "estore"]
    /\ UNCHANGED <<knl, isr, arg, flag, count, want, total>>

EventPostStore ==
    /\ knl.irqNest = 0 /\ ~knl.pendsv /\ pc[knl.curr] = "estore"
    /\ LET p == post[knl.curr] IN flag' = [flag EXCEPT ![p.event] = p.flags]
    /\ pc' = [pc EXCEPT ![knl.curr] = "escan"]
    /\ UNCHANGED <<knl, isr, arg, count, want, post, total>>

(* tos_event_post: a store.                                                *)
EventPost(e, f) ==
    /\ Preamble("post") /\ e \in knl.obj
    /\ flag' = [flag EXCEPT ![e] = f]
    /\ post' = [post EXCEPT ![knl.curr] = [event |-> e, flags |-> f]]
    /\ pc' = [pc EXCEPT ![knl.curr] = "escan"]
    /\ UNCHANGED <<knl, isr, arg, count, want, total>>

EventScan ==
    /\ knl.irqNest = 0 /\ ~knl.pendsv /\ pc[knl.curr] = "escan"
    /\ LET e == post[knl.curr].event IN event_scan(e, flag[e])
    /\ post' = [post EXCEPT ![knl.curr] = NoPost]
    /\ pc' = [pc EXCEPT ![knl.curr] = "sched"]
    /\ UNCHANGED <<isr, arg, count, want, total>>

EventPostFromIsr(e, f, keep) ==
    /\ IsrPreamble("post") /\ e \in knl.obj
    /\ event_scan(e, IF keep THEN flag[e] \cup f ELSE f)
    /\ UNCHANGED <<isr, pc, arg, count, want, post, total>>

----------------------------------------------------------------------------
(* tos_completion.c                                                        *)

CompletionTake(o) ==
    /\ o \in knl.obj /\ count[o] > 0
    /\ Preamble("pend") /\ ThenReturn(knl)
    /\ UNCHANGED objVars

CompletionBlock(o, timeout) ==
    /\ o \in knl.obj /\ count[o] = 0
    /\ Preamble("pend") /\ BlockIn(knl, o, timeout)
    /\ UNCHANGED objVars

(* Unlike a semaphore's count, done counts also the posts that woke a task.*)
CompletionPost(o, opt) ==
    /\ o \in knl.obj /\ count[o] # CountTop
    /\ count' = [count EXCEPT ![o] = @ + 1]
    /\ IF pend_is_nopending(knl, o) THEN ReturnAnywhere("post", knl)
       ELSE FromAnywhere("post", pend_wakeup(knl, o, "POST", opt))
    /\ UNCHANGED <<flag, want, post, total>>

CompletionReset(o) ==
    /\ o \in knl.obj
    /\ ReturnAnywhere("reset", knl)
    /\ count' = [count EXCEPT ![o] = 0]
    /\ UNCHANGED <<flag, want, post, total>>

----------------------------------------------------------------------------
(* tos_countdownlatch.c                                                    *)

LatchTake(o) ==
    /\ o \in knl.obj /\ count[o] = 0
    /\ Preamble("pend") /\ ThenReturn(knl)
    /\ UNCHANGED objVars

LatchBlock(o, timeout) ==
    /\ o \in knl.obj /\ count[o] # 0
    /\ Preamble("pend") /\ BlockIn(knl, o, timeout)
    /\ UNCHANGED objVars

(* The last post wakes one waiter.  It does not ask whether there is one:  *)
(* without, pend_wakeup_one takes the list head for a task and writes into *)
(* the memory around it.  The model has the posts that find a waiter.      *)
LatchPost(o) ==
    /\ o \in knl.obj /\ count[o] # 0
    /\ count' = [count EXCEPT ![o] = @ - 1]
    /\ \/ /\ count[o] > 1
          /\ ReturnAnywhere("post", knl)
       \/ /\ count[o] = 1 /\ ~pend_is_nopending(knl, o)
          /\ FromAnywhere("post", pend_wakeup_one(knl, o, "POST"))
    /\ UNCHANGED <<flag, want, post, total>>

LatchReset(o, n) ==
    /\ o \in knl.obj
    /\ ReturnAnywhere("reset", knl)
    /\ count' = [count EXCEPT ![o] = n]
    /\ UNCHANGED <<flag, want, post, total>>

----------------------------------------------------------------------------
(* tos_barrier.c                                                           *)

(* The last to arrive opens the barrier, without a scheduling point.       *)
BarrierOpen(o) ==
    /\ o \in knl.obj /\ count[o] = 1
    /\ Preamble("pend") /\ ThenReturn(pend_wakeup_all(knl, o, "POST"))
    /\ count' = [count EXCEPT ![o] = 0]
    /\ UNCHANGED <<flag, want, post, total>>

(* Fault: a task is counted although the locked scheduler turns it away.   *)
BarrierBlock_CountFirst(o) ==
    /\ o \in knl.obj /\ count[o] > 1
    /\ Preamble("pend")
    /\ BlockIn(knl, o, Forever) \/ (knl_is_sched_locked(knl) /\ ThenReturn(knl))
    /\ count' = [count EXCEPT ![o] = @ - 1]
    /\ UNCHANGED <<flag, want, post, total>>

BarrierBlock(o) ==
    /\ o \in knl.obj /\ count[o] > 1
    /\ Preamble("pend") /\ BlockIn(knl, o, Forever)
    /\ count' = [count EXCEPT ![o] = @ - 1]
    /\ UNCHANGED <<flag, want, post, total>>

BarrierReset(o, n) ==
    /\ o \in knl.obj
    /\ ReturnAnywhere("reset", knl)
    /\ count' = [count EXCEPT ![o] = n]
    /\ total' = [total EXCEPT ![o] = n]
    /\ UNCHANGED <<flag, want, post>>

----------------------------------------------------------------------------
(* tos_event_pend clears its expectations when it returns.                 *)
SyncPendReturn ==
    /\ PendReturn
    /\ want' = [want EXCEPT ![knl.curr] = NoWait]
    /\ UNCHANGED <<flag, count, post, total>>

EventApi(e) ==
    \/ \E f \in Posted : \/ EventPostLoad(e, f) \/ EventPost(e, f)
                         \/ \E keep \in BOOLEAN : EventPostFromIsr(e, f, keep)
    \/ \E f \in Posted \cup {{}} : EventCreate(e, f)
    \/ \E w \in Expectation : \/ EventTake(e, w)
                              \/ \E timeout \in SyncTimeouts : EventBlock(e, w, timeout)

CompletionApi(o) ==
    \/ CompletionCreate(o) \/ CompletionTake(o) \/ CompletionReset(o)
    \/ \E timeout \in SyncTimeouts : CompletionBlock(o, timeout)
    \/ \E opt \in {"ONE", "ALL"} : CompletionPost(o, opt)

LatchApi(o) ==
    \/ \E n \in SyncCounts : LatchCreate(o, n) \/ LatchReset(o, n)
    \/ LatchTake(o) \/ LatchPost(o)
    \/ \E timeout \in SyncTimeouts : LatchBlock(o, timeout)

(* The application resets a barrier only while nobody waits at it.         *)
BarrierApi(o) ==
    \/ \E n \in SyncCounts : \/ BarrierCreate(o, n)
                             \/ pend_is_nopending(knl, o) /\ BarrierReset(o, n)
    \/ BarrierOpen(o) \/ BarrierBlock(o)

SyncApi ==
    \/ \E e \in Event : EventApi(e)
    \/ \E o \in Completion : CompletionApi(o)
    \/ \E o \in Latch : LatchApi(o)
    \/ \E o \in Barrier : BarrierApi(o)
    \/ \E o \in Waitable : DestroyObject(o)
    \/ EventPostStore \/ EventScan \/ SyncPendReturn

SyncNext == (Next /\ UNCHANGED objVars) \/ SyncApi

SyncSpec == SyncInit /\ [][SyncNext]_syncVars
=============================================================================
