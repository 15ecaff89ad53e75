---------------------------- MODULE QueueProofs -----------------------------
(***************************************************************************)
(* Message and mail queues, in order of age or of rank, for any number of  *)
(* tasks, queues and items: their calls keep the scheduler's invariants,   *)
(* leave no item idle, and implement the abstract queues.                  *)
(***************************************************************************)
EXTENDS QueueInv, TaskProofs, BufferLemmas

(* A ring or a priority queue of the size it says; a queue that has not    *)
(* been created, or was destroyed, has room for nothing.                   *)
RingOK(r)        == IF r.cnt = 0 THEN r = tos_ring_q_create(0) ELSE Sane(r.cnt, r)
BufferOK(q, s)   == s.cnt \in Nat /\ IF q \in Ranked THEN PrioOK(s.cnt, s) ELSE RingOK(s)
StoreOK          == /\ store = [q \in Waitable |-> store[q]]
                    /\ \A q \in Waitable : BufferOK(q, store[q])
NoItemWaits      == \A q \in Waitable : store[q].total > 0 => Waiters(knl, q) = {}

(* Who is in a pend call is alive, and has its item once a post woke it.   *)
MsgOK == /\ msg \in [Task -> Item \cup {NoItem}]
         /\ \A t \in Task : InPend(t) => /\ t \in knl.obj
                                         /\ knl.pendState[t] = "POST" => msg[t] \in Item

QueueIInv == IInv /\ WaitInv /\ StoreOK /\ NoItemWaits /\ MsgOK

(* What a call does to the items and to those who wait for them.           *)
Empties(q) ==
    /\ q \in Waitable /\ \E n \in Nat : store' = [store EXCEPT ![q] = Created(q, n)]
    /\ (\A t \in Task : Steady(t)) \/ Woke(Waiters(knl, q), "DESTROY")
    /\ msg' = msg /\ out' = NoItem
Buffers(q) ==
    /\ q \in Waitable /\ Waiters(knl, q) = {} /\ store[q].total # store[q].cnt
    /\ \E x \in Item, prio \in MsgPrios \cup {0} :
          /\ q \in Ranked => prio \in MsgPrios
          /\ store' = [store EXCEPT ![q] = Enqueued(q, x, prio)]
    /\ \A t \in Task : Steady(t)
    /\ msg' = msg /\ out' = NoItem
Takes(q) ==
    /\ q \in Waitable /\ store[q].total # 0
    /\ store' = [store EXCEPT ![q] = Dequeued(q)]
    /\ \A t \in Task : Steady(t)
    /\ msg' = msg /\ out' = FirstItem(q)
Blocks(q, t) ==
    /\ q \in Waitable /\ t \in Task \cap knl.obj /\ store[q].total = 0
    /\ ~InPend(t) /\ ~IsPending(knl, t) /\ Alone(t) /\ Blocked(t, q)
    /\ store' = store /\ msg' = msg /\ out' = NoItem
Hands(q, A) ==
    /\ q \in Waitable /\ A # {} /\ A \subseteq Waiters(knl, q)
    /\ A = Waiters(knl, q) \/ A = {Head(knl.pend[q])}
    /\ Woke(A, "POST")
    /\ \E x \in Item : msg' = [t \in Task |-> IF t \in A THEN x ELSE msg[t]]
    /\ store' = store /\ out' = NoItem
Returns(t) ==
    /\ t \in Task /\ InPend(t) /\ ~IsPending(knl, t) /\ Alone(t) /\ Left(t)
    /\ IF knl.pendState[t] = "POST"
       THEN out' = msg[t] /\ msg' = [msg EXCEPT ![t] = NoItem]
       ELSE out' = NoItem /\ msg' = msg
    /\ store' = store
Elapses ==
    /\ WaitStep /\ store' = store /\ out' = NoItem
    /\ msg' = [t \in Task |-> IF t \in knl'.obj THEN msg[t] ELSE NoItem]

(* A step that is not of module Task leaves the tasks alive.               *)
QueueStep ==
    \/ Elapses
    \/ /\ knl.obj \cap Task \subseteq knl'.obj
       /\ \/ \E q : Empties(q) \/ Buffers(q) \/ Takes(q)
          \/ \E q, t : Blocks(q, t)
          \/ \E q, A : Hands(q, A)
          \/ \E t : Returns(t)

----------------------------------------------------------------------------
(* Every step of the queues keeps the scheduler's invariant and is one of  *)
(* these.                                                                  *)

LEMMA WaitableObj == Waitable \subseteq Obj /\ Waitable \cap Task = {}
  BY KindAssumption DEF Obj

LEMMA QueueCreateStep ==
    ASSUME Safe, NEW q \in Waitable, NEW cnt \in QueueSizes, QueueCreate(q, cnt)
    PROVE  Kept /\ Empties(q) /\ knl.obj \subseteq knl'.obj
<1>1. q \in Obj /\ q \notin knl.obj /\ cnt \in Nat
  BY WaitableObj, QueueAssumption DEF QueueCreate
<1>2. Kept /\ (\A t \in Task : Steady(t)) /\ knl.obj \subseteq knl'.obj
  BY <1>1, CreatedFrom DEF QueueCreate
<1> QED
  BY <1>1, <1>2 DEF QueueCreate, Empties

LEMMA QueueDestroyStep ==
    ASSUME Safe, NEW q \in Waitable, QueueDestroy(q)
    PROVE  Kept /\ Empties(q) /\ knl.obj \cap Task \subseteq knl'.obj
<1>1. "DESTROY" \in PendState /\ q \in Obj /\ q \notin Task
  BY WaitableObj DEF PendState
<1>2. Kept /\ knl'.obj = knl.obj \ {q} /\ Woke(Waiters(knl, q), "DESTROY")
  BY <1>1, DestroyedFrom DEF QueueDestroy
<1> QED
  BY <1>1, <1>2 DEF QueueDestroy, Empties

LEMMA QueueFlushStep ==
    ASSUME Safe, StoreOK, NEW q \in Waitable, QueueFlush(q)
    PROVE  Kept /\ Empties(q) /\ knl' = knl
<1>1. Kept /\ knl' = knl /\ \A t \in Task : Steady(t)
  BY IdleFrom DEF QueueFlush
<1>2. store[q].cnt \in Nat /\ Flushed(q) = Created(q, store[q].cnt)
  BY DEF StoreOK, BufferOK, Flushed, Created, tos_prio_q_flush, tos_ring_q_flush
<1> QED
  BY <1>1, <1>2 DEF QueueFlush, Empties

LEMMA QueueTakeStep ==
    ASSUME Safe, NEW q \in Waitable, QueueTake(q)
    PROVE  Kept /\ Takes(q) /\ knl' = knl
<1>1. ReturnAnywhere("queue_pend", knl)
  BY DEF QueueTake, ReturnAnywhere
<1>2. Kept /\ knl' = knl /\ \A t \in Task : Steady(t)
  BY <1>1, IdleFrom
<1> QED
  BY <1>2 DEF QueueTake, Takes, IsEmpty, tos_prio_q_is_empty, tos_ring_q_is_empty

LEMMA QueueBlockStep ==
    ASSUME Safe, NEW q \in Waitable, NEW timeout \in QueueTimeouts, QueueBlock(q, timeout)
    PROVE  Kept /\ (\E t : Blocks(q, t)) /\ knl'.obj = knl.obj
<1>1. q \in Obj /\ timeout \in Nat
  BY WaitableObj, QueueAssumption, TimeAssumption DEF Forever
<1>2. /\ Kept /\ Alone(knl.curr) /\ Blocked(knl.curr, q) /\ knl'.obj = knl.obj
      /\ ~InPend(knl.curr) /\ ~IsPending(knl, knl.curr)
  BY <1>1, BlockFrom DEF QueueBlock
<1>3. knl.curr \in Task \cap knl.obj
  BY CallerReady DEF QueueBlock, ReadySet
<1> QED
  BY <1>2, <1>3 DEF QueueBlock, Blocks, IsEmpty, tos_prio_q_is_empty, tos_ring_q_is_empty

LEMMA QueueReturnStep ==
    ASSUME Safe, QueuePendReturn
    PROVE  Kept /\ (\E t : Returns(t)) /\ knl' = knl
<1>1. /\ Kept /\ knl' = knl /\ Alone(knl.curr) /\ Left(knl.curr)
      /\ knl.curr \in Task /\ ~IsPending(knl, knl.curr)
  BY PendReturnStep, TypeFacts DEF QueuePendReturn, Safe
<1>2. InPend(knl.curr)
  BY DEF QueuePendReturn, PendReturn, InPend
<1>3. pend_state2errno(knl.pendState[knl.curr]) = "K_ERR_NONE"
         <=> knl.pendState[knl.curr] = "POST"
  BY DEF pend_state2errno
<1> QED
  BY <1>1, <1>2, <1>3 DEF QueuePendReturn, Returns

LEMMA QueueBufferStep ==
    ASSUME Safe, NEW q \in Waitable, NEW x \in Item,
           NEW prio \in IF q \in Ranked THEN MsgPrios ELSE {0}, NEW fits,
           PostBuffered(q, x, prio, fits)
    PROVE  Kept /\ Buffers(q) /\ knl' = knl
<1>1. Kept /\ knl' = knl /\ \A t \in Task : Steady(t)
  BY IdleFrom DEF PostBuffered
<1>2. Waiters(knl, q) = {}
  BY WaitableObj, NoWaiters DEF PostBuffered, Safe
<1>3. prio \in MsgPrios \cup {0} /\ (q \in Ranked => prio \in MsgPrios)
  OBVIOUS
<1> QED
  BY <1>1, <1>2, <1>3
  DEF PostBuffered, Buffers, IsFull, tos_prio_q_is_full, tos_ring_q_is_full

LEMMA QueueHandStep ==
    ASSUME Safe, NEW q \in Waitable, NEW x \in Item, NEW opt, PostHanded(q, x, opt)
    PROVE  Kept /\ (\E A : Hands(q, A)) /\ knl'.obj = knl.obj
<1> DEFINE ts == Receivers(q, opt)
           A  == ToSet(ts)
           r  == wakeup_each(knl, ts, "POST")
<1>1. Sound(knl) /\ q \in Obj /\ "POST" \in PendState
  BY WaitableObj DEF Safe, PendState
<1>2. /\ knl.pend[q] \in Seq(Task) /\ IsInjective(knl.pend[q])
      /\ ToSet(knl.pend[q]) = Waiters(knl, q) /\ knl.pend[q] # << >>
  BY <1>1 DEF Sound, KernelType, Waiting, PendExact, PostHanded, pend_is_nopending
<1>3. /\ ts \in Seq(Task) /\ IsInjective(ts) /\ A # {} /\ A \subseteq Waiters(knl, q)
      /\ A = Waiters(knl, q) \/ A = {Head(knl.pend[q])}
  <2>1. CASE opt = "ONE"
    <3> DEFINE h == Head(knl.pend[q])
    <3>1. h \in Task /\ h \in ToSet(knl.pend[q])
      BY <1>2, HeadInList
    <3>2. ts = <<h>> /\ ToSet(<<h>>) = {h} /\ IsInjective(<<h>>) /\ <<h>> \in Seq(Task)
      BY <2>1, <3>1 DEF Receivers, ToSet, IsInjective
    <3> QED
      BY <1>2, <3>1, <3>2
  <2>2. CASE opt # "ONE"
    <3>1. ts = knl.pend[q]
      BY <2>2 DEF Receivers
    <3>2. ToSet(knl.pend[q]) # {}
      BY <1>2, HeadInList
    <3> QED
      BY <1>2, <3>1, <3>2
  <2> QED
    BY <2>1, <2>2
<1>4. /\ FromAnywhere("queue_post", r)
      /\ msg' = [t \in Task |-> IF t \in A THEN x ELSE msg[t]]
      /\ store' = store /\ out' = NoItem
  BY DEF PostHanded
<1> HIDE DEF ts
<1>5. A \subseteq Busy(knl)
  BY <1>3 DEF Busy, Waiters
<1>6. Sound(r) /\ SameFrame(knl, r) /\ ReadySet(knl) \subseteq ReadySet(r)
      /\ Awoken(knl, r, A, "POST")
  BY <1>1, <1>3, <1>5, WakeEachSound
<1> HIDE DEF r
<1>7. SameCpu(knl, r) /\ (Unowned(knl) => Unowned(r))
  BY <1>6, SameControlCpu
<1>8. Kept /\ knl' = r /\ \A t \in Task : Unmoved(t)
  BY <1>4, <1>6, <1>7, WakeFrom
<1>9. Woke(A, "POST") /\ knl'.obj = knl.obj
  BY <1>6, <1>8, AwokenWoke DEF SameFrame
<1> QED
  BY <1>3, <1>4, <1>8, <1>9 DEF Hands

LEMMA QueueNextStep ==
    ASSUME Safe, Quiet, StoreOK, QueueNext
    PROVE  Kept /\ QueueStep
<1>1. CASE TaskStep
  <2>1. Kept /\ WaitStep
    BY <1>1, NextKept, NextWait, QuietIsHarmless DEF Quiet, TaskStep
  <2> QED
    BY <1>1, <2>1 DEF TaskStep, Elapses, QueueStep
<1>2. ASSUME NEW q \in Waitable, NEW cnt \in QueueSizes, QueueCreate(q, cnt)
      PROVE  Kept /\ QueueStep
  BY <1>2, QueueCreateStep DEF QueueStep
<1>3. ASSUME NEW q \in Waitable, QueueDestroy(q) \/ QueueFlush(q) \/ QueueTake(q)
      PROVE  Kept /\ QueueStep
  BY <1>3, QueueDestroyStep, QueueFlushStep, QueueTakeStep DEF QueueStep
<1>4. ASSUME NEW q \in Waitable, NEW timeout \in QueueTimeouts, QueueBlock(q, timeout)
      PROVE  Kept /\ QueueStep
  BY <1>4, QueueBlockStep DEF QueueStep
<1>5. ASSUME NEW q \in Waitable, NEW x \in Item, NEW opt \in {"ONE", "ALL"},
             NEW prio \in IF q \in Ranked THEN MsgPrios ELSE {0}, QueuePost(q, x, prio, opt)
      PROVE  Kept /\ QueueStep
  <2>1. CASE PostBuffered(q, x, prio, q \in Mails => x \notin WrongSize)
    BY <2>1, QueueBufferStep DEF QueueStep
  <2>2. CASE PostHanded(q, x, opt)
    BY <2>2, QueueHandStep DEF QueueStep
  <2> QED
    BY <1>5, <2>1, <2>2 DEF QueuePost
<1>6. CASE QueuePendReturn
  BY <1>6, QueueReturnStep DEF QueueStep
<1> QED
  BY <1>1, <1>2, <1>3, <1>4, <1>5, <1>6 DEF QueueNext, QueueApi

----------------------------------------------------------------------------
(* What the buffers of the queues keep.                                    *)

LEMMA CreatedOK ==
    ASSUME NEW q \in Waitable, NEW n \in Nat
    PROVE  BufferOK(q, Created(q, n)) /\ Created(q, n).total = 0
<1>1. CASE q \in Ranked
  <2>1. PrioOK(n, tos_prio_q_create(n)) /\ tos_prio_q_create(n).total = 0
    BY PrioCreateOK
  <2>2. tos_prio_q_create(n).cnt = n
    BY <2>1, PrioType
  <2> QED
    BY <1>1, <2>1, <2>2 DEF BufferOK, Created
<1>2. CASE q \notin Ranked /\ n = 0
  BY <1>2 DEF BufferOK, RingOK, Created, tos_ring_q_create
<1>3. CASE q \notin Ranked /\ n # 0
  <2>1. Sane(n, tos_ring_q_create(n)) /\ tos_ring_q_create(n).total = 0
    BY <1>3, CreateSane
  <2>2. tos_ring_q_create(n).cnt = n
    BY <1>3, <2>1, SaneSound
  <2> QED
    BY <1>3, <2>1, <2>2 DEF BufferOK, RingOK, Created
<1> QED
  BY <1>1, <1>2, <1>3

(* A ring queue that holds an item, or has room for one, is a proper ring. *)
LEMMA RingIsSane ==
    ASSUME NEW q \in Waitable \ Ranked, NEW s, BufferOK(q, s),
           s.total # 0 \/ s.total # s.cnt
    PROVE  s.cnt \in Nat \ {0} /\ Sane(s.cnt, s)
<1>1. s.cnt \in Nat /\ RingOK(s)
  BY DEF BufferOK
<1>2. s.cnt # 0
  BY <1>1 DEF RingOK, tos_ring_q_create
<1> QED
  BY <1>1, <1>2 DEF RingOK

LEMMA BufferType ==
    ASSUME NEW q \in Waitable, NEW s, BufferOK(q, s)
    PROVE  s.cnt \in Nat /\ s.total \in 0 .. s.cnt
<1>1. CASE q \in Ranked
  BY <1>1, PrioType DEF BufferOK
<1>2. CASE q \notin Ranked /\ s.total = 0
  BY <1>2 DEF BufferOK
<1>3. CASE q \notin Ranked /\ s.total # 0
  BY <1>3, RingIsSane DEF Sane
<1> QED
  BY <1>1, <1>2, <1>3

LEMMA EnqueuedOK ==
    ASSUME StoreOK, NEW q \in Waitable, store[q].total # store[q].cnt, NEW x \in Item,
           NEW prio, q \in Ranked => prio \in MsgPrios
    PROVE  BufferOK(q, Enqueued(q, x, prio))
<1> DEFINE s == store[q]
<1>1. BufferOK(q, s)
  BY DEF StoreOK
<1>2. CASE q \in Ranked
  <2>1. s.cnt \in Nat /\ PrioOK(s.cnt, s) /\ prio \in Nat
    BY <1>1, <1>2, QueueAssumption DEF BufferOK
  <2>2. PrioOK(s.cnt, tos_prio_q_enqueue(s, x, prio))
    BY <2>1, PrioEnqueueOK
  <2>3. tos_prio_q_enqueue(s, x, prio).cnt = s.cnt
    BY <2>1, <2>2, PrioType
  <2> QED
    BY <1>2, <2>1, <2>2, <2>3 DEF BufferOK, Enqueued
<1>3. CASE q \notin Ranked
  <2>1. s.cnt \in Nat \ {0} /\ Sane(s.cnt, s) /\ s.total < s.cnt
    BY <1>1, <1>3, RingIsSane, BufferType
  <2>2. Sane(s.cnt, tos_ring_q_enqueue(s, x))
    BY <2>1, EnqueueSane
  <2>3. tos_ring_q_enqueue(s, x).cnt = s.cnt
    BY <2>1, <2>2, SaneSound
  <2> QED
    BY <1>3, <2>1, <2>2, <2>3 DEF BufferOK, RingOK, Enqueued
<1> QED
  BY <1>2, <1>3

LEMMA DequeuedOK ==
    ASSUME StoreOK, NEW q \in Waitable, store[q].total # 0
    PROVE  BufferOK(q, Dequeued(q)) /\ FirstItem(q) \in Item
<1> DEFINE s == store[q]
<1>1. BufferOK(q, s) /\ s.total > 0
  BY BufferType DEF StoreOK
<1>2. CASE q \in Ranked
  <2>1. s.cnt \in Nat /\ PrioOK(s.cnt, s)
    BY <1>1, <1>2 DEF BufferOK
  <2>2. PrioOK(s.cnt, tos_prio_q_dequeue(s)) /\ PrioFirst(s) \in Item
    BY <1>1, <2>1, PrioDequeueOK
  <2>3. tos_prio_q_dequeue(s).cnt = s.cnt
    BY <2>1, <2>2, PrioType
  <2> QED
    BY <1>2, <2>1, <2>2, <2>3 DEF BufferOK, Dequeued, FirstItem
<1>3. CASE q \notin Ranked
  <2>1. s.cnt \in Nat \ {0} /\ Sane(s.cnt, s)
    BY <1>1, <1>3, RingIsSane
  <2>2. Sane(s.cnt, tos_ring_q_dequeue(s)) /\ RING_HEAD_ITEM(s) \in Item
    BY <1>1, <2>1, DequeueSane
  <2>3. tos_ring_q_dequeue(s).cnt = s.cnt
    BY <2>1, <2>2, SaneSound
  <2> QED
    BY <1>3, <2>1, <2>2, <2>3 DEF BufferOK, RingOK, Dequeued, FirstItem
<1> QED
  BY <1>2, <1>3

(* One queue gets another buffer.                                          *)
LEMMA StoreChange ==
    ASSUME StoreOK, NEW q \in Waitable, NEW s, BufferOK(q, s),
           store' = [store EXCEPT ![q] = s]
    PROVE  StoreOK' /\ \A p \in Waitable : store'[p] = IF p = q THEN s ELSE store[p]
<1>1. store = [p \in Waitable |-> store[p]]
  BY DEF StoreOK
<1>2. store' = [p \in Waitable |-> IF p = q THEN s ELSE store[p]]
  BY <1>1
<1>3. \A p \in Waitable : store'[p] = IF p = q THEN s ELSE store[p]
  BY <1>2
<1>4. store' = [p \in Waitable |-> store'[p]]
  BY <1>2
<1>5. \A p \in Waitable : BufferOK(p, store'[p])
  BY <1>3 DEF StoreOK
<1> QED
  BY <1>3, <1>4, <1>5 DEF StoreOK, BufferOK, RingOK

----------------------------------------------------------------------------
(* The inductive invariant.                                                *)

SameMsg(t) == msg'[t] = msg[t]

(* Whoever is not told of a post in the step keeps what it has been given. *)
LEMMA MsgKept ==
    ASSUME MsgOK, msg' \in [Task -> Item \cup {NoItem}],
           \A t \in Task : InPendNext(t) =>
              /\ t \in knl'.obj
              /\ knl'.pendState[t] = "POST" =>
                    \/ InPend(t) /\ knl.pendState[t] = "POST" /\ SameMsg(t)
                    \/ msg'[t] \in Item
    PROVE  MsgOK'
  BY DEF MsgOK, SameMsg, InPend, InPendNext

LEMMA SteadyMsg ==
    ASSUME MsgOK, knl.obj \cap Task \subseteq knl'.obj, NEW t \in Task,
           Steady(t) \/ \E st : st # "POST" /\ Ended(t, st), InPendNext(t)
    PROVE  /\ t \in knl'.obj
           /\ knl'.pendState[t] = "POST" => InPend(t) /\ knl.pendState[t] = "POST"
  BY DEF MsgOK, Steady, Ended, Unmoved

LEMMA ElapsesKeeps ==
    ASSUME WaitInv, StoreOK, NoItemWaits, MsgOK, Elapses
    PROVE  WaitInv' /\ StoreOK' /\ NoItemWaits' /\ MsgOK'
<1>1. /\ WaitStep /\ store' = store
      /\ msg' = [t \in Task |-> IF t \in knl'.obj THEN msg[t] ELSE NoItem]
  BY DEF Elapses
<1>2. WaitInv' /\ StoreOK'
  BY <1>1, WaitStepKeeps DEF StoreOK, BufferOK, RingOK
<1>3. NoItemWaits'
  <2>1. \A q \in Waitable : Waiters(knl', q) \subseteq Waiters(knl, q)
    BY <1>1, StepShrinks
  <2> QED
    BY <1>1, <2>1 DEF NoItemWaits
<1>4. ASSUME NEW t \in Task, InPendNext(t)
      PROVE  /\ t \in knl'.obj
             /\ knl'.pendState[t] = "POST" => InPend(t) /\ knl.pendState[t] = "POST"
  <2>1. InPend(t) /\ (knl'.pendState[t] = "POST" => knl.pendState[t] = "POST")
    BY <1>1, <1>4 DEF WaitStep, Woke, Alone, Ended, Steady, Left, Dropped, Unmoved
  <2>2. t \in knl'.obj
    BY <1>1, <1>4, <2>1 DEF WaitStep, MsgOK
  <2> QED
    BY <2>1, <2>2
<1>5. /\ msg' \in [Task -> Item \cup {NoItem}]
      /\ \A t \in Task : t \in knl'.obj => SameMsg(t)
  BY <1>1 DEF MsgOK, SameMsg
<1>6. MsgOK'
  BY <1>4, <1>5, MsgKept
<1> QED
  BY <1>2, <1>3, <1>6

LEMMA QueueStepKeeps ==
    ASSUME WaitInv, StoreOK, NoItemWaits, MsgOK, QueueStep
    PROVE  WaitInv' /\ StoreOK' /\ NoItemWaits' /\ MsgOK'
<1>1. CASE Elapses
  BY <1>1, ElapsesKeeps
<1> DEFINE Alive1 == knl.obj \cap Task \subseteq knl'.obj
           Goal   == WaitInv' /\ StoreOK' /\ NoItemWaits' /\ MsgOK'
<1>2. ASSUME Alive1, NEW q, Empties(q) PROVE Goal
  <2>1. PICK n \in Nat : store' = [store EXCEPT ![q] = Created(q, n)]
    BY <1>2 DEF Empties
  <2>2. \E A : Woke(A, "DESTROY")
    <3>1. (\A t \in Task : Steady(t)) => Woke({}, "DESTROY")
      BY DEF Woke
    <3> QED
      BY <1>2, <3>1 DEF Empties
  <2>3. q \in Waitable /\ msg' = msg
    BY <1>2 DEF Empties
  <2>4. WaitInv' /\ \A p : Waiters(knl', p) \subseteq Waiters(knl, p)
    BY <2>2, WokeKeeps, WaitersShrink
  <2>5. StoreOK' /\ NoItemWaits'
    <3> DEFINE s == Created(q, n)
    <3>1. BufferOK(q, s) /\ s.total = 0
      BY <2>3, CreatedOK
    <3> HIDE DEF s
    <3>2. StoreOK' /\ \A p \in Waitable : store'[p] = IF p = q THEN s ELSE store[p]
      BY <2>1, <2>3, <3>1, StoreChange DEF s
    <3> QED
      BY <2>4, <3>1, <3>2 DEF NoItemWaits
  <2>6. MsgOK'
    BY <1>2, <2>2, <2>3, SteadyMsg, MsgKept DEF Woke, MsgOK, SameMsg
  <2> QED
    BY <2>4, <2>5, <2>6
<1>3. ASSUME Alive1, NEW q, Buffers(q) \/ Takes(q) PROVE Goal
  <2>1. q \in Waitable /\ msg' = msg /\ \A t \in Task : Steady(t)
    BY <1>3 DEF Buffers, Takes
  <2>2. WaitInv' /\ \A p : Waiters(knl', p) \subseteq Waiters(knl, p)
    BY <2>1, AllSteady, WokeKeeps, WaitersShrink
  <2>3. Waiters(knl, q) = {}
    BY <1>3, <2>1, BufferType DEF Buffers, Takes, NoItemWaits, StoreOK
  <2>4. PICK s : BufferOK(q, s) /\ store' = [store EXCEPT ![q] = s]
    BY <1>3, <2>1, EnqueuedOK, DequeuedOK DEF Buffers, Takes
  <2>5. StoreOK' /\ NoItemWaits'
    <3>1. StoreOK' /\ \A p \in Waitable : store'[p] = IF p = q THEN s ELSE store[p]
      BY <2>1, <2>4, StoreChange
    <3> QED
      BY <2>2, <2>3, <3>1 DEF NoItemWaits
  <2>6. MsgOK'
    BY <1>3, <2>1, SteadyMsg, MsgKept DEF MsgOK, SameMsg
  <2> QED
    BY <2>2, <2>5, <2>6
<1>4. ASSUME Alive1, NEW q, NEW t, Blocks(q, t) PROVE Goal
  <2>1. /\ q \in Waitable /\ t \in Task \cap knl.obj /\ store[q].total = 0
        /\ Alone(t) /\ Blocked(t, q) /\ store' = store /\ msg' = msg
    BY <1>4 DEF Blocks
  <2>2. WaitInv' /\ StoreOK'
    BY <2>1, AloneKeeps DEF StoreOK, BufferOK, RingOK
  <2>3. \A p \in Waitable \ {q} : Waiters(knl', p) \subseteq Waiters(knl, p)
    BY <2>1 DEF Alone, Steady, Blocked, Waiters
  <2>4. NoItemWaits'
    BY <2>1, <2>3 DEF NoItemWaits
  <2>5. ASSUME NEW u \in Task, InPendNext(u)
        PROVE  /\ u \in knl'.obj
               /\ knl'.pendState[u] = "POST" => InPend(u) /\ knl.pendState[u] = "POST"
    BY <1>4, <2>1, <2>5, SteadyMsg DEF Alone, Blocked
  <2>6. MsgOK'
    BY <2>1, <2>5, MsgKept DEF MsgOK, SameMsg
  <2> QED
    BY <2>2, <2>4, <2>6
<1>5. ASSUME Alive1, NEW q, NEW A, Hands(q, A) PROVE Goal
  <2>1. /\ q \in Waitable /\ A \subseteq Waiters(knl, q) /\ Woke(A, "POST") /\ store' = store
    BY <1>5 DEF Hands
  <2>2. PICK x \in Item : msg' = [t \in Task |-> IF t \in A THEN x ELSE msg[t]]
    BY <1>5 DEF Hands
  <2>3. WaitInv' /\ \A p : Waiters(knl', p) \subseteq Waiters(knl, p)
    BY <2>1, WokeKeeps, WaitersShrink
  <2>4. StoreOK' /\ NoItemWaits'
    BY <2>1, <2>3 DEF StoreOK, BufferOK, RingOK, NoItemWaits
  <2>5. msg' \in [Task -> Item \cup {NoItem}]
    BY <2>2 DEF MsgOK
  <2>6. ASSUME NEW t \in Task, InPendNext(t)
        PROVE  /\ t \in knl'.obj
               /\ knl'.pendState[t] = "POST" =>
                    \/ InPend(t) /\ knl.pendState[t] = "POST" /\ SameMsg(t)
                    \/ msg'[t] \in Item
    <3>1. CASE t \in A
      BY <1>5, <2>1, <2>2, <2>6, <3>1 DEF Woke, Ended, Unmoved, MsgOK
    <3>2. CASE t \notin A
      BY <1>5, <2>1, <2>2, <2>6, <3>2, SteadyMsg DEF Woke, SameMsg
    <3> QED
      BY <3>1, <3>2
  <2>7. MsgOK'
    BY <2>5, <2>6, MsgKept
  <2> QED
    BY <2>3, <2>4, <2>7
<1>6. ASSUME Alive1, NEW t, Returns(t) PROVE Goal
  <2>1. t \in Task /\ Alone(t) /\ Left(t) /\ store' = store
    BY <1>6 DEF Returns
  <2>2. WaitInv' /\ \A p : Waiters(knl', p) \subseteq Waiters(knl, p)
    BY <2>1, AloneKeeps, WaitersShrink
  <2>3. StoreOK' /\ NoItemWaits'
    BY <2>1, <2>2 DEF StoreOK, BufferOK, RingOK, NoItemWaits
  <2>4. /\ msg' \in [Task -> Item \cup {NoItem}]
        /\ \A u \in Task \ {t} : SameMsg(u)
    BY <1>6 DEF Returns, MsgOK, SameMsg
  <2>5. ASSUME NEW u \in Task, InPendNext(u)
        PROVE  /\ u \in knl'.obj
               /\ knl'.pendState[u] = "POST"
                     => InPend(u) /\ knl.pendState[u] = "POST" /\ SameMsg(u)
    <3>1. u # t
      BY <2>1, <2>5 DEF Left
    <3> QED
      BY <1>6, <2>1, <2>4, <2>5, <3>1, SteadyMsg DEF Alone
  <2>6. MsgOK'
    BY <2>4, <2>5, MsgKept
  <2> QED
    BY <2>2, <2>3, <2>6
<1> QED
  BY <1>1, <1>2, <1>3, <1>4, <1>5, <1>6 DEF QueueStep

LEMMA QueueInitInv == QueueInit => QueueIInv
<1> SUFFICES ASSUME QueueInit PROVE QueueIInv
  OBVIOUS
<1>1. IInv /\ WaitInv
  BY InitInv, InitWait DEF QueueInit
<1>2. store = [q \in Waitable |-> Created(q, 0)]
  BY DEF QueueInit
<1>3. \A q \in Waitable : BufferOK(q, store[q]) /\ store[q].total = 0
  BY <1>2, CreatedOK
<1>4. StoreOK /\ NoItemWaits
  BY <1>2, <1>3 DEF StoreOK, NoItemWaits
<1>5. MsgOK
  BY DEF QueueInit, Init, MsgOK, InPend
<1> QED
  BY <1>1, <1>4, <1>5 DEF QueueIInv

LEMMA QueueNextInv == QueueIInv /\ [QueueNext]_queueVars => QueueIInv'
<1> SUFFICES ASSUME QueueIInv, [QueueNext]_queueVars PROVE QueueIInv'
  OBVIOUS
<1>1. CASE QueueNext
  <2>1. Kept /\ QueueStep
    BY <1>1, QueueNextStep DEF QueueIInv, IInv
  <2>2. WaitInv' /\ StoreOK' /\ NoItemWaits' /\ MsgOK'
    BY <2>1, QueueStepKeeps DEF QueueIInv
  <2> QED
    BY <2>1, <2>2 DEF QueueIInv, IInv, Kept
<1>2. CASE UNCHANGED queueVars
  <2>1. IInv' /\ WaitStep
    <3>1. UNCHANGED vars
      BY <1>2 DEF queueVars, vars
    <3> QED
      BY <3>1, NextInv, NextWait, QuietIsHarmless DEF QueueIInv, IInv, Quiet
  <2>2. WaitInv' /\ StoreOK' /\ NoItemWaits' /\ MsgOK'
    <3>1. WaitInv'
      BY <2>1, WaitStepKeeps DEF QueueIInv
    <3> QED
      BY <1>2, <3>1
      DEF queueVars, QueueIInv, StoreOK, BufferOK, RingOK, NoItemWaits, MsgOK, InPend
  <2> QED
    BY <2>1, <2>2 DEF QueueIInv
<1> QED
  BY <1>1, <1>2

(* The inductive invariant holds in every reachable state.                 *)
THEOREM QueueInvariant == QueueSpec => []QueueIInv
<1> QED
  BY QueueInitInv, QueueNextInv, PTL DEF QueueSpec

(* Nobody waits at a queue that holds an item, whatever flushes, deadlines *)
(* and destructions come in between, and no ring loses count of its items, *)
(* no priority queue a slot or the order of its heap, in any queue of any  *)
(* size.                                                                   *)
THEOREM NoItemIsIdle == QueueSpec => []NoItemIdle
<1>1. ASSUME QueueIInv, NEW q \in Waitable
      PROVE  /\ IF q \in Ranked THEN PrioSound(store[q]) ELSE RingSound(store[q])
             /\ store[q].total > 0 => pend_is_nopending(knl, q)
  <2>1. BufferOK(q, store[q])
    BY <1>1 DEF QueueIInv, StoreOK
  <2>2. ASSUME q \in Ranked PROVE PrioSound(store[q])
    BY <2>1, <2>2, PrioOKSound DEF BufferOK
  <2>3. ASSUME q \notin Ranked, store[q].cnt # 0 PROVE RingSound(store[q])
    <3>1. store[q].cnt \in Nat \ {0} /\ Sane(store[q].cnt, store[q])
      BY <2>1, <2>3 DEF BufferOK, RingOK
    <3> QED
      BY <3>1, SaneSound
  <2>4. ASSUME q \notin Ranked, store[q].cnt = 0 PROVE RingSound(store[q])
    <3>1. store[q] = tos_ring_q_create(0)
      BY <2>1, <2>4 DEF BufferOK, RingOK
    <3>2. RingSound(tos_ring_q_create(0))
      BY DEF RingSound, tos_ring_q_create
    <3> QED
      BY <3>1, <3>2
  <2>5. store[q].total > 0 => pend_is_nopending(knl, q)
    BY <1>1, WaitableObj, NoWaiters DEF QueueIInv, IInv, Safe, NoItemWaits
  <2> QED
    BY <2>2, <2>3, <2>4, <2>5
<1>2. QueueIInv => NoItemIdle
  BY <1>1 DEF NoItemIdle
<1> QED
  BY <1>2, QueueInvariant, PTL

(* The pend list of a queue holds exactly those that wait for an item,     *)
(* best priority first, although priorities change while they wait.        *)
THEOREM QueueListsExact == QueueSpec => []PendListExact
<1>1. QueueIInv => PendListExact
  BY WaitFacts DEF QueueIInv, IInv
<1> QED
  BY <1>1, QueueInvariant, PTL

(* Queues leave the scheduler in order.                                    *)
THEOREM QueueKeepsScheduling ==
    QueueSpec => [](TypeOK /\ ReadyQueueExact /\ TickListExact /\ HighestRuns /\ RunningIsReady)
<1>1. QueueIInv => TypeOK /\ ReadyQueueExact /\ TickListExact /\ HighestRuns /\ RunningIsReady
  BY SafeFacts DEF QueueIInv, IInv
<1> QED
  BY <1>1, QueueInvariant, PTL

----------------------------------------------------------------------------
(* Whom a post reaches.                                                    *)

(* A task waits in the call it waits in, and has no outcome yet.           *)
Apart == \A t \in Task : IsPending(knl, t) => InPend(t) /\ knl.pendState[t] = "NONE"

LEMMA ApartHolds == ASSUME Safe, WaitInv PROVE Apart
  BY DEF Safe, Sound, Waiting, Undecided, WaitInv, Apart

LEMMA HeadIsBest ==
    ASSUME NEW k, Sound(k), NEW o \in Obj, k.pend[o] # << >>, NEW u \in Waiters(k, o)
    PROVE  k.prio[Head(k.pend[o])] <= k.prio[u]
<1> DEFINE s == k.pend[o]
<1>1. s \in Seq(Task) /\ ToSet(s) = Waiters(k, o) /\ SortedBy(s, k.prio)
  BY DEF Sound, KernelType, Waiting, PendExact
<1>2. k.prio \in [Task -> Int]
  BY PrioAssumption DEF Sound, KernelType, Prio
<1> HIDE DEF s
<1>3. PICK j \in 1 .. Len(s) : s[j] = u
  BY <1>1 DEF ToSet
<1>4. Head(s) = s[1] /\ s[1] \in Task /\ 1 \in 1 .. Len(s) /\ DOMAIN s = 1 .. Len(s)
  BY <1>1, <1>3
<1>5. CASE j = 1
  BY <1>2, <1>3, <1>4, <1>5 DEF s
<1>6. CASE 1 < j
  BY <1>1, <1>3, <1>4, <1>6 DEF SortedBy, s
<1> QED
  BY <1>3, <1>5, <1>6

LEMMA HandsBest ==
    ASSUME Sound(knl), Sound(knl'), NEW p, NEW A, Hands(p, A), NEW q \in Waitable,
           NEW t \in Waiters(knl, q), t \in A, NEW u \in Waiters(knl', q)
    PROVE  knl.prio[t] <= knl.prio[u]
<1>1. /\ p \in Waitable /\ A \subseteq Waiters(knl, p) /\ Woke(A, "POST")
      /\ A = Waiters(knl, p) \/ A = {Head(knl.pend[p])}
  BY DEF Hands
<1>2. p = q
  BY <1>1 DEF Waiters
<1>3. u \in Waiters(knl, q)
  BY <1>1, WaitersShrink
<1>4. u \notin A
  BY <1>1 DEF Woke, Ended, Waiters
<1>5. t = Head(knl.pend[q]) /\ knl.pend[q] # << >>
  <2>1. t = Head(knl.pend[q])
    BY <1>1, <1>2, <1>3, <1>4
  <2>2. ~pend_is_nopending(knl, q)
    BY WaitableObj, NoWaiters
  <2> QED
    BY <2>1, <2>2 DEF pend_is_nopending
<1> QED
  BY <1>3, <1>5, WaitableObj, HeadIsBest

(* A step that is not a post tells nobody of one.                          *)
LEMMA PostsOnly ==
    ASSUME Apart, QueueStep, NEW t \in Task, IsPending(knl, t), Handed(t)'
    PROVE  \E q, A : Hands(q, A) /\ t \in A
<1>1. InPendNext(t) /\ knl'.pendState[t] = "POST" /\ knl.pendState[t] = "NONE"
  BY DEF Apart, Handed, InPend, InPendNext
<1>2. ~Steady(t)
  BY <1>1 DEF Steady
<1>3. ASSUME NEW A, NEW st, Woke(A, st) PROVE t \in A /\ st = "POST"
  BY <1>1, <1>2, <1>3 DEF Woke, Ended
<1>4. ASSUME NEW u, Alone(u) PROVE u = t
  BY <1>2, <1>4 DEF Alone
<1>5. ~Elapses
  BY <1>1, <1>3, <1>4 DEF Elapses, WaitStep, Left, Dropped
<1>6. \A q : ~Empties(q) /\ ~Buffers(q) /\ ~Takes(q)
  BY <1>2, <1>3 DEF Empties, Buffers, Takes
<1>7. \A q, u : ~Blocks(q, u)
  BY <1>1, <1>4 DEF Blocks, Blocked
<1>8. \A u : ~Returns(u)
  BY <1>1, <1>4 DEF Returns, Left
<1>9. PICK q, A : Hands(q, A)
  BY <1>5, <1>6, <1>7, <1>8 DEF QueueStep
<1> QED
  BY <1>3, <1>9 DEF Hands

(* A post to one waiter reaches a waiter that no other waiter outranks,    *)
(* even if priorities changed while they waited.                           *)
THEOREM PostAlwaysReachesBest == QueueSpec => PostReachesBest
<1> DEFINE Best1 ==
              \A q \in Waitable : \A t \in ToSet(knl.pend[q]) :
                 Handed(t)' => \A u \in ToSet(knl'.pend[q]) : knl.prio[t] <= knl.prio[u]
<1>1. QueueIInv /\ QueueIInv' /\ [QueueNext]_queueVars => [Best1]_queueVars
  <2> SUFFICES ASSUME QueueIInv, QueueIInv', QueueNext,
                      NEW q \in Waitable, NEW t \in ToSet(knl.pend[q]), Handed(t)',
                      NEW u \in ToSet(knl'.pend[q])
               PROVE  knl.prio[t] <= knl.prio[u]
    OBVIOUS
  <2>1. Sound(knl) /\ Sound(knl') /\ Apart /\ QueueStep
    BY QueueNextStep, ApartHolds DEF QueueIInv, IInv, Safe
  <2>2. t \in Waiters(knl, q) /\ u \in Waiters(knl', q)
    BY <2>1, WaitableObj, NoWaiters
  <2>3. PICK p, A : Hands(p, A) /\ t \in A
    BY <2>1, <2>2, PostsOnly DEF Waiters
  <2> QED
    BY <2>1, <2>2, <2>3, HandsBest
<1> QED
  BY <1>1, QueueInvariant, PTL DEF QueueSpec, PostReachesBest

----------------------------------------------------------------------------
(* The refinement: what each step does to the items a queue keeps, to      *)
(* those who wait and to what they have been handed.                       *)

KeptIn(q, s)   == IF q \in Ranked THEN << >> ELSE RingItems(s)
RankedIn(q, s) == IF q \in Ranked THEN PrioItems(s) ELSE {}

KeptOf   == [q \in Waitable |-> KeptIn(q, store[q])]
RankedOf == [q \in Waitable |-> RankedIn(q, store[q])]
SizeOf   == [q \in Waitable |-> store[q].cnt]
WaitOf   == [q \in Waitable |-> ToSet(knl.pend[q])]
HandOf   == [t \in Task |-> IF Handed(t) THEN msg[t] ELSE NoItem]

SameItems == KeptOf' = KeptOf /\ RankedOf' = RankedOf /\ SizeOf' = SizeOf

LEMMA StoreView ==
    ASSUME StoreOK, NEW q \in Waitable, NEW s, BufferOK(q, s),
           store' = [store EXCEPT ![q] = s]
    PROVE  /\ KeptOf' = [KeptOf EXCEPT ![q] = KeptIn(q, s)]
           /\ RankedOf' = [RankedOf EXCEPT ![q] = RankedIn(q, s)]
           /\ SizeOf' = [SizeOf EXCEPT ![q] = s.cnt]
<1>1. \A p \in Waitable : store'[p] = IF p = q THEN s ELSE store[p]
  BY StoreChange
<1>2. /\ KeptOf' = [p \in Waitable |-> KeptIn(p, store'[p])]
      /\ RankedOf' = [p \in Waitable |-> RankedIn(p, store'[p])]
      /\ SizeOf' = [p \in Waitable |-> store'[p].cnt]
  BY DEF KeptOf, KeptIn, RankedOf, RankedIn, SizeOf
<1>3. ASSUME NEW p \in Waitable
      PROVE  /\ KeptIn(p, store'[p]) = IF p = q THEN KeptIn(q, s) ELSE KeptOf[p]
             /\ RankedIn(p, store'[p]) = IF p = q THEN RankedIn(q, s) ELSE RankedOf[p]
             /\ store'[p].cnt = IF p = q THEN s.cnt ELSE SizeOf[p]
  <2>1. CASE p = q
    BY <1>1, <2>1
  <2>2. CASE p # q
    BY <1>1, <2>2 DEF KeptOf, RankedOf, SizeOf
  <2> QED
    BY <2>1, <2>2
<1>4. /\ KeptOf = [p \in Waitable |-> KeptOf[p]]
      /\ RankedOf = [p \in Waitable |-> RankedOf[p]]
      /\ SizeOf = [p \in Waitable |-> SizeOf[p]]
  BY DEF KeptOf, RankedOf, SizeOf
<1> QED
  BY <1>2, <1>3, <1>4

LEMMA SameView == ASSUME store' = store PROVE SameItems
  BY DEF SameItems, KeptOf, RankedOf, SizeOf, KeptIn, RankedIn

LEMMA EmptyView ==
    ASSUME NEW q \in Waitable, NEW s, BufferOK(q, s), s.total = 0
    PROVE  KeptIn(q, s) = << >> /\ RankedIn(q, s) = {}
<1>1. RingItems(s) = << >>
  BY DEF RingItems
<1>2. ASSUME q \in Ranked PROVE PrioItems(s) = {}
  <2>1. s.heap \in Seq(Entry) /\ Len(s.heap) = 0
    BY <1>2 DEF BufferOK, PrioOK
  <2>2. DOMAIN s.heap = {}
    BY <2>1
  <2> QED
    BY <2>2 DEF PrioItems
<1> QED
  BY <1>1, <1>2 DEF KeptIn, RankedIn

LEMMA WaitOfIs ==
    ASSUME Sound(knl)
    PROVE  /\ WaitOf = [q \in Waitable |-> Waiters(knl, q)]
           /\ \A q \in Waitable : WaitOf[q] = Waiters(knl, q)
  BY NoWaiters, WaitableObj DEF WaitOf

LEMMA WaitOfNext ==
    ASSUME Sound(knl')
    PROVE  WaitOf' = [q \in Waitable |-> Waiters(knl', q)]
  BY NoWaiters, WaitableObj DEF WaitOf

LEMMA HandOfNext ==
    HandOf' = [t \in Task |-> IF InPendNext(t) /\ knl'.pendState[t] = "POST"
                              THEN msg'[t] ELSE NoItem]
  BY DEF HandOf, Handed, InPend, InPendNext

LEMMA SteadyView ==
    ASSUME \A t \in Task : Steady(t), msg' = msg, Sound(knl), Sound(knl')
    PROVE  WaitOf' = WaitOf /\ HandOf' = HandOf
<1>1. \A q \in Waitable : Waiters(knl', q) = Waiters(knl, q)
  BY DEF Steady, Waiters
<1>2. WaitOf' = WaitOf
  BY <1>1, WaitOfIs, WaitOfNext
<1>3. HandOf' = HandOf
  BY HandOfNext DEF HandOf, Handed, Steady, Unmoved
<1> QED
  BY <1>2, <1>3

(* Waits end without an item.                                              *)
LEMMA GiveUpView ==
    ASSUME NEW A \in SUBSET Task, NEW st, Woke(A, st), st # "POST", Apart,
           Sound(knl), Sound(knl'),
           \A t \in Task : InPendNext(t) => msg'[t] = msg[t]
    PROVE  WaitOf' = [q \in Waitable |-> WaitOf[q] \ A] /\ HandOf' = HandOf
<1>1. ASSUME NEW q \in Waitable PROVE Waiters(knl', q) = Waiters(knl, q) \ A
  BY DEF Waiters, Woke, Ended, Steady
<1>2. WaitOf' = [q \in Waitable |-> WaitOf[q] \ A]
  BY <1>1, WaitOfIs, WaitOfNext
<1>3. ASSUME NEW t \in Task
      PROVE  /\ InPendNext(t) /\ knl'.pendState[t] = "POST" <=> Handed(t)
             /\ Handed(t) => msg'[t] = msg[t]
  BY DEF Handed, Woke, Ended, Steady, Apart, Unmoved
<1>4. HandOf' = HandOf
  BY <1>3, HandOfNext DEF HandOf
<1> QED
  BY <1>2, <1>4

(* One task leaves its call or is suspended in it.                         *)
LEMMA LeaveView ==
    ASSUME NEW t \in Task, Alone(t), Left(t) \/ Dropped(t), Apart,
           Sound(knl), Sound(knl'),
           \A u \in Task : InPendNext(u) => msg'[u] = msg[u]
    PROVE  /\ WaitOf' = [q \in Waitable |-> WaitOf[q] \ {t}]
           /\ HandOf' = HandOf \/ (WaitOf' = WaitOf /\ HandOf' = [HandOf EXCEPT ![t] = NoItem])
<1>1. ASSUME NEW q \in Waitable PROVE Waiters(knl', q) = Waiters(knl, q) \ {t}
  BY DEF Waiters, Alone, Left, Dropped, Steady
<1>2. WaitOf' = [q \in Waitable |-> WaitOf[q] \ {t}]
  BY <1>1, WaitOfIs, WaitOfNext
<1>3. ASSUME NEW u \in Task \ {t}
      PROVE  /\ InPendNext(u) /\ knl'.pendState[u] = "POST" <=> Handed(u)
             /\ Handed(u) => msg'[u] = msg[u]
  BY DEF Handed, Alone, Steady, Unmoved
<1>4. CASE Dropped(t) \/ IsPending(knl, t)
  <2>1. /\ InPendNext(t) /\ knl'.pendState[t] = "POST" <=> Handed(t)
        /\ Handed(t) => msg'[t] = msg[t]
    BY <1>4 DEF Handed, Left, Dropped, Apart, Unmoved
  <2>2. HandOf' = HandOf
    BY <1>3, <2>1, HandOfNext DEF HandOf
  <2> QED
    BY <1>2, <2>2
<1>5. CASE Left(t) /\ ~IsPending(knl, t)
  <2>1. HandOf' = [HandOf EXCEPT ![t] = NoItem]
    BY <1>3, <1>5, HandOfNext DEF HandOf, Left
  <2>2. \A q \in Waitable : Waiters(knl', q) = Waiters(knl, q)
    BY <1>1, <1>5 DEF Waiters
  <2>3. WaitOf' = WaitOf
    BY <2>2, WaitOfIs, WaitOfNext
  <2> QED
    BY <1>2, <2>1, <2>3
<1> QED
  BY <1>4, <1>5

LEMMA QueueOneLucky == ASSUME NEW t PROVE Abs!Cardinality({t}) = 1
<1>1. Abs!Cardinality({t}) = Cardinality({t})
  BY DEF Cardinality, Abs!Cardinality
<1> QED
  BY <1>1, FS_Singleton

LEMMA EmptiesView ==
    ASSUME StoreOK, Apart, NEW q, Empties(q), Sound(knl), Sound(knl')
    PROVE  Abs!Clear(q)
<1>1. q \in Waitable /\ msg' = msg /\ out' = NoItem
  BY DEF Empties
<1>2. PICK n \in Nat : store' = [store EXCEPT ![q] = Created(q, n)]
  BY DEF Empties
<1>3. BufferOK(q, Created(q, n)) /\ Created(q, n).total = 0 /\ Created(q, n).cnt \in Nat
  BY <1>1, CreatedOK, BufferType
<1>4. KeptIn(q, Created(q, n)) = << >> /\ RankedIn(q, Created(q, n)) = {}
  BY <1>1, <1>3, EmptyView
<1>5. /\ KeptOf' = [KeptOf EXCEPT ![q] = << >>]
      /\ RankedOf' = [RankedOf EXCEPT ![q] = {}]
      /\ SizeOf' = [SizeOf EXCEPT ![q] = SizeOf'[q]] /\ SizeOf'[q] \in Nat
  <2> DEFINE s == Created(q, n)
  <2> HIDE DEF s
  <2>1. /\ KeptOf' = [KeptOf EXCEPT ![q] = KeptIn(q, s)]
        /\ RankedOf' = [RankedOf EXCEPT ![q] = RankedIn(q, s)]
        /\ SizeOf' = [SizeOf EXCEPT ![q] = s.cnt]
    BY <1>1, <1>2, <1>3, StoreView DEF s
  <2>2. SizeOf'[q] = s.cnt
    BY <1>1, <2>1 DEF SizeOf
  <2> QED
    BY <1>3, <1>4, <2>1, <2>2 DEF s
<1>6. WaitOf' \in {WaitOf, [WaitOf EXCEPT ![q] = {}]} /\ HandOf' = HandOf
  <2>1. CASE \A t \in Task : Steady(t)
    BY <1>1, <2>1, SteadyView
  <2>2. CASE Woke(Waiters(knl, q), "DESTROY")
    <3> DEFINE A == Waiters(knl, q)
    <3>1. A \in SUBSET Task
      BY DEF Waiters
    <3>2. WaitOf' = [p \in Waitable |-> WaitOf[p] \ A] /\ HandOf' = HandOf
      BY <1>1, <2>2, <3>1, GiveUpView
    <3>3. \A p \in Waitable : WaitOf[p] \ A = IF p = q THEN {} ELSE WaitOf[p]
      <4>1. \A p \in Waitable : WaitOf[p] = Waiters(knl, p)
        BY WaitOfIs
      <4> QED
        BY <4>1 DEF Waiters
    <3> HIDE DEF A
    <3>4. WaitOf' = [WaitOf EXCEPT ![q] = {}]
      BY <3>2, <3>3 DEF WaitOf
    <3> QED
      BY <3>2, <3>4
  <2> QED
    BY <2>1, <2>2 DEF Empties
<1> QED
  BY <1>1, <1>5, <1>6
  DEF KeptOf, RankedOf, KeptIn, RankedIn, SizeOf, WaitOf, HandOf, Abs!Clear

(* A queue that does not rank what it keeps keeps it in order of age.      *)
LEMMA RingTail ==
    ASSUME NEW size \in Nat \ {0}, NEW r, Sane(size, r), r.total > 0
    PROVE  /\ RingItems(r) # << >> /\ RING_HEAD_ITEM(r) = Head(RingItems(r))
           /\ RingItems(tos_ring_q_dequeue(r)) = Tail(RingItems(r))
<1> DEFINE d == tos_ring_q_dequeue(r)
           a == RingItems(r)
           b == RingItems(d)
           n == r.total
<1>1. Sane(size, d) /\ d.total = n - 1 /\ RING_HEAD_ITEM(r) = a[1]
      /\ \A i \in 1 .. d.total : b[i] = a[i + 1]
  BY DequeueSane
<1>2. a \in Seq(Item) /\ Len(a) = n /\ n \in Nat
  <2>1. n \in Nat
    BY DEF Sane
  <2> HIDE DEF a, n
  <2> QED
    BY <2>1, ItemsList DEF a, n
<1>3. b \in Seq(Item) /\ Len(b) = d.total
  BY <1>1, ItemsList
<1> HIDE DEF a, b, d, n
<1>4. n > 0
  BY DEF n
<1>5. /\ a # << >> /\ Head(a) = a[1] /\ Tail(a) \in Seq(Item) /\ Len(Tail(a)) = n - 1
      /\ \A i \in 1 .. n - 1 : Tail(a)[i] = a[i + 1]
  BY <1>2, <1>4, HeadTailProperties
<1>6. b = Tail(a)
  BY <1>1, <1>3, <1>5, SeqEqual
<1> QED
  BY <1>1, <1>5, <1>6 DEF a, b, d

LEMMA BuffersView ==
    ASSUME StoreOK, NEW q, Buffers(q), Sound(knl), Sound(knl')
    PROVE  Abs!Keep(q) \/ Abs!Rank(q)
<1> DEFINE s == store[q]
<1>1. /\ q \in Waitable /\ Waiters(knl, q) = {} /\ s.total # s.cnt
      /\ msg' = msg /\ out' = NoItem /\ BufferOK(q, s)
  BY DEF Buffers, StoreOK
<1>2. WaitOf' = WaitOf /\ HandOf' = HandOf /\ WaitOf[q] = {}
  BY <1>1, SteadyView, WaitOfIs DEF Buffers
<1>3. PICK x \in Item, prio \in MsgPrios \cup {0} :
         /\ q \in Ranked => prio \in MsgPrios
         /\ store' = [store EXCEPT ![q] = Enqueued(q, x, prio)]
  BY DEF Buffers
<1> DEFINE e == Enqueued(q, x, prio)
<1>4. BufferOK(q, e)
  BY <1>1, <1>3, EnqueuedOK
<1>5. /\ KeptOf' = [KeptOf EXCEPT ![q] = KeptIn(q, e)]
      /\ RankedOf' = [RankedOf EXCEPT ![q] = RankedIn(q, e)]
      /\ SizeOf' = [SizeOf EXCEPT ![q] = e.cnt]
  <2> HIDE DEF e
  <2> QED
    BY <1>1, <1>3, <1>4, StoreView DEF e
<1>6. SizeOf[q] = s.cnt /\ KeptOf[q] = KeptIn(q, s) /\ RankedOf[q] = RankedIn(q, s)
  BY <1>1 DEF SizeOf, KeptOf, RankedOf
<1>7. CASE q \in Ranked
  <2>1. s.cnt \in Nat /\ PrioOK(s.cnt, s) /\ prio \in Nat /\ e = tos_prio_q_enqueue(s, x, prio)
    BY <1>1, <1>3, <1>7, QueueAssumption DEF BufferOK, Enqueued
  <2> DEFINE n == Head(s.free)
             f == [place |-> n, rank |-> prio, item |-> x]
  <2>2. /\ n \in 0 .. s.cnt - 1 /\ \A i \in PrioItems(s) : i.place # n
        /\ PrioItems(e) = PrioItems(s) \cup {f}
    BY <1>1, <2>1, EnqueueItems
  <2>3. e.cnt = s.cnt
    <3>1. PrioOK(s.cnt, tos_prio_q_enqueue(s, x, prio))
      BY <1>1, <2>1, PrioEnqueueOK
    <3>2. PrioOK(s.cnt, e)
      BY <2>1, <3>1
    <3> HIDE DEF e, s
    <3> QED
      BY <2>1, <3>2, PrioType
  <2> HIDE DEF e, n, f, s
  <2>4. SizeOf' = SizeOf /\ KeptOf' = KeptOf
    BY <1>1, <1>5, <1>6, <1>7, <2>3 DEF SizeOf, KeptOf, KeptIn
  <2>5. RankedOf' = [RankedOf EXCEPT ![q] = @ \cup {f}] /\ KeptOf[q] = << >>
    BY <1>1, <1>5, <1>6, <1>7, <2>2 DEF RankedOf, RankedIn, KeptIn
  <2>6. n \in 0 .. SizeOf[q] - 1 /\ \A i \in RankedOf[q] : i.place # n
    BY <1>6, <1>7, <2>2 DEF RankedIn
  <2>7. /\ f = [place |-> n, rank |-> prio, item |-> x] /\ prio \in MsgPrios
        /\ WaitOf' = WaitOf /\ HandOf' = HandOf /\ WaitOf[q] = {} /\ out' = NoItem
    BY <1>1, <1>2, <1>3, <1>7 DEF f
  <2>8. \E k \in 0 .. SizeOf[q] - 1, r \in MsgPrios, y \in Item :
           /\ \A i \in RankedOf[q] : i.place # k
           /\ RankedOf' = [RankedOf EXCEPT ![q] = @ \cup {[place |-> k, rank |-> r, item |-> y]}]
    <3> HIDE DEF KeptOf, RankedOf, SizeOf, WaitOf, HandOf
    <3> QED
      BY <2>5, <2>6, <2>7
  <2>9. Abs!Rank(q)
    BY <2>4, <2>5, <2>7, <2>8
    DEF KeptOf, RankedOf, KeptIn, RankedIn, SizeOf, WaitOf, HandOf, Abs!Rank
  <2> QED
    BY <2>9
<1>8. CASE q \notin Ranked
  <2>1. s.cnt \in Nat \ {0} /\ Sane(s.cnt, s) /\ s.total < s.cnt /\ e = tos_ring_q_enqueue(s, x)
    BY <1>1, <1>8, RingIsSane, BufferType DEF Enqueued
  <2>2. Sane(s.cnt, e) /\ RingItems(e) = Append(RingItems(s), x)
    BY <2>1, EnqueueSane
  <2>3. e.cnt = s.cnt
    BY <2>1, <2>2, SaneSound
  <2>4. Len(RingItems(s)) = s.total
    BY <2>1, ItemsList
  <2> HIDE DEF e, s
  <2>5. SizeOf' = SizeOf /\ RankedOf' = RankedOf
    <3>1. RankedIn(q, e) = {} /\ RankedIn(q, s) = {}
      BY <1>8 DEF RankedIn
    <3>2. RankedOf' = RankedOf
      BY <1>1, <1>5, <1>6, <3>1 DEF RankedOf
    <3>3. SizeOf' = SizeOf
      BY <1>1, <1>5, <1>6, <2>3 DEF SizeOf
    <3> QED
      BY <3>2, <3>3
  <2>6. KeptOf' = [KeptOf EXCEPT ![q] = Append(@, x)] /\ RankedOf[q] = {}
    BY <1>1, <1>5, <1>6, <1>8, <2>2 DEF KeptOf, RankedIn, KeptIn
  <2>7. Len(KeptOf[q]) < SizeOf[q]
    BY <1>6, <1>8, <2>1, <2>4 DEF KeptIn
  <2>8. Abs!Keep(q)
    <3>1. \E y \in Item : KeptOf' = [KeptOf EXCEPT ![q] = Append(@, y)]
      BY <2>6
    <3>2. WaitOf' = WaitOf /\ HandOf' = HandOf /\ WaitOf[q] = {} /\ out' = NoItem
      BY <1>1, <1>2
    <3> QED
      BY <2>5, <2>6, <2>7, <3>1, <3>2
      DEF KeptOf, RankedOf, KeptIn, RankedIn, SizeOf, WaitOf, HandOf, Abs!Keep
  <2> QED
    BY <2>8
<1> QED
  BY <1>7, <1>8

LEMMA TakesView ==
    ASSUME StoreOK, NEW q, Takes(q), Sound(knl), Sound(knl')
    PROVE  Abs!Take(q) \/ Abs!TakeBest(q)
<1> DEFINE s == store[q]
           d == Dequeued(q)
<1>1. /\ q \in Waitable /\ s.total # 0 /\ msg' = msg /\ out' = FirstItem(q)
      /\ store' = [store EXCEPT ![q] = d] /\ BufferOK(q, s) /\ BufferOK(q, d) /\ s.total > 0
  BY DequeuedOK, BufferType DEF Takes, StoreOK
<1>2. WaitOf' = WaitOf /\ HandOf' = HandOf
  BY <1>1, SteadyView DEF Takes
<1>3. /\ KeptOf' = [KeptOf EXCEPT ![q] = KeptIn(q, d)]
      /\ RankedOf' = [RankedOf EXCEPT ![q] = RankedIn(q, d)]
      /\ SizeOf' = [SizeOf EXCEPT ![q] = d.cnt]
  <2> HIDE DEF d
  <2> QED
    BY <1>1, StoreView
<1>4. SizeOf[q] = s.cnt /\ KeptOf[q] = KeptIn(q, s) /\ RankedOf[q] = RankedIn(q, s)
  BY <1>1 DEF SizeOf, KeptOf, RankedOf
<1>5. CASE q \in Ranked
  <2>1. s.cnt \in Nat /\ PrioOK(s.cnt, s) /\ d = tos_prio_q_dequeue(s) /\ out' = PrioFirst(s)
    BY <1>1, <1>5 DEF BufferOK, Dequeued, FirstItem
  <2>2. d.cnt = s.cnt
    <3>1. PrioOK(s.cnt, tos_prio_q_dequeue(s))
      BY <1>1, <2>1, PrioDequeueOK
    <3>2. PrioOK(s.cnt, d)
      BY <2>1, <3>1
    <3> HIDE DEF d, s
    <3> QED
      BY <2>1, <3>2, PrioType
  <2>3. PICK e \in PrioItems(s) : /\ \A f \in PrioItems(s) : e.rank <= f.rank
                                  /\ e.item = PrioFirst(s)
                                  /\ PrioItems(tos_prio_q_dequeue(s)) = PrioItems(s) \ {e}
    BY <1>1, <2>1, DequeueItems
  <2>4. /\ RankedIn(q, d) = RankedIn(q, s) \ {e} /\ RankedIn(q, s) = PrioItems(s)
        /\ KeptIn(q, d) = KeptIn(q, s)
    BY <1>5, <2>1, <2>3 DEF RankedIn, KeptIn
  <2> HIDE DEF d, s
  <2>5. KeptOf' = KeptOf
    BY <1>1, <1>3, <1>4, <2>4 DEF KeptOf
  <2>6. SizeOf' = SizeOf
    BY <1>1, <1>3, <1>4, <2>2 DEF SizeOf
  <2>7. RankedOf' = [RankedOf EXCEPT ![q] = @ \ {e}]
    BY <1>1, <1>3, <1>4, <2>4 DEF RankedOf
  <2>8. /\ e \in RankedOf[q] /\ \A f \in RankedOf[q] : e.rank <= f.rank /\ out' = e.item
    BY <1>4, <2>1, <2>3, <2>4
  <2>9. Abs!TakeBest(q)
    BY <1>1, <1>2, <2>3, <2>5, <2>6, <2>7, <2>8
    DEF KeptOf, RankedOf, KeptIn, RankedIn, SizeOf, WaitOf, HandOf, Abs!TakeBest
  <2> QED
    BY <2>9
<1>6. CASE q \notin Ranked
  <2>1. /\ s.cnt \in Nat \ {0} /\ Sane(s.cnt, s) /\ d = tos_ring_q_dequeue(s)
        /\ out' = RING_HEAD_ITEM(s)
    BY <1>1, <1>6, RingIsSane DEF Dequeued, FirstItem
  <2>2. /\ Sane(s.cnt, d) /\ RingItems(s) # << >>
        /\ out' = Head(RingItems(s)) /\ RingItems(d) = Tail(RingItems(s))
    <3>1. Sane(s.cnt, tos_ring_q_dequeue(s))
      BY <1>1, <2>1, DequeueSane
    <3> QED
      BY <1>1, <2>1, <3>1, RingTail
  <2>3. d.cnt = s.cnt
    BY <2>1, <2>2, SaneSound
  <2>4. /\ KeptIn(q, d) = Tail(KeptIn(q, s)) /\ KeptIn(q, s) = RingItems(s)
        /\ RankedIn(q, d) = RankedIn(q, s)
    BY <1>6, <2>2 DEF KeptIn, RankedIn
  <2> HIDE DEF d, s
  <2>5. RankedOf' = RankedOf
    BY <1>1, <1>3, <1>4, <2>4 DEF RankedOf
  <2>6. SizeOf' = SizeOf
    BY <1>1, <1>3, <1>4, <2>3 DEF SizeOf
  <2>7. KeptOf' = [KeptOf EXCEPT ![q] = Tail(@)]
    BY <1>1, <1>3, <1>4, <2>4 DEF KeptOf
  <2>8. KeptOf[q] # << >> /\ out' = Head(KeptOf[q])
    BY <1>4, <2>2, <2>4
  <2>9. Abs!Take(q)
    BY <1>1, <1>2, <2>5, <2>6, <2>7, <2>8
    DEF KeptOf, RankedOf, KeptIn, RankedIn, SizeOf, WaitOf, HandOf, Abs!Take
  <2> QED
    BY <2>9
<1> QED
  BY <1>5, <1>6

LEMMA BlocksView ==
    ASSUME StoreOK, Apart, NEW q, NEW t, Blocks(q, t), Sound(knl), Sound(knl')
    PROVE  Abs!Wait(q, t)
<1>1. /\ q \in Waitable /\ t \in Task /\ store[q].total = 0
      /\ ~InPend(t) /\ ~IsPending(knl, t) /\ Alone(t) /\ Blocked(t, q)
      /\ store' = store /\ msg' = msg /\ out' = NoItem
  BY DEF Blocks
<1>2. ASSUME NEW p \in Waitable
      PROVE  Waiters(knl', p) = IF p = q THEN Waiters(knl, p) \cup {t} ELSE Waiters(knl, p)
  BY <1>1 DEF Waiters, Alone, Blocked, Steady
<1>3. WaitOf' = [WaitOf EXCEPT ![q] = @ \cup {t}]
  BY <1>2, WaitOfIs, WaitOfNext
<1>4. ASSUME NEW u \in Task
      PROVE  InPendNext(u) /\ knl'.pendState[u] = "POST" <=> Handed(u)
  BY <1>1 DEF Handed, Alone, Blocked, Steady, Unmoved
<1>5. HandOf' = HandOf /\ HandOf[t] = NoItem
  BY <1>1, <1>4, HandOfNext DEF HandOf, Handed
<1>6. \A p \in Waitable : t \notin WaitOf[p]
  BY <1>1, WaitOfIs DEF Waiters
<1>7. KeptOf[q] = << >> /\ RankedOf[q] = {} /\ SameItems
  BY <1>1, EmptyView, SameView DEF StoreOK, KeptOf, RankedOf
<1> QED
  BY <1>1, <1>3, <1>5, <1>6, <1>7
  DEF SameItems, KeptOf, RankedOf, KeptIn, RankedIn, SizeOf, WaitOf, HandOf, Abs!Wait, Abs!IsEmpty

LEMMA HandsView ==
    ASSUME Apart, NEW q, NEW A, Hands(q, A), Sound(knl), Sound(knl')
    PROVE  Abs!HandOver(q, A)
<1>1. /\ q \in Waitable /\ A # {} /\ A \subseteq Waiters(knl, q)
      /\ A = Waiters(knl, q) \/ \E t : A = {t}
      /\ Woke(A, "POST") /\ store' = store /\ out' = NoItem
  BY DEF Hands
<1>2. PICK x \in Item : msg' = [t \in Task |-> IF t \in A THEN x ELSE msg[t]]
  BY DEF Hands
<1>3. \A t \in A : t \in Task /\ IsPending(knl, t) /\ knl.pendingObj[t] = q
  BY <1>1 DEF Waiters
<1>4. ASSUME NEW p \in Waitable
      PROVE  Waiters(knl', p) = IF p = q THEN Waiters(knl, p) \ A ELSE Waiters(knl, p)
  BY <1>1, <1>3 DEF Waiters, Woke, Ended, Steady
<1>5. WaitOf' = [WaitOf EXCEPT ![q] = @ \ A]
  BY <1>4, WaitOfIs, WaitOfNext
<1>6. ASSUME NEW t \in Task
      PROVE  IF t \in A THEN InPendNext(t) /\ knl'.pendState[t] = "POST"
             ELSE (InPendNext(t) /\ knl'.pendState[t] = "POST" <=> Handed(t))
  BY <1>1, <1>3 DEF Handed, Woke, Ended, Steady, Apart, Unmoved
<1>7. HandOf' = [t \in Task |-> IF t \in A THEN x ELSE HandOf[t]]
  BY <1>2, <1>6, HandOfNext DEF HandOf
<1>8. A \subseteq WaitOf[q] /\ (Abs!Cardinality(A) = 1 \/ A = WaitOf[q]) /\ SameItems
  BY <1>1, WaitOfIs, QueueOneLucky, SameView
<1>9. /\ A # {} /\ A \subseteq WaitOf[q] /\ (Abs!Cardinality(A) = 1 \/ A = WaitOf[q])
      /\ WaitOf' = [WaitOf EXCEPT ![q] = @ \ A]
      /\ x \in Item /\ HandOf' = [t \in Task |-> IF t \in A THEN x ELSE HandOf[t]]
      /\ SameItems /\ out' = NoItem
  BY <1>1, <1>2, <1>5, <1>7, <1>8
<1> QED
  BY <1>9
  DEF SameItems, KeptOf, RankedOf, KeptIn, RankedIn, SizeOf, WaitOf, HandOf, Abs!HandOver

LEMMA ReturnsView ==
    ASSUME MsgOK, Apart, NEW t, Returns(t), Sound(knl), Sound(knl')
    PROVE  Abs!PickUp(t) \/ Abs!GiveUp({})
<1>1. /\ t \in Task /\ InPend(t) /\ ~IsPending(knl, t) /\ Alone(t) /\ Left(t)
      /\ store' = store /\ SameItems
  BY SameView DEF Returns
<1>2. \A q \in Waitable : Waiters(knl', q) = Waiters(knl, q)
  BY <1>1 DEF Waiters, Alone, Left, Steady
<1>3. WaitOf' = WaitOf
  BY <1>2, WaitOfIs, WaitOfNext
<1>4. ASSUME NEW u \in Task \ {t}
      PROVE  (InPendNext(u) /\ knl'.pendState[u] = "POST" <=> Handed(u)) /\ msg'[u] = msg[u]
  BY <1>1 DEF Handed, Alone, Steady, Unmoved, Returns, MsgOK
<1>5. HandOf' = [HandOf EXCEPT ![t] = NoItem]
  BY <1>1, <1>4, HandOfNext DEF HandOf, Left
<1>6. CASE knl.pendState[t] = "POST"
  <2>1. HandOf[t] = msg[t] /\ msg[t] # NoItem /\ out' = msg[t]
    BY <1>1, <1>6, ItemAssumption DEF HandOf, Handed, Returns, MsgOK
  <2>2. Abs!PickUp(t)
    BY <1>1, <1>3, <1>5, <2>1
    DEF SameItems, KeptOf, RankedOf, KeptIn, RankedIn, SizeOf, WaitOf, HandOf, Abs!PickUp
  <2> QED
    BY <2>2
<1>7. CASE knl.pendState[t] # "POST"
  <2>1. HandOf' = HandOf /\ out' = NoItem
    BY <1>1, <1>5, <1>7 DEF HandOf, Handed, Returns
  <2>2. WaitOf' = [q \in Waitable |-> WaitOf[q] \ {}]
    BY <1>3 DEF WaitOf
  <2>3. Abs!GiveUp({})
    BY <1>1, <2>1, <2>2
    DEF SameItems, KeptOf, RankedOf, KeptIn, RankedIn, SizeOf, WaitOf, HandOf, Abs!GiveUp
  <2> QED
    BY <2>3
<1> QED
  BY <1>6, <1>7

LEMMA ElapsesView ==
    ASSUME MsgOK', Apart, Elapses, Sound(knl), Sound(knl')
    PROVE  (\E A \in SUBSET Task : Abs!GiveUp(A)) \/ (\E t \in Task : Abs!Die(t))
<1>1. /\ WaitStep /\ out' = NoItem /\ SameItems
      /\ msg' = [t \in Task |-> IF t \in knl'.obj THEN msg[t] ELSE NoItem]
  BY SameView DEF Elapses
<1>2. \A t \in Task : InPendNext(t) => msg'[t] = msg[t]
  BY <1>1 DEF MsgOK, InPend, InPendNext
<1>3. ASSUME NEW A \in SUBSET Task, WaitOf' = [q \in Waitable |-> WaitOf[q] \ A],
             HandOf' = HandOf
      PROVE  Abs!GiveUp(A)
  BY <1>1, <1>3
  DEF SameItems, KeptOf, RankedOf, KeptIn, RankedIn, SizeOf, WaitOf, HandOf, Abs!GiveUp
<1>4. ASSUME NEW t \in Task, WaitOf' = WaitOf, HandOf' = [HandOf EXCEPT ![t] = NoItem]
      PROVE  Abs!Die(t)
  BY <1>1, <1>4
  DEF SameItems, KeptOf, RankedOf, KeptIn, RankedIn, SizeOf, WaitOf, HandOf, Abs!Die
<1>5. ASSUME NEW A \in SUBSET Sleepers(knl), Woke(A, "TIMEOUT")
      PROVE  \E B \in SUBSET Task : Abs!GiveUp(B)
  <2>1. A \in SUBSET Task
    BY DEF Sleepers
  <2>2. WaitOf' = [q \in Waitable |-> WaitOf[q] \ A] /\ HandOf' = HandOf
    BY <1>2, <1>5, <2>1, GiveUpView
  <2> QED
    BY <1>3, <2>1, <2>2
<1>6. ASSUME NEW t \in Task, Alone(t), Left(t) \/ Dropped(t)
      PROVE  Abs!GiveUp({t}) \/ Abs!Die(t)
  BY <1>2, <1>3, <1>4, <1>6, LeaveView
<1>7. \/ \E A \in SUBSET Sleepers(knl) : Woke(A, "TIMEOUT")
      \/ \E t \in Task : Alone(t) /\ (Left(t) \/ Dropped(t))
  BY <1>1 DEF WaitStep
<1> QED
  BY <1>5, <1>6, <1>7

(* Every step is a step of the abstract queues.                            *)
LEMMA QueueStepView ==
    ASSUME StoreOK, MsgOK, MsgOK', Apart, Sound(knl), Sound(knl'), QueueStep
    PROVE  Abs!AbsNext
<1>1. CASE Elapses
  BY <1>1, ElapsesView DEF Abs!AbsNext
<1>2. ASSUME NEW q, Empties(q) PROVE Abs!AbsNext
  BY <1>2, EmptiesView DEF Empties, Abs!AbsNext
<1>3. ASSUME NEW q, Buffers(q) PROVE Abs!AbsNext
  BY <1>3, BuffersView DEF Buffers, Abs!AbsNext
<1>4. ASSUME NEW q, Takes(q) PROVE Abs!AbsNext
  BY <1>4, TakesView DEF Takes, Abs!AbsNext
<1>5. ASSUME NEW q, NEW t, Blocks(q, t) PROVE Abs!AbsNext
  BY <1>5, BlocksView DEF Blocks, Abs!AbsNext
<1>6. ASSUME NEW q, NEW A, Hands(q, A) PROVE Abs!AbsNext
  <2>1. q \in Waitable /\ A \in SUBSET Task
    BY <1>6 DEF Hands, Waiters
  <2> QED
    BY <1>6, <2>1, HandsView DEF Abs!AbsNext
<1>7. ASSUME NEW t, Returns(t) PROVE Abs!AbsNext
  BY <1>7, ReturnsView DEF Returns, Abs!AbsNext
<1> QED
  BY <1>1, <1>2, <1>3, <1>4, <1>5, <1>6, <1>7 DEF QueueStep

LEMMA QueueInitView == QueueInit => Abs!AbsInit
<1> SUFFICES ASSUME QueueInit PROVE Abs!AbsInit
  OBVIOUS
<1>1. ASSUME NEW q \in Waitable
      PROVE  /\ ToSet(knl.pend[q]) = {} /\ store[q].cnt = 0
             /\ KeptIn(q, store[q]) = << >> /\ RankedIn(q, store[q]) = {}
  <2>1. store[q] = Created(q, 0) /\ knl.pend[q] = << >>
    BY WaitableObj DEF QueueInit, Init, BootKernel
  <2>2. BufferOK(q, Created(q, 0)) /\ Created(q, 0).total = 0 /\ Created(q, 0).cnt = 0
    BY CreatedOK DEF Created, tos_prio_q_create, tos_ring_q_create
  <2> QED
    BY <2>1, <2>2, EmptyView DEF ToSet
<1>2. \A t \in Task : ~Handed(t)
  BY DEF QueueInit, Init, Handed, InPend
<1> QED
  BY <1>1, <1>2 DEF QueueInit, KeptIn, RankedIn, Abs!AbsInit

LEMMA QueueNextView ==
    QueueIInv /\ QueueIInv' /\ [QueueNext]_queueVars => [Abs!AbsNext]_Abs!absVars
<1> SUFFICES ASSUME QueueIInv, QueueIInv', [QueueNext]_queueVars
             PROVE  [Abs!AbsNext]_Abs!absVars
  OBVIOUS
<1>1. CASE QueueNext
  <2>1. QueueStep /\ Apart
    BY <1>1, QueueNextStep, ApartHolds DEF QueueIInv, IInv
  <2> QED
    BY <2>1, QueueStepView DEF QueueIInv, IInv, Safe
<1>2. CASE UNCHANGED queueVars
  BY <1>2 DEF queueVars, Handed, InPend, Abs!absVars
<1> QED
  BY <1>1, <1>2

(* Refinement: the kernel's queues implement the abstract ones, in order   *)
(* of age or of rank.  No item is lost or given twice, and neither a       *)
(* timeout nor a destruction nor an interrupt takes back what a waiter was *)
(* handed.                                                                 *)
THEOREM QueueRefines == QueueSpec => ImplementsQueue
<1> QED
  BY QueueNextView, QueueInitView, QueueInvariant, PTL
  DEF QueueSpec, ImplementsQueue, Abs!AbsSpec
=============================================================================
