----------------------------- MODULE SyncProofs -----------------------------
(***************************************************************************)
(* Events, completions, latches and barriers for any number of tasks and   *)
(* objects: no event flag is missed, a flag is consumed once, and a        *)
(* barrier counts exactly the tasks that wait at it.                       *)
(***************************************************************************)
EXTENDS SyncInv, TaskProofs, FiniteSetTheorems

Posting == {"estore", "escan"}

(* Tasks that have stored flags of e and have not yet told the waiters.    *)
Posters(e) == {t \in Task : pc[t] = "escan" /\ post[t].event = e}

SyncTypes ==
    /\ flag \in [Event -> SUBSET Bits]
    /\ count \in [Waitable \ Event -> Nat] /\ total \in [Barrier -> Nat]
    /\ want \in [Task -> Waits]
    /\ post \in [Task -> [event : Event \cup {NoObj}, flags : SUBSET Bits]]
    /\ \A t \in Task : pc[t] \in Posting => post[t].event \in Event

(* A task in the middle of a post is alive.                                *)
PostersLive == ~DestroyUsed => \A t \in Task : pc[t] \in Posting => t \in knl.obj

(* Nobody waits for no flags at all, and nobody for flags that are set     *)
(* unless someone is about to tell.                                        *)
Met(e) ==
    \A t \in Waiters(knl, e) :
        /\ ~event_is_match({}, want[t])
        /\ ~DestroyUsed /\ Posters(e) = {} => ~event_is_match(flag[e], want[t])

(* The waits at a barrier have no deadline, and their number is exact.     *)
Full(b) ==
    /\ \A t \in Waiters(knl, b) : ~IsSleeping(knl, t)
    /\ ~SuspendUsed /\ ~DestroyUsed =>
          IF count[b] = 0 THEN Waiters(knl, b) = {}
          ELSE count[b] + Cardinality(Waiters(knl, b)) = total[b]

SyncIInv == /\ Safe /\ Quiet /\ WaitInv /\ SyncTypes /\ PostersLive
            /\ \A e \in Event : Met(e)
            /\ \A b \in Barrier : Full(b)

(* Waiters of e that this step tells that it was posted, and what makes it *)
(* right to tell them.                                                     *)
Told(e) == {t \in Waiters(knl, e) : ~IsPending(knl', t) /\ knl'.pendState[t] = "POST"}
Once(e) == \A c \in Told(e) :
              want[c].clr =>
                  /\ flag'[e] = {}
                  /\ \A t \in Told(e) \ {c} : ~want[t].clr /\ knl.prio[t] <= knl.prio[c]

(* What every step shows.                                                  *)
Good == SyncIInv' /\ \A e \in Event : Once(e)

----------------------------------------------------------------------------
(* What a step leaves alone.                                               *)

(* The posts that are under way go on.                                     *)
PostersKeep == \A t \in Task : \/ pc'[t] = pc[t]
                               \/ pc'[t] \notin Posting /\ (pc[t] \notin Posting \/ DestroyUsed)

(* The waiters of o are as before, or some of them have left.              *)
Untouched(o) ==
    /\ Waiters(knl', o) \subseteq Waiters(knl, o)
    /\ \A t \in Waiters(knl', o) : IsSleeping(knl', t) => IsSleeping(knl, t)
    /\ SuspendUsed \/ DestroyUsed \/ Waiters(knl', o) = Waiters(knl, o)
    /\ Told(o) = {}

LEMMA Kinds ==
    /\ \A o \in Waitable : o \in Obj /\ o # NoObj
    /\ Event \subseteq Waitable /\ Completion \subseteq Waitable
    /\ Latch \subseteq Waitable /\ Barrier \subseteq Waitable
    /\ \A b \in Barrier : b \notin Event \cup Completion \cup Latch
    /\ \A e \in Event : e \notin Completion \cup Latch
  BY SyncAssumption, DisjointAssumption, NullAssumption DEF Obj

LEMMA SteadyTouch ==
    ASSUME WaitInv, NEW o, \A t \in Waiters(knl, o) : Steady(t),
           \A t \in Task : t \in Waiters(knl', o) => t \in Waiters(knl, o)
    PROVE  Untouched(o)
<1>1. \A t \in Waiters(knl, o) : InPend(t) /\ t \in Task
  BY DEF WaitInv, Waiters
<1>2. \A t \in Waiters(knl, o) : IsPending(knl', t) /\ knl'.pendingObj[t] = o
  BY <1>1 DEF Steady, Waiters
<1>3. Waiters(knl', o) = Waiters(knl, o)
  BY <1>1, <1>2 DEF Waiters
<1>4. Told(o) = {}
  BY <1>2 DEF Told
<1> QED
  BY <1>1, <1>3, <1>4 DEF Untouched, Steady

LEMMA AllUntouched ==
    ASSUME WaitInv, \A t \in Task : Steady(t), NEW o PROVE Untouched(o)
<1>1. \A t \in Task : t \in Waiters(knl', o) => t \in Waiters(knl, o)
  BY DEF Steady, Waiters
<1> QED
  BY <1>1, SteadyTouch DEF Waiters

LEMMA WokeElse ==
    ASSUME WaitInv, NEW A, NEW st, Woke(A, st), NEW o, A \cap Waiters(knl, o) = {}
    PROVE  Untouched(o)
<1>1. \A t \in Task : t \in Waiters(knl', o) => t \in Waiters(knl, o)
  BY WaitersShrink DEF Waiters
<1>2. \A t \in Waiters(knl, o) : Steady(t)
  BY DEF Woke, Waiters
<1> QED
  BY <1>1, <1>2, SteadyTouch

LEMMA AloneElse ==
    ASSUME WaitInv, NEW t \in Task, Alone(t), ~IsPending(knl, t), NEW o, t \notin Waiters(knl', o)
    PROVE  Untouched(o)
<1>1. \A u \in Task : u \in Waiters(knl', o) => u \in Waiters(knl, o)
  BY DEF Alone, Steady, Waiters
<1>2. \A u \in Waiters(knl, o) : Steady(u)
  BY DEF Alone, Waiters
<1> QED
  BY <1>1, <1>2, SteadyTouch

(* The steps of module Task do not touch the waiters of an object if none  *)
(* of them sleeps, and tell nobody of a post.                              *)
LEMMA StepTouch ==
    ASSUME WaitInv, WaitStep, NEW o
    PROVE  /\ Waiters(knl', o) \subseteq Waiters(knl, o) /\ Told(o) = {}
           /\ (\A t \in Waiters(knl, o) : ~IsSleeping(knl, t)) => Untouched(o)
<1>1. Waiters(knl', o) \subseteq Waiters(knl, o)
  BY StepShrinks
<1>2. ASSUME NEW A \in SUBSET Sleepers(knl), Woke(A, "TIMEOUT")
      PROVE  /\ Told(o) = {}
             /\ (\A t \in Waiters(knl, o) : ~IsSleeping(knl, t)) => Untouched(o)
  <2>1. Told(o) = {}
    BY <1>2 DEF Told, Waiters, Woke, Ended, Steady
  <2>2. (\A t \in Waiters(knl, o) : ~IsSleeping(knl, t)) => A \cap Waiters(knl, o) = {}
    BY DEF Sleepers
  <2> QED
    BY <1>2, <2>1, <2>2, WokeElse
<1>3. ASSUME NEW t \in Task, Alone(t), Left(t) \/ Dropped(t),
             IsPending(knl, t) => /\ SuspendUsed \/ DestroyUsed
                                  /\ knl'.pendState[t] = "NONE"
      PROVE  /\ Told(o) = {}
             /\ (\A u \in Waiters(knl, o) : ~IsSleeping(knl, u)) => Untouched(o)
  <2>1. Told(o) = {}
    BY <1>3 DEF Told, Waiters, Alone, Steady
  <2>2. CASE ~IsPending(knl, t)
    <3>1. t \notin Waiters(knl', o)
      BY <1>3 DEF Waiters, Left, Dropped
    <3> QED
      BY <1>3, <2>1, <2>2, <3>1, AloneElse
  <2>3. CASE IsPending(knl, t)
    <3>1. \A u \in Waiters(knl', o) : u # t /\ u \in Task
      BY <1>3 DEF Waiters, Left, Dropped
    <3>2. \A u \in Waiters(knl', o) : IsSleeping(knl', u) => IsSleeping(knl, u)
      BY <1>1, <1>3, <3>1 DEF Alone, Steady, Waiters, WaitInv
    <3> QED
      BY <1>1, <1>3, <2>1, <2>3, <3>2 DEF Untouched
  <2> QED
    BY <2>2, <2>3, <2>1
<1>4. \/ \E A \in SUBSET Sleepers(knl) : Woke(A, "TIMEOUT")
      \/ \E t \in Task : /\ Alone(t) /\ (Left(t) \/ Dropped(t))
                         /\ IsPending(knl, t) => /\ SuspendUsed \/ DestroyUsed
                                                 /\ knl'.pendState[t] = "NONE"
  BY DEF WaitStep
<1> QED
  BY <1>1, <1>2, <1>3, <1>4

(* An event whose waiters keep their wishes while no flag is set.          *)
LEMMA Hushed ==
    ASSUME NEW e \in Event, Met(e), Waiters(knl', e) \subseteq Waiters(knl, e),
           \A t \in Waiters(knl, e) : want'[t] = want[t],
           flag'[e] = flag[e] \/ flag'[e] = {},
           DestroyUsed \/ Posters(e) \subseteq Posters(e)'
    PROVE  Met(e)'
  BY DEF Met

LEMMA FullKeeps ==
    ASSUME NEW b \in Barrier, Full(b), Untouched(b), count'[b] = count[b], total'[b] = total[b]
    PROVE  Full(b)'
  BY DEF Full, Untouched

LEMMA PostersStay ==
    ASSUME PostersKeep, post' = post, PostersLive, knl.obj \cap Task \subseteq knl'.obj \/ DestroyUsed,
           SyncTypes
    PROVE  /\ PostersLive'
           /\ \A e \in Event : DestroyUsed \/ Posters(e) \subseteq Posters(e)'
           /\ \A t \in Task : pc'[t] \in Posting => post'[t].event \in Event
  BY DEF PostersKeep, PostersLive, Posters, SyncTypes, Posting, DestroyUsed

(* A call from outside of a post leaves the posts alone.                   *)
LEMMA CallPosters ==
    ASSUME Safe, TaskRuns, NEW k, ThenSched(k) \/ ThenReturn(k) PROVE PostersKeep
  BY TypeFacts DEF Safe, TaskRuns, ThenSched, ThenReturn, PostersKeep, Posting

LEMMA FromPosters ==
    ASSUME Safe, NEW api, NEW k, FromAnywhere(api, k) \/ ReturnAnywhere(api, k) PROVE PostersKeep
<1>1. ASSUME pc' = pc PROVE PostersKeep
  BY <1>1 DEF PostersKeep
<1> QED
  BY <1>1, CallPosters DEF FromAnywhere, ReturnAnywhere, Preamble, ThenReturn

LEMMA NextPosters == Safe /\ PostersLive /\ [Next]_vars => PostersKeep
<1> SUFFICES ASSUME Safe, PostersLive, [Next]_vars PROVE PostersKeep
  OBVIOUS
<1>1. ASSUME pc' = pc PROVE PostersKeep
  BY <1>1 DEF PostersKeep
<1>2. CASE KernelStep
  <2>1. SchedPoint => PostersKeep
    BY TypeFacts DEF Safe, SchedPoint, PostersKeep, Posting
  <2> QED
    BY <1>1, <1>2, <2>1 DEF KernelStep, PendSV_Handler, ThenReturn, TickUpdate, RobinSched, IrqLeave
<1>3. CASE \E kind \in {"tick", "isr"} : IrqEnter(kind)
  BY <1>1, <1>3 DEF IrqEnter
<1>4. ASSUME NEW t \in Task, Destroy(t) PROVE PostersKeep
  BY <1>4, TypeFacts DEF Safe, Destroy, Preamble, TaskRuns, DestroyUsed, PostersKeep, Posting
<1>5. ASSUME NEW t \in Task, NEW p, NEW s, Create(t, p, s) PROVE PostersKeep
  BY <1>5, TypeFacts DEF Safe, Create, Preamble, TaskRuns, PostersKeep, Posting, PostersLive
<1>6. CASE OtherApi
  <2>1. ASSUME NEW t \in Task, Suspend(t) \/ Resume(t) \/ DelayAbort(t) PROVE PostersKeep
    BY <1>1, <2>1, CallPosters DEF Suspend, Resume, DelayAbort, Preamble, ThenReturn
  <2>2. ASSUME NEW d, Delay(d) PROVE PostersKeep
    BY <2>2, CallPosters DEF Delay, Preamble
  <2>3. ASSUME NEW t, NEW s, TimesliceSet(t, s) PROVE PostersKeep
    BY <1>1, <2>3 DEF TimesliceSet, ThenReturn
  <2>4. Yield \/ SchedLock \/ SchedUnlock => PostersKeep
    BY CallPosters DEF Yield, SchedLock, SchedUnlock, Preamble
  <2> QED
    BY <1>4, <1>6, <2>1, <2>2, <2>3, <2>4 DEF OtherApi
<1>7. CASE \E t \in Task, p \in AppPrio : SetPrio(t, p)
  <2>1. ASSUME NEW t, NEW p, PrioChange(t, p) PROVE PostersKeep
    BY <2>1, CallPosters DEF PrioChange, Preamble
  <2> QED
    BY <1>5, <1>7, <2>1 DEF SetPrio
<1>8. CASE UNCHANGED vars
  BY <1>1, <1>8 DEF vars
<1> QED
  BY <1>2, <1>3, <1>6, <1>7, <1>8 DEF Next, OtherStep

----------------------------------------------------------------------------
(* A call concerns one object o, in the kernel and in the objects' state.  *)
Moved(o) ==
    /\ knl.obj \cap Task \subseteq knl'.obj
    /\ PostersKeep
    /\ \/ \E A \in SUBSET Waiters(knl, o), st \in PendState \ {"NONE"} : Woke(A, st)
       \/ \E t \in Task : /\ Alone(t) /\ ~IsPending(knl, t)
                          /\ Left(t) \/ Blocked(t, o)

Typed == /\ flag' \in [Event -> SUBSET Bits]
         /\ count' \in [Waitable \ Event -> Nat] /\ total' \in [Barrier -> Nat]
         /\ want' \in [Task -> Waits]

Only(o) ==
    /\ Typed /\ post' = post
    /\ \A t \in Task : IsPending(knl, t) => want'[t] = want[t]
    /\ \A e \in Event : e # o => flag'[e] = flag[e]
    /\ \A b \in Barrier : b # o => count'[b] = count[b] /\ total'[b] = total[b]

LEMMA MovedElse ==
    ASSUME WaitInv, NEW o, Moved(o)
    PROVE  WaitInv' /\ \A q : q # o => Untouched(q)
<1>1. ASSUME NEW A \in SUBSET Waiters(knl, o), NEW st \in PendState \ {"NONE"}, Woke(A, st)
      PROVE  WaitInv' /\ \A q : q # o => Untouched(q)
  <2>1. WaitInv'
    BY <1>1, WokeKeeps
  <2>2. ASSUME NEW q, q # o PROVE A \cap Waiters(knl, q) = {}
    BY <2>2 DEF Waiters
  <2> QED
    BY <1>1, <2>1, <2>2, WokeElse
<1>2. ASSUME NEW t \in Task, Alone(t), ~IsPending(knl, t), Left(t) \/ Blocked(t, o)
      PROVE  WaitInv' /\ \A q : q # o => Untouched(q)
  <2>1. WaitInv'
    BY <1>2, AloneKeeps
  <2>2. ASSUME NEW q, q # o PROVE t \notin Waiters(knl', q)
    BY <1>2, <2>2 DEF Waiters, Left, Blocked
  <2> QED
    BY <1>2, <2>1, <2>2, AloneElse
<1> QED
  BY <1>1, <1>2 DEF Moved

(* It leaves the other objects in order, so its own is all there is to see.*)
LEMMA OwnObject ==
    ASSUME SyncIInv, NEW o, Moved(o), Only(o), Safe', Quiet',
           \A e \in Event : e = o => Met(e)' /\ Once(e),
           \A b \in Barrier : b = o => Full(b)'
    PROVE  Good
<1>1. WaitInv' /\ \A q : q # o => Untouched(q)
  BY MovedElse DEF SyncIInv
<1>2. /\ PostersLive'
      /\ \A e \in Event : DestroyUsed \/ Posters(e) \subseteq Posters(e)'
      /\ \A t \in Task : pc'[t] \in Posting => post'[t].event \in Event
  BY PostersStay DEF SyncIInv, Moved, Only
<1>3. SyncTypes'
  BY <1>2 DEF SyncIInv, SyncTypes, Only, Typed
<1>4. ASSUME NEW e \in Event PROVE Met(e)' /\ Once(e)
  <2>1. CASE e = o
    BY <2>1
  <2>2. CASE e # o
    <3>1. Untouched(e) /\ Met(e) /\ flag'[e] = flag[e]
      BY <1>1, <2>2 DEF SyncIInv, Only
    <3>2. \A t \in Waiters(knl, e) : want'[t] = want[t]
      BY DEF Only, Waiters
    <3>3. Met(e)'
      BY <1>2, <3>1, <3>2, Hushed DEF Untouched
    <3> QED
      BY <3>1, <3>3 DEF Untouched, Once
  <2> QED
    BY <2>1, <2>2
<1>5. ASSUME NEW b \in Barrier PROVE Full(b)'
  <2>1. CASE b = o
    BY <2>1
  <2>2. CASE b # o
    <3>1. Untouched(b) /\ Full(b) /\ count'[b] = count[b] /\ total'[b] = total[b]
      BY <1>1, <2>2 DEF SyncIInv, Only
    <3> QED
      BY <3>1, FullKeeps
  <2> QED
    BY <2>1, <2>2
<1> QED
  BY <1>1, <1>2, <1>3, <1>4, <1>5 DEF Good, SyncIInv

LEMMA SteadyMoved ==
    ASSUME \A t \in Task : Steady(t), PostersKeep, knl.obj \cap Task \subseteq knl'.obj, NEW o
    PROVE  Moved(o) /\ Waiters(knl', o) = Waiters(knl, o) /\ Told(o) = {}
<1>1. Woke({}, "POST") /\ "POST" \in PendState \ {"NONE"}
  BY DEF Woke, PendState
<1>2. Waiters(knl', o) = Waiters(knl, o)
  BY DEF Steady, Waiters
<1>3. Told(o) = {}
  BY DEF Told, Waiters, Steady
<1> QED
  BY <1>1, <1>2, <1>3 DEF Moved

LEMMA WokeMoved ==
    ASSUME NEW o, NEW A \in SUBSET Waiters(knl, o), NEW st \in PendState \ {"NONE"}, Woke(A, st),
           PostersKeep, knl.obj \cap Task \subseteq knl'.obj
    PROVE  /\ Moved(o) /\ Waiters(knl', o) = Waiters(knl, o) \ A
           /\ Told(o) = IF st = "POST" THEN A ELSE {}
<1>1. Waiters(knl', o) = Waiters(knl, o) \ A
  BY DEF Woke, Ended, Steady, Waiters
<1>2. Told(o) = IF st = "POST" THEN A ELSE {}
  BY DEF Told, Woke, Ended, Steady, Waiters
<1> QED
  BY <1>1, <1>2 DEF Moved

LEMMA BlockMoved ==
    ASSUME NEW o, NEW t \in Task, Alone(t), ~IsPending(knl, t), Blocked(t, o),
           PostersKeep, knl.obj \cap Task \subseteq knl'.obj
    PROVE  /\ Moved(o) /\ Told(o) = {}
           /\ t \notin Waiters(knl, o) /\ Waiters(knl', o) = Waiters(knl, o) \cup {t}
<1>1. t \notin Waiters(knl, o) /\ Waiters(knl', o) = Waiters(knl, o) \cup {t}
  BY DEF Alone, Steady, Blocked, Waiters
<1>2. Told(o) = {}
  BY <1>1 DEF Told, Waiters, Alone, Steady
<1> QED
  BY <1>1, <1>2 DEF Moved

----------------------------------------------------------------------------
(* The calls that create and destroy objects.                              *)

LEMMA CreateGood ==
    ASSUME SyncIInv, NEW o \in Waitable, CreateObject(o), Typed,
           \A e \in Event : e # o => flag'[e] = flag[e],
           \A b \in Barrier : b # o => count'[b] = count[b] /\ total'[b] = total[b],
           \A b \in Barrier : b = o => count'[b] = total'[b]
    PROVE  Good
<1>1. /\ Safe /\ o \in Obj /\ o \notin knl.obj /\ want' = want /\ post' = post
      /\ ReturnAnywhere("obj_create", [knl EXCEPT !.pend[o] = << >>, !.obj = @ \cup {o}])
  BY Kinds DEF SyncIInv, CreateObject
<1>2. /\ Safe' /\ Quiet' /\ knl'.obj = knl.obj \cup {o}
      /\ (\A t \in Task : Steady(t)) /\ PostersKeep
  BY <1>1, CreatedFrom, FromPosters DEF SyncIInv, Kept
<1>3. Moved(o) /\ Waiters(knl', o) = Waiters(knl, o) /\ Told(o) = {}
  BY <1>2, SteadyMoved
<1>4. Waiters(knl', o) = {}
  BY <1>1, <1>3, NoWaiters DEF Safe
<1>5. Only(o)
  BY <1>1 DEF Only
<1>6. ASSUME NEW e \in Event, e = o PROVE Met(e)' /\ Once(e)
  BY <1>3, <1>4, <1>6 DEF Met, Once
<1>7. ASSUME NEW b \in Barrier, b = o PROVE Full(b)'
  <2>1. Cardinality(Waiters(knl', b)) = 0
    BY <1>4, <1>7, FS_EmptySet
  <2>2. total'[b] \in Nat /\ count'[b] = total'[b]
    BY <1>7 DEF Typed
  <2> QED
    BY <1>4, <1>7, <2>1, <2>2 DEF Full
<1> QED
  BY <1>2, <1>3, <1>5, <1>6, <1>7, OwnObject

LEMMA DestroyGood ==
    ASSUME SyncIInv, NEW o \in Waitable, DestroyObject(o)
    PROVE  Good
<1>1. /\ Safe /\ o \in Obj /\ o \in knl.obj /\ want' = want /\ post' = post
      /\ FromAnywhere("obj_destroy",
            [pend_wakeup_all(knl, o, "DESTROY") EXCEPT !.pend[o] = << >>, !.obj = @ \ {o}])
  BY Kinds DEF SyncIInv, DestroyObject
<1>2. /\ flag'  = [e \in Event |-> IF e = o THEN {} ELSE flag[e]]
      /\ count' = [c \in Waitable \ Event |-> IF c = o THEN 0 ELSE count[c]]
      /\ total' = [b \in Barrier |-> IF b = o THEN 0 ELSE total[b]]
  BY DEF DestroyObject
<1>3. "DESTROY" \in PendState \ {"NONE"}
  BY DEF PendState
<1>4. /\ Safe' /\ Quiet' /\ knl'.obj = knl.obj \ {o} /\ Woke(Waiters(knl, o), "DESTROY")
      /\ PostersKeep
  BY <1>1, <1>3, DestroyedFrom, FromPosters DEF SyncIInv, Kept
<1>5. knl.obj \cap Task \subseteq knl'.obj
  BY <1>1, <1>4, KindAssumption
<1>6. /\ Moved(o) /\ Waiters(knl', o) = Waiters(knl, o) \ Waiters(knl, o)
      /\ Told(o) = IF "DESTROY" = "POST" THEN Waiters(knl, o) ELSE {}
  BY <1>3, <1>4, <1>5, WokeMoved
<1>7. Waiters(knl', o) = {} /\ Told(o) = {}
  BY <1>6
<1>8. Typed
  BY <1>1, <1>2 DEF Typed, SyncIInv, SyncTypes
<1>9. Only(o)
  BY <1>1, <1>2, <1>8, Kinds DEF Only
<1>10. ASSUME NEW e \in Event, e = o PROVE Met(e)' /\ Once(e)
  BY <1>7, <1>10 DEF Met, Once
<1>11. ASSUME NEW b \in Barrier, b = o PROVE Full(b)'
  <2>1. count'[b] = 0
    BY <1>2, <1>11, Kinds
  <2> QED
    BY <1>7, <1>11, <2>1 DEF Full
<1> QED
  BY <1>4, <1>6, <1>9, <1>10, <1>11, OwnObject

----------------------------------------------------------------------------
(* Events: the calls that do not post.                                     *)

LEMMA EventCreateGood ==
    ASSUME SyncIInv, NEW e \in Event, NEW f \in SUBSET Bits, EventCreate(e, f)
    PROVE  Good
<1>1. /\ CreateObject(e) /\ flag' = [flag EXCEPT ![e] = f]
      /\ count' = count /\ total' = total /\ want' = want
  BY DEF EventCreate, CreateObject
<1>2. Typed
  BY <1>1 DEF Typed, SyncIInv, SyncTypes
<1> QED
  BY <1>1, <1>2, Kinds, CreateGood DEF SyncIInv, SyncTypes

(* Who waits for no flags at all would not wait.                           *)
LEMMA NoneMatch ==
    ASSUME NEW f, NEW w, ~event_is_match(f, w) PROVE ~event_is_match({}, w)
  BY DEF event_is_match

LEMMA EventTakeGood ==
    ASSUME SyncIInv, NEW e \in Event, NEW w \in Waits, EventTake(e, w)
    PROVE  Good
<1>1. /\ Safe /\ ReturnAnywhere("pend", knl)
      /\ count' = count /\ total' = total /\ want' = want /\ post' = post
      /\ flag' = IF w.clr THEN [flag EXCEPT ![e] = {}] ELSE flag
  BY DEF EventTake, ReturnAnywhere, SyncIInv
<1>2. Safe' /\ Quiet' /\ knl' = knl /\ (\A t \in Task : Steady(t)) /\ PostersKeep
  BY <1>1, IdleFrom, FromPosters DEF SyncIInv, Kept
<1>3. Moved(e) /\ Waiters(knl', e) = Waiters(knl, e) /\ Told(e) = {}
  BY <1>2, SteadyMoved
<1>4. flag \in [Event -> SUBSET Bits] /\ flag' \in [Event -> SUBSET Bits]
  BY <1>1 DEF SyncIInv, SyncTypes
<1>5. Only(e)
  <2>1. Typed
    BY <1>1, <1>4 DEF Typed, SyncIInv, SyncTypes
  <2> QED
    BY <1>1, <1>4, <2>1 DEF Only
<1>6. Met(e)' /\ Once(e)
  <2>1. flag'[e] = flag[e] \/ flag'[e] = {}
    BY <1>1, <1>4
  <2>2. DestroyUsed \/ Posters(e) \subseteq Posters(e)'
    BY <1>1, <1>2, PostersStay DEF SyncIInv
  <2>3. Met(e)'
    BY <1>1, <1>3, <2>1, <2>2, Hushed DEF SyncIInv
  <2> QED
    BY <1>3, <2>3 DEF Once
<1> QED
  BY <1>2, <1>3, <1>5, <1>6, Kinds, OwnObject

LEMMA EventBlockGood ==
    ASSUME SyncIInv, NEW e \in Event, NEW w \in Waits, NEW timeout \in SyncTimeouts,
           EventBlock(e, w, timeout)
    PROVE  Good
<1> DEFINE t == knl.curr
<1>1. /\ Safe /\ Preamble("pend") /\ e \in Obj /\ e \in knl.obj /\ timeout \in Nat
      /\ BlockIn(knl, e, timeout) /\ t \in Task
  BY Kinds, SyncAssumption, TimeAssumption, TypeFacts DEF EventBlock, SyncIInv, Forever, Safe
<1>2. /\ want' = [want EXCEPT ![t] = w] /\ ~event_is_match(flag[e], w)
      /\ flag' = flag /\ count' = count /\ total' = total /\ post' = post
  BY DEF EventBlock
<1>3. /\ Safe' /\ Quiet' /\ knl'.obj = knl.obj
      /\ Alone(t) /\ Blocked(t, e) /\ ~IsPending(knl, t)
  BY <1>1, BlockFrom DEF SyncIInv, Kept
<1>4. PostersKeep
  BY <1>1, TypeFacts DEF Safe, Preamble, TaskRuns, BlockIn, PostersKeep, Posting
<1> HIDE DEF t
<1>5. /\ Moved(e) /\ Told(e) = {}
      /\ t \notin Waiters(knl, e) /\ Waiters(knl', e) = Waiters(knl, e) \cup {t}
  BY <1>1, <1>3, <1>4, BlockMoved
<1>6. want \in [Task -> Waits] /\ want'[t] = w /\ \A u \in Task : u # t => want'[u] = want[u]
  BY <1>1, <1>2 DEF SyncIInv, SyncTypes
<1>7. Only(e)
  <2>1. Typed
    BY <1>2 DEF Typed, SyncIInv, SyncTypes
  <2> QED
    BY <1>2, <1>3, <1>6, <2>1 DEF Only
<1>8. Met(e)'
  <2>1. DestroyUsed \/ Posters(e) \subseteq Posters(e)'
    BY <1>2, <1>3, <1>4, PostersStay DEF SyncIInv
  <2>2. ASSUME NEW u \in Waiters(knl, e)
        PROVE  /\ ~event_is_match({}, want'[u])
               /\ ~DestroyUsed /\ Posters(e)' = {} => ~event_is_match(flag'[e], want'[u])
    <3>1. u \in Task /\ u # t
      BY <1>5 DEF Waiters
    <3> QED
      BY <1>2, <1>6, <2>1, <3>1 DEF SyncIInv, Met
  <2>3. ~event_is_match({}, want'[t]) /\ ~event_is_match(flag'[e], want'[t])
    BY <1>2, <1>6, NoneMatch
  <2> QED
    BY <1>5, <2>2, <2>3 DEF Met
<1>9. Once(e)
  BY <1>5 DEF Once
<1> QED
  BY <1>3, <1>5, <1>7, <1>8, <1>9, Kinds, OwnObject

----------------------------------------------------------------------------
(* Completions and latches.                                                *)

LEMMA CountGood ==
    ASSUME SyncIInv, NEW o \in Completion \cup Latch, Moved(o), Safe', Quiet',
           NEW n \in Nat, count' = [count EXCEPT ![o] = n],
           flag' = flag, want' = want, post' = post, total' = total
    PROVE  Good
<1>1. o \in Waitable \ Event /\ o \notin Event /\ o \notin Barrier
  BY Kinds
<1>2. Typed
  BY <1>1 DEF Typed, SyncIInv, SyncTypes
<1>3. Only(o)
  BY <1>1, <1>2, Kinds DEF Only, SyncIInv, SyncTypes
<1> QED
  BY <1>1, <1>3, OwnObject

LEMMA SameCount ==
    ASSUME SyncIInv, NEW o \in Completion \cup Latch
    PROVE  count[o] \in Nat /\ count = [count EXCEPT ![o] = count[o]]
  BY Kinds DEF SyncIInv, SyncTypes

LEMMA CounterCreate ==
    ASSUME SyncIInv, NEW o \in Completion \cup Latch, CreateObject(o), NEW n \in Nat,
           count' = [count EXCEPT ![o] = n], flag' = flag, total' = total
    PROVE  Good
<1>1. o \in Waitable \ Event /\ want' = want
  BY Kinds DEF CreateObject
<1>2. Typed
  BY <1>1 DEF Typed, SyncIInv, SyncTypes
<1> QED
  BY <1>1, <1>2, Kinds, CreateGood DEF SyncIInv, SyncTypes

LEMMA CounterIdle ==
    ASSUME SyncIInv, NEW o \in Completion \cup Latch, NEW api, ReturnAnywhere(api, knl),
           NEW n \in Nat, count' = [count EXCEPT ![o] = n],
           flag' = flag, want' = want, post' = post, total' = total
    PROVE  Good
<1>1. Safe' /\ Quiet' /\ knl' = knl /\ (\A t \in Task : Steady(t)) /\ PostersKeep
  BY IdleFrom, FromPosters DEF SyncIInv, Kept
<1> QED
  BY <1>1, SteadyMoved, CountGood

LEMMA CounterBlock ==
    ASSUME SyncIInv, NEW o \in Completion \cup Latch, NEW timeout \in SyncTimeouts,
           o \in knl.obj, Preamble("pend"), BlockIn(knl, o, timeout), UNCHANGED objVars
    PROVE  Good
<1> DEFINE t == knl.curr
<1>1. /\ Safe /\ o \in Obj /\ timeout \in Nat /\ t \in Task
  BY Kinds, SyncAssumption, TimeAssumption, TypeFacts DEF SyncIInv, Forever, Safe
<1>2. /\ Safe' /\ Quiet' /\ knl'.obj = knl.obj
      /\ Alone(t) /\ Blocked(t, o) /\ ~IsPending(knl, t)
  BY <1>1, BlockFrom DEF SyncIInv, Kept
<1>3. PostersKeep
  BY <1>1, TypeFacts DEF Safe, Preamble, TaskRuns, BlockIn, PostersKeep, Posting
<1> HIDE DEF t
<1>4. Moved(o)
  BY <1>1, <1>2, <1>3, BlockMoved
<1> QED
  BY <1>2, <1>4, SameCount, CountGood DEF objVars

LEMMA CounterPost ==
    ASSUME SyncIInv, NEW o \in Completion \cup Latch, NEW opt, ~pend_is_nopending(knl, o),
           FromAnywhere("post", pend_wakeup(knl, o, "POST", opt)),
           NEW n \in Nat, count' = [count EXCEPT ![o] = n],
           flag' = flag, want' = want, post' = post, total' = total
    PROVE  Good
<1>1. Safe /\ o \in Obj /\ "POST" \in PendState /\ "POST" \in PendState \ {"NONE"}
  BY Kinds DEF SyncIInv, PendState
<1>2. /\ Safe' /\ Quiet' /\ knl'.obj = knl.obj /\ PostersKeep
      /\ \E A \in SUBSET Waiters(knl, o) : Woke(A, "POST")
  BY <1>1, PostedFrom, FromPosters DEF SyncIInv, Kept
<1>3. Moved(o)
  BY <1>1, <1>2, WokeMoved
<1> QED
  BY <1>2, <1>3, CountGood

LEMMA CompletionGood ==
    ASSUME SyncIInv, NEW o \in Completion, CompletionApi(o)
    PROVE  Good
<1>1. o \in Completion \cup Latch /\ count[o] \in Nat /\ count[o] + 1 \in Nat /\ 0 \in Nat
  BY SameCount
<1>2. CASE CompletionCreate(o)
  BY <1>1, <1>2, CounterCreate DEF CompletionCreate
<1>3. CASE CompletionTake(o)
  BY <1>1, <1>3, SameCount, CounterIdle DEF CompletionTake, ReturnAnywhere, objVars
<1>4. CASE CompletionReset(o)
  BY <1>1, <1>4, CounterIdle DEF CompletionReset
<1>5. CASE \E timeout \in SyncTimeouts : CompletionBlock(o, timeout)
  BY <1>1, <1>5, CounterBlock DEF CompletionBlock
<1>6. ASSUME NEW opt \in {"ONE", "ALL"}, CompletionPost(o, opt) PROVE Good
  <2>1. /\ count' = [count EXCEPT ![o] = count[o] + 1]
        /\ flag' = flag /\ want' = want /\ post' = post /\ total' = total
    BY <1>6 DEF CompletionPost
  <2>2. CASE pend_is_nopending(knl, o)
    BY <1>1, <1>6, <2>1, <2>2, CounterIdle DEF CompletionPost
  <2>3. CASE ~pend_is_nopending(knl, o)
    BY <1>1, <1>6, <2>1, <2>3, CounterPost DEF CompletionPost
  <2> QED
    BY <2>2, <2>3
<1> QED
  BY <1>2, <1>3, <1>4, <1>5, <1>6 DEF CompletionApi

LEMMA LatchGood ==
    ASSUME SyncIInv, NEW o \in Latch, LatchApi(o)
    PROVE  Good
<1>1. o \in Completion \cup Latch /\ count[o] \in Nat /\ SyncCounts \subseteq Nat
  BY SameCount, SyncAssumption
<1>2. ASSUME NEW n \in SyncCounts, LatchCreate(o, n) PROVE Good
  BY <1>1, <1>2, CounterCreate DEF LatchCreate
<1>3. ASSUME NEW n \in SyncCounts, LatchReset(o, n) PROVE Good
  BY <1>1, <1>3, CounterIdle DEF LatchReset
<1>4. CASE LatchTake(o)
  BY <1>1, <1>4, SameCount, CounterIdle DEF LatchTake, ReturnAnywhere, objVars
<1>5. CASE \E timeout \in SyncTimeouts : LatchBlock(o, timeout)
  BY <1>1, <1>5, CounterBlock DEF LatchBlock
<1>6. CASE LatchPost(o)
  <2>1. /\ count' = [count EXCEPT ![o] = count[o] - 1] /\ count[o] # 0
        /\ flag' = flag /\ want' = want /\ post' = post /\ total' = total
    BY <1>6 DEF LatchPost
  <2>2. count[o] - 1 \in Nat
    BY <1>1, <2>1
  <2>3. CASE ReturnAnywhere("post", knl)
    BY <1>1, <2>1, <2>2, <2>3, CounterIdle
  <2>4. CASE ~pend_is_nopending(knl, o) /\ FromAnywhere("post", pend_wakeup_one(knl, o, "POST"))
    <3>1. pend_wakeup(knl, o, "POST", "ONE") = pend_wakeup_one(knl, o, "POST")
      BY DEF pend_wakeup
    <3> QED
      BY <1>1, <2>1, <2>2, <2>4, <3>1, CounterPost
  <2> QED
    BY <1>6, <2>3, <2>4 DEF LatchPost
<1> QED
  BY <1>2, <1>3, <1>4, <1>5, <1>6 DEF LatchApi

----------------------------------------------------------------------------
(* Barriers.                                                               *)

LEMMA BarrierCreateGood ==
    ASSUME SyncIInv, NEW o \in Barrier, NEW n \in SyncCounts, BarrierCreate(o, n)
    PROVE  Good
<1>1. /\ CreateObject(o) /\ count' = [count EXCEPT ![o] = n]
      /\ total' = [total EXCEPT ![o] = n] /\ flag' = flag /\ want' = want
      /\ n \in Nat /\ o \in Waitable \ Event
  BY Kinds, SyncAssumption DEF BarrierCreate, CreateObject
<1>2. Typed
  BY <1>1 DEF Typed, SyncIInv, SyncTypes
<1>3. /\ count'[o] = total'[o]
      /\ \A b \in Barrier : b # o => count'[b] = count[b] /\ total'[b] = total[b]
  BY <1>1, Kinds DEF SyncIInv, SyncTypes
<1> QED
  BY <1>1, <1>2, <1>3, CreateGood

LEMMA BarrierResetGood ==
    ASSUME SyncIInv, NEW o \in Barrier, NEW n \in SyncCounts,
           pend_is_nopending(knl, o), BarrierReset(o, n)
    PROVE  Good
<1>1. /\ Safe /\ ReturnAnywhere("reset", knl) /\ count' = [count EXCEPT ![o] = n]
      /\ total' = [total EXCEPT ![o] = n] /\ flag' = flag /\ want' = want /\ post' = post
      /\ n \in Nat /\ o \in Waitable \ Event /\ o \in Obj
  BY Kinds, SyncAssumption DEF BarrierReset, SyncIInv
<1>2. Safe' /\ Quiet' /\ knl' = knl /\ (\A t \in Task : Steady(t)) /\ PostersKeep
  BY <1>1, IdleFrom, FromPosters DEF SyncIInv, Kept
<1>3. Moved(o) /\ Waiters(knl', o) = {}
  BY <1>1, <1>2, SteadyMoved, NoWaiters DEF Safe
<1>4. Typed
  BY <1>1 DEF Typed, SyncIInv, SyncTypes
<1>5. /\ count'[o] = n /\ total'[o] = n
      /\ \A b \in Barrier : b # o => count'[b] = count[b] /\ total'[b] = total[b]
  BY <1>1, Kinds DEF SyncIInv, SyncTypes
<1>6. Only(o)
  BY <1>1, <1>4, <1>5 DEF Only
<1>7. Full(o)'
  <2>1. Cardinality(Waiters(knl', o)) = 0
    BY <1>3, FS_EmptySet
  <2> QED
    BY <1>1, <1>3, <1>5, <2>1 DEF Full
<1> QED
  BY <1>2, <1>3, <1>6, <1>7, Kinds, OwnObject

LEMMA BarrierOpenGood ==
    ASSUME SyncIInv, NEW o \in Barrier, BarrierOpen(o)
    PROVE  Good
<1> DEFINE k == pend_wakeup_all(knl, o, "POST")
<1>1. /\ Safe /\ Preamble("pend") /\ ThenReturn(k) /\ count' = [count EXCEPT ![o] = 0]
      /\ flag' = flag /\ want' = want /\ post' = post /\ total' = total
      /\ o \in Waitable \ Event /\ o \in Obj
  BY Kinds DEF BarrierOpen, SyncIInv
<1>2. "POST" \in PendState /\ "POST" \in PendState \ {"NONE"}
  BY DEF PendState
<1>3. /\ Sound(k) /\ SameFrame(knl, k) /\ ReadySet(knl) \subseteq ReadySet(k)
      /\ Awoken(knl, k, Waiters(knl, o), "POST")
  BY <1>1, <1>2, WakeAllSound DEF Safe
<1> HIDE DEF k
<1>4. (Unowned(knl) => Unowned(k)) /\ SameCpu(knl, k)
  BY <1>1, <1>3, SameControlCpu
<1>5. TaskRuns /\ knl.curr \in ReadySet(k)
  BY <1>1, <1>3, CallerReady
<1>6. Safe' /\ Quiet' /\ knl' = k /\ pc' = pc /\ arg' = arg
  BY <1>1, <1>3, <1>4, <1>5, ReturnStep DEF SyncIInv, ThenReturn
<1>7. Woke(Waiters(knl, o), "POST")
  BY <1>3, <1>6, StayUnmoved, AwokenWoke
<1>8. PostersKeep /\ knl'.obj = knl.obj
  BY <1>3, <1>6 DEF PostersKeep, SameFrame
<1>9. Moved(o) /\ Waiters(knl', o) = Waiters(knl, o) \ Waiters(knl, o)
  BY <1>2, <1>7, <1>8, WokeMoved
<1>10. Waiters(knl', o) = {}
  BY <1>9
<1>11. Typed
  BY <1>1 DEF Typed, SyncIInv, SyncTypes
<1>12. count'[o] = 0 /\ \A b \in Barrier : b # o => count'[b] = count[b]
  BY <1>1, Kinds DEF SyncIInv, SyncTypes
<1>13. Only(o)
  BY <1>1, <1>11, <1>12 DEF Only
<1>14. Full(o)'
  BY <1>10, <1>12 DEF Full
<1> QED
  BY <1>6, <1>9, <1>13, <1>14, Kinds, OwnObject

(* A list without duplicates is as long as the set it lists is large.      *)
LEMMA ListSize ==
    ASSUME NEW s \in Seq(Task)
    PROVE  /\ IsFiniteSet(ToSet(s))
           /\ IsInjective(s) => Cardinality(ToSet(s)) = Len(s)
<1> DEFINE n == Len(s)
           S == 1 .. n
<1>1. n \in Nat /\ DOMAIN s = S /\ \A i \in S : s[i] \in ToSet(s)
  BY DEF ToSet
<1>2. IsFiniteSet(S) /\ Cardinality(S) = n
  BY <1>1, FS_Interval
<1>3. s \in [S -> ToSet(s)]
  BY <1>1
<1>4. s \in Surjection(S, ToSet(s))
  BY <1>1, <1>3 DEF Surjection, ToSet
<1>5. IsInjective(s) => s \in Injection(S, ToSet(s))
  BY <1>1, <1>3 DEF Injection, IsInjective
<1> HIDE DEF S
<1> QED
  BY <1>2, <1>4, <1>5, FS_Surjection

LEMMA BarrierBlockGood ==
    ASSUME SyncIInv, NEW o \in Barrier, BarrierBlock(o)
    PROVE  Good
<1> DEFINE t == knl.curr
<1>1. /\ Safe /\ Preamble("pend") /\ o \in Waitable \ Event /\ o \in Obj /\ o \in knl.obj
      /\ BlockIn(knl, o, Forever) /\ Forever \in Nat /\ t \in Task
  BY Kinds, TimeAssumption, TypeFacts DEF BarrierBlock, SyncIInv, Forever, Safe
<1>2. /\ count' = [count EXCEPT ![o] = count[o] - 1] /\ count[o] > 1
      /\ flag' = flag /\ want' = want /\ post' = post /\ total' = total
  BY DEF BarrierBlock
<1>3. /\ Safe' /\ Quiet' /\ knl'.obj = knl.obj
      /\ Alone(t) /\ Blocked(t, o) /\ ~IsPending(knl, t)
      /\ ~IsSleeping(knl', t)
  BY <1>1, BlockFrom DEF SyncIInv, Kept
<1>4. PostersKeep
  BY <1>1, TypeFacts DEF Safe, Preamble, TaskRuns, BlockIn, PostersKeep, Posting
<1> HIDE DEF t
<1>5. /\ Moved(o)
      /\ t \notin Waiters(knl, o) /\ Waiters(knl', o) = Waiters(knl, o) \cup {t}
  BY <1>1, <1>3, <1>4, BlockMoved
<1>6. /\ count[o] \in Nat /\ count[o] - 1 \in Nat /\ count'[o] = count[o] - 1
      /\ count' \in [Waitable \ Event -> Nat]
      /\ \A b \in Barrier : b # o => count'[b] = count[b]
  <2>1. count \in [Waitable \ Event -> Nat]
    BY DEF SyncIInv, SyncTypes
  <2>2. count[o] \in Nat
    BY <1>1, <2>1
  <2>3. count[o] - 1 \in Nat
    BY <1>2, <2>2
  <2> QED
    BY <1>1, <1>2, <2>1, <2>2, <2>3, Kinds
<1>7. Only(o)
  <2>1. Typed
    BY <1>2, <1>6 DEF Typed, SyncIInv, SyncTypes
  <2> QED
    BY <1>2, <1>6, <2>1 DEF Only
<1>8. Full(o)'
  <2>1. \A u \in Waiters(knl', o) : ~IsSleeping(knl', u)
    <3>1. \A u \in Waiters(knl, o) : u \in Task /\ InPend(u) /\ u # t /\ ~IsSleeping(knl, u)
      BY <1>5 DEF SyncIInv, WaitInv, Waiters, Full
    <3>2. \A u \in Waiters(knl, o) : ~IsSleeping(knl', u)
      BY <1>3, <3>1 DEF Alone, Steady
    <3> QED
      BY <1>3, <1>5, <3>2
  <2>2. /\ Cardinality(Waiters(knl, o)) \in Nat
        /\ Cardinality(Waiters(knl', o)) = Cardinality(Waiters(knl, o)) + 1
    <3>1. knl.pend[o] \in Seq(Task) /\ ToSet(knl.pend[o]) = Waiters(knl, o)
      BY <1>1, NoWaiters DEF Safe, Sound, KernelType
    <3>2. IsFiniteSet(Waiters(knl, o))
      BY <3>1, ListSize
    <3> QED
      BY <1>5, <3>2, FS_AddElement, FS_CardinalityType
  <2>3. ~SuspendUsed /\ ~DestroyUsed => count[o] + Cardinality(Waiters(knl, o)) = total[o]
    BY <1>2 DEF SyncIInv, Full
  <2>4. ~SuspendUsed /\ ~DestroyUsed =>
           count'[o] # 0 /\ count'[o] + Cardinality(Waiters(knl', o)) = total'[o]
    BY <1>2, <1>6, <2>2, <2>3
  <2> QED
    BY <2>1, <2>4 DEF Full
<1> QED
  BY <1>3, <1>5, <1>7, <1>8, Kinds, OwnObject

LEMMA BarrierGood ==
    ASSUME SyncIInv, NEW o \in Barrier, BarrierApi(o)
    PROVE  Good
  BY BarrierCreateGood, BarrierResetGood, BarrierOpenGood, BarrierBlockGood DEF BarrierApi

----------------------------------------------------------------------------
(* tos_event_post: the store of the flags and the search for waiters.      *)

(* A mark is a step of the caller that leaves the kernel alone: it stands  *)
(* at another place of the post afterwards.                                *)
LEMMA MarkStep ==
    ASSUME Safe, knl.irqNest = 0, ~knl.pendsv,
           pc[knl.curr] \in {"run", "estore"}, NEW l \in Posting,
           pc' = [pc EXCEPT ![knl.curr] = l], knl' = knl, isr' = isr, arg' = arg
    PROVE  /\ Safe' /\ (Quiet => Quiet')
           /\ (\A t \in Task : Steady(t)) /\ knl.curr \in knl.obj
<1>1. knl.curr \in Task /\ pc \in [Task -> Label] /\ pc' \in [Task -> Label] /\ pc'[knl.curr] = l
  BY TypeFacts DEF Safe, Label, Posting
<1>2. TypeOK'
  BY <1>1 DEF Safe, TypeOK
<1>3. knl.curr \in ReadySet(knl)
  BY RunsReady
<1>4. ChosenReady' /\ LockHolds'
  BY <1>3 DEF Safe, ChosenReady, Decisive, Chosen, LockHolds
<1>5. \A t \in Task : Unmoved(t)
  BY <1>1 DEF Unmoved, InPend, InPendNext, Posting
<1>6. \A t \in Task : Steady(t)
  BY <1>5, SteadyIf DEF SameWait
<1>7. Safe' /\ (Quiet => Quiet') /\ knl.curr \in knl.obj
  BY <1>2, <1>3, <1>4, KeptFrom DEF Safe, ReadySet
<1> QED
  BY <1>6, <1>7

LEMMA MarkGood ==
    ASSUME SyncIInv, knl.irqNest = 0, ~knl.pendsv,
           pc[knl.curr] \in {"run", "estore"}, NEW l \in Posting,
           pc' = [pc EXCEPT ![knl.curr] = l], knl' = knl, isr' = isr, arg' = arg,
           flag' \in [Event -> SUBSET Bits], want' = want, count' = count, total' = total,
           post' \in [Task -> [event : Event \cup {NoObj}, flags : SUBSET Bits]],
           \A t \in Task : t # knl.curr => post'[t] = post[t],
           post'[knl.curr].event \in Event,
           \A e \in Event : \/ flag'[e] = flag[e]
                            \/ l = "escan" /\ post'[knl.curr].event = e
    PROVE  Good
<1> DEFINE c == knl.curr
<1>1. /\ Safe' /\ Quiet' /\ (\A t \in Task : Steady(t)) /\ c \in knl.obj /\ c \in Task
      /\ pc \in [Task -> Label]
  BY MarkStep, TypeFacts DEF SyncIInv, Safe
<1>2. WaitInv' /\ \A o : Untouched(o) /\ Waiters(knl', o) = Waiters(knl, o) /\ Told(o) = {}
  <2>1. WaitInv' /\ \A o : Untouched(o)
    BY <1>1, AllUntouched, AllSteady, WokeKeeps DEF SyncIInv
  <2> QED
    BY <2>1 DEF Untouched, Waiters
<1>3. pc'[c] = l /\ \A t \in Task : t # c => pc'[t] = pc[t]
  BY <1>1
<1> HIDE DEF c
<1>4. SyncTypes'
  <2>1. \A t \in Task : pc'[t] \in Posting => post'[t].event \in Event
    BY <1>3 DEF SyncIInv, SyncTypes, c
  <2> QED
    BY <2>1 DEF SyncIInv, SyncTypes
<1>5. PostersLive'
  BY <1>1, <1>3 DEF SyncIInv, PostersLive, DestroyUsed
<1>6. ASSUME NEW e \in Event PROVE Met(e)' /\ Once(e)
  <2>1. Met(e) /\ Waiters(knl', e) = Waiters(knl, e) /\ Told(e) = {}
    BY <1>2 DEF SyncIInv
  <2>2. CASE flag'[e] = flag[e]
    <3>1. \A t \in Posters(e) : t # c
      BY DEF Posters, c
    <3>2. Posters(e) \subseteq Posters(e)'
      BY <1>3, <3>1 DEF Posters, c
    <3> QED
      BY <2>1, <2>2, <3>2, Hushed DEF Once
  <2>3. CASE l = "escan" /\ post'[c].event = e
    <3>1. c \in Posters(e)'
      BY <1>1, <1>3, <2>3 DEF Posters
    <3> QED
      BY <2>1, <3>1 DEF Met, Once
  <2> QED
    BY <2>2, <2>3 DEF c
<1>7. ASSUME NEW b \in Barrier PROVE Full(b)'
  <2>1. Full(b) /\ Untouched(b)
    BY <1>2 DEF SyncIInv
  <2> QED
    BY <2>1, FullKeeps
<1> QED
  BY <1>1, <1>2, <1>4, <1>5, <1>6, <1>7 DEF Good, SyncIInv

LEMMA PostTypes ==
    ASSUME SyncIInv
    PROVE  /\ flag \in [Event -> SUBSET Bits]
           /\ post \in [Task -> [event : Event \cup {NoObj}, flags : SUBSET Bits]]
           /\ knl.curr \in Task
  BY TypeFacts DEF SyncIInv, SyncTypes, Safe

LEMMA EventPostLoadGood ==
    ASSUME SyncIInv, NEW e \in Event, NEW f \in SUBSET Bits, EventPostLoad(e, f)
    PROVE  Good
<1> DEFINE p == [event |-> e, flags |-> flag[e] \cup f]
<1>1. /\ knl.irqNest = 0 /\ ~knl.pendsv /\ pc[knl.curr] = "run"
      /\ post' = [post EXCEPT ![knl.curr] = p]
      /\ pc' = [pc EXCEPT ![knl.curr] = "estore"]
      /\ knl' = knl /\ isr' = isr /\ arg' = arg
      /\ flag' = flag /\ count' = count /\ want' = want /\ total' = total
  BY DEF EventPostLoad, Preamble, TaskRuns
<1>2. p \in [event : Event \cup {NoObj}, flags : SUBSET Bits] /\ p.event \in Event
  BY PostTypes
<1> HIDE DEF p
<1>3. /\ post' \in [Task -> [event : Event \cup {NoObj}, flags : SUBSET Bits]]
      /\ post'[knl.curr].event \in Event
      /\ \A t \in Task : t # knl.curr => post'[t] = post[t]
  BY <1>1, <1>2, PostTypes
<1>4. "estore" \in Posting
  BY DEF Posting
<1> QED
  BY <1>1, <1>3, <1>4, PostTypes, MarkGood

LEMMA EventPostGood ==
    ASSUME SyncIInv, NEW e \in Event, NEW f \in SUBSET Bits, EventPost(e, f)
    PROVE  Good
<1> DEFINE p == [event |-> e, flags |-> f]
<1>1. /\ knl.irqNest = 0 /\ ~knl.pendsv /\ pc[knl.curr] = "run"
      /\ post' = [post EXCEPT ![knl.curr] = p]
      /\ pc' = [pc EXCEPT ![knl.curr] = "escan"]
      /\ knl' = knl /\ isr' = isr /\ arg' = arg
      /\ flag' = [flag EXCEPT ![e] = f]
      /\ count' = count /\ want' = want /\ total' = total
  BY DEF EventPost, Preamble, TaskRuns
<1>2. p \in [event : Event \cup {NoObj}, flags : SUBSET Bits] /\ p.event = e
  OBVIOUS
<1> HIDE DEF p
<1>3. /\ post' \in [Task -> [event : Event \cup {NoObj}, flags : SUBSET Bits]]
      /\ post'[knl.curr].event = e
      /\ \A t \in Task : t # knl.curr => post'[t] = post[t]
  BY <1>1, <1>2, PostTypes
<1>4. /\ flag' \in [Event -> SUBSET Bits]
      /\ \A q \in Event : q # e => flag'[q] = flag[q]
  BY <1>1, PostTypes
<1>5. "escan" \in Posting
  BY DEF Posting
<1> QED
  BY <1>1, <1>3, <1>4, <1>5, MarkGood

LEMMA EventPostStoreGood ==
    ASSUME SyncIInv, EventPostStore PROVE Good
<1> DEFINE p == post[knl.curr]
<1>1. /\ knl.irqNest = 0 /\ ~knl.pendsv /\ pc[knl.curr] = "estore"
      /\ flag' = [flag EXCEPT ![p.event] = p.flags]
      /\ pc' = [pc EXCEPT ![knl.curr] = "escan"]
      /\ knl' = knl /\ isr' = isr /\ arg' = arg
      /\ post' = post /\ count' = count /\ want' = want /\ total' = total
  BY DEF EventPostStore
<1>2. "escan" \in Posting /\ "estore" \in Posting
  BY DEF Posting
<1>3. p.event \in Event /\ p.flags \in SUBSET Bits
  <2>1. p \in [event : Event \cup {NoObj}, flags : SUBSET Bits]
    BY PostTypes
  <2>2. p.event \in Event
    BY <1>1, <1>2, PostTypes DEF SyncIInv, SyncTypes
  <2> QED
    BY <2>1, <2>2
<1>4. /\ flag' \in [Event -> SUBSET Bits]
      /\ \A q \in Event : q # p.event => flag'[q] = flag[q]
  BY <1>1, <1>3, PostTypes
<1> QED
  BY <1>1, <1>2, <1>3, <1>4, PostTypes, MarkGood

(* The search for waiters, with the flags f.                               *)
LEMMA WokenWait ==
    ASSUME Safe, NEW e \in Event, NEW f
    PROVE  /\ Woken(e, f) \subseteq Waiters(knl, e)
           /\ LET k == wakeup_those(knl, knl.pend[e], Woken(e, f), "POST")
              IN  /\ Sound(k) /\ SameFrame(knl, k) /\ ReadySet(knl) \subseteq ReadySet(k)
                  /\ Awoken(knl, k, Woken(e, f), "POST")
<1> DEFINE ts == knl.pend[e]
           W  == Woken(e, f)
<1>1. /\ Sound(knl) /\ ts \in Seq(Task) /\ IsInjective(ts)
      /\ ToSet(ts) = Waiters(knl, e)
  BY Kinds DEF Safe, Sound, KernelType, Waiting, PendExact
<1>2. W \subseteq ToSet(ts)
  BY DEF Woken, Matching, ToSet
<1>3. "POST" \in PendState /\ ToSet(ts) \cap W = W
  BY <1>2 DEF PendState
<1> HIDE DEF W, ts
<1>4. ToSet(ts) \cap W \subseteq Busy(knl)
  BY <1>1 DEF Busy, Waiters
<1>5. LET k == wakeup_those(knl, ts, W, "POST")
      IN  /\ Sound(k) /\ SameFrame(knl, k) /\ ReadySet(knl) \subseteq ReadySet(k)
          /\ Awoken(knl, k, ToSet(ts) \cap W, "POST")
  BY <1>1, <1>3, <1>4, WakeThoseSound
<1> QED
  BY <1>1, <1>2, <1>3, <1>5 DEF W, ts

(* Who is left is not satisfied with what is left, and a waiter that       *)
(* clears is the last to be told.                                          *)
LEMMA ScanRight ==
    ASSUME Safe, NEW e \in Event, Met(e), NEW f
    PROVE  /\ \A t \in Waiters(knl, e) \ Woken(e, f) : ~event_is_match(FlagsLeft(e, f), want[t])
           /\ \A c \in Woken(e, f) :
                 want[c].clr =>
                     /\ FlagsLeft(e, f) = {}
                     /\ \A t \in Woken(e, f) \ {c} :
                           ~want[t].clr /\ knl.prio[t] <= knl.prio[c]
<1> DEFINE s == knl.pend[e]
           M == Matching(e, f)
           C == Clearing(e, f)
<1>1. /\ s \in Seq(Task) /\ ToSet(s) = Waiters(knl, e) /\ SortedBy(s, knl.prio)
  BY Kinds DEF Safe, Sound, KernelType, Waiting, PendExact
<1>2. DOMAIN s \subseteq Nat /\ ToSet(s) = {s[i] : i \in DOMAIN s}
  BY <1>1 DEF ToSet
<1>3. /\ M = {i \in DOMAIN s : event_is_match(f, want[s[i]])}
      /\ C = {i \in M : want[s[i]].clr}
      /\ Woken(e, f) = {s[i] : i \in {j \in M : \A c \in C : j <= c}}
      /\ FlagsLeft(e, f) = IF C = {} THEN f ELSE {}
  BY DEF Matching, Clearing, Woken, FlagsLeft
<1> HIDE DEF s, M, C
<1>4. ASSUME NEW t \in Waiters(knl, e) \ Woken(e, f)
      PROVE  ~event_is_match(FlagsLeft(e, f), want[t])
  <2>1. PICK i \in DOMAIN s : t = s[i]
    BY <1>1, <1>2
  <2>2. ~event_is_match({}, want[t])
    BY DEF Met
  <2>3. CASE i \notin M
    BY <1>3, <2>1, <2>2, <2>3
  <2>4. CASE i \in M
    <3>1. C # {}
      BY <1>3, <2>1, <2>4
    <3> QED
      BY <1>3, <2>2, <3>1
  <2> QED
    BY <2>3, <2>4
<1>5. ASSUME NEW c \in Woken(e, f), want[c].clr
      PROVE  /\ FlagsLeft(e, f) = {}
             /\ \A t \in Woken(e, f) \ {c} : ~want[t].clr /\ knl.prio[t] <= knl.prio[c]
  <2>1. PICK i \in M : c = s[i] /\ \A m \in C : i <= m
    BY <1>3
  <2>2. i \in C
    BY <1>3, <1>5, <2>1
  <2>3. ASSUME NEW t \in Woken(e, f) \ {c}
        PROVE  ~want[t].clr /\ knl.prio[t] <= knl.prio[c]
    <3>1. PICK j \in M : t = s[j] /\ \A m \in C : j <= m
      BY <1>3
    <3>2. i \in DOMAIN s /\ j \in DOMAIN s /\ j <= i /\ j # i
      BY <1>3, <2>1, <2>2, <2>3, <3>1
    <3>3. j \notin C
      BY <1>2, <2>1, <3>2
    <3> QED
      BY <1>1, <1>2, <1>3, <2>1, <3>1, <3>2, <3>3 DEF SortedBy
  <2> QED
    BY <1>3, <2>2, <2>3
<1> QED
  BY <1>4, <1>5

LEMMA ScanGood ==
    ASSUME SyncIInv, NEW e \in Event, NEW f \in SUBSET Bits, event_scan(e, f),
           Safe', Quiet', \A t \in Task : Unmoved(t),
           count' = count, want' = want, total' = total,
           post' \in [Task -> [event : Event \cup {NoObj}, flags : SUBSET Bits]],
           \A t \in Task : pc'[t] \in Posting => pc'[t] = pc[t] /\ post'[t] = post[t],
           \A q \in Event : q # e => Posters(q) \subseteq Posters(q)'
    PROVE  Good
<1> DEFINE A == Woken(e, f)
           k == wakeup_those(knl, knl.pend[e], A, "POST")
<1>1. /\ A \in SUBSET Waiters(knl, e) /\ SameFrame(knl, k) /\ Awoken(knl, k, A, "POST")
  BY WokenWait DEF SyncIInv
<1>2. /\ knl' = k /\ flag' = [flag EXCEPT ![e] = FlagsLeft(e, f)]
  BY DEF event_scan
<1>3. /\ \A t \in Waiters(knl, e) \ A : ~event_is_match(FlagsLeft(e, f), want[t])
      /\ \A c \in A : want[c].clr =>
            /\ FlagsLeft(e, f) = {}
            /\ \A t \in A \ {c} : ~want[t].clr /\ knl.prio[t] <= knl.prio[c]
  BY ScanRight DEF SyncIInv
<1>4. FlagsLeft(e, f) \in SUBSET Bits
  BY DEF FlagsLeft
<1> HIDE DEF A, k
<1>5. Woke(A, "POST") /\ knl'.obj = knl.obj
  BY <1>1, <1>2, AwokenWoke DEF SameFrame
<1>6. /\ flag' \in [Event -> SUBSET Bits] /\ flag'[e] = FlagsLeft(e, f)
      /\ \A q \in Event : q # e => flag'[q] = flag[q]
  BY <1>2, <1>4, PostTypes
<1>7. WaitInv'
  BY <1>5, WokeKeeps DEF SyncIInv
<1>8. ASSUME NEW o, o # e PROVE Untouched(o)
  <2>1. A \cap Waiters(knl, o) = {}
    BY <1>1, <1>8 DEF Waiters
  <2> QED
    BY <1>5, <2>1, WokeElse DEF SyncIInv
<1>9. Waiters(knl', e) = Waiters(knl, e) \ A /\ Told(e) = A
  BY <1>1, <1>5 DEF Told, Woke, Ended, Steady, Waiters
<1>10. SyncTypes'
  BY <1>6 DEF SyncIInv, SyncTypes
<1>11. PostersLive'
  BY <1>5 DEF SyncIInv, PostersLive, DestroyUsed
<1>12. ASSUME NEW q \in Event PROVE Met(q)' /\ Once(q)
  <2>1. CASE q = e
    <3>1. \A t \in Waiters(knl, e) : ~event_is_match({}, want[t])
      BY DEF SyncIInv, Met
    <3> QED
      BY <1>3, <1>6, <1>9, <2>1, <3>1 DEF Met, Once
  <2>2. CASE q # e
    <3>1. Untouched(q) /\ Met(q) /\ flag'[q] = flag[q] /\ Posters(q) \subseteq Posters(q)'
      BY <1>6, <1>8, <2>2 DEF SyncIInv
    <3> QED
      BY <3>1, Hushed DEF Untouched, Once
  <2> QED
    BY <2>1, <2>2
<1>13. ASSUME NEW b \in Barrier PROVE Full(b)'
  <2>1. Full(b) /\ Untouched(b)
    BY <1>8, Kinds DEF SyncIInv
  <2> QED
    BY <2>1, FullKeeps
<1> QED
  BY <1>7, <1>10, <1>11, <1>12, <1>13 DEF Good, SyncIInv

LEMMA EventScanGood ==
    ASSUME SyncIInv, EventScan PROVE Good
<1> DEFINE c == knl.curr
           e == post[c].event
           f == flag[e]
           k == wakeup_those(knl, knl.pend[e], Woken(e, f), "POST")
<1>1. /\ knl.irqNest = 0 /\ ~knl.pendsv /\ pc[c] = "escan"
      /\ event_scan(e, f) /\ knl' = k
      /\ post' = [post EXCEPT ![c] = NoPost]
      /\ pc' = [pc EXCEPT ![c] = "sched"]
      /\ isr' = isr /\ arg' = arg /\ count' = count /\ want' = want /\ total' = total
  BY DEF EventScan, event_scan
<1>2. c \in Task /\ e \in Event /\ pc \in [Task -> Label] /\ arg \in [Task -> Obj \cup {NoObj}]
  BY <1>1, TypeFacts DEF SyncIInv, SyncTypes, Safe, Posting
<1>3. f \in SUBSET Bits
  BY <1>2, PostTypes
<1>4. c \in ReadySet(knl)
  BY <1>1, RunsReady DEF SyncIInv
<1>5. Sound(k) /\ SameFrame(knl, k) /\ ReadySet(knl) \subseteq ReadySet(k)
  BY <1>2, WokenWait DEF SyncIInv
<1> HIDE DEF k, e, f
<1>6. (Unowned(knl) => Unowned(k)) /\ SameCpu(knl, k)
  BY <1>5, SameControlCpu
<1>7. pc' \in [Task -> Label] /\ pc'[c] = "sched" /\ \A t \in Task : t # c => pc'[t] = pc[t]
  BY <1>1, <1>2 DEF Label
<1>8. Safe' /\ Quiet'
  BY <1>1, <1>2, <1>4, <1>5, <1>6, <1>7, CallStep DEF SyncIInv, Kept
<1>9. \A t \in Task : Unmoved(t)
  BY <1>1, <1>7 DEF Unmoved, InPend, InPendNext
<1>10. /\ post' \in [Task -> [event : Event \cup {NoObj}, flags : SUBSET Bits]]
       /\ \A t \in Task : t # c => post'[t] = post[t]
  BY <1>1, <1>2, PostTypes DEF NoPost
<1>11. \A t \in Task : pc'[t] \in Posting => pc'[t] = pc[t] /\ post'[t] = post[t]
  BY <1>7, <1>10 DEF Posting
<1>12. \A q \in Event : q # e => Posters(q) \subseteq Posters(q)'
  BY <1>7, <1>10 DEF Posters, e
<1> HIDE DEF c
<1> QED
  BY <1>1, <1>2, <1>3, <1>8, <1>9, <1>10, <1>11, <1>12, ScanGood

LEMMA EventPostFromIsrGood ==
    ASSUME SyncIInv, NEW e \in Event, NEW f \in SUBSET Bits, NEW keep \in BOOLEAN,
           EventPostFromIsr(e, f, keep)
    PROVE  Good
<1> DEFINE g == IF keep THEN flag[e] \cup f ELSE f
           k == wakeup_those(knl, knl.pend[e], Woken(e, g), "POST")
<1>1. /\ IsrPreamble("post") /\ event_scan(e, g) /\ knl' = k
      /\ isr' = isr /\ pc' = pc /\ arg' = arg
      /\ count' = count /\ want' = want /\ post' = post /\ total' = total
  BY DEF EventPostFromIsr, event_scan
<1>2. g \in SUBSET Bits
  BY PostTypes
<1>3. Sound(k) /\ SameFrame(knl, k) /\ ReadySet(knl) \subseteq ReadySet(k)
  BY WokenWait DEF SyncIInv
<1> HIDE DEF k, g
<1>4. (Unowned(knl) => Unowned(k)) /\ SameCpu(knl, k)
  BY <1>3, SameControlCpu
<1>5. knl.schedLock > 0 => knl.curr \in ReadySet(k)
  BY <1>3 DEF SyncIInv, Safe, LockHolds
<1>6. Safe' /\ Quiet'
  BY <1>1, <1>3, <1>4, <1>5, IsrCallStep DEF SyncIInv, ThenReturn, Kept
<1>7. \A t \in Task : Unmoved(t)
  BY <1>1, StayUnmoved
<1>8. \A q \in Event : Posters(q) \subseteq Posters(q)'
  BY <1>1 DEF Posters
<1> QED
  BY <1>1, <1>2, <1>6, <1>7, <1>8, PostTypes, ScanGood

LEMMA EventGood ==
    ASSUME SyncIInv, NEW e \in Event, EventApi(e)
    PROVE  Good
<1>1. Posted \subseteq SUBSET Bits /\ {} \in SUBSET Bits /\ Expectation \subseteq Waits
  BY SyncAssumption
<1>2. ASSUME NEW f \in Posted,
             EventPostLoad(e, f) \/ EventPost(e, f)
                \/ \E keep \in BOOLEAN : EventPostFromIsr(e, f, keep)
      PROVE  Good
  BY <1>1, <1>2, EventPostLoadGood, EventPostGood, EventPostFromIsrGood
<1>3. ASSUME NEW f \in Posted \cup {{}}, EventCreate(e, f) PROVE Good
  BY <1>1, <1>3, EventCreateGood
<1>4. ASSUME NEW w \in Expectation,
             EventTake(e, w) \/ \E timeout \in SyncTimeouts : EventBlock(e, w, timeout)
      PROVE  Good
  BY <1>1, <1>4, EventTakeGood, EventBlockGood
<1> QED
  BY <1>2, <1>3, <1>4 DEF EventApi

----------------------------------------------------------------------------
(* All the steps.                                                          *)

LEMMA ReturnGood ==
    ASSUME SyncIInv, SyncPendReturn PROVE Good
<1> DEFINE t == knl.curr
<1>1. /\ Safe /\ PendReturn /\ want' = [want EXCEPT ![t] = NoWait]
      /\ flag' = flag /\ count' = count /\ total' = total /\ post' = post
  BY DEF SyncPendReturn, SyncIInv
<1>2. /\ Safe' /\ Quiet' /\ knl' = knl /\ t \in Task
      /\ Alone(t) /\ Left(t) /\ ~IsPending(knl, t)
  BY <1>1, PendReturnStep, TypeFacts DEF SyncIInv, Safe, Kept
<1>3. PostersKeep
  BY <1>1, TypeFacts DEF Safe, PendReturn, PostersKeep, Posting
<1> HIDE DEF t
<1>4. Moved(NoObj)
  BY <1>2, <1>3 DEF Moved
<1>5. NoWait \in Waits
  BY DEF NoWait, Waits
<1>6. Typed
  BY <1>1, <1>5 DEF Typed, SyncIInv, SyncTypes
<1>7. Only(NoObj)
  BY <1>1, <1>2, <1>6 DEF Only, SyncIInv, SyncTypes
<1> QED
  BY <1>2, <1>4, <1>7, Kinds, OwnObject

LEMMA SchedulerGood ==
    ASSUME SyncIInv, [Next]_vars, UNCHANGED objVars PROVE Good
<1>1. /\ flag' = flag /\ count' = count /\ want' = want /\ post' = post /\ total' = total
  BY DEF objVars
<1>2. Safe' /\ Quiet' /\ WaitStep /\ PostersKeep
  BY NextKept, NextWait, NextPosters, QuietIsHarmless DEF SyncIInv, Quiet, Kept
<1>3. WaitInv'
  BY <1>2, WaitStepKeeps DEF SyncIInv
<1>4. \A o : /\ Waiters(knl', o) \subseteq Waiters(knl, o) /\ Told(o) = {}
             /\ (\A t \in Waiters(knl, o) : ~IsSleeping(knl, t)) => Untouched(o)
  BY <1>2, StepTouch DEF SyncIInv
<1>5. /\ PostersLive'
      /\ \A e \in Event : DestroyUsed \/ Posters(e) \subseteq Posters(e)'
      /\ \A t \in Task : pc'[t] \in Posting => post'[t].event \in Event
  BY <1>1, <1>2, PostersStay DEF SyncIInv, WaitStep
<1>6. SyncTypes'
  BY <1>1, <1>5 DEF SyncIInv, SyncTypes
<1>7. ASSUME NEW e \in Event PROVE Met(e)' /\ Once(e)
  BY <1>1, <1>4, <1>5, Hushed DEF SyncIInv, Once
<1>8. ASSUME NEW b \in Barrier PROVE Full(b)'
  <2>1. Full(b) /\ Untouched(b)
    BY <1>4 DEF SyncIInv, Full
  <2> QED
    BY <1>1, <2>1, FullKeeps
<1> QED
  BY <1>2, <1>3, <1>5, <1>6, <1>7, <1>8 DEF Good, SyncIInv

LEMMA SyncNextGood == SyncIInv /\ [SyncNext]_syncVars => Good
<1> SUFFICES ASSUME SyncIInv, [SyncNext]_syncVars PROVE Good
  OBVIOUS
<1>1. CASE [Next]_vars /\ UNCHANGED objVars
  BY <1>1, SchedulerGood
<1>2. CASE SyncApi
  BY <1>2, EventGood, CompletionGood, LatchGood, BarrierGood, DestroyGood,
     EventPostStoreGood, EventScanGood, ReturnGood
  DEF SyncApi
<1> QED
  BY <1>1, <1>2 DEF SyncNext, syncVars, vars, objVars

LEMMA SyncInitInv == SyncInit => SyncIInv
<1> SUFFICES ASSUME SyncInit PROVE SyncIInv
  OBVIOUS
<1>1. Safe /\ Quiet /\ WaitInv /\ Init
  BY InitInv, InitWait DEF SyncInit, IInv
<1>2. \A t \in Task : pc[t] \notin Posting
  BY <1>1 DEF Init, Posting
<1>3. \A o : Waiters(knl, o) = {}
  BY <1>1 DEF Init, BootKernel, Waiters, IsPending
<1>4. NoWait \in Waits /\ NoPost \in [event : Event \cup {NoObj}, flags : SUBSET Bits]
  BY DEF NoWait, NoPost, Waits
<1>5. SyncTypes /\ PostersLive
  BY <1>2, <1>4 DEF SyncInit, SyncTypes, PostersLive
<1>6. \A e \in Event : Met(e)
  BY <1>3 DEF Met
<1>7. \A b \in Barrier : Full(b)
  BY <1>3, Kinds DEF Full, SyncInit
<1> QED
  BY <1>1, <1>5, <1>6, <1>7 DEF SyncIInv

(* The inductive invariant holds in every reachable state.                 *)
THEOREM SyncInvariant == SyncSpec => []SyncIInv
<1>1. SyncIInv /\ [SyncNext]_syncVars => SyncIInv'
  BY SyncNextGood DEF Good
<1> QED
  BY <1>1, SyncInitInv, PTL DEF SyncSpec

(* No post of an event is missed: when every tos_event_post has looked     *)
(* through the waiters, nobody waits for flags that are set, whoever began *)
(* to wait, or posted more, between its store and its search.  A task      *)
(* destroyed in between tells nobody: the application destroys none.       *)
THEOREM EventsLoseNoWakeup == ~DestroyUsed /\ SyncSpec => []EventNoLostWakeup
<1>1. ~DestroyUsed /\ SyncIInv => EventNoLostWakeup
  <2> SUFFICES ASSUME ~DestroyUsed, SyncIInv, NEW e \in Event,
                      \A t \in Task : pc[t] = "escan" => post[t].event # e,
                      NEW t \in ToSet(knl.pend[e])
               PROVE  ~event_is_match(flag[e], want[t])
    BY DEF EventNoLostWakeup
  <2>1. t \in Waiters(knl, e)
    BY Kinds, NoWaiters DEF SyncIInv, Safe
  <2>2. Posters(e) = {}
    BY DEF Posters
  <2> QED
    BY <2>1, <2>2 DEF SyncIInv, Met
<1>2. ~DestroyUsed => [](~DestroyUsed)
  <2>1. ~DestroyUsed => (~DestroyUsed)'
    BY DEF DestroyUsed
  <2> QED
    BY <2>1, PTL
<1> QED
  BY <1>1, <1>2, SyncInvariant, PTL

(* No flag is consumed twice: of the tasks that a post wakes only the last *)
(* in priority clears, and what it cleared is gone.                        *)
THEOREM FlagsConsumedOnce == SyncSpec => EventConsumedOnce
<1>1. ASSUME SyncIInv, [SyncNext]_syncVars
      PROVE  \A e \in Event : \A c \in Answered(e) :
                want[c].clr =>
                    /\ flag'[e] = {}
                    /\ \A t \in Answered(e) \ {c} : ~want[t].clr /\ knl.prio[t] <= knl.prio[c]
  <2>1. \A e \in Event : Once(e)
    BY <1>1, SyncNextGood DEF Good
  <2>2. \A e \in Event : Answered(e) = Told(e)
    BY <1>1, Kinds, NoWaiters DEF SyncIInv, Safe, Answered, Told
  <2> QED
    BY <2>1, <2>2 DEF Once
<1> QED
  BY <1>1, SyncInvariant, PTL DEF SyncSpec, EventConsumedOnce

(* A barrier counts exactly the tasks that wait at it, so that it opens    *)
(* for the last of them and for nobody before; open, it keeps nobody.  The *)
(* application suspends and destroys no task: a task taken out of the      *)
(* barrier's list stays counted.                                           *)
THEOREM BarriersExact == ~SuspendUsed /\ ~DestroyUsed /\ SyncSpec => []BarrierExact
<1>1. ~SuspendUsed /\ ~DestroyUsed /\ SyncIInv => BarrierExact
  <2> SUFFICES ASSUME ~SuspendUsed, ~DestroyUsed, SyncIInv, NEW b \in Barrier
               PROVE  IF count[b] = 0 THEN pend_is_nopending(knl, b)
                      ELSE count[b] + Len(knl.pend[b]) = total[b]
    BY DEF BarrierExact
  <2>1. b \in Obj /\ Sound(knl) /\ Full(b)
    BY Kinds DEF SyncIInv, Safe
  <2>2. Cardinality(Waiters(knl, b)) = Len(knl.pend[b])
    BY <2>1, NoWaiters, ListSize DEF Sound, KernelType, Waiting, PendExact
  <2> QED
    BY <2>1, <2>2, NoWaiters DEF Full
<1>2. ~SuspendUsed /\ ~DestroyUsed => [](~SuspendUsed /\ ~DestroyUsed)
  <2>1. ~SuspendUsed /\ ~DestroyUsed => (~SuspendUsed /\ ~DestroyUsed)'
    BY DEF SuspendUsed, DestroyUsed
  <2> QED
    BY <2>1, PTL
<1> QED
  BY <1>1, <1>2, SyncInvariant, PTL

(* The lists stay exact, and no wait ends without an outcome unless its    *)
(* task is suspended.                                                      *)
THEOREM SyncListsAlwaysExact ==
    SyncSpec => [](TypeOK /\ ReadyQueueExact /\ TickListExact /\ PendListExact
                      /\ RunningIsReady /\ (~SuspendUsed => PendDecided))
<1>1. Safe /\ Quiet => TypeOK /\ ReadyQueueExact /\ TickListExact /\ RunningIsReady
  BY SafeFacts
<1>2. SyncIInv => /\ TypeOK /\ ReadyQueueExact /\ TickListExact /\ PendListExact
                  /\ RunningIsReady /\ (~SuspendUsed => PendDecided)
  BY <1>1, WaitFacts DEF SyncIInv
<1> QED
  BY <1>2, SyncInvariant, PTL
=============================================================================
