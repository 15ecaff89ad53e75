----------------------------- MODULE LockProofs ------------------------------
(***************************************************************************)
(* Semaphores and mutexes, and the read-write lock that is made of the     *)
(* two, for any number of tasks, objects, tokens and priorities.           *)
(*                                                                         *)
(* Semaphores keep the scheduler's invariants, lose no wake-up, and        *)
(* implement the abstract semaphores.  Mutexes: who owns which, who waits  *)
(* for it, and what a waiter is told.  Read-write locks: who reads and who *)
(* writes, and that the counts, the mutex and the semaphore inside agree.  *)
(***************************************************************************)
EXTENDS RwlockInv, TaskProofs, FiniteSetTheorems

----------------------------------------------------------------------------
(* Semaphores.                                                             *)

(* Counters stay within their limits, and tokens and waiters never         *)
(* coexist; a dead semaphore has no waiters, whatever its old count.       *)
CountOK == /\ count \in [Waitable -> Nat] /\ countMax \in [Waitable -> Nat]
           /\ \A s \in Waitable : count[s] <= countMax[s]
NoIdleToken == \A s \in Waitable : count[s] > 0 => Waiters(knl, s) = {}

SemIInv == IInv /\ WaitInv /\ CountOK /\ NoIdleToken

SameCounts == count' = count /\ countMax' = countMax

(* What a call does to the tokens and to those who wait for them.          *)
Opens(s)    == /\ s \in Waitable /\ Waiters(knl, s) = {}
               /\ \E n \in Counts, max \in CountMaxes :
                     /\ count' = [count EXCEPT ![s] = IF n > max THEN max ELSE n]
                     /\ countMax' = [countMax EXCEPT ![s] = max]
               /\ \A t \in Task : Steady(t)
Takes(s)    == /\ s \in Waitable /\ count[s] > 0
               /\ count' = [count EXCEPT ![s] = @ - 1] /\ countMax' = countMax
               /\ \A t \in Task : Steady(t)
Saves(s)    == /\ s \in Waitable /\ Waiters(knl, s) = {} /\ count[s] # countMax[s]
               /\ count' = [count EXCEPT ![s] = @ + 1] /\ countMax' = countMax
               /\ \A t \in Task : Steady(t)
Grants(s, A) == /\ s \in Waitable /\ A # {} /\ A \subseteq Waiters(knl, s)
                /\ A = Waiters(knl, s) \/ \E t : A = {t}
                /\ Woke(A, "POST") /\ SameCounts
Closes(s)   == s \in Waitable /\ Woke(Waiters(knl, s), "DESTROY") /\ SameCounts
Blocks(s, t) == /\ s \in Waitable /\ t \in Task /\ count[s] = 0
                /\ ~InPend(t) /\ ~IsPending(knl, t)
                /\ Alone(t) /\ Blocked(t, s) /\ SameCounts
Returns(t)  == t \in Task /\ Alone(t) /\ Left(t) /\ SameCounts

SemStep ==
    \/ WaitStep /\ SameCounts
    \/ \E s : Opens(s) \/ Takes(s) \/ Saves(s) \/ Closes(s)
    \/ \E s, A : Grants(s, A)
    \/ \E s, t : Blocks(s, t)
    \/ \E t : Returns(t)

----------------------------------------------------------------------------
(* Every step of the semaphores keeps the scheduler's invariant and is one *)
(* of these.                                                               *)

LEMMA WaitableObj == Waitable \subseteq Obj
  BY DEF Obj

LEMMA SemCreateStep ==
    ASSUME Safe, NEW s \in Waitable, NEW n \in Counts, NEW max \in CountMaxes,
           SemCreate(s, n, max)
    PROVE  Kept /\ Opens(s)
<1>1. s \in Obj /\ s \notin knl.obj /\ Waiters(knl, s) = {}
  BY WaitableObj, NoWaiters DEF SemCreate, Safe
<1>2. Kept /\ \A t \in Task : Steady(t)
  BY <1>1, CreatedFrom DEF SemCreate
<1> QED
  BY <1>1, <1>2 DEF SemCreate, Opens

LEMMA SemDestroyStep ==
    ASSUME Safe, NEW s \in Waitable, SemDestroy(s)
    PROVE  Kept /\ Closes(s)
<1>1. "DESTROY" \in PendState
  BY DEF PendState
<1> QED
  BY <1>1, WaitableObj, DestroyedFrom DEF SemDestroy, Closes, SameCounts

LEMMA SemPostStep ==
    ASSUME Safe, NEW s \in Waitable, NEW opt \in {"ONE", "ALL"}, SemPost(s, opt)
    PROVE  Kept /\ (Saves(s) \/ \E A : Grants(s, A))
<1>1. "POST" \in PendState /\ s \in Obj /\ Sound(knl)
  BY WaitableObj DEF PendState, Safe
<1>2. CASE pend_is_nopending(knl, s)
  <2>1. ReturnAnywhere("sem_post", knl)
    BY <1>2 DEF SemPost
  <2>2. Kept /\ \A t \in Task : Steady(t)
    BY <2>1, IdleFrom
  <2> QED
    BY <1>1, <1>2, <2>2, NoWaiters DEF SemPost, Saves
<1>3. CASE ~pend_is_nopending(knl, s)
  <2>1. FromAnywhere("sem_post", pend_wakeup(knl, s, "POST", opt))
    BY <1>3 DEF SemPost
  <2>2. Kept /\ \E A \in SUBSET Waiters(knl, s) :
                   /\ A = Waiters(knl, s) \/ \E t : A = {t}
                   /\ A # {} /\ Woke(A, "POST")
    BY <1>1, <1>3, <2>1, PostedFrom
  <2> QED
    BY <1>3, <2>2 DEF SemPost, Grants, SameCounts
<1> QED
  BY <1>2, <1>3

LEMMA SemTakeStep ==
    ASSUME Safe, NEW s \in Waitable, SemTake(s)
    PROVE  Kept /\ Takes(s)
<1>1. ReturnAnywhere("sem_pend", knl)
  BY DEF SemTake, ReturnAnywhere
<1>2. Kept /\ \A t \in Task : Steady(t)
  BY <1>1, IdleFrom
<1> QED
  BY <1>2 DEF SemTake, Takes

LEMMA SemBlockStep ==
    ASSUME Safe, NEW s \in Waitable, NEW timeout \in Timeouts, SemBlock(s, timeout)
    PROVE  Kept /\ \E t : Blocks(s, t)
<1>1. s \in Obj /\ timeout \in Nat
  BY WaitableObj, SemAssumption, TimeAssumption DEF Forever
<1>2. /\ Kept /\ Alone(knl.curr) /\ Blocked(knl.curr, s)
      /\ ~InPend(knl.curr) /\ ~IsPending(knl, knl.curr)
  BY <1>1, BlockFrom DEF SemBlock
<1>3. knl.curr \in Task
  BY TypeFacts DEF Safe
<1> QED
  BY <1>2, <1>3 DEF SemBlock, Blocks, SameCounts

LEMMA SemReturnStep ==
    ASSUME Safe, SemPendReturn
    PROVE  Kept /\ \E t : Returns(t)
<1>1. Kept /\ Alone(knl.curr) /\ Left(knl.curr) /\ knl.curr \in Task
  BY PendReturnStep, TypeFacts DEF SemPendReturn, Safe
<1> QED
  BY <1>1 DEF SemPendReturn, Returns, SameCounts

LEMMA SemNextStep == Safe /\ Quiet /\ [SemNext]_semVars => Kept /\ SemStep
<1> SUFFICES ASSUME Safe, Quiet, [SemNext]_semVars PROVE Kept /\ SemStep
  OBVIOUS
<1>1. CASE [Next]_vars /\ SameCounts
  BY <1>1, NextKept, NextWait, QuietIsHarmless DEF Quiet, SemStep
<1>2. CASE SemApi
  BY <1>2, SemCreateStep, SemDestroyStep, SemPostStep, SemTakeStep, SemBlockStep,
     SemReturnStep
  DEF SemApi, SemStep
<1> QED
  BY <1>1, <1>2 DEF SemNext, semVars, vars, SameCounts

----------------------------------------------------------------------------
(* The inductive invariant.                                                *)

LEMMA SteadyWaiters ==
    ASSUME \A t \in Task : Steady(t), NEW o PROVE Waiters(knl', o) = Waiters(knl, o)
  BY DEF Steady, Waiters

LEMMA SemStepKeeps ==
    ASSUME WaitInv, CountOK, NoIdleToken, SemStep
    PROVE  WaitInv' /\ CountOK' /\ NoIdleToken'
<1>1. CASE WaitStep /\ SameCounts
  <2>1. WaitInv'
    BY <1>1, WaitStepKeeps
  <2>2. \A s \in Waitable : Waiters(knl', s) \subseteq Waiters(knl, s)
    BY <1>1, StepShrinks
  <2> QED
    BY <1>1, <2>1, <2>2 DEF SameCounts, CountOK, NoIdleToken
<1>2. ASSUME NEW s, Opens(s) \/ Takes(s) \/ Saves(s)
      PROVE  WaitInv' /\ CountOK' /\ NoIdleToken'
  <2>1. \A t \in Task : Steady(t)
    BY <1>2 DEF Opens, Takes, Saves
  <2>2. WaitInv' /\ \A o : Waiters(knl', o) = Waiters(knl, o)
    BY <2>1, SteadyWaiters, AllSteady, WokeKeeps
  <2>3. CASE Opens(s)
    <3>1. PICK n \in Nat, max \in Nat :
             /\ count' = [count EXCEPT ![s] = IF n > max THEN max ELSE n]
             /\ countMax' = [countMax EXCEPT ![s] = max]
      BY <2>3, SemAssumption DEF Opens
    <3> QED
      BY <2>2, <2>3, <3>1 DEF Opens, CountOK, NoIdleToken
  <2>4. CASE Takes(s)
    BY <2>2, <2>4 DEF Takes, CountOK, NoIdleToken
  <2>5. CASE Saves(s)
    BY <2>2, <2>5 DEF Saves, CountOK, NoIdleToken
  <2> QED
    BY <1>2, <2>3, <2>4, <2>5
<1>3. ASSUME NEW s, NEW A, Grants(s, A) PROVE WaitInv' /\ CountOK' /\ NoIdleToken'
  <2>1. Woke(A, "POST") /\ SameCounts
    BY <1>3 DEF Grants
  <2>2. WaitInv' /\ \A o : Waiters(knl', o) \subseteq Waiters(knl, o)
    BY <2>1, WokeKeeps, WaitersShrink
  <2> QED
    BY <2>1, <2>2 DEF SameCounts, CountOK, NoIdleToken
<1>4. ASSUME NEW s, Closes(s) PROVE WaitInv' /\ CountOK' /\ NoIdleToken'
  <2>1. Woke(Waiters(knl, s), "DESTROY") /\ SameCounts
    BY <1>4 DEF Closes
  <2>2. WaitInv' /\ \A o : Waiters(knl', o) \subseteq Waiters(knl, o)
    BY <2>1, WokeKeeps, WaitersShrink
  <2> QED
    BY <2>1, <2>2 DEF SameCounts, CountOK, NoIdleToken
<1>5. ASSUME NEW s, NEW t, Blocks(s, t) PROVE WaitInv' /\ CountOK' /\ NoIdleToken'
  <2>1. /\ s \in Waitable /\ t \in Task /\ count[s] = 0 /\ SameCounts
        /\ Alone(t) /\ Blocked(t, s)
    BY <1>5 DEF Blocks
  <2>2. WaitInv'
    BY <2>1, AloneKeeps
  <2>3. \A q \in Waitable \ {s} : Waiters(knl', q) \subseteq Waiters(knl, q)
    BY <2>1 DEF Alone, Steady, Blocked, Waiters
  <2> QED
    BY <2>1, <2>2, <2>3 DEF SameCounts, CountOK, NoIdleToken
<1>6. ASSUME NEW t, Returns(t) PROVE WaitInv' /\ CountOK' /\ NoIdleToken'
  <2>1. t \in Task /\ Alone(t) /\ Left(t) /\ SameCounts
    BY <1>6 DEF Returns
  <2>2. WaitInv' /\ \A o : Waiters(knl', o) \subseteq Waiters(knl, o)
    BY <2>1, AloneKeeps, WaitersShrink
  <2> QED
    BY <2>1, <2>2 DEF SameCounts, CountOK, NoIdleToken
<1> QED
  BY <1>1, <1>2, <1>3, <1>4, <1>5, <1>6 DEF SemStep

LEMMA SemInitInv == SemInit => SemIInv
<1> SUFFICES ASSUME SemInit PROVE SemIInv
  OBVIOUS
<1>1. IInv /\ WaitInv
  BY InitInv, InitWait DEF SemInit
<1>2. CountOK /\ NoIdleToken
  BY DEF SemInit, CountOK, NoIdleToken
<1> QED
  BY <1>1, <1>2 DEF SemIInv

LEMMA SemNextInv == SemIInv /\ [SemNext]_semVars => SemIInv'
<1> SUFFICES ASSUME SemIInv, [SemNext]_semVars PROVE SemIInv'
  OBVIOUS
<1>1. Kept /\ SemStep
  BY SemNextStep DEF SemIInv, IInv
<1>2. WaitInv' /\ CountOK' /\ NoIdleToken'
  BY <1>1, SemStepKeeps DEF SemIInv
<1> QED
  BY <1>1, <1>2 DEF SemIInv, IInv, Kept

(* The inductive invariant holds in every reachable state.                 *)
THEOREM SemInvariant == SemSpec => []SemIInv
<1> QED
  BY SemInitInv, SemNextInv, PTL DEF SemSpec

(* No wake-up is lost: whatever posts, pends, timeouts, destructions and   *)
(* interrupts come in whatever order, a counted token and a waiting task   *)
(* never coexist, and no count passes its limit.                           *)
THEOREM NoWakeupIsLost == SemSpec => []NoLostWakeup
<1>1. SemIInv => NoLostWakeup
  BY WaitableObj, NoWaiters DEF SemIInv, IInv, Safe, CountOK, NoIdleToken, NoLostWakeup
<1> QED
  BY <1>1, SemInvariant, PTL

(* The pend list of a semaphore holds exactly those that wait for it, best *)
(* priority first, although priorities change while they wait.             *)
THEOREM SemListAlwaysExact == SemSpec => []PendListExact
<1>1. SemIInv => PendListExact
  BY WaitFacts DEF SemIInv, IInv
<1> QED
  BY <1>1, SemInvariant, PTL

(* Unless waiters are suspended, every wait that is over has an outcome,   *)
(* and every wait that has none is still listed where it began.            *)
THEOREM SemAlwaysDecided == ~SuspendUsed /\ SemSpec => []PendDecided
<1>1. ~SuspendUsed /\ SemIInv => PendDecided
  BY WaitFacts DEF SemIInv, IInv
<1>2. ~SuspendUsed => [](~SuspendUsed)
  <2>1. ~SuspendUsed => (~SuspendUsed)'
    BY DEF SuspendUsed
  <2> QED
    BY <2>1, PTL
<1> QED
  BY <1>1, <1>2, SemInvariant, PTL

(* Semaphores leave the scheduler in order: the queues and the tick list   *)
(* are exact, and the processor is with the first of the best ready tasks. *)
THEOREM SemKeepsScheduling ==
    SemSpec => [](TypeOK /\ ReadyQueueExact /\ TickListExact /\ HighestRuns /\ RunningIsReady)
<1>1. SemIInv => TypeOK /\ ReadyQueueExact /\ TickListExact /\ HighestRuns /\ RunningIsReady
  BY SafeFacts DEF SemIInv, IInv
<1> QED
  BY <1>1, SemInvariant, PTL

----------------------------------------------------------------------------
(* The refinement: what each step does to those who wait and to those who  *)
(* have been granted a token.                                              *)

WaitOf  == [s \in Waitable |-> ToSet(knl.pend[s])]
GrantOf == [s \in Waitable |-> Granted(s)]

LEMMA WaitOfIs ==
    ASSUME Sound(knl)
    PROVE  /\ WaitOf = [s \in Waitable |-> Waiters(knl, s)]
           /\ \A s \in Waitable : WaitOf[s] = Waiters(knl, s)
  BY NoWaiters, WaitableObj DEF WaitOf

LEMMA WaitOfNext ==
    ASSUME Sound(knl')
    PROVE  WaitOf' = [s \in Waitable |-> Waiters(knl', s)]
  BY NoWaiters, WaitableObj DEF WaitOf

(* A task waits in the call it waits in, and has no outcome yet.           *)
Apart == \A t \in Task : IsPending(knl, t) => /\ InPend(t) /\ arg[t] = knl.pendingObj[t]
                                              /\ knl.pendState[t] = "NONE"

LEMMA ApartHolds == ASSUME Safe, WaitInv PROVE Apart
  BY DEF Safe, Sound, Waiting, Undecided, WaitInv, Apart

LEMMA SteadyView ==
    ASSUME \A t \in Task : Steady(t), Sound(knl), Sound(knl')
    PROVE  WaitOf' = WaitOf /\ GrantOf' = GrantOf
<1>1. WaitOf' = WaitOf
  BY SteadyWaiters, WaitOfIs, WaitOfNext
<1>2. ASSUME NEW s \in Waitable PROVE Granted(s)' = Granted(s)
  BY DEF Granted, Steady, Unmoved, InPend, InPendNext
<1> QED
  BY <1>1, <1>2 DEF GrantOf

(* Waits end without a token.                                              *)
LEMMA GiveUpView ==
    ASSUME NEW A \in SUBSET Task, NEW st, Woke(A, st), st # "POST", Apart,
           Sound(knl), Sound(knl')
    PROVE  Abs!GiveUp(A) \/ ~SameCounts
<1>1. ASSUME NEW s \in Waitable PROVE Waiters(knl', s) = Waiters(knl, s) \ A
  BY DEF Waiters, Woke, Ended, Steady
<1>2. WaitOf' = [s \in Waitable |-> WaitOf[s] \ A]
  BY <1>1, WaitOfIs, WaitOfNext
<1>3. ASSUME NEW s \in Waitable PROVE Granted(s)' = Granted(s)
  BY DEF Granted, Woke, Ended, Steady, Apart, Unmoved, InPend, InPendNext
<1>4. GrantOf' = GrantOf
  BY <1>3 DEF GrantOf
<1> QED
  BY <1>2, <1>4 DEF WaitOf, GrantOf, SameCounts, Abs!GiveUp

LEMMA OneLucky == ASSUME NEW t PROVE Abs!Cardinality({t}) = 1
<1>1. Abs!Cardinality({t}) = Cardinality({t})
  BY DEF Cardinality, Abs!Cardinality
<1> QED
  BY <1>1, FS_Singleton

LEMMA GrantView ==
    ASSUME NEW s, NEW A, Grants(s, A), Apart, Sound(knl), Sound(knl')
    PROVE  Abs!Grant(s, A)
<1>1. /\ s \in Waitable /\ A # {} /\ A \subseteq Waiters(knl, s)
      /\ A = Waiters(knl, s) \/ \E t : A = {t}
      /\ Woke(A, "POST") /\ SameCounts
  BY DEF Grants
<1>2. \A t \in A : t \in Task /\ IsPending(knl, t) /\ knl.pendingObj[t] = s
  BY <1>1 DEF Waiters
<1>3. ASSUME NEW q \in Waitable
      PROVE  Waiters(knl', q) = IF q = s THEN Waiters(knl, q) \ A ELSE Waiters(knl, q)
  BY <1>1, <1>2 DEF Waiters, Woke, Ended, Steady
<1>4. WaitOf' = [WaitOf EXCEPT ![s] = @ \ A]
  BY <1>3, WaitOfIs, WaitOfNext
<1>5. ASSUME NEW q \in Waitable
      PROVE  Granted(q)' = IF q = s THEN Granted(q) \cup A ELSE Granted(q)
  BY <1>1, <1>2 DEF Granted, Woke, Ended, Steady, Apart, Unmoved, InPend, InPendNext
<1>6. GrantOf' = [GrantOf EXCEPT ![s] = @ \cup A]
  BY <1>5 DEF GrantOf
<1>7. A \subseteq WaitOf[s] /\ (Abs!Cardinality(A) = 1 \/ A = WaitOf[s])
  BY <1>1, WaitOfIs, OneLucky
<1>8. /\ A # {} /\ A \subseteq WaitOf[s] /\ (Abs!Cardinality(A) = 1 \/ A = WaitOf[s])
      /\ WaitOf' = [WaitOf EXCEPT ![s] = @ \ A]
      /\ GrantOf' = [GrantOf EXCEPT ![s] = @ \cup A]
      /\ count' = count /\ countMax' = countMax
  BY <1>1, <1>4, <1>6, <1>7 DEF SameCounts
<1> QED
  BY <1>8 DEF WaitOf, GrantOf, Abs!Grant

(* One task leaves its call: it gives up if it still waited, and it is     *)
(* through if it did not.                                                  *)
LEMMA LeaveView ==
    ASSUME NEW t \in Task, Alone(t), Left(t) \/ Dropped(t), Apart, Sound(knl), Sound(knl')
    PROVE  Abs!GiveUp({t}) \/ Abs!Finish(t) \/ ~SameCounts
<1>1. ASSUME NEW s \in Waitable PROVE Waiters(knl', s) = Waiters(knl, s) \ {t}
  BY DEF Waiters, Alone, Left, Dropped, Steady
<1>2. WaitOf' = [s \in Waitable |-> WaitOf[s] \ {t}]
  BY <1>1, WaitOfIs, WaitOfNext
<1>3. CASE Dropped(t) \/ IsPending(knl, t)
  <2>1. ASSUME NEW s \in Waitable PROVE Granted(s)' = Granted(s)
    BY <1>3 DEF Granted, Alone, Left, Dropped, Steady, Apart, Unmoved, InPend, InPendNext
  <2>2. GrantOf' = GrantOf
    BY <2>1 DEF GrantOf
  <2> QED
    BY <1>2, <2>2 DEF WaitOf, GrantOf, SameCounts, Abs!GiveUp
<1>4. CASE Left(t) /\ ~IsPending(knl, t)
  <2>1. ASSUME NEW s \in Waitable PROVE Granted(s)' = Granted(s) \ {t}
    BY <1>4 DEF Granted, Alone, Left, Steady, Unmoved, InPend, InPendNext
  <2>2. GrantOf' = [s \in Waitable |-> GrantOf[s] \ {t}]
    BY <2>1 DEF GrantOf
  <2>3. \A s \in Waitable : Waiters(knl', s) = Waiters(knl, s)
    BY <1>1, <1>4 DEF Waiters
  <2>4. WaitOf' = WaitOf
    BY <2>3, WaitOfIs, WaitOfNext
  <2> QED
    BY <2>2, <2>4 DEF WaitOf, GrantOf, SameCounts, Abs!Finish
<1> QED
  BY <1>3, <1>4

LEMMA WaitView ==
    ASSUME NEW s, NEW t, Blocks(s, t), Apart, Sound(knl), Sound(knl')
    PROVE  Abs!Wait(s, t)
<1>1. /\ s \in Waitable /\ t \in Task /\ count[s] = 0
      /\ ~InPend(t) /\ ~IsPending(knl, t)
      /\ Alone(t) /\ Blocked(t, s) /\ SameCounts
  BY DEF Blocks
<1>2. ASSUME NEW q \in Waitable
      PROVE  Waiters(knl', q) = IF q = s THEN Waiters(knl, q) \cup {t} ELSE Waiters(knl, q)
  BY <1>1 DEF Waiters, Alone, Blocked, Steady
<1>3. WaitOf' = [WaitOf EXCEPT ![s] = @ \cup {t}]
  BY <1>2, WaitOfIs, WaitOfNext
<1>4. ASSUME NEW q \in Waitable PROVE Granted(q)' = Granted(q)
  BY <1>1 DEF Granted, Alone, Blocked, Steady, Unmoved, InPend, InPendNext
<1>5. GrantOf' = GrantOf
  BY <1>4 DEF GrantOf
<1>6. \A q \in Waitable : t \notin WaitOf[q] \cup GrantOf[q]
  BY <1>1, WaitOfIs DEF Waiters, GrantOf, Granted
<1> QED
  BY <1>1, <1>3, <1>5, <1>6 DEF WaitOf, GrantOf, SameCounts, Abs!Wait

LEMMA TokenView ==
    ASSUME NEW s, CountOK, Sound(knl), Sound(knl')
    PROVE  /\ Opens(s) => Abs!Open(s)
           /\ Takes(s) => Abs!Take(s)
           /\ Saves(s) => Abs!Keep(s)
<1>1. ASSUME Opens(s) \/ Takes(s) \/ Saves(s) PROVE WaitOf' = WaitOf /\ GrantOf' = GrantOf
  BY <1>1, SteadyView DEF Opens, Takes, Saves
<1>2. ASSUME Opens(s) PROVE Abs!Open(s)
  <2>1. PICK n \in Nat, max \in Nat :
           /\ count' = [count EXCEPT ![s] = IF n > max THEN max ELSE n]
           /\ countMax' = [countMax EXCEPT ![s] = max]
    BY <1>2, SemAssumption DEF Opens
  <2>2. /\ s \in Waitable /\ WaitOf[s] = {}
        /\ countMax'[s] = max /\ count'[s] \in 0 .. max
    BY <1>2, <2>1, WaitOfIs DEF Opens, CountOK
  <2>3. /\ countMax' = [countMax EXCEPT ![s] = countMax'[s]]
        /\ count' = [count EXCEPT ![s] = count'[s]]
    BY <2>1, <2>2 DEF CountOK
  <2> QED
    BY <1>1, <1>2, <2>2, <2>3 DEF WaitOf, GrantOf, Abs!Open
<1>3. ASSUME Takes(s) PROVE Abs!Take(s)
  BY <1>1, <1>3 DEF Takes, WaitOf, GrantOf, Abs!Take
<1>4. ASSUME Saves(s) PROVE Abs!Keep(s)
  <2>1. /\ s \in Waitable /\ WaitOf[s] = {} /\ count[s] < countMax[s]
    BY <1>4, WaitOfIs DEF Saves, CountOK
  <2> QED
    BY <1>1, <1>4, <2>1 DEF Saves, WaitOf, GrantOf, Abs!Keep
<1> QED
  BY <1>2, <1>3, <1>4

(* Every step is a step of the abstract semaphores, or changes nothing of  *)
(* what they show.                                                         *)
LEMMA SemStepView ==
    ASSUME Apart, CountOK, Sound(knl), Sound(knl'), SemStep
    PROVE  Abs!AbsNext
<1>1. CASE WaitStep /\ SameCounts
  <2>1. ASSUME NEW A \in SUBSET Sleepers(knl), Woke(A, "TIMEOUT") PROVE Abs!AbsNext
    <3>1. A \in SUBSET Task
      BY DEF Sleepers
    <3> QED
      BY <1>1, <2>1, <3>1, GiveUpView DEF Abs!AbsNext
  <2>2. ASSUME NEW t \in Task, Alone(t), Left(t) \/ Dropped(t) PROVE Abs!AbsNext
    BY <1>1, <2>2, LeaveView DEF Abs!AbsNext
  <2>3. \/ \E A \in SUBSET Sleepers(knl) : Woke(A, "TIMEOUT")
        \/ \E t \in Task : Alone(t) /\ (Left(t) \/ Dropped(t))
    BY <1>1 DEF WaitStep
  <2> QED
    BY <2>1, <2>2, <2>3
<1>2. ASSUME NEW s, Opens(s) \/ Takes(s) \/ Saves(s) PROVE Abs!AbsNext
  BY <1>2, TokenView DEF Opens, Takes, Saves, Abs!AbsNext
<1>3. ASSUME NEW s, Closes(s) PROVE Abs!AbsNext
  <2>1. Waiters(knl, s) \in SUBSET Task
    BY DEF Waiters
  <2> QED
    BY <1>3, <2>1, GiveUpView DEF Closes, Abs!AbsNext
<1>4. ASSUME NEW s, NEW A, Grants(s, A) PROVE Abs!AbsNext
  BY <1>4, GrantView DEF Grants, Waiters, Abs!AbsNext
<1>5. ASSUME NEW s, NEW t, Blocks(s, t) PROVE Abs!AbsNext
  BY <1>5, WaitView DEF Blocks, Abs!AbsNext
<1>6. ASSUME NEW t, Returns(t) PROVE Abs!AbsNext
  BY <1>6, LeaveView DEF Returns, Abs!AbsNext
<1> QED
  BY <1>1, <1>2, <1>3, <1>4, <1>5, <1>6 DEF SemStep

LEMMA SemInitView == SemInit => Abs!AbsInit
<1> SUFFICES ASSUME SemInit PROVE Abs!AbsInit
  OBVIOUS
<1>1. ASSUME NEW s \in Waitable PROVE ToSet(knl.pend[s]) = {} /\ Granted(s) = {}
  BY WaitableObj DEF SemInit, Init, BootKernel, ToSet, Granted, InPend
<1> QED
  BY <1>1 DEF SemInit, Abs!AbsInit

LEMMA SemNextView == SemIInv /\ SemIInv' /\ [SemNext]_semVars => Abs!AbsNext
<1> SUFFICES ASSUME SemIInv, SemIInv', [SemNext]_semVars PROVE Abs!AbsNext
  OBVIOUS
<1>1. SemStep /\ Apart
  BY SemNextStep, ApartHolds DEF SemIInv, IInv
<1> QED
  BY <1>1, SemStepView DEF SemIInv, IInv, Safe

(* Refinement: the kernel's semaphores implement the abstract ones.  No    *)
(* token is lost or given twice, and neither a timeout nor a destruction   *)
(* nor an interrupt takes a granted token back.                            *)
THEOREM SemRefines == SemSpec => ImplementsSemaphore
<1>1. SemIInv /\ SemIInv' /\ [SemNext]_semVars => [Abs!AbsNext]_Abs!absVars
  BY SemNextView
<1> QED
  BY <1>1, SemInitView, SemInvariant, PTL DEF SemSpec, ImplementsSemaphore, Abs!AbsSpec

----------------------------------------------------------------------------
(* Mutexes.                                                                *)

(* The two records of ownership agree, owners and owned mutexes are alive, *)
(* and nobody waits for a mutex without an owner.                          *)
OwnRec(k) ==
    /\ \A t \in Task : /\ IsInjective(k.own[t])
                       /\ ToSet(k.own[t]) = {m \in Mutex : k.owner[m] = t}
    /\ \A m \in Mutex : k.nesting[m] = 0 <=> k.owner[m] = NoTask
OwnLive(k) ==
    /\ \A t \in Task : k.own[t] # << >> => t \in k.obj \ {Idle}
    /\ \A m \in Mutex : k.owner[m] # NoTask => m \in k.obj
OwnWait(k) == \A m \in Mutex : k.owner[m] = NoTask => Waiters(k, m) = {}
Owned(k)   == OwnRec(k) /\ OwnLive(k) /\ OwnWait(k)

(* No mutex is destroyed while tasks use it.                               *)
MutexesLast == "mutex_destroy" \notin Api

(* A task in a pend call waits for a mutex.  It is told of a post only as  *)
(* the owner, and is the owner only if it is told.                         *)
HandInv ==
    \A t \in Task : InPend(t) =>
        /\ arg[t] \in Mutex
        /\ knl.owner[arg[t]] = t => knl.pendState[t] = "POST"
        /\ MutexesLast /\ knl.pendState[t] = "POST" => knl.owner[arg[t]] = t

(* What a task was told it has, it owns, while no mutex is destroyed.      *)
HoldType == holds \in [Task -> SUBSET Mutex]
HoldInv  == MutexesLast => \A t \in Task : \A m \in holds[t] : knl.owner[m] = t

Base      == Safe /\ WaitInv /\ Owned(knl)
MutexIInv == Base /\ HandInv /\ HoldType /\ HoldInv

(* t, who may be NoTask, has m after the step, n times; no other mutex     *)
(* changes hands.                                                          *)
Changed(m, t, n) ==
    /\ knl'.owner[m] = t /\ knl'.nesting[m] = n
    /\ \A x \in Mutex \ {m} : knl'.owner[x] = knl.owner[x] /\ knl'.nesting[x] = knl.nesting[x]

----------------------------------------------------------------------------
(* What the functions of tos_mutex.c do to the scheduler: they choose a    *)
(* next task inside of their critical section.                             *)

SameHere(k, r) == r.curr = k.curr /\ r.irqNest = k.irqNest /\ r.schedLock = k.schedLock
Aimed(k)       == k.pendsv => k.next \in ReadySet(k) /\ k.schedLock = 0

(* Nobody that is ready stops being so, and the choice stays a good one.   *)
Forward(k, r) == /\ SameHere(k, r) /\ (Aimed(k) => Aimed(r))
                 /\ r.obj = k.obj /\ ReadySet(k) \subseteq ReadySet(r)

(* Nobody moves either.                                                    *)
Rechosen(k, r) == Forward(k, r) /\ SamePlaces(k, r)

LEMMA ForwardTransitive ==
    ASSUME NEW a, NEW b, NEW c
    PROVE  /\ Forward(a, b) /\ Forward(b, c) => Forward(a, c)
           /\ Rechosen(a, b) /\ Rechosen(b, c) => Rechosen(a, c)
  BY DEF Forward, Rechosen, SameHere, SamePlaces

LEMMA FrameForward ==
    ASSUME NEW k, NEW r, SameFrame(k, r) \/ (SameCpu(k, r) /\ r.obj = k.obj),
           ReadySet(k) \subseteq ReadySet(r)
    PROVE  Forward(k, r)
<1>1. SameHere(k, r) /\ r.obj = k.obj /\ r.pendsv = k.pendsv /\ r.next = k.next
  BY DEF SameFrame, SameCpu, SameHere
<1> QED
  BY <1>1 DEF Forward, Aimed, SameHere

(* A change of fields the lists do not depend on.                          *)
LEMMA FieldChange ==
    ASSUME NEW k, Sound(k), NEW r \in KernelType, SameLists(k, r), SameCpu(k, r)
    PROVE  Sound(r) /\ Rechosen(k, r)
<1>1. Sound(r) /\ ReadySet(r) = ReadySet(k)
  BY CpuSound
<1>2. SamePlaces(k, r)
  BY <1>1 DEF SameLists, SamePlaces
<1>3. Forward(k, r)
  BY <1>1, <1>2, FrameForward DEF SamePlaces
<1> QED
  BY <1>1, <1>2, <1>3 DEF Rechosen

(* tos_task_prio_change inside of a critical section.                      *)
LEMMA PrioCall ==
    ASSUME NEW k, Sound(k), NEW t \in (k.obj \cap Task) \ {Idle}, NEW new \in 0 .. PrioInvalid
    PROVE  LET r == tos_task_prio_change(k, t, new)
           IN  /\ Sound(r) /\ Rechosen(k, r) /\ SameOwners(k, r) /\ SameMutexes(k, r)
               /\ r.pendsv => k.pendsv \/ r.next # r.curr
<1> DEFINE a == prio_assign(k, t, new)
           b == switch_request(a)
           r == tos_task_prio_change(k, t, new)
<1>1. CASE new >= PrioIdle
  <2>1. r = k
    BY <1>1 DEF tos_task_prio_change
  <2>2. Rechosen(k, k) /\ SameOwners(k, k) /\ SameMutexes(k, k)
    BY DEF Rechosen, Forward, SameHere, SamePlaces, SameOwners, SameMutexes
  <2> QED
    BY <2>1, <2>2
<1>2. CASE ~(new >= PrioIdle)
  <2>1. new \in Prio
    BY <1>2, PrioAssumption DEF Prio, PrioIdle, PrioInvalid
  <2>2. Sound(a) /\ SameCpu(k, a) /\ Reranked(k, a, t, new)
    BY <2>1, PrioritySound
  <2>3. r = a \/ (r = b /\ ~(a.schedLock > 0))
    BY <1>2 DEF tos_task_prio_change, knl_sched, knl_is_sched_locked
  <2> HIDE DEF a
  <2>4. SamePlaces(k, a) /\ SameOwners(k, a) /\ SameMutexes(k, a) /\ ReadySet(a) = ReadySet(k)
    BY <2>2 DEF Reranked, SamePlaces
  <2>5. Rechosen(k, a) /\ (a.pendsv => k.pendsv)
    <3>1. Forward(k, a)
      BY <2>2, <2>4, FrameForward DEF SamePlaces
    <3> QED
      BY <2>2, <2>4, <3>1 DEF Rechosen, SameCpu
  <2>6. CASE r = a
    BY <2>2, <2>4, <2>5, <2>6
  <2>7. CASE r = b /\ ~(a.schedLock > 0)
    <3>1. /\ Sound(b) /\ SameLists(a, b) /\ SameOwners(a, b) /\ SameMutexes(a, b)
          /\ b.curr = a.curr /\ b.irqNest = a.irqNest
          /\ b.schedLock = a.schedLock /\ ReadySet(b) = ReadySet(a)
          /\ (IF b.pendsv THEN b.next ELSE b.curr) = Best(b)
          /\ Best(b) \in ReadySet(b)
          /\ b.pendsv => a.pendsv \/ b.next # b.curr
      BY <2>2, SwitchSound
    <3> HIDE DEF b
    <3>2. a.schedLock = 0
      BY <2>2, <2>7 DEF Sound, KernelType
    <3>3. Aimed(b) /\ SameHere(a, b)
      BY <3>1, <3>2 DEF Aimed, SameHere
    <3>4. Rechosen(a, b)
      BY <3>1, <3>3 DEF Rechosen, Forward, SamePlaces, SameLists
    <3>5. Rechosen(k, b)
      BY <2>5, <3>4, ForwardTransitive
    <3>6. SameOwners(k, b) /\ SameMutexes(k, b)
      BY <2>4, <3>1 DEF SameOwners, SameMutexes
    <3> QED
      BY <2>5, <2>7, <3>1, <3>5, <3>6
  <2> QED
    BY <2>3, <2>6, <2>7
<1> QED
  BY <1>1, <1>2

----------------------------------------------------------------------------
(* The mutexes M of task o lose their owner.                               *)
Freed(k, r, o, M) ==
    /\ \A x \in Mutex : r.owner[x] = IF x \in M THEN NoTask ELSE k.owner[x]
    /\ \A x \in Mutex : r.nesting[x] = IF x \in M THEN 0 ELSE k.nesting[x]
    /\ \A u \in Task \ {o} : r.own[u] = k.own[u]
    /\ IsInjective(r.own[o]) /\ ToSet(r.own[o]) = ToSet(k.own[o]) \ M

LEMMA FreedRec ==
    ASSUME NEW k, OwnRec(k), NEW o \in Task, NEW M \in SUBSET Mutex,
           M \subseteq ToSet(k.own[o]), NEW r, Freed(k, r, o, M)
    PROVE  OwnRec(r)
<1>1. \A x \in M : k.owner[x] = o
  BY DEF OwnRec
<1>2. ASSUME NEW t \in Task
      PROVE  IsInjective(r.own[t]) /\ ToSet(r.own[t]) = {m \in Mutex : r.owner[m] = t}
  <2>1. CASE t = o
    BY <1>1, <2>1, NullAssumption DEF Freed, OwnRec
  <2>2. CASE t # o
    BY <1>1, <2>2, NullAssumption DEF Freed, OwnRec
  <2> QED
    BY <2>1, <2>2
<1>3. \A m \in Mutex : r.nesting[m] = 0 <=> r.owner[m] = NoTask
  BY DEF Freed, OwnRec
<1> QED
  BY <1>2, <1>3 DEF OwnRec

Disowned(k, o, m) == [k EXCEPT !.own[o] = tos_list_del(@, m), !.owner[m] = NoTask,
                               !.nesting[m] = 0]

LEMMA DisownType ==
    ASSUME NEW k \in KernelType, NEW m \in Mutex, NEW o \in Task,
           m \in ToSet(k.own[o]), IsInjective(k.own[o])
    PROVE  LET r == Disowned(k, o, m)
           IN  /\ r \in KernelType /\ SameLists(k, r) /\ SameCpu(k, r) /\ Freed(k, r, o, {m})
               /\ r.prioPending = k.prioPending /\ r.ownerOrigPrio = k.ownerOrigPrio
<1> DEFINE s == tos_list_del(k.own[o], m)
           r == Disowned(k, o, m)
<1>1. k.own \in [Task -> Seq(Mutex)] /\ k.own[o] \in Seq(Mutex)
  BY DEF KernelType
<1>2. s \in Seq(Mutex) /\ IsInjective(s) /\ ToSet(s) = ToSet(k.own[o]) \ {m}
  BY <1>1, RemoveKeepsList
<1>3. r = [k EXCEPT !.own[o] = s, !.owner[m] = NoTask, !.nesting[m] = 0]
  BY <1>1 DEF Disowned, KernelType
<1> HIDE DEF s, r
<1>4. 0 \in 0 .. NestingMax
  BY NestingAssumption
<1>5. r \in KernelType
  BY <1>2, <1>3, <1>4 DEF KernelType
<1>6. SameLists(k, r) /\ SameCpu(k, r)
  BY <1>3 DEF KernelType, SameLists, SameQueue, SameTick, SameCpu
<1>7. /\ r.own = [k.own EXCEPT ![o] = s] /\ r.owner = [k.owner EXCEPT ![m] = NoTask]
      /\ r.nesting = [k.nesting EXCEPT ![m] = 0]
      /\ r.prioPending = k.prioPending /\ r.ownerOrigPrio = k.ownerOrigPrio
  BY <1>3 DEF KernelType
<1>8. Freed(k, r, o, {m})
  BY <1>1, <1>2, <1>7 DEF KernelType, Freed
<1> QED
  BY <1>5, <1>6, <1>7, <1>8 DEF r

LEMMA FreedSame ==
    ASSUME NEW k, NEW a, NEW o, NEW M, Freed(k, a, o, M), NEW r, SameOwners(a, r)
    PROVE  Freed(k, r, o, M)
  BY DEF Freed, SameOwners

Unpriced(k, m) == [k EXCEPT !.ownerOrigPrio[m] = PrioInvalid]

LEMMA UnpricedType ==
    ASSUME NEW k \in KernelType, NEW m \in Mutex
    PROVE  LET r == Unpriced(k, m)
           IN  r \in KernelType /\ SameLists(k, r) /\ SameCpu(k, r) /\ SameOwners(k, r)
<1>1. PrioInvalid \in 0 .. PrioInvalid
  BY PrioAssumption DEF PrioInvalid
<1> QED
  BY <1>1 DEF Unpriced, KernelType, SameLists, SameQueue, SameTick, SameCpu, SameOwners

(* mutex_old_owner_release: the priority lent for this mutex goes back.    *)
LEMMA OldOwnerReleased ==
    ASSUME NEW k, Sound(k), NEW m \in Mutex, NEW o \in (k.obj \cap Task) \ {Idle},
           k.owner[m] = o, m \in ToSet(k.own[o]), IsInjective(k.own[o])
    PROVE  LET r == mutex_old_owner_release(k, m)
           IN  Sound(r) /\ Rechosen(k, r) /\ Freed(k, r, o, {m})
<1> DEFINE a  == Disowned(k, o, m)
           b1 == tos_task_prio_change(a, o, a.prioPending[o])
           b2 == tos_task_prio_change(a, o, a.ownerOrigPrio[m])
           r  == mutex_old_owner_release(k, m)
<1>1. r = IF a.prioPending[o] # PrioInvalid THEN Deferred(b1, o, PrioInvalid)
          ELSE IF a.prio[o] # a.ownerOrigPrio[m] THEN Unpriced(b2, m) ELSE a
  BY DEF mutex_old_owner_release, Disowned, Deferred, Unpriced
<1> HIDE DEF r
<1>2. /\ a \in KernelType /\ SameLists(k, a) /\ SameCpu(k, a) /\ Freed(k, a, o, {m})
  BY DisownType DEF Sound
<1> HIDE DEF a
<1>3. Sound(a) /\ Rechosen(k, a)
  BY <1>2, FieldChange
<1>4. o \in (a.obj \cap Task) \ {Idle}
  BY <1>3 DEF Rechosen, SamePlaces
<1>5. a.prioPending[o] \in 0 .. PrioInvalid /\ a.ownerOrigPrio[m] \in 0 .. PrioInvalid
  BY <1>2 DEF KernelType
<1>6. /\ Sound(b1) /\ Rechosen(a, b1) /\ SameOwners(a, b1)
      /\ Sound(b2) /\ Rechosen(a, b2) /\ SameOwners(a, b2)
  BY <1>3, <1>4, <1>5, PrioCall
<1> HIDE DEF b1, b2
<1>7. CASE r = Deferred(b1, o, PrioInvalid)
  <2>1. PrioInvalid \in 0 .. PrioInvalid /\ b1 \in KernelType
    BY <1>6, PrioAssumption DEF PrioInvalid, Sound
  <2>2. r \in KernelType /\ SameLists(b1, r) /\ SameCpu(b1, r) /\ SameOwners(b1, r)
    BY <1>7, <2>1, DeferredType
  <2>3. Sound(r) /\ Rechosen(b1, r)
    BY <1>6, <2>2, FieldChange
  <2>4. Rechosen(k, r)
    BY <1>3, <1>6, <2>3, ForwardTransitive
  <2>5. Freed(k, r, o, {m})
    BY <1>2, <1>6, <2>2, FreedSame
  <2> QED
    BY <2>3, <2>4, <2>5 DEF r
<1>8. CASE r = Unpriced(b2, m)
  <2>1. b2 \in KernelType
    BY <1>6 DEF Sound
  <2>2. r \in KernelType /\ SameLists(b2, r) /\ SameCpu(b2, r) /\ SameOwners(b2, r)
    BY <1>8, <2>1, UnpricedType
  <2>3. Sound(r) /\ Rechosen(b2, r)
    BY <1>6, <2>2, FieldChange
  <2>4. Rechosen(k, r)
    BY <1>3, <1>6, <2>3, ForwardTransitive
  <2>5. Freed(k, r, o, {m})
    BY <1>2, <1>6, <2>2, FreedSame
  <2> QED
    BY <2>3, <2>4, <2>5 DEF r
<1>9. CASE r = a
  BY <1>2, <1>3, <1>9 DEF r
<1> QED
  BY <1>1, <1>7, <1>8, <1>9

----------------------------------------------------------------------------
(* The death of an owner: task_mutex_release takes its mutexes one by one. *)

WaitersAt(k, M) == UNION {Waiters(k, m) : m \in M}

(* The mutexes M of o are released, and whoever waited for them is told.   *)
Released(k, r, o, M) ==
    /\ Forward(k, r) /\ Freed(k, r, o, M)
    /\ Awoken(k, r, WaitersAt(k, M), "OWNER_DIE")

LEMMA ReleasedNone ==
    ASSUME NEW k, OwnRec(k), NEW o \in Task
    PROVE  Released(k, k, o, {})
<1>1. Forward(k, k)
  BY DEF Forward, SameHere
<1>2. Freed(k, k, o, {})
  BY DEF Freed, OwnRec
<1>3. Awoken(k, k, WaitersAt(k, {}), "OWNER_DIE")
  BY DEF Awoken, WaitersAt
<1> QED
  BY <1>1, <1>2, <1>3 DEF Released

LEMMA WaitersAtMore ==
    ASSUME NEW k, NEW M, NEW m
    PROVE  WaitersAt(k, M \cup {m}) = WaitersAt(k, M) \cup Waiters(k, m)
  BY DEF WaitersAt

(* Those who wait for a mutex that is still owned go on waiting for it.    *)
LEMMA WaitersUntouched ==
    ASSUME NEW k, NEW r, NEW M, NEW st, Awoken(k, r, WaitersAt(k, M), st), NEW m, m \notin M
    PROVE  Waiters(r, m) = Waiters(k, m)
<1>1. ASSUME NEW u \in Waiters(k, m) PROVE u \in Task /\ u \notin WaitersAt(k, M)
  BY <1>1 DEF Waiters, WaitersAt
<1>2. ASSUME NEW u \in Task, u \notin WaitersAt(k, M)
      PROVE  r.state[u] = k.state[u] /\ r.pendingObj[u] = k.pendingObj[u]
  BY <1>2 DEF Awoken
<1>3. ASSUME NEW u \in Task, u \in WaitersAt(k, M) PROVE ~IsPending(r, u)
  BY <1>3 DEF Awoken
<1> QED
  BY <1>1, <1>2, <1>3 DEF Waiters, IsPending

LEMMA AwokenMore ==
    ASSUME NEW a, NEW b, NEW c, NEW A, NEW B, NEW st,
           Awoken(a, b, A, st), Awoken(b, c, B, st)
    PROVE  Awoken(a, c, A \cup B, st)
<1> SUFFICES ASSUME NEW u \in Task
             PROVE  IF u \in A \cup B
                    THEN /\ ~IsPending(c, u) /\ ~IsSleeping(c, u)
                         /\ c.pendState[u] = IF IsPending(a, u) THEN st ELSE a.pendState[u]
                    ELSE /\ c.state[u] = a.state[u] /\ c.pendingObj[u] = a.pendingObj[u]
                         /\ c.pendState[u] = a.pendState[u]
  BY DEF Awoken
<1>1. IF u \in A
      THEN /\ ~IsPending(b, u) /\ ~IsSleeping(b, u)
           /\ b.pendState[u] = IF IsPending(a, u) THEN st ELSE a.pendState[u]
      ELSE /\ b.state[u] = a.state[u] /\ b.pendingObj[u] = a.pendingObj[u]
           /\ b.pendState[u] = a.pendState[u]
  BY DEF Awoken
<1>2. IF u \in B
      THEN /\ ~IsPending(c, u) /\ ~IsSleeping(c, u)
           /\ c.pendState[u] = IF IsPending(b, u) THEN st ELSE b.pendState[u]
      ELSE /\ c.state[u] = b.state[u] /\ c.pendingObj[u] = b.pendingObj[u]
           /\ c.pendState[u] = b.pendState[u]
  BY DEF Awoken
<1> QED
  BY <1>1, <1>2 DEF IsPending, IsSleeping

LEMMA PlacesAwoken ==
    ASSUME NEW a, NEW b, NEW c, NEW A, NEW st, SamePlaces(a, b), Awoken(b, c, A, st)
    PROVE  Awoken(a, c, A, st) /\ \A m : Waiters(b, m) = Waiters(a, m)
  BY DEF Awoken, SamePlaces, IsPending, IsSleeping, Waiters

LEMMA FreedMore ==
    ASSUME NEW a, NEW b, NEW c, NEW o, NEW M, NEW m,
           Freed(a, b, o, M), Freed(b, c, o, {m})
    PROVE  Freed(a, c, o, M \cup {m})
<1>1. \A x \in Mutex : c.owner[x] = IF x \in M \cup {m} THEN NoTask ELSE a.owner[x]
  BY DEF Freed
<1>2. \A x \in Mutex : c.nesting[x] = IF x \in M \cup {m} THEN 0 ELSE a.nesting[x]
  BY DEF Freed
<1>3. \A u \in Task \ {o} : c.own[u] = a.own[u]
  BY DEF Freed
<1>4. IsInjective(c.own[o]) /\ ToSet(c.own[o]) = ToSet(a.own[o]) \ (M \cup {m})
  BY DEF Freed
<1> QED
  BY <1>1, <1>2, <1>3, <1>4 DEF Freed

(* One turn of the loop.                                                   *)
LEMMA ReleaseTurn ==
    ASSUME NEW k, Sound(k), OwnRec(k), NEW o \in (k.obj \cap Task) \ {Idle},
           NEW M \in SUBSET ToSet(k.own[o]), NEW m \in ToSet(k.own[o]) \ M,
           NEW a, Sound(a), Released(k, a, o, M)
    PROVE  LET r == mutex_release(a, m)
           IN  Sound(r) /\ Released(k, r, o, M \cup {m})
<1> DEFINE b == mutex_old_owner_release(a, m)
           r == pend_wakeup_all(b, m, "OWNER_DIE")
<1>1. mutex_release(a, m) = r
  BY DEF mutex_release
<1>2. m \in Mutex /\ k.owner[m] = o
  BY DEF OwnRec
<1>3. /\ a.owner[m] = o /\ IsInjective(a.own[o]) /\ m \in ToSet(a.own[o])
      /\ o \in (a.obj \cap Task) \ {Idle}
  BY <1>2 DEF Released, Freed, Forward
<1>4. Sound(b) /\ Rechosen(a, b) /\ Freed(a, b, o, {m})
  BY <1>2, <1>3, OldOwnerReleased
<1> HIDE DEF b
<1>5. m \in Obj /\ "OWNER_DIE" \in PendState
  BY <1>2 DEF Obj, PendState
<1>6. /\ Sound(r) /\ SameFrame(b, r) /\ ReadySet(b) \subseteq ReadySet(r)
      /\ Awoken(b, r, Waiters(b, m), "OWNER_DIE")
  BY <1>4, <1>5, WakeAllSound
<1> HIDE DEF r
<1>7. Forward(k, r)
  BY <1>4, <1>6, FrameForward, ForwardTransitive DEF Released, Rechosen
<1>8. Freed(k, r, o, M \cup {m})
  <2>1. Freed(k, b, o, M \cup {m})
    BY <1>4, FreedMore DEF Released
  <2> QED
    BY <1>6, <2>1, FreedSame DEF SameFrame, SameOwners
<1>9. Awoken(k, r, WaitersAt(k, M \cup {m}), "OWNER_DIE")
  <2>1. Awoken(a, r, Waiters(b, m), "OWNER_DIE") /\ Waiters(b, m) = Waiters(a, m)
    BY <1>4, <1>6, PlacesAwoken DEF Rechosen
  <2>2. Waiters(a, m) = Waiters(k, m)
    BY WaitersUntouched DEF Released
  <2>3. Awoken(k, r, WaitersAt(k, M) \cup Waiters(k, m), "OWNER_DIE")
    BY <2>1, <2>2, AwokenMore DEF Released
  <2> QED
    BY <2>3, WaitersAtMore
<1> QED
  BY <1>1, <1>6, <1>7, <1>8, <1>9 DEF Released

LEMMA ReleaseUnfolds ==
    ASSUME NEW k, NEW t, NEW ms, ms = k.own[t], ms \in Seq(Mutex)
    PROVE  \E f : /\ f[0] = k
                  /\ \A i \in 1 .. Len(ms) : f[i] = mutex_release(f[i - 1], ms[i])
                  /\ task_mutex_release(k, t) = f[Len(ms)]
<1> DEFINE n      == Len(ms)
           e(i, x) == mutex_release(x, ms[i])
           Steps(m, g) == /\ g = [i \in 0 .. m |-> g[i]] /\ g[0] = k
                          /\ \A i \in 1 .. m : g[i] = e(i, g[i - 1])
           W == {m \in Nat : m <= n => \E g : Steps(m, g)}
<1>1. n \in Nat
  OBVIOUS
<1> HIDE DEF e, n
<1>2. 0 \in W
  <2>1. Steps(0, [i \in 0 .. 0 |-> k])
    OBVIOUS
  <2> HIDE DEF Steps
  <2> QED
    BY <2>1
<1>3. ASSUME NEW m \in W PROVE m + 1 \in W
  <2> SUFFICES ASSUME m + 1 <= n PROVE \E g : Steps(m + 1, g)
    OBVIOUS
  <2>1. m \in Nat /\ m <= n
    BY <1>1
  <2>2. PICK g : Steps(m, g)
    BY <2>1
  <2> DEFINE h == [i \in 0 .. m + 1 |-> IF i = m + 1 THEN e(m + 1, g[m]) ELSE g[i]]
  <2>3. h = [i \in 0 .. m + 1 |-> h[i]] /\ h[0] = k
    BY <2>1, <2>2
  <2>4. ASSUME NEW i \in 1 .. m + 1 PROVE h[i] = e(i, h[i - 1])
    <3>1. CASE i = m + 1
      <4>1. h[i] = e(m + 1, g[m]) /\ h[i - 1] = g[m]
        BY <2>1, <3>1
      <4> QED
        BY <3>1, <4>1
    <3>2. CASE i # m + 1
      <4>1. i \in 1 .. m /\ h[i] = g[i] /\ h[i - 1] = g[i - 1]
        BY <2>1, <3>2
      <4> QED
        BY <2>2, <4>1
    <3> QED
      BY <3>1, <3>2
  <2>5. Steps(m + 1, h)
    BY <2>3, <2>4
  <2> HIDE DEF h, Steps
  <2> QED
    BY <2>5
<1>4. n \in W
  <2>1. W \in SUBSET Nat
    OBVIOUS
  <2> HIDE DEF W
  <2> QED
    BY <1>1, <1>2, <1>3, <2>1, NatInd
<1>5. PICK g : Steps(n, g)
  <2>1. n <= n
    BY <1>1
  <2> HIDE DEF Steps
  <2> QED
    BY <1>4, <2>1
<1> DEFINE Rec(f) == f = [i \in 0 .. n |-> IF i = 0 THEN k ELSE e(i, f[i - 1])]
<1>6. Rec(g)
  <2>1. \A i \in 0 .. n : g[i] = IF i = 0 THEN k ELSE e(i, g[i - 1])
    <3>1. \A i \in 0 .. n : i = 0 \/ i \in 1 .. n
      BY <1>1
    <3> QED
      BY <1>5, <3>1
  <2> QED
    BY <1>5, <2>1
<1> DEFINE d == CHOOSE f : Rec(f)
<1>7. task_mutex_release(k, t) = d[n]
  BY DEF task_mutex_release, e, n
<1>8. Rec(d)
  <2> HIDE DEF Rec
  <2> QED
    BY <1>6
<1> HIDE DEF d
<1>9. d[0] = k /\ \A i \in 1 .. n : d[i] = e(i, d[i - 1])
  <2>1. 0 \in 0 .. n /\ \A i \in 1 .. n : i \in 0 .. n /\ i # 0
    BY <1>1
  <2> QED
    BY <1>8, <2>1
<1> QED
  BY <1>7, <1>9 DEF e, n

LEMMA ReleaseAll ==
    ASSUME NEW k, Sound(k), OwnRec(k), NEW t \in (k.obj \cap Task) \ {Idle}
    PROVE  LET r == IF k.own[t] # << >> THEN task_mutex_release(k, t) ELSE k
           IN  Sound(r) /\ Released(k, r, t, ToSet(k.own[t]))
<1> DEFINE ms   == k.own[t]
           n    == Len(ms)
           M(i) == {ms[j] : j \in 1 .. i}
<1>1. ms \in Seq(Mutex) /\ n \in Nat /\ IsInjective(ms)
  BY DEF Sound, KernelType, OwnRec
<1>2. PICK f : /\ f[0] = k
               /\ \A i \in 1 .. n : f[i] = mutex_release(f[i - 1], ms[i])
               /\ task_mutex_release(k, t) = f[n]
  BY <1>1, ReleaseUnfolds
<1> HIDE DEF ms, n
<1> DEFINE W == {i \in Nat : i <= n => Sound(f[i]) /\ Released(k, f[i], t, M(i))}
<1>3. 0 \in W
  <2>1. M(0) = {}
    OBVIOUS
  <2> HIDE DEF M
  <2> QED
    BY <1>2, <2>1, ReleasedNone
<1>4. ASSUME NEW i \in W PROVE i + 1 \in W
  <2> SUFFICES ASSUME i + 1 <= n
               PROVE  Sound(f[i + 1]) /\ Released(k, f[i + 1], t, M(i + 1))
    OBVIOUS
  <2>1. i \in Nat /\ i <= n /\ i + 1 \in 1 .. n
    BY <1>1
  <2>2. Sound(f[i]) /\ Released(k, f[i], t, M(i))
    BY <2>1
  <2>3. f[i + 1] = mutex_release(f[i], ms[i + 1])
    BY <1>2, <2>1
  <2>4. M(i + 1) = M(i) \cup {ms[i + 1]}
    BY <2>1
  <2>5. M(i) \in SUBSET ToSet(ms) /\ ms[i + 1] \in ToSet(ms) \ M(i)
    BY <1>1, <2>1 DEF ToSet, IsInjective, n
  <2> HIDE DEF M
  <2>6. M(i) \in SUBSET ToSet(k.own[t]) /\ ms[i + 1] \in ToSet(k.own[t]) \ M(i)
    BY <2>5 DEF ms
  <2>7. LET r == mutex_release(f[i], ms[i + 1])
        IN  Sound(r) /\ Released(k, r, t, M(i) \cup {ms[i + 1]})
    BY <2>2, <2>6, ReleaseTurn
  <2> QED
    BY <2>3, <2>4, <2>7
<1>5. n \in W
  <2>1. W \in SUBSET Nat
    OBVIOUS
  <2> HIDE DEF W
  <2> QED
    BY <1>1, <1>3, <1>4, <2>1, NatInd
<1>6. M(n) = ToSet(ms)
  BY <1>1 DEF ToSet, n
<1>7. Sound(f[n]) /\ Released(k, f[n], t, ToSet(ms))
  <2>1. n <= n
    BY <1>1
  <2> HIDE DEF M
  <2> QED
    BY <1>5, <1>6, <2>1
<1>8. CASE ms # << >>
  BY <1>2, <1>7, <1>8 DEF ms
<1>9. CASE ms = << >>
  <2>1. n = 0
    BY <1>9 DEF n
  <2> QED
    BY <1>2, <1>7, <1>9, <2>1 DEF ms
<1> QED
  BY <1>8, <1>9

----------------------------------------------------------------------------
(* The steps of the scheduler leave the owners alone, unless a task dies.  *)

Dying == \E t \in Task : Destroy(t)
Kin(k, r) == SameOwners(k, r) /\ k.obj \subseteq r.obj

LEMMA FrameKin ==
    ASSUME NEW k, NEW r, \/ SameFrame(k, r) \/ SameControl(k, r)
                         \/ SameLists(k, r) /\ SameOwners(k, r)
    PROVE  Kin(k, r)
  BY DEF Kin, SameFrame, SameControl, SameLists, SameOwners

LEMMA KernelKin == Safe /\ KernelStep => Kin(knl, knl')
<1> SUFFICES ASSUME Safe, KernelStep PROVE Kin(knl, knl')
  OBVIOUS
<1>1. CASE PendSV_Handler
  <2>1. knl' = Switched(knl)
    BY <1>1 DEF PendSV_Handler, ThenReturn, Switched
  <2> QED
    BY <2>1, SwitchedSound, FrameKin DEF Safe
<1>2. CASE SchedPoint
  <2>1. knl' = knl \/ knl' = switch_request(knl)
    BY <1>2 DEF SchedPoint, knl_sched
  <2>2. Kin(knl, knl)
    BY DEF Kin, SameOwners
  <2> QED
    BY <2>1, <2>2, SwitchSound, FrameKin DEF Safe
<1>3. CASE TickUpdate
  <2>1. knl' = tick_update(knl, 1)
    BY <1>3 DEF TickUpdate
  <2> QED
    BY <2>1, TickSound, FrameKin DEF Safe
<1>4. CASE RobinSched
  <2>1. knl' = robin_sched(knl)
    BY <1>4 DEF RobinSched
  <2> QED
    BY <2>1, RobinSound, TypeFacts, FrameKin DEF Safe, SameTasks
<1>5. CASE IrqLeave
  BY <1>5, IrqLeaveStep, FrameKin
<1> QED
  BY <1>1, <1>2, <1>3, <1>4, <1>5 DEF KernelStep

LEMMA NestKin ==
    ASSUME Safe, NEW kind, IrqEnter(kind) PROVE Kin(knl, knl')
<1>1. knl' = SetNest(knl, knl.irqNest + 1) /\ knl.irqNest + 1 \in Nat
  BY TypeFacts DEF Safe, IrqEnter, SetNest
<1> QED
  BY <1>1, NestSound, FrameKin DEF Safe

LEMMA SuspendKin == ASSUME Safe, NEW t \in Task, Suspend(t) PROVE Kin(knl, knl')
<1>1. t \in (knl.obj \cap Task) \ {Idle} /\ knl' = task_suspend(knl, t)
  BY DEF Suspend, ThenSched, ThenReturn
<1> QED
  BY <1>1, SuspendSound, FrameKin DEF Safe, Others

LEMMA ResumeKin == ASSUME Safe, NEW t \in Task, Resume(t) PROVE Kin(knl, knl')
<1>1. t \in (knl.obj \cap Task) \ {Idle} /\ IsSuspended(knl, t) /\ knl' = task_resume(knl, t)
  BY DEF Resume, ThenSched, ThenReturn, Safe, Sound, Alive, IsSuspended
<1> QED
  BY <1>1, ResumeSound, FrameKin DEF Safe

LEMMA DelayKin == ASSUME Safe, NEW d \in Delays, Delay(d) PROVE Kin(knl, knl')
<1>1. knl.curr \in ReadySet(knl) \ {Idle} /\ Sound(knl) /\ d \in Nat
  BY CallerReady, InputAssumption, TimeAssumption DEF Delay
<1>2. knl' = readyqueue_remove(tick_list_add(knl, knl.curr, d), knl.curr)
  BY DEF Delay, ThenSched
<1> QED
  BY <1>1, <1>2, DelaySound, FrameKin DEF SameBut

LEMMA DelayAbortKin ==
    ASSUME Safe, NEW t \in Task, ~IsPending(knl, t), DelayAbort(t) PROVE Kin(knl, knl')
<1>1. IsSleeping(knl, t) /\ ~IsSuspended(knl, t) /\ Sound(knl)
  BY DEF DelayAbort, Safe
<1>2. knl' = readyqueue_add(tick_list_remove(knl, t), t)
  BY DEF DelayAbort, ThenSched
<1> QED
  BY <1>1, <1>2, AbortSound, FrameKin

LEMMA YieldKin == ASSUME Safe, Yield PROVE Kin(knl, knl')
<1>1. knl.curr \in ReadySet(knl) \ {Idle} /\ Sound(knl)
  BY CallerReady DEF Yield
<1>2. knl' = readyqueue_add_tail(readyqueue_remove(knl, knl.curr), knl.curr)
  BY DEF Yield, ThenSched
<1> QED
  BY <1>1, <1>2, YieldSound, FrameKin

LEMMA LockKin == ASSUME Safe, SchedLock \/ SchedUnlock PROVE Kin(knl, knl')
<1>1. PICK n \in Nat : knl' = SetLock(knl, n)
  <2>1. knl.schedLock \in Nat
    BY TypeFacts DEF Safe
  <2>2. CASE SchedLock
    BY <2>1, <2>2 DEF SchedLock, ThenReturn, SetLock
  <2>3. CASE SchedUnlock
    BY <2>1, <2>3 DEF SchedUnlock, ThenSched, SetLock, knl_is_sched_locked
  <2> QED
    BY <2>2, <2>3
<1> QED
  BY <1>1, LockSound, FrameKin DEF Safe

LEMMA TimesliceKin ==
    ASSUME Safe, NEW t \in Task, NEW slice \in Timeslices, TimesliceSet(t, slice)
    PROVE  Kin(knl, knl')
<1>1. PICK reload, left : knl' = Sliced(knl, t, reload, left)
  BY DEF TimesliceSet, ThenReturn, Sliced
<1> QED
  BY <1>1 DEF Safe, Sound, Sliced, KernelType, Kin, SameOwners

LEMMA PrioKin ==
    ASSUME Safe, NEW t \in Task \ {Idle}, NEW p \in AppPrio, PrioChange(t, p)
    PROVE  Kin(knl, knl')
<1>1. knl' = prio_assign(knl, t, p) /\ t \in (knl.obj \cap Task) \ {Idle} /\ p \in Prio
  BY InputAssumption DEF PrioChange, ThenSched
<1>2. Reranked(knl, knl', t, p)
  BY <1>1, PrioritySound DEF Safe
<1> QED
  BY <1>2 DEF Reranked, SamePlaces, Kin

LEMMA CreateKin ==
    ASSUME Safe, OwnLive(knl), NEW t \in Task, NEW p \in AppPrio, NEW slice \in Timeslices,
           Create(t, p, slice)
    PROVE  Kin(knl, knl')
<1>1. p \in Prio /\ slice \in Nat /\ t \notin knl.obj
  BY InputAssumption DEF Create
<1>2. knl' = readyqueue_add_tail(NewTask(knl, t, p, slice), t)
  BY DEF Create
<1>3. Sound(knl') /\ Cleared(knl, knl', t) /\ knl'.obj = knl.obj \cup {t}
  BY <1>1, <1>2, CreateSound DEF Safe
<1>4. \A u \in Task : knl'.own[u] = knl.own[u]
  BY <1>1, <1>3 DEF Cleared, OwnLive
<1>5. knl'.own \in [Task -> Seq(Mutex)] /\ knl.own \in [Task -> Seq(Mutex)]
  BY <1>3 DEF Safe, Sound, KernelType
<1>6. knl'.own = knl.own
  BY <1>4, <1>5
<1> QED
  BY <1>3, <1>6 DEF Cleared, SameMutexes, Kin, SameOwners

LEMMA OwnersKept == Safe /\ OwnLive(knl) /\ [Next]_vars /\ ~Dying => Kin(knl, knl')
<1> SUFFICES ASSUME Safe, OwnLive(knl), [Next]_vars, ~Dying PROVE Kin(knl, knl')
  OBVIOUS
<1>1. CASE KernelStep
  BY <1>1, KernelKin
<1>2. CASE \E kind \in {"tick", "isr"} : IrqEnter(kind)
  BY <1>2, NestKin
<1>3. CASE OtherApi
  BY <1>3, SuspendKin, ResumeKin, DelayAbortKin, DelayKin, TimesliceKin, YieldKin, LockKin
  DEF OtherApi, Dying
<1>4. CASE \E t \in Task, p \in AppPrio : SetPrio(t, p)
  BY <1>4, PrioKin, CreateKin DEF SetPrio
<1>5. CASE UNCHANGED vars
  BY <1>5 DEF vars, Kin, SameOwners
<1> QED
  BY <1>1, <1>2, <1>3, <1>4, <1>5 DEF Next, OtherStep

----------------------------------------------------------------------------
(* What keeps the ownership invariants.                                    *)

LEMMA OwnedKin ==
    ASSUME Owned(knl), Kin(knl, knl'),
           \A m \in Mutex : Waiters(knl', m) \subseteq Waiters(knl, m)
    PROVE  Owned(knl')
<1>1. OwnRec(knl')
  BY DEF Owned, OwnRec, Kin, SameOwners
<1>2. OwnLive(knl')
  BY DEF Owned, OwnLive, Kin, SameOwners
<1>3. OwnWait(knl')
  BY DEF Owned, OwnWait, Kin, SameOwners
<1> QED
  BY <1>1, <1>2, <1>3 DEF Owned

(* HandInv after the step, task by task.                                   *)
HandNext(t) ==
    InPendNext(t) =>
        /\ arg'[t] \in Mutex
        /\ knl'.owner[arg'[t]] = t => knl'.pendState[t] = "POST"
        /\ MutexesLast /\ knl'.pendState[t] = "POST" => knl'.owner[arg'[t]] = t

LEMMA HandAll == (\A t \in Task : HandNext(t)) => HandInv'
  BY DEF HandNext, HandInv, InPend, InPendNext

(* t keeps what it owns and is told nothing, or not of a post.             *)
Untold(t) == \/ knl'.pendState[t] = knl.pendState[t]
             \/ IsPending(knl, t) /\ knl'.pendState[t] # "POST"
Keeps(t)  == \A m \in Mutex :
                /\ knl'.owner[m] = t => knl.owner[m] = t
                /\ MutexesLast /\ knl.owner[m] = t => knl'.owner[m] = t

LEMMA HandStays ==
    ASSUME Safe, HandInv, NEW t \in Task, Unmoved(t), Untold(t), InPend(t) => Keeps(t)
    PROVE  HandNext(t)
<1>1. IsPending(knl, t) => knl.pendState[t] = "NONE"
  BY DEF Safe, Sound, Waiting, Undecided
<1>2. CASE ~InPend(t)
  BY <1>2 DEF Unmoved, HandNext
<1>3. CASE InPend(t)
  <2>1. /\ arg[t] \in Mutex /\ arg'[t] = arg[t] /\ Keeps(t)
        /\ knl.owner[arg[t]] = t => knl.pendState[t] = "POST"
        /\ MutexesLast /\ knl.pendState[t] = "POST" => knl.owner[arg[t]] = t
    BY <1>3 DEF Unmoved, HandInv
  <2> QED
    BY <1>1, <2>1 DEF Untold, Keeps, HandNext
<1> QED
  BY <1>2, <1>3

LEMMA WokeUntold ==
    ASSUME NEW A, NEW st, Woke(A, st), st # "POST"
    PROVE  \A t \in Task : Unmoved(t) /\ Untold(t)
  BY DEF Woke, Ended, Steady, Untold

LEMMA AloneUntold ==
    ASSUME NEW t \in Task, Alone(t), NEW u \in Task \ {t}
    PROVE  Unmoved(u) /\ Untold(u)
  BY DEF Alone, Steady, Untold

LEMMA HandStep ==
    ASSUME Safe, HandInv, WaitStep, \A t \in Task : Keeps(t)
    PROVE  HandInv'
<1>1. ASSUME NEW A, Woke(A, "TIMEOUT") PROVE HandInv'
  BY <1>1, WokeUntold, HandStays, HandAll
<1>2. ASSUME NEW t \in Task, Alone(t), Left(t) \/ Dropped(t) PROVE HandInv'
  <2>1. \A u \in Task \ {t} : HandNext(u)
    BY <1>2, AloneUntold, HandStays
  <2>2. HandNext(t)
    <3>1. CASE Left(t)
      BY <3>1 DEF Left, HandNext
    <3>2. CASE Dropped(t)
      BY <3>2, HandStays DEF Dropped, Untold
    <3> QED
      BY <1>2, <3>1, <3>2
  <2> QED
    BY <2>1, <2>2, HandAll
<1> QED
  BY <1>1, <1>2 DEF WaitStep

(* A step of the scheduler that leaves the owners alone.                   *)
LEMMA KinBase ==
    ASSUME Base, Safe', WaitStep, Kin(knl, knl') PROVE Base'
<1>1. WaitInv' /\ \A m \in Mutex : Waiters(knl', m) \subseteq Waiters(knl, m)
  BY WaitStepKeeps, StepShrinks DEF Base
<1>2. Owned(knl')
  BY <1>1, OwnedKin DEF Base
<1> QED
  BY <1>1, <1>2 DEF Base

LEMMA KinKeeps ==
    ASSUME MutexIInv, Base', WaitStep, Kin(knl, knl'),
           HoldType', \A t \in Task : holds'[t] \subseteq holds[t]
    PROVE  MutexIInv'
<1>1. HandInv'
  BY HandStep DEF MutexIInv, Base, Kin, SameOwners, Keeps
<1>2. HoldInv'
  BY DEF MutexIInv, HoldInv, Kin, SameOwners
<1> QED
  BY <1>1, <1>2 DEF MutexIInv

LEMMA SchedulerStep ==
    ASSUME Base, [Next]_vars, ~Dying PROVE Base' /\ WaitStep /\ Kin(knl, knl')
<1>1. Harmless
  BY DEF Harmless, Dying
<1>2. Safe' /\ WaitStep
  BY <1>1, NextKept, NextWait DEF Base, Kept
<1>3. Kin(knl, knl')
  BY OwnersKept DEF Base, Owned
<1> QED
  BY <1>2, <1>3, KinBase

LEMMA SetPrioStep ==
    ASSUME Base, NEW t \in Task, NEW p \in AppPrio, SetPrio(t, p)
    PROVE  Base' /\ WaitStep /\ Kin(knl, knl')
<1>1. CASE t # Idle /\ PrioChange(t, p)
  <2>1. Kept /\ WaitStep /\ Kin(knl, knl')
    BY <1>1, PrioChangeStep, PrioWait, PrioKin DEF Base
  <2> QED
    BY <2>1, KinBase DEF Kept
<1>2. ASSUME NEW slice \in Timeslices, Create(t, p, slice)
      PROVE  Base' /\ WaitStep /\ Kin(knl, knl')
  <2>1. Kept /\ WaitStep /\ Kin(knl, knl')
    BY <1>2, CreateStep, CreateWait, CreateKin DEF Base, Owned
  <2> QED
    BY <2>1, KinBase DEF Kept
<1> QED
  BY <1>1, <1>2 DEF SetPrio

----------------------------------------------------------------------------
(* The death of a task: those who waited for its mutexes are told.         *)

(* A task-level call that may have chosen a next task on its way.          *)
LEMMA CallSafe ==
    ASSUME Safe, NEW k, Sound(k), SameHere(knl, k),
           knl.schedLock > 0 => knl.curr \in ReadySet(k),
           k.pendsv => /\ k.schedLock = 0
                       /\ \/ k.next \in ReadySet(k)
                          \/ k.next \notin k.obj /\ pc'[k.next] \in {"none", "sched"},
           knl' = k, isr' = isr, pc' \in [Task -> Label],
           arg' \in [Task -> Obj \cup {NoObj}],
           pc'[knl.curr] \in {"sched", "psched"} \/ knl.curr \in ReadySet(k)
    PROVE  Safe'
<1>1. k \in KernelType /\ TypeOK
  BY DEF Sound, Safe
<1>2. TypeOK'
  BY <1>1 DEF TypeOK, SameHere
<1>3. LockHolds'
  BY DEF LockHolds, SameHere
<1>4. ChosenOK'
  <2> SUFFICES ASSUME Decisive'
               PROVE  (Chosen \in ReadySet(knl) \/ (Chosen \notin knl.obj /\ pc[Chosen] \in {"none", "sched"}))'
    BY DEF ChosenOK
  <2>1. CASE k.pendsv
    BY <2>1 DEF Chosen
  <2>2. CASE ~k.pendsv
    BY <2>2 DEF Chosen, Decisive, SameHere
  <2> QED
    BY <2>1, <2>2
<1> QED
  BY <1>2, <1>3, <1>4 DEF Safe

LEMMA ForwardSafe ==
    ASSUME Safe, NEW api, Preamble(api), NEW k, Sound(k), Forward(knl, k),
           ThenSched(k) \/ ThenReturn(k)
    PROVE  Safe' /\ knl' = k /\ \A t \in Task : Unmoved(t)
<1>1. TaskRuns /\ knl.curr \in ReadySet(k)
  BY CallerReady DEF Forward
<1>2. knl' = k /\ isr' = isr /\ arg' = arg /\ (pc' = pc \/ pc' = [pc EXCEPT ![knl.curr] = "sched"])
  BY DEF ThenSched, ThenReturn
<1>3. pc' \in [Task -> Label] /\ arg' \in [Task -> Obj \cup {NoObj}]
  BY <1>2, TypeFacts DEF Safe, Label
<1>4. k.pendsv => k.schedLock = 0 /\ k.next \in ReadySet(k)
  BY <1>1 DEF Forward, Aimed, TaskRuns
<1>5. Safe'
  BY <1>1, <1>2, <1>3, <1>4, CallSafe DEF Forward
<1> QED
  BY <1>1, <1>2, <1>5, CallUnmoved

(* One task leaves, others are told so, and nobody else is concerned.      *)
Bereft(t, st) == Left(t) /\ \A u \in Task \ {t} : Steady(u) \/ Ended(u, st)

LEMMA BereftKeeps ==
    ASSUME WaitInv, NEW t \in Task, NEW st, Bereft(t, st), st # "NONE"
    PROVE  WaitInv' /\ \A o : Waiters(knl', o) \subseteq Waiters(knl, o)
<1>1. WaitInv'
  <2> SUFFICES ASSUME NEW u \in Task
               PROVE  /\ IsPending(knl', u) => InPendNext(u) /\ arg'[u] = knl'.pendingObj[u]
                      /\ InPendNext(u) /\ ~IsPending(knl', u) => ~IsSleeping(knl', u)
                      /\ ~SuspendUsed /\ InPendNext(u) /\ knl'.pendState[u] = "NONE"
                            => IsPending(knl', u)
    BY DEF WaitInv, InPend, InPendNext
  <2>1. CASE Steady(u)
    BY <2>1, SteadyKeeps
  <2>2. CASE Ended(u, st)
    BY <2>2 DEF WaitInv, Ended, Unmoved
  <2>3. CASE u = t
    BY <2>3 DEF Bereft, Left
  <2> QED
    BY <2>1, <2>2, <2>3 DEF Bereft
<1>2. ASSUME NEW o, NEW u \in Task, IsPending(knl', u)
      PROVE  IsPending(knl, u) /\ knl'.pendingObj[u] = knl.pendingObj[u]
  <2>1. Steady(u)
    BY <1>2 DEF Bereft, Left, Ended
  <2> QED
    BY <1>2, <2>1 DEF Steady
<1> QED
  BY <1>1, <1>2 DEF Waiters

LEMMA BereftHand ==
    ASSUME Safe, HandInv, NEW t \in Task, NEW st, Bereft(t, st), st # "POST",
           \A u \in Task \ {t} : Keeps(u)
    PROVE  HandInv'
<1>1. HandNext(t)
  BY DEF Bereft, Left, HandNext
<1>2. ASSUME NEW u \in Task \ {t} PROVE HandNext(u)
  <2>1. Unmoved(u) /\ Untold(u)
    BY DEF Bereft, Steady, Ended, Untold
  <2> QED
    BY <2>1, HandStays
<1> QED
  BY <1>1, <1>2, HandAll

(* What the death of t leaves: its mutexes have no owner.                  *)
LEMMA DoomOwned ==
    ASSUME NEW k, Owned(k), NEW t \in Task, NEW a, Released(k, a, t, ToSet(k.own[t])),
           NEW r, SameMutexes(a, r), r.own[t] = << >>,
           \A u \in Task \ {t} : r.own[u] = a.own[u],
           r.obj = k.obj \ {t},
           \A o \in Obj : Waiters(r, o) \subseteq Waiters(a, o) \cap Waiters(k, o)
    PROVE  Owned(r)
<1> DEFINE M == ToSet(k.own[t])
<1>1. M \in SUBSET Mutex /\ \A x \in M : k.owner[x] = t
  BY DEF Owned, OwnRec
<1>2. OwnRec(a) /\ Freed(k, a, t, M)
  BY <1>1, FreedRec DEF Owned, Released
<1>3. OwnRec(r)
  <2>1. IsInjective(r.own[t]) /\ ToSet(r.own[t]) = {}
    BY DEF IsInjective, ToSet
  <2>2. {m \in Mutex : a.owner[m] = t} = {}
    BY <1>1, <1>2, NullAssumption DEF Freed, OwnRec
  <2>3. ASSUME NEW u \in Task
        PROVE  IsInjective(r.own[u]) /\ ToSet(r.own[u]) = {m \in Mutex : r.owner[m] = u}
    BY <1>2, <2>1, <2>2 DEF OwnRec, SameMutexes
  <2> QED
    BY <1>2, <2>3 DEF OwnRec, SameMutexes
<1>4. OwnLive(r)
  <2>1. ASSUME NEW u \in Task, r.own[u] # << >> PROVE u \in r.obj \ {Idle}
    BY <1>2, <2>1 DEF Freed, Owned, OwnLive
  <2>2. ASSUME NEW m \in Mutex, r.owner[m] # NoTask PROVE m \in r.obj
    BY <1>2, <2>2, KindAssumption DEF Freed, Owned, OwnLive, SameMutexes, Obj
  <2> QED
    BY <2>1, <2>2 DEF OwnLive
<1>5. OwnWait(r)
  <2> SUFFICES ASSUME NEW m \in Mutex, r.owner[m] = NoTask PROVE Waiters(r, m) = {}
    BY DEF OwnWait
  <2>0. m \in Obj
    BY DEF Obj
  <2>1. CASE m \in M
    <3>1. \A u \in Task : u \in Waiters(k, m) => ~IsPending(a, u)
      BY <2>1 DEF Released, Awoken, WaitersAt
    <3>2. \A u \in Waiters(r, m) : u \in Task /\ u \in Waiters(a, m) /\ u \in Waiters(k, m)
      BY <2>0 DEF Waiters
    <3> QED
      BY <3>1, <3>2 DEF Waiters
  <2>2. CASE m \notin M
    <3>1. k.owner[m] = NoTask
      BY <1>2, <2>2 DEF Freed, SameMutexes
    <3> QED
      BY <2>0, <3>1 DEF Owned, OwnWait
  <2> QED
    BY <2>1, <2>2
<1> QED
  BY <1>3, <1>4, <1>5 DEF Owned

LEMMA DeathStep ==
    ASSUME Base, NEW t \in Task, Destroy(t)
    PROVE  /\ Base' /\ Bereft(t, "OWNER_DIE") /\ knl'.obj = knl.obj \ {t} /\ t # NoTask
           /\ \A x \in Mutex :
                 /\ knl'.owner[x] = IF knl.owner[x] = t THEN NoTask ELSE knl.owner[x]
                 /\ knl'.nesting[x] = IF knl.owner[x] = t THEN 0 ELSE knl.nesting[x]
<1> DEFINE M == ToSet(knl.own[t])
           a == IF knl.own[t] # << >> THEN task_mutex_release(knl, t) ELSE knl
           r == Bury(a, t)
<1>1. /\ TaskRuns /\ knl.curr \in ReadySet(knl) /\ Sound(knl) /\ Owned(knl)
      /\ t \in (knl.obj \cap Task) \ {Idle} /\ ~(t = knl.curr /\ knl.schedLock > 0)
  BY CallerReady DEF Base, Destroy, knl_is_sched_locked
<1>2. /\ knl' = r /\ isr' = isr
      /\ pc' = [pc EXCEPT ![t] = "none", ![knl.curr] = "sched"]
      /\ arg' = [arg EXCEPT ![t] = NoObj]
  BY DestroyBuries DEF Destroy
<1>3. Sound(a) /\ Released(knl, a, t, M)
  BY <1>1, ReleaseAll DEF Owned
<1>4. Forward(knl, a) /\ a.obj = knl.obj /\ Awoken(knl, a, WaitersAt(knl, M), "OWNER_DIE")
  BY <1>3 DEF Released, Forward
<1> HIDE DEF a
<1>5. /\ Sound(r) /\ SameCpu(a, r) /\ Elsewhere(a, r, t) /\ r.obj = a.obj \ {t}
      /\ SameMutexes(a, r)
      /\ r.own[t] = << >> /\ \A u \in Task \ {t} : r.own[u] = a.own[u]
      /\ ~IsPending(r, t) /\ ReadySet(r) = ReadySet(a) \ {t}
  BY <1>1, <1>3, <1>4, BurySound
<1> HIDE DEF r
<1>6. /\ pc' \in [Task -> Label] /\ pc'[knl.curr] = "sched"
      /\ arg' \in [Task -> Obj \cup {NoObj}] /\ pc'[t] \in {"none", "sched"}
  BY <1>2, TypeFacts DEF Base, Safe, Label
<1>7. Safe'
  <2>1. SameHere(knl, r)
    BY <1>4, <1>5 DEF Forward, SameHere, SameCpu
  <2>2. knl.schedLock > 0 => knl.curr \in ReadySet(r)
    BY <1>1, <1>4, <1>5 DEF Forward
  <2>3. ASSUME r.pendsv
        PROVE  /\ r.schedLock = 0
               /\ \/ r.next \in ReadySet(r)
                  \/ r.next \notin r.obj /\ pc'[r.next] \in {"none", "sched"}
    <3>1. a.next \in ReadySet(a) /\ a.schedLock = 0
      BY <1>1, <1>4, <1>5, <2>3 DEF Forward, Aimed, TaskRuns, SameCpu
    <3> QED
      BY <1>5, <1>6, <3>1 DEF SameCpu
  <2> QED
    BY <1>2, <1>5, <1>6, <2>1, <2>2, <2>3, CallSafe DEF Base
<1>8. Bereft(t, "OWNER_DIE")
  <2>1. Left(t)
    BY <1>2, <1>5, TypeFacts DEF Base, Safe, Left, InPend, InPendNext
  <2>2. ASSUME NEW u \in Task \ {t} PROVE Steady(u) \/ Ended(u, "OWNER_DIE")
    <3>1. Unmoved(u)
      BY <1>1, <1>2, TypeFacts DEF Base, Safe, TaskRuns, Unmoved, InPend, InPendNext
    <3>2. /\ r.state[u] = a.state[u] /\ r.pendingObj[u] = a.pendingObj[u]
          /\ r.pendState[u] = a.pendState[u]
      BY <1>5 DEF Elsewhere
    <3>3. CASE u \in WaitersAt(knl, M)
      BY <1>2, <1>4, <3>1, <3>2, <3>3 DEF Awoken, Ended, IsPending, IsSleeping
    <3>4. CASE u \notin WaitersAt(knl, M)
      <4>1. SameWait(knl, r, u)
        BY <1>4, <3>2, <3>4 DEF Awoken, SameWait, IsPending, IsSleeping
      <4> QED
        BY <1>2, <3>1, <4>1, SteadyIf
    <3> QED
      BY <3>3, <3>4
  <2> QED
    BY <2>1, <2>2 DEF Bereft
<1>9. WaitInv' /\ \A o : Waiters(r, o) \subseteq Waiters(knl, o)
  BY <1>2, <1>8, BereftKeeps DEF Base
<1>10. \A o : Waiters(r, o) \subseteq Waiters(a, o)
  BY <1>5 DEF Waiters, Elsewhere, IsPending
<1>11. Owned(r)
  BY <1>1, <1>3, <1>4, <1>5, <1>9, <1>10, DoomOwned
<1>12. \A x \in Mutex :
          /\ r.owner[x] = IF knl.owner[x] = t THEN NoTask ELSE knl.owner[x]
          /\ r.nesting[x] = IF knl.owner[x] = t THEN 0 ELSE knl.nesting[x]
  <2>1. \A x \in Mutex : x \in M <=> knl.owner[x] = t
    BY <1>1 DEF Owned, OwnRec
  <2> QED
    BY <1>3, <1>5, <2>1 DEF Released, Freed, SameMutexes
<1> QED
  BY <1>1, <1>2, <1>4, <1>5, <1>7, <1>8, <1>9, <1>11, <1>12, NullAssumption DEF Base

LEMMA DestroyKeeps ==
    ASSUME MutexIInv, NEW t \in Task, Destroy(t), Forget
    PROVE  MutexIInv'
<1>1. /\ Base' /\ Bereft(t, "OWNER_DIE") /\ knl'.obj = knl.obj \ {t} /\ t # NoTask
      /\ \A x \in Mutex : knl'.owner[x] = IF knl.owner[x] = t THEN NoTask ELSE knl.owner[x]
  BY DeathStep DEF MutexIInv
<1>2. \A u \in Task \ {t} : Keeps(u)
  BY <1>1, NullAssumption DEF Keeps
<1>3. HandInv'
  BY <1>1, <1>2, BereftHand DEF MutexIInv, Base
<1>4. holds' = [u \in Task |-> IF u \in knl'.obj THEN holds[u] ELSE {}]
  BY DEF Forget
<1>5. HoldType'
  BY <1>4 DEF MutexIInv, HoldType
<1>6. HoldInv'
  <2> SUFFICES ASSUME MutexesLast, NEW u \in Task, NEW m \in holds'[u]
               PROVE  knl'.owner[m] = u
    BY DEF HoldInv
  <2>1. u # t /\ m \in holds[u] /\ m \in Mutex
    BY <1>1, <1>4 DEF MutexIInv, HoldType
  <2> QED
    BY <1>2, <2>1 DEF Keeps, MutexIInv, HoldInv
<1> QED
  BY <1>1, <1>3, <1>5, <1>6 DEF MutexIInv

----------------------------------------------------------------------------
(* The calls of tos_mutex.c.                                               *)

(* t becomes the owner of m.                                               *)
Marked(k, r, m, t) ==
    /\ r.owner = [k.owner EXCEPT ![m] = t] /\ r.nesting = [k.nesting EXCEPT ![m] = 1]
    /\ r.own = [k.own EXCEPT ![t] = <<m>> \o k.own[t]]

LEMMA FreshOwner ==
    ASSUME NEW k, Sound(k), NEW m \in Mutex, NEW t \in Task
    PROVE  LET r == mutex_fresh_owner_mark(k, m, t)
           IN  /\ Sound(r) /\ Rechosen(k, r) /\ SameLists(k, r) /\ Marked(k, r, m, t)
<1> DEFINE s == <<m>> \o k.own[t]
           r == mutex_fresh_owner_mark(k, m, t)
<1>1. /\ k \in KernelType /\ k.own[t] \in Seq(Mutex) /\ k.prio[t] \in 0 .. PrioInvalid
      /\ 1 \in 0 .. NestingMax
  <2>1. k \in KernelType /\ k.own[t] \in Seq(Mutex) /\ k.prio[t] \in Prio
    BY DEF Sound, KernelType
  <2>2. Prio \subseteq 0 .. PrioInvalid /\ 1 \in 0 .. NestingMax
    BY PrioAssumption, NestingAssumption DEF Prio, PrioInvalid
  <2> QED
    BY <2>1, <2>2
<1>2. s \in Seq(Mutex)
  BY <1>1
<1>3. r = [k EXCEPT !.owner[m] = t, !.ownerOrigPrio[m] = k.prio[t], !.nesting[m] = 1,
                    !.own[t] = s]
  BY DEF mutex_fresh_owner_mark, Sound, KernelType
<1>4. s = <<m>> \o k.own[t]
  OBVIOUS
<1> HIDE DEF s, r
<1>5. r \in KernelType
  BY <1>1, <1>2, <1>3 DEF KernelType
<1>6. SameLists(k, r) /\ SameCpu(k, r)
  BY <1>1, <1>3 DEF KernelType, SameLists, SameQueue, SameTick, SameCpu
<1>7. Marked(k, r, m, t)
  BY <1>1, <1>3, <1>4 DEF KernelType, Marked
<1> QED
  BY <1>5, <1>6, <1>7, FieldChange DEF r

LEMMA MarkedRec ==
    ASSUME NEW k \in KernelType, OwnRec(k), NEW m \in Mutex, k.owner[m] = NoTask,
           NEW t \in Task, NEW r, Marked(k, r, m, t)
    PROVE  /\ OwnRec(r) /\ r.owner[m] = t
           /\ \A x \in Mutex \ {m} : r.owner[x] = k.owner[x]
           /\ \A u \in Task \ {t} : r.own[u] = k.own[u]
<1>1. /\ k.own \in [Task -> Seq(Mutex)] /\ k.owner \in [Mutex -> Task \cup {NoTask}]
      /\ k.nesting \in [Mutex -> 0 .. NestingMax]
  BY DEF KernelType
<1>2. /\ r.owner[m] = t /\ \A x \in Mutex \ {m} : r.owner[x] = k.owner[x]
      /\ r.nesting[m] = 1 /\ \A x \in Mutex \ {m} : r.nesting[x] = k.nesting[x]
      /\ r.own[t] = <<m>> \o k.own[t] /\ \A u \in Task \ {t} : r.own[u] = k.own[u]
  BY <1>1 DEF Marked
<1>3. m \notin ToSet(k.own[t]) /\ t # NoTask
  BY NullAssumption DEF OwnRec
<1>4. IsInjective(r.own[t]) /\ ToSet(r.own[t]) = ToSet(k.own[t]) \cup {m}
  BY <1>1, <1>2, <1>3, PrependKeepsList DEF OwnRec
<1>5. ASSUME NEW u \in Task
      PROVE  IsInjective(r.own[u]) /\ ToSet(r.own[u]) = {x \in Mutex : r.owner[x] = u}
  <2>1. CASE u = t
    BY <1>2, <1>4, <2>1 DEF OwnRec
  <2>2. CASE u # t
    BY <1>2, <1>3, <2>2, NullAssumption DEF OwnRec
  <2> QED
    BY <2>1, <2>2
<1>6. \A x \in Mutex : r.nesting[x] = 0 <=> r.owner[x] = NoTask
  BY <1>2, <1>3 DEF OwnRec
<1> QED
  BY <1>2, <1>5, <1>6 DEF OwnRec

(* tos_mutex_pend, "first come".                                           *)
LEMMA PendFirstStep ==
    ASSUME Base, NEW m \in Mutex, MutexPendFirst(m)
    PROVE  /\ Base' /\ \A u \in Task : Steady(u)
           /\ Changed(m, knl.curr, 1) /\ knl.owner[m] = NoTask /\ knl'.obj = knl.obj
<1> DEFINE t == knl.curr
           r == mutex_fresh_owner_mark(knl, m, t)
<1>1. /\ t \in ReadySet(knl) \ {Idle} /\ TaskRuns /\ Sound(knl) /\ m \in knl.obj
      /\ knl.nesting[m] = 0 /\ ThenReturn(r) /\ Preamble("mutex_pend")
  BY CallerReady DEF MutexPendFirst, Base
<1>2. /\ t \in (knl.obj \cap Task) \ {Idle} /\ knl \in KernelType
      /\ OwnRec(knl) /\ knl.owner[m] = NoTask
  BY <1>1 DEF ReadySet, Sound, Base, Owned, OwnRec
<1>3. Sound(r) /\ Rechosen(knl, r) /\ SameLists(knl, r) /\ Marked(knl, r, m, t)
  BY <1>1, <1>2, FreshOwner
<1> HIDE DEF r
<1>4. Safe' /\ knl' = r /\ \A u \in Task : Unmoved(u)
  BY <1>1, <1>3, ForwardSafe DEF Rechosen, Base
<1>5. WaitStep /\ \A u \in Task : Steady(u)
  BY <1>3, <1>4, ListsSteady, SteadyIf
  DEF SameLists, SameWait, IsPending, IsSleeping
<1>6. WaitInv' /\ \A o : Waiters(knl', o) \subseteq Waiters(knl, o)
  BY <1>5, WaitStepKeeps, StepShrinks DEF Base
<1>7. /\ OwnRec(r) /\ r.owner[m] = t
      /\ \A x \in Mutex \ {m} : r.owner[x] = knl.owner[x]
      /\ \A u \in Task \ {t} : r.own[u] = knl.own[u]
  BY <1>2, <1>3, MarkedRec
<1>8. Owned(r)
  <2>1. OwnLive(r)
    BY <1>1, <1>2, <1>3, <1>7 DEF Base, Owned, OwnLive, Rechosen, SamePlaces
  <2>2. OwnWait(r)
    BY <1>2, <1>4, <1>6, <1>7, NullAssumption DEF Base, Owned, OwnWait
  <2> QED
    BY <1>7, <2>1, <2>2 DEF Owned
<1>9. Changed(m, t, 1) /\ knl'.obj = knl.obj
  <2>1. knl.nesting \in [Mutex -> 0 .. NestingMax] /\ r.nesting = [knl.nesting EXCEPT ![m] = 1]
    BY <1>2, <1>3 DEF KernelType, Marked
  <2> QED
    BY <1>3, <1>4, <1>7, <2>1 DEF Changed, Rechosen, SamePlaces
<1> QED
  BY <1>2, <1>4, <1>5, <1>6, <1>8, <1>9 DEF Base

LEMMA PendFirstKeeps ==
    ASSUME MutexIInv, NEW m \in Mutex, MutexPendFirst(m) PROVE MutexIInv'
<1> DEFINE t == knl.curr
<1>1. /\ Base' /\ Changed(m, t, 1) /\ knl.owner[m] = NoTask
      /\ \A u \in Task : Steady(u)
  BY PendFirstStep DEF MutexIInv
<1>2. /\ t \in Task /\ TaskRuns /\ holds' = [holds EXCEPT ![t] = @ \cup {m}]
  BY TypeFacts DEF MutexPendFirst, Preamble, MutexIInv, Base, Safe
<1>3. HandInv'
  <2> SUFFICES ASSUME NEW u \in Task PROVE HandNext(u)
    BY HandAll
  <2>1. InPend(u) => u # t
    BY <1>2 DEF TaskRuns, InPend
  <2>2. u # t => Keeps(u)
    BY <1>1, NullAssumption DEF Keeps, Changed
  <2> QED
    BY <1>1, <2>1, <2>2, HandStays DEF MutexIInv, Base, Untold, Steady
<1>4. HoldType'
  BY <1>2 DEF MutexIInv, HoldType
<1>5. HoldInv'
  <2> SUFFICES ASSUME MutexesLast, NEW u \in Task, NEW x \in holds'[u]
               PROVE  knl'.owner[x] = u
    BY DEF HoldInv
  <2>1. x \in holds[u] \/ (u = t /\ x = m)
    BY <1>2 DEF MutexIInv, HoldType
  <2>2. CASE x \in holds[u]
    BY <1>1, <2>2, NullAssumption DEF MutexIInv, HoldType, HoldInv, Changed
  <2> QED
    BY <1>1, <2>1, <2>2 DEF Changed
<1> QED
  BY <1>1, <1>3, <1>4, <1>5 DEF MutexIInv

(* Recursive locking.                                                      *)
Renested(k, m, n) == [k EXCEPT !.nesting[m] = n]

LEMMA NestingStep ==
    ASSUME Base, NEW api, Preamble(api), NEW m \in Mutex, knl.owner[m] # NoTask,
           NEW n \in 1 .. NestingMax, ThenReturn(Renested(knl, m, n))
    PROVE  /\ Base' /\ \A u \in Task : Steady(u)
           /\ Changed(m, knl.owner[m], n) /\ knl'.obj = knl.obj
<1> DEFINE r == Renested(knl, m, n)
<1>1. Sound(knl) /\ knl \in KernelType /\ n \in 0 .. NestingMax /\ n # 0
  BY NestingAssumption DEF Base, Safe, Sound
<1>2. r \in KernelType /\ SameLists(knl, r) /\ SameCpu(knl, r)
  BY <1>1 DEF Renested, KernelType, SameLists, SameQueue, SameTick, SameCpu
<1>3. /\ r.owner = knl.owner /\ r.own = knl.own
      /\ r.nesting[m] = n /\ \A x \in Mutex \ {m} : r.nesting[x] = knl.nesting[x]
  BY <1>1 DEF Renested, KernelType
<1>4. ThenReturn(r)
  OBVIOUS
<1> HIDE DEF r
<1>5. Sound(r) /\ Rechosen(knl, r)
  BY <1>1, <1>2, FieldChange
<1>6. Safe' /\ knl' = r /\ \A u \in Task : Unmoved(u)
  BY <1>4, <1>5, ForwardSafe DEF Rechosen, Base
<1>7. WaitStep /\ \A u \in Task : Steady(u)
  BY <1>2, <1>6, ListsSteady, SteadyIf
  DEF SameLists, SameWait, IsPending, IsSleeping
<1>8. WaitInv' /\ \A o : Waiters(knl', o) \subseteq Waiters(knl, o)
  BY <1>7, WaitStepKeeps, StepShrinks DEF Base
<1>9. Owned(r)
  <2>1. OwnRec(r)
    BY <1>1, <1>3 DEF Base, Owned, OwnRec
  <2>2. OwnLive(r) /\ OwnWait(r)
    BY <1>3, <1>5, <1>6, <1>8 DEF Base, Owned, OwnLive, OwnWait, Rechosen, SamePlaces
  <2> QED
    BY <2>1, <2>2 DEF Owned
<1>10. Changed(m, knl.owner[m], n) /\ knl'.obj = knl.obj
  BY <1>3, <1>5, <1>6 DEF Changed, Rechosen, SamePlaces
<1> QED
  BY <1>6, <1>7, <1>8, <1>9, <1>10 DEF Base

LEMMA SteadyMutex ==
    ASSUME MutexIInv, Base', \A u \in Task : Steady(u), knl'.owner = knl.owner, holds' = holds
    PROVE  MutexIInv'
<1>1. HandInv'
  BY HandStays, HandAll DEF MutexIInv, Base, Keeps, Untold, Steady
<1> QED
  BY <1>1 DEF MutexIInv, HoldType, HoldInv

LEMMA ChangedSame ==
    ASSUME Safe, Safe', NEW m \in Mutex, NEW n, Changed(m, knl.owner[m], n)
    PROVE  knl'.owner = knl.owner
<1>1. /\ knl.owner \in [Mutex -> Task \cup {NoTask}]
      /\ knl'.owner \in [Mutex -> Task \cup {NoTask}]
  BY DEF Safe, Sound, KernelType
<1> QED
  BY <1>1 DEF Changed

LEMMA PendAgainStep ==
    ASSUME Base, NEW m \in Mutex, MutexPendAgain(m)
    PROVE  /\ Base' /\ \A u \in Task : Steady(u)
           /\ knl.owner[m] = knl.curr /\ Changed(m, knl.curr, knl.nesting[m] + 1)
           /\ knl'.obj = knl.obj
<1>1. knl.nesting[m] \in 0 .. NestingMax /\ knl.curr \in Task /\ NestingMax \in Nat
  BY NestingAssumption DEF Base, Safe, Sound, KernelType
<1>2. /\ Preamble("mutex_pend") /\ knl.owner[m] # NoTask /\ knl.owner[m] = knl.curr
      /\ knl.nesting[m] + 1 \in 1 .. NestingMax
      /\ ThenReturn(Renested(knl, m, knl.nesting[m] + 1))
  BY <1>1, NullAssumption DEF MutexPendAgain, Renested
<1> QED
  BY <1>2, NestingStep

LEMMA PostNestedStep ==
    ASSUME Base, NEW m \in Mutex, MutexPostNested(m)
    PROVE  /\ Base' /\ \A u \in Task : Steady(u)
           /\ knl.owner[m] = knl.curr /\ Changed(m, knl.curr, knl.nesting[m] - 1)
           /\ knl.nesting[m] > 1 /\ knl'.obj = knl.obj
<1>1. knl.nesting[m] \in 0 .. NestingMax /\ knl.curr \in Task /\ NestingMax \in Nat
  BY NestingAssumption DEF Base, Safe, Sound, KernelType
<1>2. /\ Preamble("mutex_post") /\ knl.owner[m] # NoTask /\ knl.owner[m] = knl.curr
      /\ knl.nesting[m] > 1 /\ knl.nesting[m] - 1 \in 1 .. NestingMax
      /\ ThenReturn(Renested(knl, m, knl.nesting[m] - 1))
  BY <1>1, NullAssumption DEF MutexPostNested, Renested
<1> QED
  BY <1>2, NestingStep

LEMMA PendAgainKeeps ==
    ASSUME MutexIInv, NEW m \in Mutex, MutexPendAgain(m) PROVE MutexIInv'
<1>1. /\ Base' /\ (\A u \in Task : Steady(u)) /\ holds' = holds
      /\ Changed(m, knl.owner[m], knl.nesting[m] + 1)
  BY PendAgainStep DEF MutexIInv, MutexPendAgain
<1> QED
  BY <1>1, ChangedSame, SteadyMutex DEF MutexIInv, Base

LEMMA PostNestedKeeps ==
    ASSUME MutexIInv, NEW m \in Mutex, MutexPostNested(m) PROVE MutexIInv'
<1>1. /\ Base' /\ (\A u \in Task : Steady(u)) /\ holds' = holds
      /\ Changed(m, knl.owner[m], knl.nesting[m] - 1)
  BY PostNestedStep DEF MutexIInv, MutexPostNested
<1> QED
  BY <1>1, ChangedSame, SteadyMutex DEF MutexIInv, Base

(* The caller waits: the owner may be lent its priority before that.       *)
LEMMA MutexBlockStep ==
    ASSUME Base, NEW m \in Mutex, NEW timeout \in 0 .. Forever, MutexBlock(m, timeout)
    PROVE  /\ Base' /\ Alone(knl.curr) /\ Blocked(knl.curr, m)
           /\ SameOwners(knl, knl') /\ knl'.obj = knl.obj /\ knl.owner[m] # knl.curr
           /\ ~InPend(knl.curr) /\ (timeout = Forever => ~IsSleeping(knl', knl.curr))
<1> DEFINE t == knl.curr
           o == knl.owner[m]
           k == IF knl.prio[o] > knl.prio[t] THEN tos_task_prio_change(knl, o, knl.prio[t])
                ELSE knl
           r == pend_task_block(k, t, m, timeout)
<1>1. /\ t \in ReadySet(knl) \ {Idle} /\ TaskRuns /\ Sound(knl) /\ m \in knl.obj
      /\ knl.nesting[m] > 0 /\ o # t /\ BlockIn(k, m, timeout)
  BY CallerReady DEF MutexBlock, Base
<1>2. /\ t \in (knl.obj \cap Task) \ {Idle} /\ knl \in KernelType
      /\ Owned(knl) /\ Safe /\ timeout \in Nat
  BY <1>1, TimeAssumption DEF ReadySet, Sound, Base, Forever
<1>3. o \in (knl.obj \cap Task) \ {Idle} /\ o # NoTask
  <2>1. o # NoTask /\ o \in Task
    <3>1. o \in Task \cup {NoTask}
      BY <1>2 DEF KernelType
    <3>2. knl.nesting[m] # 0 /\ OwnRec(knl)
      BY <1>1, <1>2 DEF Owned
    <3>3. o # NoTask
      BY <3>2 DEF OwnRec
    <3> QED
      BY <3>1, <3>3
  <2>2. m \in ToSet(knl.own[o])
    BY <1>2, <2>1 DEF Owned, OwnRec
  <2>3. knl.own[o] # << >>
    BY <2>2 DEF ToSet
  <2> QED
    BY <1>2, <2>1, <2>3 DEF Owned, OwnLive
<1> HIDE DEF o
<1>4. /\ Sound(k) /\ Rechosen(knl, k) /\ SameOwners(knl, k)
      /\ k.pendsv => knl.pendsv \/ k.next # k.curr
  <2>1. knl.prio[t] \in 0 .. PrioInvalid
    <3>1. knl.prio[t] \in Prio
      BY <1>2 DEF KernelType
    <3> QED
      BY <3>1, PrioAssumption DEF Prio, PrioInvalid
  <2>2. /\ Sound(knl) /\ Rechosen(knl, knl) /\ SameOwners(knl, knl)
    BY <1>1 DEF Rechosen, Forward, SameHere, SamePlaces, SameOwners
  <2>3. LET b == tos_task_prio_change(knl, o, knl.prio[t])
        IN  /\ Sound(b) /\ Rechosen(knl, b) /\ SameOwners(knl, b)
            /\ b.pendsv => knl.pendsv \/ b.next # b.curr
    BY <1>1, <1>3, <2>1, PrioCall
  <2> QED
    BY <2>2, <2>3
<1> HIDE DEF k
<1>5. /\ k.curr = t /\ k.obj = knl.obj /\ ReadySet(k) = ReadySet(knl) /\ SameHere(knl, k)
      /\ k.pendsv => k.next \in ReadySet(k) \ {t}
  BY <1>1, <1>4 DEF Rechosen, Forward, SamePlaces, SameHere, Aimed, TaskRuns
<1>6. /\ knl' = r /\ pc' = [pc EXCEPT ![t] = "psched"]
      /\ arg' = [arg EXCEPT ![t] = m] /\ isr' = isr /\ ~(k.schedLock > 0)
  BY <1>1, <1>5 DEF BlockIn, knl_is_sched_locked
<1>7. /\ Sound(r) /\ Others(k, r, t)
      /\ IsPending(r, t) /\ r.pendingObj[t] = m /\ r.pendState[t] = "NONE"
      /\ ReadySet(r) = ReadySet(k) \ {t}
      /\ timeout = Forever => ~IsSleeping(r, t)
  BY <1>1, <1>2, <1>4, <1>5, BlockSound DEF Obj
<1> HIDE DEF r
<1>8. /\ pc' \in [Task -> Label] /\ pc'[t] = "psched" /\ m \in Obj
      /\ arg' \in [Task -> Obj \cup {NoObj}] /\ arg'[t] = m
  BY <1>2, <1>6, TypeFacts DEF Safe, Label, Obj
<1>9. SameCpu(k, r) /\ r.obj = knl.obj /\ SameOwners(knl, r)
  BY <1>4, <1>5, <1>7 DEF Others, SameFrame, SameCpu, SameOwners
<1>10. Safe'
  <2>1. SameHere(knl, r) /\ (r.pendsv => r.next \in ReadySet(r))
    BY <1>5, <1>7, <1>9 DEF SameHere, SameCpu
  <2>2. knl.schedLock = 0 /\ r.schedLock = 0
    BY <1>1, <1>5, <1>6, <1>9 DEF Sound, KernelType, SameHere, SameCpu
  <2> QED
    BY <1>2, <1>6, <1>7, <1>8, <2>1, <2>2, CallSafe
<1>11. Blocked(t, m)
  BY <1>6, <1>7, <1>8 DEF Blocked, InPend, InPendNext
<1>12. Alone(t)
  <2> SUFFICES ASSUME NEW u \in Task \ {t} PROVE Steady(u)
    BY DEF Alone
  <2>1. Unmoved(u)
    BY <1>2, <1>6, TypeFacts DEF Safe, Unmoved, InPend, InPendNext
  <2>2. SameWait(knl, k, u)
    BY <1>4 DEF Rechosen, SamePlaces, SameWait, IsPending, IsSleeping
  <2>3. SameWait(k, r, u)
    BY <1>7, ButIsElsewhere
  <2> QED
    BY <1>6, <2>1, <2>2, <2>3, SteadyIf DEF SameWait
<1>13. WaitInv'
  BY <1>2, <1>11, <1>12, AloneKeeps DEF Base
<1>14. Owned(r)
  <2>1. OwnRec(r) /\ OwnLive(r)
    BY <1>2, <1>9 DEF Owned, OwnRec, OwnLive, SameOwners
  <2>2. ASSUME NEW x \in Mutex, r.owner[x] = NoTask PROVE Waiters(r, x) = {}
    <3>1. knl.owner[x] = NoTask /\ x # m /\ Waiters(knl, x) = {}
      BY <1>2, <1>3, <1>9, <2>2 DEF SameOwners, Owned, OwnWait, o
    <3>2. ASSUME NEW u \in Task, IsPending(r, u), r.pendingObj[u] = x PROVE u \in Waiters(knl, x)
      <4>1. u # t
        BY <1>7, <3>1, <3>2
      <4> QED
        BY <1>6, <1>12, <3>2, <4>1 DEF Alone, Steady, Waiters
    <3> QED
      BY <3>1, <3>2 DEF Waiters
  <2> QED
    BY <2>1, <2>2 DEF Owned, OwnWait
<1>15. ~InPend(t)
  BY <1>1 DEF TaskRuns, InPend
<1> QED
  BY <1>1, <1>6, <1>7, <1>9, <1>10, <1>11, <1>12, <1>13, <1>14, <1>15 DEF Base, o

LEMMA BlockKeeps ==
    ASSUME MutexIInv, NEW m \in Mutex, NEW timeout \in MutexTimeouts, MutexBlock(m, timeout)
    PROVE  MutexIInv'
<1> DEFINE t == knl.curr
<1>1. /\ Base' /\ Alone(t) /\ Blocked(t, m) /\ SameOwners(knl, knl') /\ knl.owner[m] # t
  BY MutexBlockStep, MutexAssumption DEF MutexIInv
<1>2. t \in Task /\ holds' = holds
  BY TypeFacts DEF MutexIInv, Base, Safe, MutexBlock
<1>3. HandInv'
  <2>1. \A u \in Task : Keeps(u)
    BY <1>1 DEF SameOwners, Keeps
  <2>2. \A u \in Task \ {t} : HandNext(u)
    BY <1>1, <1>2, <2>1, AloneUntold, HandStays DEF MutexIInv, Base
  <2>3. HandNext(t)
    BY <1>1 DEF HandNext, SameOwners, Blocked
  <2> QED
    BY <1>2, <2>2, <2>3, HandAll
<1> QED
  BY <1>1, <1>2, <1>3 DEF MutexIInv, HoldType, HoldInv, SameOwners

(* The call comes back: a post made the caller the owner.                  *)
LEMMA AnswerStep ==
    ASSUME Base, PendReturn
    PROVE  /\ Base' /\ knl' = knl /\ knl.curr \in Task /\ InPend(knl.curr)
           /\ Alone(knl.curr) /\ Left(knl.curr) /\ ~IsPending(knl, knl.curr)
<1>1. /\ Kept /\ knl' = knl /\ Alone(knl.curr) /\ Left(knl.curr)
      /\ ~IsPending(knl, knl.curr)
  BY PendReturnStep DEF Base
<1>2. knl.curr \in Task /\ InPend(knl.curr)
  BY TypeFacts DEF Base, Safe, PendReturn, InPend
<1>3. WaitInv'
  BY <1>1, <1>2, AloneKeeps DEF Base
<1>4. Owned(knl')
  BY <1>1 DEF Base
<1> QED
  BY <1>1, <1>2, <1>3, <1>4 DEF Base, Kept

LEMMA PendReturnKeeps == MutexIInv /\ MutexPendReturn => MutexIInv'
<1> SUFFICES ASSUME MutexIInv, MutexPendReturn PROVE MutexIInv'
  OBVIOUS
<1> DEFINE t == knl.curr
           ok == pend_state2errno(knl.pendState[t]) = "K_ERR_NONE"
<1>1. /\ Base' /\ knl' = knl /\ Alone(t) /\ Left(t) /\ t \in Task /\ InPend(t)
      /\ holds' = IF ok THEN [holds EXCEPT ![t] = @ \cup {arg[t]}] ELSE holds
  BY AnswerStep DEF MutexPendReturn, MutexIInv
<1>2. arg[t] \in Mutex /\ (MutexesLast /\ ok => knl.owner[arg[t]] = t)
  <2>1. ok => knl.pendState[t] = "POST"
    BY DEF pend_state2errno
  <2> QED
    BY <1>1, <2>1 DEF MutexIInv, HandInv
<1>3. HandInv'
  <2>1. HandNext(t)
    BY <1>1 DEF Left, HandNext
  <2>2. \A u \in Task \ {t} : HandNext(u)
    BY <1>1, AloneUntold, HandStays DEF MutexIInv, Base, Keeps
  <2> QED
    BY <2>1, <2>2, HandAll
<1> HIDE DEF ok
<1>4. HoldType'
  BY <1>1, <1>2 DEF MutexIInv, HoldType
<1>5. HoldInv'
  BY <1>1, <1>2 DEF MutexIInv, HoldType, HoldInv
<1> QED
  BY <1>1, <1>3, <1>4, <1>5 DEF MutexIInv

Virgin(k, m) == [k EXCEPT !.nesting[m] = 0, !.owner[m] = NoTask, !.ownerOrigPrio[m] = PrioInvalid]

LEMMA ObjectOwners ==
    ASSUME NEW k \in KernelType, NEW o, NEW ob
    PROVE  SameOwners(k, SetObject(k, o, ob))
  BY DEF SetObject, KernelType, SameOwners

LEMMA MutexCreateStep ==
    ASSUME Base, NEW m \in Mutex, MutexCreate(m)
    PROVE  /\ Base' /\ SameOwners(knl, knl') /\ knl'.obj = knl.obj \cup {m}
           /\ \A u \in Task : Steady(u)
<1> DEFINE ob == knl.obj \cup {m}
           a  == SetObject(knl, m, ob)
           r  == Virgin(a, m)
<1>1. /\ TaskRuns /\ Sound(knl) /\ Safe /\ Owned(knl) /\ m \notin knl.obj /\ m \in Obj
      /\ knl.curr \in ReadySet(knl) /\ Preamble("mutex_create")
  BY CallerReady DEF MutexCreate, Base, Obj
<1>2. ThenReturn(r)
  <2>1. r = [knl EXCEPT !.pend[m] = << >>, !.nesting[m] = 0, !.owner[m] = NoTask,
                        !.ownerOrigPrio[m] = PrioInvalid, !.obj = @ \cup {m}]
    BY <1>1 DEF SetObject, Virgin, Sound, KernelType
  <2> QED
    BY <2>1 DEF MutexCreate
<1>3. /\ Sound(a) /\ SameCpu(knl, a) /\ a.obj = ob /\ a.state = knl.state
      /\ a.pendingObj = knl.pendingObj /\ a.pendState = knl.pendState
      /\ ReadySet(a) = ReadySet(knl)
  <2>1. Waiters(knl, m) = {} /\ ob \ {m} = knl.obj \ {m} /\ ob \subseteq knl.obj \cup {m}
    BY <1>1, NoWaiters
  <2> HIDE DEF ob
  <2> QED
    BY <1>1, <2>1, ObjectSound
<1>4. SameOwners(knl, a)
  BY <1>1, ObjectOwners DEF Sound
<1> HIDE DEF a
<1>5. knl.owner[m] = NoTask /\ knl.nesting[m] = 0
  BY <1>1 DEF Owned, OwnRec, OwnLive
<1>6. /\ r \in KernelType /\ SameLists(a, r) /\ SameCpu(a, r) /\ SameOwners(a, r)
  <2>1. a \in KernelType /\ 0 \in 0 .. NestingMax /\ PrioInvalid \in 0 .. PrioInvalid
    BY <1>3, NestingAssumption, PrioAssumption DEF Sound, PrioInvalid
  <2>2. a.owner[m] = NoTask /\ a.nesting[m] = 0
    BY <1>4, <1>5 DEF SameOwners
  <2>3. r \in KernelType
    BY <2>1 DEF Virgin, KernelType
  <2>4. SameLists(a, r) /\ SameCpu(a, r)
    BY <2>1 DEF Virgin, KernelType, SameLists, SameQueue, SameTick, SameCpu
  <2>5. SameOwners(a, r)
    BY <2>1, <2>2 DEF Virgin, KernelType, SameOwners
  <2> QED
    BY <2>3, <2>4, <2>5
<1> HIDE DEF r
<1>7. /\ Sound(r) /\ ReadySet(r) = ReadySet(knl) /\ SameCpu(knl, r) /\ SameOwners(knl, r)
      /\ r.obj = ob /\ r.state = knl.state
      /\ r.pendingObj = knl.pendingObj /\ r.pendState = knl.pendState
  BY <1>3, <1>4, <1>6, CpuSound DEF SameCpu, SameLists, SameOwners
<1>8. Safe' /\ knl' = r /\ pc' = pc /\ arg' = arg
  <2>1. Unowned(knl) => Unowned(r)
    BY <1>7 DEF SameOwners, Unowned
  <2> QED
    BY <1>1, <1>2, <1>7, <2>1, ReturnStep DEF ThenReturn
<1>9. \A u \in Task : Steady(u)
  <2>1. \A u \in Task : Unmoved(u)
    BY <1>8, StayUnmoved
  <2>2. \A u \in Task : SameWait(knl, r, u)
    BY <1>7 DEF SameWait, IsPending, IsSleeping
  <2> QED
    BY <1>8, <2>1, <2>2, SteadyIf
<1>10. WaitInv' /\ \A o \in Mutex : Waiters(r, o) \subseteq Waiters(knl, o)
  <2>1. Woke({}, "TIMEOUT")
    BY <1>9, AllSteady
  <2> QED
    BY <1>8, <2>1, WokeKeeps, WaitersShrink DEF Base
<1>11. Owned(r)
  <2>1. Kin(knl, r)
    BY <1>7 DEF Kin
  <2> QED
    BY <1>1, <1>8, <1>10, <2>1, OwnedKin
<1> QED
  BY <1>7, <1>8, <1>9, <1>10, <1>11 DEF Base

LEMMA CreateKeeps ==
    ASSUME MutexIInv, NEW m \in Mutex, MutexCreate(m) PROVE MutexIInv'
<1>1. Base' /\ SameOwners(knl, knl') /\ (\A u \in Task : Steady(u)) /\ holds' = holds
  BY MutexCreateStep DEF MutexIInv, MutexCreate
<1> QED
  BY <1>1, SteadyMutex DEF SameOwners

(* What the release of m leaves of the ownership.                          *)
LEMMA FreedOwned ==
    ASSUME NEW k, Owned(k), NEW o \in Task, NEW m \in Mutex, k.owner[m] = o,
           NEW a, Freed(k, a, o, {m}), NEW r, SameOwners(a, r), k.obj \ {m} \subseteq r.obj,
           \A x \in Mutex : Waiters(r, x) \subseteq Waiters(k, x),
           Waiters(r, m) = {}
    PROVE  Owned(r)
<1>1. m \in ToSet(k.own[o])
  BY DEF Owned, OwnRec
<1>2. OwnRec(a)
  BY <1>1, FreedRec DEF Owned
<1>3. OwnRec(r)
  BY <1>2 DEF OwnRec, SameOwners
<1>4. OwnLive(r)
  <2>1. ASSUME NEW u \in Task, r.own[u] # << >> PROVE u \in r.obj \ {Idle}
    <3>1. k.own[u] # << >>
      <4>1. CASE u = o
        BY <1>1, <4>1 DEF ToSet
      <4>2. CASE u # o
        BY <2>1, <4>2 DEF Freed, SameOwners
      <4> QED
        BY <4>1, <4>2
    <3> QED
      BY <3>1, KindAssumption DEF Owned, OwnLive, Obj
  <2>2. ASSUME NEW x \in Mutex, r.owner[x] # NoTask PROVE x \in r.obj
    BY <2>2 DEF Freed, SameOwners, Owned, OwnLive
  <2> QED
    BY <2>1, <2>2 DEF OwnLive
<1>5. OwnWait(r)
  BY DEF Owned, OwnWait, Freed, SameOwners
<1> QED
  BY <1>3, <1>4, <1>5 DEF Owned

LEMMA Owner ==
    ASSUME Safe, Owned(knl), NEW m \in Mutex, knl.owner[m] # NoTask
    PROVE  /\ knl.owner[m] \in (knl.obj \cap Task) \ {Idle} /\ m \in knl.obj
           /\ m \in ToSet(knl.own[knl.owner[m]]) /\ IsInjective(knl.own[knl.owner[m]])
<1> DEFINE o == knl.owner[m]
<1>1. o \in Task /\ m \in knl.obj
  BY DEF Safe, Sound, KernelType, Owned, OwnLive
<1>2. m \in ToSet(knl.own[o]) /\ IsInjective(knl.own[o])
  BY <1>1 DEF Owned, OwnRec
<1>3. knl.own[o] # << >>
  BY <1>2 DEF ToSet
<1> QED
  BY <1>1, <1>2, <1>3 DEF Owned, OwnLive

LEMMA MutexDestroyStep ==
    ASSUME Base, NEW m \in Mutex, MutexDestroy(m)
    PROVE  /\ Base' /\ Woke(Waiters(knl, m), "DESTROY") /\ Changed(m, NoTask, 0)
           /\ knl'.obj = knl.obj \ {m} /\ m \in knl.obj
<1> DEFINE o  == knl.owner[m]
           A  == Waiters(knl, m)
           k  == pend_wakeup_all(knl, m, "DESTROY")
           a  == IF k.owner[m] # NoTask THEN mutex_old_owner_release(k, m) ELSE k
           ob == a.obj \ {m}
           r  == SetObject(a, m, ob)
<1>1. /\ TaskRuns /\ Sound(knl) /\ Safe /\ Owned(knl) /\ m \in knl.obj /\ m \in Obj
      /\ knl.curr \in ReadySet(knl) \ {Idle} /\ ThenSched(r)
  BY CallerReady DEF MutexDestroy, Base, Obj, SetObject
<1>2. /\ Sound(k) /\ SameFrame(knl, k) /\ ReadySet(knl) \subseteq ReadySet(k)
      /\ Awoken(knl, k, A, "DESTROY")
  BY <1>1, WakeAllSound DEF PendState
<1> HIDE DEF k
<1>3. Forward(knl, k) /\ SameOwners(knl, k) /\ k.obj = knl.obj /\ k.owner[m] = o
  BY <1>2, FrameForward DEF SameFrame, SameOwners
<1>4. /\ Sound(a) /\ Forward(knl, a) /\ SamePlaces(k, a)
      /\ IF o = NoTask THEN SameOwners(knl, a) ELSE Freed(knl, a, o, {m})
  <2>1. CASE o = NoTask
    BY <1>2, <1>3, <2>1 DEF SamePlaces
  <2>2. CASE o # NoTask
    <3>1. /\ o \in (k.obj \cap Task) \ {Idle}
          /\ m \in ToSet(k.own[o]) /\ IsInjective(k.own[o])
      BY <1>1, <1>3, <2>2, Owner DEF SameOwners
    <3>2. a = mutex_old_owner_release(k, m)
      BY <1>3, <2>2
    <3>3. Sound(a) /\ Rechosen(k, a) /\ Freed(k, a, o, {m})
      BY <1>2, <1>3, <3>1, <3>2, OldOwnerReleased
    <3>4. Freed(knl, a, o, {m})
      BY <1>3, <3>3 DEF Freed, SameOwners
    <3> QED
      BY <1>3, <2>2, <3>3, <3>4, ForwardTransitive DEF Rechosen
  <2> QED
    BY <2>1, <2>2
<1> HIDE DEF a
<1>5. Awoken(knl, a, A, "DESTROY") /\ Waiters(a, m) = {} /\ a.obj = knl.obj
  <2>1. Awoken(knl, a, A, "DESTROY")
    BY <1>2, <1>4 DEF Awoken, SamePlaces, IsPending, IsSleeping
  <2> QED
    BY <1>3, <1>4, <2>1 DEF Awoken, Waiters, IsPending, SamePlaces
<1>6. /\ Sound(r) /\ SameCpu(a, r) /\ r.obj = ob
      /\ r.state = a.state /\ r.pendingObj = a.pendingObj /\ r.pendState = a.pendState
      /\ ReadySet(r) = ReadySet(a)
  <2>1. ob \ {m} = a.obj \ {m} /\ ob \subseteq a.obj \cup {m}
    OBVIOUS
  <2> HIDE DEF ob
  <2> QED
    BY <1>1, <1>4, <1>5, <2>1, ObjectSound
<1>7. SameOwners(a, r)
  BY <1>4, ObjectOwners DEF Sound
<1> HIDE DEF r
<1>8. Safe' /\ knl' = r /\ \A u \in Task : Unmoved(u)
  <2>1. /\ knl' = r /\ isr' = isr /\ arg' = arg /\ pc' = [pc EXCEPT ![knl.curr] = "sched"]
        /\ \A u \in Task : Unmoved(u)
    BY <1>1, CallUnmoved DEF ThenSched
  <2>2. /\ pc' \in [Task -> Label] /\ pc'[knl.curr] = "sched"
        /\ arg' \in [Task -> Obj \cup {NoObj}]
    BY <1>1, <2>1, TypeFacts DEF Safe, Label
  <2>3. SameHere(knl, r) /\ knl.curr \in ReadySet(r)
    BY <1>1, <1>4, <1>6 DEF Forward, SameHere, SameCpu
  <2>4. r.pendsv => r.schedLock = 0 /\ r.next \in ReadySet(r)
    BY <1>1, <1>4, <1>6 DEF Forward, Aimed, TaskRuns, SameCpu
  <2>5. Safe'
    BY <1>1, <1>6, <2>1, <2>2, <2>3, <2>4, CallSafe
  <2> QED
    BY <2>1, <2>5
<1>9. Woke(A, "DESTROY")
  <2>1. Awoken(knl, r, A, "DESTROY")
    BY <1>5, <1>6 DEF Awoken, IsPending, IsSleeping
  <2> QED
    BY <1>8, <2>1, AwokenWoke
<1>10. WaitInv' /\ \A x \in Mutex : Waiters(r, x) \subseteq Waiters(knl, x)
  BY <1>8, <1>9, WokeKeeps, WaitersShrink DEF Base
<1>11. Owned(r)
  <2>1. Waiters(r, m) = {}
    BY <1>5, <1>6 DEF Waiters, IsPending
  <2>2. CASE o = NoTask
    <3>1. OwnRec(r)
      BY <1>1, <1>4, <1>7, <2>2 DEF Owned, OwnRec, SameOwners
    <3>2. OwnLive(r)
      <4>1. \A u \in Task : u # m
        BY <1>1, KindAssumption
      <4> QED
        BY <1>1, <1>4, <1>5, <1>6, <1>7, <2>2, <4>1 DEF Owned, OwnLive, SameOwners
    <3>3. OwnWait(r)
      BY <1>1, <1>4, <1>7, <1>10, <2>2 DEF Owned, OwnWait, SameOwners
    <3> QED
      BY <3>1, <3>2, <3>3 DEF Owned
  <2>3. CASE o # NoTask
    <3>1. o \in Task /\ knl.obj \ {m} \subseteq r.obj
      BY <1>1, <1>5, <1>6, <2>3, Owner
    <3> QED
      BY <1>1, <1>4, <1>7, <1>10, <2>1, <2>3, <3>1, FreedOwned
  <2> QED
    BY <2>2, <2>3
<1>12. Changed(m, NoTask, 0)
  <2>1. CASE o = NoTask
    <3>1. knl.nesting[m] = 0
      BY <1>1, <2>1 DEF Owned, OwnRec
    <3> QED
      BY <1>4, <1>7, <1>8, <2>1, <3>1 DEF SameOwners, Changed
  <2>2. CASE o # NoTask
    BY <1>4, <1>7, <1>8, <2>2 DEF Freed, SameOwners, Changed
  <2> QED
    BY <2>1, <2>2
<1> QED
  BY <1>1, <1>5, <1>6, <1>8, <1>9, <1>10, <1>11, <1>12 DEF Base

LEMMA MutexDestroyKeeps ==
    ASSUME MutexIInv, NEW m \in Mutex, MutexDestroy(m) PROVE MutexIInv'
<1>1. Base' /\ Woke(Waiters(knl, m), "DESTROY") /\ Changed(m, NoTask, 0)
  BY MutexDestroyStep DEF MutexIInv
<1>2. ~MutexesLast /\ holds' = [t \in Task |-> holds[t] \ {m}]
  BY DEF MutexDestroy, Preamble, MutexesLast
<1>3. HandInv'
  <2>1. \A u \in Task : Keeps(u)
    BY <1>1, <1>2, NullAssumption DEF Keeps, Changed
  <2> QED
    BY <1>1, <2>1, WokeUntold, HandStays, HandAll DEF MutexIInv, Base
<1> QED
  BY <1>1, <1>2, <1>3 DEF MutexIInv, HoldType, HoldInv

(* The best waiter outranks nobody who waits, so it is lent nothing.       *)
LEMMA HeadMarked ==
    ASSUME NEW k, Sound(k), NEW m \in Mutex, ~pend_is_nopending(k, m)
    PROVE  LET t == pend_highest_pending_task_get(k, m)
           IN  /\ t \in Waiters(k, m)
               /\ mutex_new_owner_mark(k, m, t) = mutex_fresh_owner_mark(k, m, t)
<1> DEFINE t == pend_highest_pending_task_get(k, m)
           b == mutex_fresh_owner_mark(k, m, t)
<1>1. t \in Waiters(k, m)
  <2>1. /\ k.pend[m] \in Seq(Task) /\ ToSet(k.pend[m]) = Waiters(k, m) /\ k.pend[m] # << >>
    BY DEF Sound, KernelType, Waiting, PendExact, pend_is_nopending, Obj
  <2> QED
    BY <2>1, HeadInList DEF pend_highest_pending_task_get
<1>2. t \in Task
  BY <1>1 DEF Waiters
<1>3. t = Head(k.pend[m]) /\ k.pend[m] # << >>
  BY DEF pend_highest_pending_task_get, pend_is_nopending
<1> HIDE DEF t
<1>4. SameLists(k, b) /\ Sound(b)
  BY <1>2, FreshOwner
<1> HIDE DEF b
<1>5. b.pend = k.pend /\ b.prio[t] \in Nat
  <2>1. b.prio[t] \in Prio
    BY <1>2, <1>4 DEF Sound, KernelType
  <2> QED
    BY <1>4, <2>1, PrioAssumption DEF SameLists, Prio
<1>6. pend_highest_pending_prio_get(b, m) = b.prio[t]
  BY <1>3, <1>5 DEF pend_highest_pending_prio_get, pend_is_nopending
<1>7. mutex_new_owner_mark(k, m, t) = b
  BY <1>5, <1>6 DEF mutex_new_owner_mark, b
<1> QED
  BY <1>1, <1>7 DEF t, b

(* The mutex goes to the best waiter, which is woken.                      *)
LEMMA HandedOver ==
    ASSUME NEW k, Sound(k), NEW m \in Mutex, ~pend_is_nopending(k, m)
    PROVE  LET t == pend_highest_pending_task_get(k, m)
               a == mutex_new_owner_mark(k, m, t)
               r == pend_wakeup_one(a, m, "POST")
           IN  /\ t \in Waiters(k, m) /\ Marked(k, a, m, t) /\ SameOwners(a, r)
               /\ Sound(r) /\ Forward(k, r) /\ Awoken(k, r, {t}, "POST")
<1> DEFINE t == pend_highest_pending_task_get(k, m)
           a == mutex_new_owner_mark(k, m, t)
           r == pend_wakeup_one(a, m, "POST")
<1>1. t \in Waiters(k, m) /\ a = mutex_fresh_owner_mark(k, m, t)
  BY HeadMarked
<1>2. t \in Task /\ t = Head(k.pend[m]) /\ IsPending(k, t)
  BY <1>1 DEF Waiters, pend_highest_pending_task_get
<1> HIDE DEF t
<1>3. Sound(a) /\ Rechosen(k, a) /\ SameLists(k, a) /\ Marked(k, a, m, t)
  BY <1>1, <1>2, FreshOwner
<1> HIDE DEF a
<1>4. r = pend_task_wakeup(a, t, "POST") /\ IsPending(a, t)
  BY <1>2, <1>3 DEF pend_wakeup_one, SameLists, IsPending
<1> HIDE DEF r
<1>5. /\ Sound(r) /\ SameFrame(a, r) /\ ReadySet(a) \subseteq ReadySet(r)
      /\ Awoken(a, r, {t}, "POST")
  BY <1>2, <1>3, <1>4, WakeSound DEF PendState
<1>6. Forward(k, r) /\ SameOwners(a, r)
  BY <1>3, <1>5, FrameForward, ForwardTransitive DEF Rechosen, SameFrame, SameOwners
<1>7. Awoken(k, r, {t}, "POST")
  BY <1>3, <1>5, PlacesAwoken DEF Rechosen
<1> QED
  BY <1>1, <1>3, <1>5, <1>6, <1>7 DEF t, a, r

(* The last post of a mutex nobody waits for.                              *)
LEMMA PostFreeStep ==
    ASSUME Base, NEW m \in Mutex, MutexPost(m),
           pend_is_nopending(mutex_old_owner_release(knl, m), m)
    PROVE  /\ Base' /\ (\A u \in Task : Steady(u)) /\ Changed(m, NoTask, 0)
           /\ knl'.obj = knl.obj
<1> DEFINE t == knl.curr
           r == mutex_old_owner_release(knl, m)
<1>1. /\ TaskRuns /\ Sound(knl) /\ Safe /\ Owned(knl) /\ t \in ReadySet(knl) \ {Idle}
      /\ Preamble("mutex_post") /\ knl.owner[m] = t /\ ThenReturn(r)
  BY CallerReady DEF MutexPost, Base
<1>2. /\ t \in (knl.obj \cap Task) \ {Idle} /\ t # NoTask
      /\ m \in ToSet(knl.own[t]) /\ IsInjective(knl.own[t])
  BY <1>1, NullAssumption, Owner DEF ReadySet
<1>3. Sound(r) /\ Rechosen(knl, r) /\ Freed(knl, r, t, {m})
  BY <1>1, <1>2, OldOwnerReleased
<1>4. pend_is_nopending(r, m)
  OBVIOUS
<1> HIDE DEF r
<1>5. Safe' /\ knl' = r /\ \A u \in Task : Unmoved(u)
  BY <1>1, <1>3, ForwardSafe DEF Rechosen
<1>6. \A u \in Task : Steady(u)
  BY <1>3, <1>5, SteadyIf DEF Rechosen, SamePlaces, SameWait, IsPending, IsSleeping
<1>7. WaitInv' /\ \A x \in Mutex : Waiters(r, x) \subseteq Waiters(knl, x)
  <2>1. Woke({}, "TIMEOUT")
    BY <1>6, AllSteady
  <2> QED
    BY <1>5, <2>1, WokeKeeps, WaitersShrink DEF Base
<1>8. Owned(r)
  <2>1. Waiters(r, m) = {}
    BY <1>3, <1>4, NoWaiters DEF Obj
  <2>2. SameOwners(r, r) /\ knl.obj \ {m} \subseteq r.obj
    BY <1>3 DEF SameOwners, Rechosen, SamePlaces
  <2> QED
    BY <1>1, <1>2, <1>3, <1>7, <2>1, <2>2, FreedOwned
<1>9. Changed(m, NoTask, 0) /\ knl'.obj = knl.obj
  BY <1>3, <1>5 DEF Freed, Changed, Rechosen, SamePlaces
<1> QED
  BY <1>5, <1>6, <1>7, <1>8, <1>9 DEF Base

(* The last post of a mutex others wait for.                               *)
LEMMA PostHandsStep ==
    ASSUME Base, NEW m \in Mutex, MutexPost(m),
           ~pend_is_nopending(mutex_old_owner_release(knl, m), m)
    PROVE  /\ Base' /\ knl'.obj = knl.obj
           /\ \E t \in Waiters(knl, m) : Woke({t}, "POST") /\ Changed(m, t, 1)
<1> DEFINE c == knl.curr
           a == mutex_old_owner_release(knl, m)
           t == pend_highest_pending_task_get(a, m)
           b == mutex_new_owner_mark(a, m, t)
           r == pend_wakeup_one(b, m, "POST")
<1>1. /\ TaskRuns /\ Sound(knl) /\ Safe /\ Owned(knl) /\ c \in ReadySet(knl) \ {Idle}
      /\ Preamble("mutex_post") /\ knl.owner[m] = c /\ ThenSched(r)
  BY CallerReady DEF MutexPost, Base
<1>2. /\ c \in (knl.obj \cap Task) \ {Idle} /\ c # NoTask /\ m \in knl.obj
      /\ m \in ToSet(knl.own[c]) /\ IsInjective(knl.own[c])
  BY <1>1, NullAssumption, Owner DEF ReadySet
<1>3. Sound(a) /\ Rechosen(knl, a) /\ Freed(knl, a, c, {m}) /\ ~pend_is_nopending(a, m)
  BY <1>1, <1>2, OldOwnerReleased
<1> HIDE DEF a
<1>4. /\ t \in Waiters(a, m) /\ Marked(a, b, m, t) /\ SameOwners(b, r)
      /\ Sound(r) /\ Forward(a, r) /\ Awoken(a, r, {t}, "POST")
  BY <1>3, HandedOver
<1> HIDE DEF t, b, r
<1>5. /\ t \in Waiters(knl, m) /\ Forward(knl, r) /\ Awoken(knl, r, {t}, "POST")
  BY <1>3, <1>4, PlacesAwoken, ForwardTransitive DEF Rechosen
<1>6. /\ t \in Task /\ IsPending(knl, t) /\ knl.pendingObj[t] = m /\ t # c /\ t # NoTask
      /\ t \in knl.obj \ {Idle}
  BY <1>1, <1>5, NullAssumption
  DEF Waiters, ReadySet, IsReady, IsPending, Sound, Alive
<1>7. Safe' /\ knl' = r /\ \A u \in Task : Unmoved(u)
  BY <1>1, <1>4, <1>5, ForwardSafe
<1>8. Woke({t}, "POST")
  BY <1>5, <1>7, AwokenWoke
<1>9. WaitInv' /\ \A x \in Mutex : Waiters(r, x) \subseteq Waiters(knl, x)
  BY <1>7, <1>8, WokeKeeps, WaitersShrink DEF Base
<1>10. /\ OwnRec(b) /\ b.owner[m] = t
       /\ \A x \in Mutex \ {m} : b.owner[x] = knl.owner[x]
       /\ \A u \in Task : b.own[u] # << >> => u = t \/ knl.own[u] # << >>
  <2>1. OwnRec(a) /\ a.owner[m] = NoTask
    <3>1. {m} \in SUBSET Mutex /\ {m} \subseteq ToSet(knl.own[c]) /\ OwnRec(knl)
      BY <1>1, <1>2 DEF Owned
    <3>2. OwnRec(a)
      BY <1>2, <1>3, <3>1, FreedRec
    <3> QED
      BY <1>3, <3>2 DEF Freed
  <2>2. a \in KernelType
    BY <1>3 DEF Sound
  <2>3. /\ OwnRec(b) /\ b.owner[m] = t
        /\ \A x \in Mutex \ {m} : b.owner[x] = a.owner[x]
        /\ \A u \in Task \ {t} : b.own[u] = a.own[u]
    BY <1>4, <1>6, <2>1, <2>2, MarkedRec
  <2>4. \A u \in Task : a.own[u] # << >> => knl.own[u] # << >>
    <3>1. knl.own[c] # << >>
      BY <1>2 DEF ToSet
    <3> QED
      BY <1>2, <1>3, <3>1 DEF Freed
  <2> QED
    BY <1>3, <2>3, <2>4 DEF Freed
<1>11. Owned(r)
  <2>1. OwnRec(r)
    BY <1>4, <1>10 DEF OwnRec, SameOwners
  <2>2. OwnLive(r)
    BY <1>1, <1>2, <1>4, <1>5, <1>6, <1>10 DEF Owned, OwnLive, SameOwners, Forward
  <2>3. OwnWait(r)
    BY <1>1, <1>4, <1>6, <1>9, <1>10 DEF Owned, OwnWait, SameOwners
  <2> QED
    BY <2>1, <2>2, <2>3 DEF Owned
<1>12. Changed(m, t, 1)
  <2>1. r.nesting[m] = 1 /\ \A x \in Mutex \ {m} : r.nesting[x] = knl.nesting[x]
    <3>1. a.nesting \in [Mutex -> 0 .. NestingMax]
      BY <1>3 DEF Sound, KernelType
    <3>2. r.nesting = [a.nesting EXCEPT ![m] = 1]
      BY <1>4 DEF Marked, SameOwners
    <3> QED
      BY <1>3, <3>1, <3>2 DEF Freed
  <2> QED
    BY <1>4, <1>7, <1>10, <2>1 DEF Changed, SameOwners
<1> QED
  BY <1>5, <1>7, <1>8, <1>9, <1>11, <1>12 DEF Base, Forward

(* The last post.                                                          *)
LEMMA MutexPostStep ==
    ASSUME Base, NEW m \in Mutex, MutexPost(m)
    PROVE  /\ Base' /\ knl'.obj = knl.obj
           /\ \/ (\A u \in Task : Steady(u)) /\ Changed(m, NoTask, 0)
              \/ \E t \in Waiters(knl, m) : Woke({t}, "POST") /\ Changed(m, t, 1)
  BY PostFreeStep, PostHandsStep

LEMMA MutexPostKeeps ==
    ASSUME MutexIInv, NEW m \in Mutex, MutexPost(m) PROVE MutexIInv'
<1> DEFINE c == knl.curr
<1>1. /\ Base' /\ TaskRuns /\ c \in Task /\ knl.owner[m] = c
      /\ holds' = [holds EXCEPT ![c] = @ \ {m}]
      /\ \/ (\A u \in Task : Steady(u)) /\ Changed(m, NoTask, 0)
         \/ \E t \in Waiters(knl, m) : Woke({t}, "POST") /\ Changed(m, t, 1)
  BY MutexPostStep, TypeFacts DEF MutexIInv, Base, Safe, MutexPost, Preamble
<1>2. \A x \in Mutex \ {m} : knl'.owner[x] = knl.owner[x]
  BY <1>1 DEF Changed
<1>3. ASSUME NEW u \in Task, InPend(u), NEW t, Changed(m, t, 0) \/ Changed(m, t, 1), t # u
      PROVE  Keeps(u)
  <2>1. u # c /\ knl'.owner[m] = t
    BY <1>1, <1>3 DEF TaskRuns, InPend, Changed
  <2> QED
    BY <1>1, <1>2, <1>3, <2>1 DEF Keeps
<1>4. ASSUME NEW t \in Waiters(knl, m), Woke({t}, "POST"), Changed(m, t, 1)
      PROVE  HandInv'
  <2>1. ASSUME NEW u \in Task \ {t} PROVE HandNext(u)
    BY <1>3, <1>4, HandStays DEF MutexIInv, Base, Woke, Steady, Untold
  <2>2. HandNext(t)
    <3>1. t \in Task /\ IsPending(knl, t) /\ knl.pendingObj[t] = m /\ Ended(t, "POST")
      BY <1>4 DEF Waiters, Woke
    <3>2. InPendNext(t) => arg'[t] = m /\ knl'.pendState[t] = "POST"
      BY <3>1 DEF Ended, Unmoved, MutexIInv, Base, WaitInv
    <3> QED
      BY <1>4, <3>2 DEF HandNext, Changed
  <2> QED
    BY <2>1, <2>2, HandAll
<1>5. HandInv'
  <2>1. CASE (\A u \in Task : Steady(u)) /\ Changed(m, NoTask, 0)
    <3>1. ASSUME NEW u \in Task PROVE HandNext(u)
      BY <1>3, <2>1, NullAssumption, HandStays DEF MutexIInv, Base, Steady, Untold
    <3> QED
      BY <3>1, HandAll
  <2> QED
    BY <1>1, <1>4, <2>1
<1>6. HoldType'
  BY <1>1 DEF MutexIInv, HoldType
<1>7. HoldInv'
  <2> SUFFICES ASSUME MutexesLast, NEW u \in Task, NEW x \in holds'[u]
               PROVE  knl'.owner[x] = u
    BY DEF HoldInv
  <2>1. x \in holds[u] /\ x \in Mutex /\ (u = c => x # m)
    BY <1>1 DEF MutexIInv, HoldType
  <2>2. knl.owner[x] = u
    BY <2>1 DEF MutexIInv, HoldInv
  <2> QED
    BY <1>1, <1>2, <2>1, <2>2
<1> QED
  BY <1>1, <1>5, <1>6, <1>7 DEF MutexIInv

----------------------------------------------------------------------------
LEMMA MutexInitInv == MutexInit => MutexIInv
<1> SUFFICES ASSUME MutexInit PROVE MutexIInv
  OBVIOUS
<1>1. Init /\ holds = [t \in Task |-> {}]
  BY DEF MutexInit
<1>2. Safe /\ WaitInv
  BY <1>1, InitInv, InitWait DEF IInv
<1>3. /\ knl.own = [t \in Task |-> << >>] /\ knl.owner = [m \in Mutex |-> NoTask]
      /\ knl.nesting = [m \in Mutex |-> 0]
      /\ knl.state = [t \in Task |-> {}] /\ \A t \in Task : ~InPend(t)
  BY <1>1 DEF Init, BootKernel, InPend
<1>4. Owned(knl)
  <2>1. \A t \in Task : IsInjective(knl.own[t]) /\ ToSet(knl.own[t]) = {} /\ t # NoTask
    BY <1>3, NullAssumption DEF IsInjective, ToSet
  <2>2. OwnRec(knl)
    BY <1>3, <2>1 DEF OwnRec
  <2>3. OwnLive(knl) /\ OwnWait(knl)
    BY <1>3 DEF OwnLive, OwnWait, Waiters, IsPending
  <2> QED
    BY <2>2, <2>3 DEF Owned
<1>5. HandInv /\ HoldType /\ HoldInv
  BY <1>1, <1>3 DEF HandInv, HoldType, HoldInv
<1> QED
  BY <1>2, <1>4, <1>5 DEF MutexIInv, Base

LEMMA ForgetShrinks ==
    ASSUME HoldType, Forget
    PROVE  HoldType' /\ \A t \in Task : holds'[t] \subseteq holds[t]
  BY DEF Forget, HoldType

LEMMA MutexNextInv == MutexIInv /\ [MutexNext]_mutexVars => MutexIInv'
<1> SUFFICES ASSUME MutexIInv, [MutexNext]_mutexVars PROVE MutexIInv'
  OBVIOUS
<1>1. CASE OtherStep /\ Forget
  <2>1. CASE Dying
    BY <1>1, <2>1, DestroyKeeps DEF Dying
  <2>2. CASE ~Dying
    <3>1. Base' /\ WaitStep /\ Kin(knl, knl')
      BY <1>1, <2>2, SchedulerStep DEF MutexIInv, Next
    <3> QED
      BY <1>1, <3>1, ForgetShrinks, KinKeeps DEF MutexIInv
  <2> QED
    BY <2>1, <2>2
<1>2. ASSUME NEW t \in Task, NEW p \in AppPrio, SetPrio(t, p), holds' = holds
      PROVE  MutexIInv'
  <2>1. Base' /\ WaitStep /\ Kin(knl, knl')
    BY <1>2, SetPrioStep DEF MutexIInv
  <2> QED
    BY <1>2, <2>1, KinKeeps DEF MutexIInv, HoldType
<1>3. CASE MutexApi
  BY <1>3, CreateKeeps, MutexDestroyKeeps, PendFirstKeeps, PendAgainKeeps, PostNestedKeeps,
     MutexPostKeeps, BlockKeeps, PendReturnKeeps DEF MutexApi
<1>4. CASE UNCHANGED mutexVars
  <2>1. Safe' /\ HoldType' /\ holds' = holds /\ Kin(knl, knl')
    BY <1>4
    DEF mutexVars, MutexIInv, Base, Safe, TypeOK, LockHolds, ChosenOK, Decisive, Chosen,
        HoldType, Kin, SameOwners
  <2>2. WaitStep
    BY <1>4, SteadyIf, SteadyStep DEF mutexVars, Unmoved, InPend, InPendNext, SameWait
  <2> QED
    BY <2>1, <2>2, KinBase, KinKeeps DEF MutexIInv
<1> QED
  BY <1>1, <1>2, <1>3, <1>4 DEF MutexNext

(* What the invariant says in the terms of the runs.                       *)
LEMMA MutexFacts ==
    ASSUME MutexIInv
    PROVE  /\ TypeOK /\ PendListExact /\ OwnershipExact /\ ReadyQueueExact /\ TickListExact
           /\ ~SuspendUsed => MutexPendDecided
           /\ MutexesLast => HandOver /\ MutexExclusive
<1>1. Safe /\ WaitInv /\ Owned(knl)
  BY DEF MutexIInv, Base
<1>2. TypeOK /\ PendListExact /\ ReadyQueueExact /\ TickListExact
  BY <1>1, SafeFacts, WaitFacts
<1>3. OwnershipExact
  <2>1. \A m \in Mutex : knl.owner[m] = NoTask => knl.pend[m] = << >>
    BY <1>1, NoWaiters DEF Owned, OwnWait, Safe, Obj, pend_is_nopending
  <2> QED
    BY <1>1, <2>1 DEF OwnershipExact, Owned, OwnRec, OwnLive
<1>4. ~SuspendUsed => MutexPendDecided
  BY <1>1 DEF WaitInv, MutexPendDecided
<1>5. ASSUME MutexesLast PROVE HandOver
  <2> SUFFICES ASSUME NEW t \in Task, InPend(t)
               PROVE  /\ knl.pendState[t] = "POST" => knl.owner[arg[t]] = t
                      /\ knl.pendState[t] \in {"NONE", "TIMEOUT", "OWNER_DIE"}
                            => arg[t] \notin ToSet(knl.own[t])
    BY DEF HandOver
  <2>1. /\ arg[t] \in Mutex
        /\ knl.owner[arg[t]] = t => knl.pendState[t] = "POST"
        /\ knl.pendState[t] = "POST" => knl.owner[arg[t]] = t
    BY <1>5 DEF MutexIInv, HandInv
  <2> QED
    BY <1>1, <2>1 DEF Owned, OwnRec
<1>6. ASSUME MutexesLast PROVE MutexExclusive
  <2> SUFFICES ASSUME NEW t \in Task, NEW m \in holds[t]
               PROVE  m \in knl.obj /\ knl.owner[m] = t
    BY DEF MutexExclusive
  <2>1. m \in Mutex /\ knl.owner[m] = t /\ t # NoTask
    BY <1>6, NullAssumption DEF MutexIInv, HoldType, HoldInv
  <2> QED
    BY <1>1, <2>1 DEF Owned, OwnLive
<1> QED
  BY <1>2, <1>3, <1>4, <1>5, <1>6

(* The inductive invariant of the mutexes.                                 *)
THEOREM MutexInvariant == MutexSpec => []MutexIInv
<1> QED
  BY MutexInitInv, MutexNextInv, PTL DEF MutexSpec

(* The two records of who owns which mutex agree at every step, owners are *)
(* alive, and nobody waits for a mutex that is free: through hand-over,    *)
(* recursive locking, priority changes, destruction of the mutex, and the  *)
(* death of an owner or of a waiter.                                       *)
THEOREM OwnershipAlwaysExact == MutexSpec => []OwnershipExact
<1>1. MutexIInv => OwnershipExact
  BY MutexFacts
<1> QED
  BY <1>1, MutexInvariant, PTL

(* A waiter answered by a post owns the mutex before it runs, one told     *)
(* otherwise does not, as long as no mutex is destroyed under the calls.   *)
THEOREM MutexHandsOver == MutexesLast /\ MutexSpec => []HandOver
<1>1. MutexesLast /\ MutexIInv => HandOver
  BY MutexFacts
<1>2. MutexesLast => []MutexesLast
  <2>1. MutexesLast => MutexesLast'
    BY DEF MutexesLast
  <2> QED
    BY <2>1, PTL
<1> QED
  BY <1>1, <1>2, MutexInvariant, PTL

(* Mutual exclusion as the application sees it: what a task was told it    *)
(* has, it owns, until it posts it, as long as no mutex is destroyed.      *)
THEOREM MutexAlwaysExclusive == MutexesLast /\ MutexSpec => []MutexExclusive
<1>1. MutexesLast /\ MutexIInv => MutexExclusive
  BY MutexFacts
<1>2. MutexesLast => []MutexesLast
  <2>1. MutexesLast => MutexesLast'
    BY DEF MutexesLast
  <2> QED
    BY <2>1, PTL
<1> QED
  BY <1>1, <1>2, MutexInvariant, PTL

(* A call to tos_mutex_pend comes back with an answer, if nobody suspends  *)
(* a waiter.                                                               *)
THEOREM MutexAlwaysDecided == ~SuspendUsed /\ MutexSpec => []MutexPendDecided
<1>1. ~SuspendUsed /\ MutexIInv => MutexPendDecided
  BY MutexFacts
<1>2. ~SuspendUsed => [](~SuspendUsed)
  <2>1. ~SuspendUsed => (~SuspendUsed)'
    BY DEF SuspendUsed
  <2> QED
    BY <2>1, PTL
<1> QED
  BY <1>1, <1>2, MutexInvariant, PTL

(* Pend lists, ready queue and tick list stay exact under priority         *)
(* inheritance, when the release of a mutex moves its owner or a dying     *)
(* owner wakes the waiters of all of its mutexes.                          *)
THEOREM MutexListsExact == MutexSpec => [](PendListExact /\ ReadyQueueExact /\ TickListExact)
<1>1. MutexIInv => PendListExact /\ ReadyQueueExact /\ TickListExact
  BY MutexFacts
<1> QED
  BY <1>1, MutexInvariant, PTL
----------------------------------------------------------------------------
(* Read-write locks: where each task is in its call, what it holds then,   *)
(* and how the counts follow from it.                                      *)

Loop   == {"first", "again", "read1", "read2", "wait", "sleep", "fail"}
Inside == Loop \cup {"held", "post"}
Calm   == ~SuspendUsed /\ ~DestroyUsed

CallType == [op : {"none", "create", "destroy"} \cup Timed \cup Trying \cup Posting,
             at : {"none", "sem", "mutex", "lock"} \cup Inside,
             timeout : Nat, left : Int, got : {"none", "read", "write"}]
RwType == /\ rw \in [made : BOOLEAN, readers : Nat, writers : Nat, writing : BOOLEAN,
                     excess : SUBSET Task]
          /\ rwcall \in [Task -> CallType]
          /\ share \in [Task -> {"none", "read", "write"}]

(* What the fields of a call allow of each other; nobody has the lock      *)
(* while it is in a call.                                                  *)
Shaped(t) ==
    LET c == rwcall[t]
    IN  /\ c.op = "none" \/ c.at = "none" => c = NoCall
        /\ c.at \in {"sem", "mutex"} <=> c.op \in {"create", "destroy"}
        /\ c.at \in Loop => c.op \in Timed
        /\ c.got # "none" => c.at = "post" /\ c.op \in Timed \cup Trying
        /\ c # NoCall => share[t] = "none"

(* The mutex and the semaphore as task t sees them.  Only callers wait for *)
(* them; only calls that are past the mutex own it, once, and tasks whose  *)
(* call left at a limit; a waiter owns it exactly when it is told of the   *)
(* post; and whoever gives the lock back waits for the mutex without a     *)
(* deadline.                                                               *)
Placed(t) ==
    LET c == rwcall[t]
    IN  /\ c.at = "lock" <=> InPend(t) /\ arg[t] = Lock
        /\ c.at = "sleep" <=> InPend(t) /\ arg[t] = Signal
        /\ t \notin knl.obj => c = NoCall
        /\ c.at \in Inside => knl.owner[Lock] = t /\ knl.nesting[Lock] = 1
        /\ c.at = "lock" /\ knl.owner[Lock] = t => knl.nesting[Lock] = 1
        /\ knl.owner[Lock] = t => c.at \in Inside \cup {"lock"} \/ t \in rw.excess
        /\ knl.owner[Lock] = t /\ knl.nesting[Lock] > 1 => t \in rw.excess
        /\ c.at = "lock" => (knl.owner[Lock] = t <=> knl.pendState[t] = "POST")
        /\ Calm /\ c.at = "lock" /\ c.op \in Posting =>
              ~IsSleeping(knl, t) /\ knl.pendState[t] \in {"NONE", "POST"}

(* A read-write lock is made while it is used, and nobody uses it while it *)
(* is destroyed.                                                           *)
MadeOK ==
    /\ rw.made => Lock \in knl.obj
    /\ \A t \in Task : rwcall[t].op \notin {"none", "create"} \/ share[t] # "none" => rw.made
    /\ \A t \in Task : rwcall[t].op = "destroy" =>
          \A u \in Task : share[u] = "none" /\ (u # t => rwcall[u] = NoCall)

(* Who reads and who writes: the lock is theirs when they are told so, or  *)
(* about to be, until their call to give it back has the mutex.            *)
Reads(t)  == \/ Has(t, "read")
             \/ Leaves(t) /\ (rwcall[t].op = "rpost" \/ (rwcall[t].op = "post" /\ ~rw.writing))
Writes(t) == \/ Has(t, "write")
             \/ Leaves(t) /\ (rwcall[t].op = "wpost" \/ (rwcall[t].op = "post" /\ rw.writing))
Readers   == {t \in Task : Reads(t)}

Ledger ==
    /\ \A t \in Task : Writes(t) => rw.writing
    /\ \A t \in Task : Reads(t) => ~rw.writing
    /\ \A t, u \in Task : Writes(t) /\ Writes(u) => t = u
    /\ rw.writing => rw.readers = 0
    /\ \A t \in Task : WaitsToWrite(t) => rw.writers = 1
    /\ (\A t \in Task : ~WaitsToWrite(t)) => rw.writers = 0
    /\ \A t \in Task : rwcall[t].op = "rpend" /\ rwcall[t].at \in Loop => ~NoWriters
    /\ IsFiniteSet(Readers) /\ Cardinality(Readers) <= rw.readers
    /\ Calm => Cardinality(Readers) = rw.readers /\ (rw.writing => \E t \in Task : Writes(t))

RwInv2 == RwType /\ (\A t \in Task : Shaped(t) /\ Placed(t)) /\ MadeOK /\ Ledger
RwIInv == Base /\ RwInv2

----------------------------------------------------------------------------
(* The semaphore calls leave the owners alone.                             *)

LEMMA SemBase ==
    ASSUME Base, Safe', WaitInv', SameOwners(knl, knl'), NEW s \in Waitable \ Mutex,
           knl.obj \subseteq knl'.obj \cup {s}, \A o : Waiters(knl', o) \subseteq Waiters(knl, o)
                                                     \/ o = s
    PROVE  Base'
<1>1. s \notin Mutex /\ s \notin Task
  BY KindAssumption DEF Obj
<1>2. OwnRec(knl') /\ OwnWait(knl')
  BY <1>1 DEF Base, Owned, OwnRec, OwnWait, SameOwners
<1>3. OwnLive(knl')
  BY <1>1 DEF Base, Owned, OwnLive, SameOwners
<1> QED
  BY <1>2, <1>3 DEF Base, Owned

LEMMA SteadyShrinks ==
    ASSUME \A t \in Task : Steady(t)
    PROVE  (WaitInv => WaitInv') /\ \A o : Waiters(knl', o) \subseteq Waiters(knl, o)
  BY AllSteady, WokeKeeps, SteadyWaiters

LEMMA SemCreateBase ==
    ASSUME Base, NEW s \in Waitable \ Mutex, NEW n, NEW max, SemCreate(s, n, max)
    PROVE  /\ Base' /\ SameOwners(knl, knl') /\ knl'.obj = knl.obj \cup {s}
           /\ \A t \in Task : Steady(t)
<1>1. Safe /\ WaitInv /\ s \in Obj /\ s \notin knl.obj
  BY WaitableObj DEF SemCreate, Base
<1>2. ReturnAnywhere("sem_create", [knl EXCEPT !.pend[s] = << >>, !.obj = @ \cup {s}])
  BY DEF SemCreate
<1>3. Kept /\ knl'.obj = knl.obj \cup {s} /\ \A t \in Task : Steady(t)
  BY <1>1, <1>2, CreatedFrom
<1>4. SameOwners(knl, knl')
  <2>1. knl' = [knl EXCEPT !.pend[s] = << >>, !.obj = @ \cup {s}]
    BY <1>2 DEF ReturnAnywhere, ThenReturn
  <2> QED
    BY <2>1, <1>1 DEF Safe, TypeOK, KernelType, SameOwners
<1>5. WaitInv' /\ \A o : Waiters(knl', o) \subseteq Waiters(knl, o)
  BY <1>1, <1>3, SteadyShrinks
<1> QED
  BY <1>3, <1>4, <1>5, SemBase DEF Kept

LEMMA SemDestroyBase ==
    ASSUME Base, NEW s \in Waitable \ Mutex, SemDestroy(s)
    PROVE  /\ Base' /\ SameOwners(knl, knl') /\ knl'.obj = knl.obj \ {s}
           /\ Woke(Waiters(knl, s), "DESTROY")
<1> DEFINE a == pend_wakeup_all(knl, s, "DESTROY")
<1>1. Safe /\ WaitInv /\ s \in Obj /\ s \in knl.obj /\ "DESTROY" \in PendState
  BY WaitableObj DEF SemDestroy, Base, PendState
<1>2. FromAnywhere("sem_destroy", [a EXCEPT !.pend[s] = << >>, !.obj = @ \ {s}])
  BY DEF SemDestroy
<1>3. Kept /\ knl'.obj = knl.obj \ {s} /\ Woke(Waiters(knl, s), "DESTROY")
  BY <1>1, <1>2, DestroyedFrom
<1>4. SameOwners(knl, knl')
  <2>1. Sound(a) /\ SameFrame(knl, a)
    BY <1>1, WakeAllSound DEF Safe
  <2>2. knl' = [a EXCEPT !.pend[s] = << >>, !.obj = @ \ {s}]
    BY <1>2 DEF FromAnywhere, ThenSched, ThenReturn
  <2> HIDE DEF a
  <2> QED
    BY <2>1, <2>2 DEF Sound, KernelType, SameFrame, SameOwners
<1>5. WaitInv' /\ \A o : Waiters(knl', o) \subseteq Waiters(knl, o)
  BY <1>1, <1>3, WokeKeeps, WaitersShrink
<1> QED
  BY <1>3, <1>4, <1>5, SemBase DEF Kept

LEMMA SemPostBase ==
    ASSUME Base, NEW s \in Waitable \ Mutex, NEW opt, SemPost(s, opt)
    PROVE  /\ Base' /\ SameOwners(knl, knl') /\ knl'.obj = knl.obj
           /\ \E A \in SUBSET Waiters(knl, s) : Woke(A, "POST")
<1>1. Safe /\ WaitInv /\ s \in Obj /\ "POST" \in PendState
  BY WaitableObj DEF Base, PendState
<1>2. CASE pend_is_nopending(knl, s)
  <2>1. ReturnAnywhere("sem_post", knl)
    BY <1>2 DEF SemPost
  <2>2. Kept /\ knl' = knl /\ \A t \in Task : Steady(t)
    BY <1>1, <2>1, IdleFrom
  <2>3. WaitInv' /\ \A o : Waiters(knl', o) \subseteq Waiters(knl, o)
    BY <1>1, <2>2, SteadyShrinks
  <2>4. Woke({}, "POST") /\ SameOwners(knl, knl')
    BY <2>2 DEF Woke, SameOwners
  <2> QED
    BY <2>2, <2>3, <2>4, SemBase DEF Kept
<1>3. CASE ~pend_is_nopending(knl, s)
  <2> DEFINE r == pend_wakeup(knl, s, "POST", opt)
  <2>1. FromAnywhere("sem_post", r)
    BY <1>3 DEF SemPost
  <2>2. Kept /\ knl'.obj = knl.obj /\ \E A \in SUBSET Waiters(knl, s) : Woke(A, "POST")
    BY <1>1, <1>3, <2>1, PostedFrom
  <2>3. SameFrame(knl, r)
    BY <1>1, <1>3, PendWakeSound DEF Safe
  <2>4. knl' = r
    BY <2>1 DEF FromAnywhere, ThenSched, ThenReturn
  <2>5. SameOwners(knl, knl')
    BY <2>3, <2>4 DEF SameFrame, SameOwners
  <2>6. WaitInv' /\ \A o : Waiters(knl', o) \subseteq Waiters(knl, o)
    BY <1>1, <2>2, WokeKeeps, WaitersShrink
  <2> QED
    BY <2>2, <2>5, <2>6, SemBase DEF Kept
<1> QED
  BY <1>2, <1>3

LEMMA SemTakeBase ==
    ASSUME Base, NEW s \in Waitable \ Mutex, SemTake(s)
    PROVE  Base' /\ knl' = knl /\ \A t \in Task : Steady(t)
<1>1. Safe /\ WaitInv /\ ReturnAnywhere("sem_pend", knl)
  BY DEF Base, SemTake, ReturnAnywhere
<1>2. Kept /\ knl' = knl /\ \A t \in Task : Steady(t)
  BY <1>1, IdleFrom
<1>3. WaitInv' /\ \A o : Waiters(knl', o) \subseteq Waiters(knl, o)
  BY <1>1, <1>2, SteadyShrinks
<1>4. SameOwners(knl, knl')
  BY <1>2 DEF SameOwners
<1> QED
  BY <1>2, <1>3, <1>4, SemBase DEF Kept

LEMMA SemBlockBase ==
    ASSUME Base, NEW s \in Waitable \ Mutex, NEW timeout \in Nat, SemBlock(s, timeout)
    PROVE  /\ Base' /\ SameOwners(knl, knl') /\ knl'.obj = knl.obj
           /\ Alone(knl.curr) /\ Blocked(knl.curr, s) /\ ~InPend(knl.curr)
<1> DEFINE t == knl.curr
           r == pend_task_block(knl, t, s, timeout)
<1>1. /\ Safe /\ WaitInv /\ s \in Obj /\ s \in knl.obj
      /\ Preamble("sem_pend") /\ BlockIn(knl, s, timeout)
  BY WaitableObj DEF Base, SemBlock
<1>2. /\ Kept /\ knl'.obj = knl.obj /\ Alone(t) /\ Blocked(t, s) /\ ~InPend(t)
  BY <1>1, BlockFrom
<1>3. t \in ReadySet(knl) \ {Idle} /\ t \in Task
  BY <1>1, CallerReady, TypeFacts DEF Safe
<1>4. SameOwners(knl, knl')
  <2>1. knl' = r
    BY <1>1 DEF BlockIn
  <2>2. Others(knl, r, t)
    BY <1>1, <1>3, BlockSound DEF Safe
  <2> QED
    BY <2>1, <2>2 DEF Others, SameFrame, SameOwners
<1>5. WaitInv'
  BY <1>1, <1>2, <1>3, AloneKeeps
<1>6. ASSUME NEW o, o # s PROVE Waiters(knl', o) \subseteq Waiters(knl, o)
  BY <1>2, <1>6 DEF Alone, Steady, Blocked, Waiters
<1> QED
  BY <1>2, <1>4, <1>5, <1>6, SemBase DEF Kept
----------------------------------------------------------------------------
(* What a step may do to a task that it does not concern.                  *)

Undisturbed(t) ==
    \/ /\ Unmoved(t)
       /\ InPend(t) /\ arg[t] = Lock =>
             /\ Untold(t)
             /\ Calm /\ ~IsSleeping(knl, t) => /\ ~IsSleeping(knl', t)
                                               /\ knl'.pendState[t] = knl.pendState[t]
    \/ rwcall[t] = NoCall /\ (InPendNext(t) => arg'[t] \notin {Lock, Signal})

LockKept(t) ==
    /\ knl'.owner[Lock] = t => knl.owner[Lock] = t /\ knl'.nesting[Lock] = knl.nesting[Lock]
    /\ knl.owner[Lock] = t /\ rwcall[t] # NoCall => knl'.owner[Lock] = t

SameCall(t) ==
    /\ rwcall'[t].op = rwcall[t].op /\ rwcall'[t].at = rwcall[t].at
    /\ rwcall[t] = NoCall => rwcall'[t] = NoCall

Survives(t) == t \notin knl'.obj => t \notin knl.obj \/ rwcall[t] = NoCall

LEMMA PlacedStays ==
    ASSUME Safe, NEW t \in Task, Shaped(t), Placed(t), Undisturbed(t), LockKept(t), SameCall(t),
           Survives(t), rw.excess \subseteq rw'.excess
    PROVE  Placed(t)'
<1> DEFINE at == rwcall[t].at
           op == rwcall[t].op
<1>1. rwcall'[t].at = at /\ rwcall'[t].op = op /\ (rwcall[t] = NoCall => rwcall'[t] = NoCall)
  BY DEF SameCall
<1>2. NoCall.at = "none"
  BY DEF NoCall
<1>3. (at = "lock" <=> InPend(t) /\ arg[t] = Lock) /\ (at = "sleep" <=> InPend(t) /\ arg[t] = Signal)
  BY DEF Placed
<1>4. /\ at = "lock" <=> InPendNext(t) /\ arg'[t] = Lock
      /\ at = "sleep" <=> InPendNext(t) /\ arg'[t] = Signal
  BY <1>2, <1>3 DEF Undisturbed, Unmoved
<1>5. t \notin knl'.obj => rwcall'[t] = NoCall
  BY <1>1 DEF Placed, Survives
<1>6. at # "none" => rwcall[t] # NoCall
  BY <1>2
<1>7. /\ at \in Inside => knl'.owner[Lock] = t /\ knl'.nesting[Lock] = 1
      /\ at = "lock" /\ knl'.owner[Lock] = t => knl'.nesting[Lock] = 1
  BY <1>6 DEF Placed, LockKept, Inside, Loop
<1>8. /\ knl'.owner[Lock] = t => at \in Inside \cup {"lock"} \/ t \in rw'.excess
      /\ knl'.owner[Lock] = t /\ knl'.nesting[Lock] > 1 => t \in rw'.excess
  BY DEF Placed, LockKept
<1>9. ASSUME at = "lock"
      PROVE  /\ knl'.owner[Lock] = t <=> knl'.pendState[t] = "POST"
             /\ Calm /\ op \in Posting =>
                   ~IsSleeping(knl', t) /\ knl'.pendState[t] \in {"NONE", "POST"}
  <2>1. /\ Untold(t)
        /\ Calm /\ ~IsSleeping(knl, t) => /\ ~IsSleeping(knl', t)
                                          /\ knl'.pendState[t] = knl.pendState[t]
    BY <1>2, <1>3, <1>9 DEF Undisturbed
  <2>2. IsPending(knl, t) => knl.pendState[t] = "NONE"
    BY DEF Safe, Sound, Waiting, Undecided
  <2>3. knl'.owner[Lock] = t <=> knl.owner[Lock] = t
    BY <1>6, <1>9 DEF LockKept
  <2>4. /\ knl.owner[Lock] = t <=> knl.pendState[t] = "POST"
        /\ Calm /\ op \in Posting => ~IsSleeping(knl, t) /\ knl.pendState[t] \in {"NONE", "POST"}
    BY <1>9 DEF Placed
  <2> QED
    BY <2>1, <2>2, <2>3, <2>4 DEF Untold
<1>10. Calm' <=> Calm
  BY DEF Calm, SuspendUsed, DestroyUsed
<1> HIDE DEF at, op
<1> QED
  BY <1>1, <1>4, <1>5, <1>7, <1>8, <1>9, <1>10 DEF Placed, InPend, InPendNext

LEMMA NextUnmoved ==
    ASSUME Base, [Next]_vars, NEW t \in Task
    PROVE  Unmoved(t) \/ (~InPendNext(t) /\ (t \notin knl.obj \/ t \notin knl'.obj))
<1>1. Safe /\ knl.curr \in Task
  BY TypeFacts DEF Base, Safe
<1>2. CASE PendSV_Handler \/ TickUpdate \/ RobinSched \/ IrqLeave
           \/ (\E kind \in {"tick", "isr"} : IrqEnter(kind)) \/ UNCHANGED vars
  <2>1. pc' = pc /\ arg' = arg
    BY <1>2 DEF PendSV_Handler, ThenReturn, TickUpdate, RobinSched, IrqLeave, IrqEnter, vars
  <2> QED
    BY <2>1, StayUnmoved
<1>3. CASE SchedPoint
  BY <1>1, <1>3, TypeFacts DEF Safe, SchedPoint, Unmoved, InPend, InPendNext
<1>4. CASE OtherApi
  <2>1. ASSUME NEW u \in Task, Destroy(u)
        PROVE  Unmoved(t) \/ (~InPendNext(t) /\ (t \notin knl.obj \/ t \notin knl'.obj))
    <3>1. knl'.obj = knl.obj \ {u}
      BY <2>1, DeathStep
    <3> QED
      BY <1>1, <2>1, <3>1, TypeFacts
      DEF Safe, Destroy, Preamble, TaskRuns, Unmoved, InPend, InPendNext
  <2>2. ASSUME NEW k, NEW api, Preamble(api), ThenSched(k) \/ ThenReturn(k) PROVE Unmoved(t)
    BY <1>1, <2>2, CallUnmoved DEF Preamble
  <2>3. ASSUME NEW k, ThenReturn(k) PROVE Unmoved(t)
    BY <2>3, StayUnmoved DEF ThenReturn
  <2>4. ASSUME NEW u \in Task, Suspend(u) \/ Resume(u) \/ DelayAbort(u) PROVE Unmoved(t)
    BY <2>2, <2>3, <2>4 DEF Suspend, Resume, DelayAbort
  <2>5. ASSUME NEW u, NEW s, TimesliceSet(u, s) PROVE Unmoved(t)
    BY <2>3, <2>5 DEF TimesliceSet
  <2>6. ASSUME NEW d, Delay(d) PROVE Unmoved(t)
    BY <2>2, <2>6 DEF Delay
  <2>7. ASSUME Yield \/ SchedLock \/ SchedUnlock PROVE Unmoved(t)
    BY <2>2, <2>7 DEF Yield, SchedLock, SchedUnlock
  <2> QED
    BY <1>4, <2>1, <2>4, <2>5, <2>6, <2>7 DEF OtherApi
<1>5. ASSUME NEW u \in Task, NEW p, SetPrio(u, p)
      PROVE  Unmoved(t) \/ (~InPendNext(t) /\ (t \notin knl.obj \/ t \notin knl'.obj))
  <2>1. CASE PrioChange(u, p)
    BY <1>1, <2>1, CallUnmoved DEF PrioChange, Preamble
  <2>2. ASSUME NEW s, Create(u, p, s)
        PROVE  Unmoved(t) \/ (~InPendNext(t) /\ t \notin knl.obj)
    BY <1>1, <2>2, TypeFacts DEF Safe, Create, Preamble, TaskRuns, Unmoved, InPend, InPendNext
  <2> QED
    BY <1>5, <2>1, <2>2 DEF SetPrio
<1> QED
  BY <1>2, <1>3, <1>4, <1>5 DEF Next, OtherStep, KernelStep

(* The waits that a step of the scheduler leaves alone.                    *)
LEMMA StepUndisturbed ==
    ASSUME Base, WaitStep, NEW t \in Task, Shaped(t), Placed(t),
           ~Dying,
           Unmoved(t) \/ (~InPendNext(t) /\ (t \notin knl.obj \/ rwcall[t] = NoCall))
    PROVE  Undisturbed(t)
<1>1. CASE Unmoved(t)
  <2> SUFFICES ASSUME InPend(t), arg[t] = Lock
               PROVE  /\ Untold(t)
                      /\ Calm /\ ~IsSleeping(knl, t) => /\ ~IsSleeping(knl', t)
                                                        /\ knl'.pendState[t] = knl.pendState[t]
    BY <1>1 DEF Undisturbed
  <2>1. ASSUME Steady(t) PROVE Untold(t) /\ (~IsSleeping(knl, t) => ~IsSleeping(knl', t))
                               /\ knl'.pendState[t] = knl.pendState[t]
    BY <2>1 DEF Steady, Untold
  <2>2. ASSUME NEW A \in SUBSET Sleepers(knl), Woke(A, "TIMEOUT"), ~Steady(t)
        PROVE  Untold(t) /\ IsSleeping(knl, t)
    BY <2>2 DEF Woke, Ended, Untold, Sleepers
  <2>3. ASSUME NEW u \in Task, Alone(u), Left(u) \/ (SuspendUsed /\ Dropped(u)), ~Steady(t)
        PROVE  Untold(t) /\ ~Calm
    <3>1. u = t /\ ~Left(t)
      BY <1>1, <2>3 DEF Alone, Unmoved, Left
    <3> QED
      BY <2>3, <3>1 DEF Dropped, Untold, Calm
  <2> QED
    BY <2>1, <2>2, <2>3 DEF WaitStep
<1>2. CASE ~InPendNext(t) /\ (t \notin knl.obj \/ rwcall[t] = NoCall)
  BY <1>2 DEF Undisturbed, Placed
<1> QED
  BY <1>1, <1>2

(* The steps of the scheduler, of a task that uses no lock included.       *)
LEMMA SchedulerSpares ==
    ASSUME Base, [Next]_vars, \A t \in Task : Shaped(t) /\ Placed(t),
           \A t \in Task : t \in knl.obj \ knl'.obj => rwcall[t] = NoCall
    PROVE  /\ Base' /\ knl'.obj \cap Obj = knl.obj \cap Obj
           /\ \A t \in Task : Undisturbed(t) /\ LockKept(t) /\ Survives(t)
<1>1. ASSUME NEW t \in Task
      PROVE  /\ Unmoved(t) \/ (~InPendNext(t) /\ (t \notin knl.obj \/ rwcall[t] = NoCall))
             /\ Survives(t)
  BY NextUnmoved DEF Survives
<1>2. CASE ~Dying
  <2>1. Base' /\ WaitStep /\ Kin(knl, knl')
    BY <1>2, SchedulerStep
  <2>2. \A t \in Task : Undisturbed(t)
    BY <1>1, <1>2, <2>1, StepUndisturbed
  <2>3. \A t \in Task : LockKept(t)
    BY <2>1 DEF Kin, SameOwners, LockKept
  <2> QED
    BY <1>1, <2>1, <2>2, <2>3 DEF WaitStep
<1>3. ASSUME NEW u \in Task, Destroy(u)
      PROVE  /\ Base' /\ knl'.obj \cap Obj = knl.obj \cap Obj
             /\ \A t \in Task : Undisturbed(t) /\ LockKept(t)
  <2>1. /\ Base' /\ Bereft(u, "OWNER_DIE") /\ knl'.obj = knl.obj \ {u} /\ u # NoTask
        /\ knl'.owner[Lock] = (IF knl.owner[Lock] = u THEN NoTask ELSE knl.owner[Lock])
        /\ knl'.nesting[Lock] = (IF knl.owner[Lock] = u THEN 0 ELSE knl.nesting[Lock])
    BY <1>3, DeathStep, RwAssumption
  <2>2. u \in knl.obj /\ ~Calm
    BY <1>3 DEF Destroy, Preamble, Calm, DestroyUsed
  <2>3. rwcall[u] = NoCall
    BY <2>1, <2>2
  <2>4. \A t \in Task : LockKept(t)
    BY <2>1, <2>3, NullAssumption DEF LockKept
  <2>5. ASSUME NEW t \in Task PROVE Undisturbed(t)
    <3>1. CASE t = u
      BY <2>1, <2>3, <3>1 DEF Bereft, Left, Undisturbed
    <3>2. CASE t # u
      BY <2>1, <2>2, <3>2 DEF Bereft, Steady, Ended, Untold, Undisturbed
    <3> QED
      BY <3>1, <3>2
  <2> QED
    BY <2>1, <2>4, <2>5, KindAssumption
<1> QED
  BY <1>1, <1>2, <1>3 DEF Dying
(* Wake-ups elsewhere.                                                     *)
LEMMA SteadySpares ==
    ASSUME NEW t \in Task, Steady(t) PROVE Undisturbed(t)
  BY DEF Steady, Untold, Undisturbed

LEMMA WokeSpares ==
    ASSUME Base, NEW o, o # Lock, NEW A \in SUBSET Waiters(knl, o), NEW st, Woke(A, st),
           NEW t \in Task
    PROVE  Undisturbed(t)
<1>1. CASE Steady(t)
  BY <1>1, SteadySpares
<1>2. CASE ~Steady(t)
  <2>1. t \in A /\ Unmoved(t)
    BY <1>2 DEF Woke, Ended
  <2>2. arg[t] # Lock
    BY <2>1 DEF Waiters, Base, WaitInv
  <2> QED
    BY <2>1, <2>2 DEF Undisturbed
<1> QED
  BY <1>1, <1>2

LEMMA SameSpares ==
    ASSUME SameOwners(knl, knl'), NEW t PROVE LockKept(t)
  BY DEF SameOwners, LockKept

LEMMA ElsewhereSpares ==
    ASSUME NEW m \in Mutex \ {Lock}, NEW u, NEW n, Changed(m, u, n), NEW t PROVE LockKept(t)
<1>1. knl'.owner[Lock] = knl.owner[Lock] /\ knl'.nesting[Lock] = knl.nesting[Lock]
  BY RwAssumption DEF Changed
<1> QED
  BY <1>1 DEF LockKept

LEMMA DirectSpares ==
    ASSUME Base, AppCalls, Direct
    PROVE  /\ Base' /\ knl.obj \subseteq knl'.obj
           /\ \A t \in Task : Undisturbed(t) /\ LockKept(t)
<1>1. ASSUME NEW m \in Mutex \ {Lock}, MutexCreate(m)
      PROVE  /\ Base' /\ knl.obj \subseteq knl'.obj
             /\ \A t \in Task : Undisturbed(t) /\ LockKept(t)
  BY <1>1, MutexCreateStep, SteadySpares, SameSpares
<1>2. ASSUME NEW m \in Mutex \ {Lock}, MutexPendFirst(m) \/ MutexPendAgain(m) \/ MutexPostNested(m)
      PROVE  /\ Base' /\ knl.obj \subseteq knl'.obj
             /\ \A t \in Task : Undisturbed(t) /\ LockKept(t)
  <2>1. /\ Base' /\ knl'.obj = knl.obj /\ \A t \in Task : Steady(t)
        /\ \E n : Changed(m, knl.curr, n)
    BY <1>2, PendFirstStep, PendAgainStep, PostNestedStep
  <2> QED
    BY <2>1, SteadySpares, ElsewhereSpares
<1>3. ASSUME NEW m \in Mutex \ {Lock}, MutexPost(m)
      PROVE  /\ Base' /\ knl.obj \subseteq knl'.obj
             /\ \A t \in Task : Undisturbed(t) /\ LockKept(t)
  <2>1. /\ Base' /\ knl'.obj = knl.obj
        /\ \/ (\A u \in Task : Steady(u)) /\ Changed(m, NoTask, 0)
           \/ \E t \in Waiters(knl, m) : Woke({t}, "POST") /\ Changed(m, t, 1)
    BY <1>3, MutexPostStep
  <2>2. ASSUME NEW t \in Waiters(knl, m), Woke({t}, "POST"), Changed(m, t, 1)
        PROVE  \A u \in Task : Undisturbed(u) /\ LockKept(u)
    <3>1. {t} \in SUBSET Waiters(knl, m)
      OBVIOUS
    <3> QED
      BY <2>2, <3>1, WokeSpares, ElsewhereSpares
  <2> QED
    BY <2>1, <2>2, SteadySpares, ElsewhereSpares
<1>4. ASSUME NEW m \in Mutex \ {Lock}, NEW timeout \in MutexTimeouts, MutexBlock(m, timeout)
      PROVE  /\ Base' /\ knl.obj \subseteq knl'.obj
             /\ \A t \in Task : Undisturbed(t) /\ LockKept(t)
  <2>1. /\ Base' /\ Alone(knl.curr) /\ Blocked(knl.curr, m)
        /\ SameOwners(knl, knl') /\ knl'.obj = knl.obj
    BY <1>4, MutexBlockStep, MutexAssumption
  <2>2. rwcall[knl.curr] = NoCall
    BY <1>4 DEF AppCalls, MutexBlock, Preamble, TaskRuns, Me
  <2>3. m # Signal
    BY RwAssumption
  <2>4. ASSUME NEW t \in Task PROVE Undisturbed(t)
    BY <2>1, <2>2, <2>3, SteadySpares DEF Alone, Blocked, Undisturbed
  <2> QED
    BY <2>1, <2>4, SameSpares
<1>5. CASE MutexPendReturn
  <2>1. /\ Base' /\ knl' = knl /\ Alone(knl.curr) /\ Left(knl.curr)
    BY <1>5, AnswerStep DEF MutexPendReturn
  <2>2. rwcall[knl.curr] = NoCall
    BY <1>5 DEF AppCalls, MutexPendReturn, PendReturn, Me
  <2>3. ASSUME NEW t \in Task PROVE Undisturbed(t)
    BY <2>1, <2>2, SteadySpares DEF Alone, Left, Undisturbed
  <2> QED
    BY <2>1, <2>3, SameSpares DEF SameOwners
<1> QED
  BY <1>1, <1>2, <1>3, <1>4, <1>5 DEF Direct

----------------------------------------------------------------------------
(* What a step may leave alone of the calls, and what it leaves alone      *)
(* then.                                                                   *)

Twin(t) == /\ SameCall(t) /\ share'[t] = share[t]
           /\ rwcall'[t].got = rwcall[t].got

WaitsToRead(t) == rwcall[t].op = "rpend" /\ rwcall[t].at \in Loop

LEMMA TwinShaped ==
    ASSUME NEW t \in Task, Twin(t), Shaped(t) PROVE Shaped(t)'
  BY DEF Twin, SameCall, Shaped, NoCall, Timed, Trying, Loop

LEMMA TwinClaims ==
    ASSUME NEW t \in Task, Twin(t)
    PROVE  /\ Has(t, "read")' <=> Has(t, "read")
           /\ Has(t, "write")' <=> Has(t, "write")
           /\ Leaves(t)' <=> Leaves(t)
           /\ WaitsToWrite(t)' <=> WaitsToWrite(t)
           /\ WaitsToRead(t)' <=> WaitsToRead(t)
           /\ rw'.writing = rw.writing => /\ Reads(t)' <=> Reads(t)
                                          /\ Writes(t)' <=> Writes(t)
  BY DEF Twin, SameCall, Has, Leaves, WaitsToWrite, WaitsToRead, Reads, Writes, Posting, Loop

(* Nobody's claim changes.                                                 *)
LEMMA LedgerSame ==
    ASSUME Ledger, rw'.readers = rw.readers, rw'.writers = rw.writers, rw'.writing = rw.writing,
           \A t \in Task : /\ Reads(t)' <=> Reads(t)
                           /\ Writes(t)' <=> Writes(t)
                           /\ WaitsToWrite(t)' <=> WaitsToWrite(t)
                           /\ WaitsToRead(t)' => ~NoWriters
    PROVE  Ledger'
<1>1. Readers' = Readers
  BY DEF Readers
<1>2. (Calm' <=> Calm) /\ (NoWriters' <=> NoWriters)
  BY DEF Calm, SuspendUsed, DestroyUsed, NoWriters
<1> QED
  BY <1>1, <1>2 DEF Ledger, WaitsToRead

LEMMA MadeSame ==
    ASSUME MadeOK, rw'.made = rw.made, Lock \in knl.obj => Lock \in knl'.obj,
           \A t \in Task : Twin(t)
    PROVE  MadeOK'
  BY DEF MadeOK, Twin, SameCall

(* A step in which no task goes on with a call.                            *)
LEMMA Untouched ==
    ASSUME RwIInv, Base', rw' = rw, RwType', \A t \in Task : Twin(t),
           Lock \in knl.obj => Lock \in knl'.obj,
           \A t \in Task : Undisturbed(t) /\ LockKept(t) /\ Survives(t)
    PROVE  RwIInv'
<1>1. ASSUME NEW t \in Task PROVE Shaped(t)' /\ Placed(t)'
  BY TwinShaped, PlacedStays DEF RwIInv, RwInv2, Base, Twin
<1>2. MadeOK'
  BY MadeSame DEF RwIInv, RwInv2
<1>3. Ledger'
  BY LedgerSame, TwinClaims DEF RwIInv, RwInv2, Ledger, WaitsToRead
<1> QED
  BY <1>1, <1>2, <1>3 DEF RwIInv, RwInv2

LEMMA RwTickType ==
    ASSUME RwType, RwTick PROVE RwType' /\ rw' = rw /\ \A t \in Task : Twin(t)
<1> DEFINE Counts_(t) == /\ rwcall[t].timeout # Forever
                         /\ \/ rwcall[t].left > 0
                            \/ rwcall[t].at \in {"read1", "read2"} /\ rwcall[t].left = 0
           Next_(t) == IF Counts_(t) THEN [rwcall[t] EXCEPT !.left = @ - 1] ELSE rwcall[t]
<1>1. rwcall' = [t \in Task |-> Next_(t)] /\ rw' = rw /\ share' = share
  BY DEF RwTick
<1>2. ASSUME NEW t \in Task
      PROVE  /\ Next_(t) \in CallType /\ Next_(t).op = rwcall[t].op /\ Next_(t).at = rwcall[t].at
             /\ Next_(t).got = rwcall[t].got
  BY DEF RwType, CallType
<1>3. ASSUME NEW t \in Task, rwcall[t] = NoCall PROVE Next_(t) = NoCall
  <2>1. rwcall[t].left = 0 /\ rwcall[t].at = "none"
    BY <1>3 DEF NoCall
  <2>2. ~Counts_(t)
    BY <2>1
  <2> QED
    BY <1>3, <2>2
<1> HIDE DEF Next_
<1> QED
  BY <1>1, <1>2, <1>3 DEF RwType, Twin, SameCall

LEMMA TwinAll ==
    ASSUME rwcall' = rwcall, share' = share, NEW t PROVE Twin(t)
  BY DEF Twin, SameCall

(* The steps outside of the calls of the read-write lock.                  *)
LEMMA RwForeign ==
    ASSUME RwIInv,
           \/ RwTick \/ RwTaskStep
           \/ AppCalls /\ Direct /\ UNCHANGED rwOnly
           \/ \E t \in Task, p \in AppPrio :
                 SetPrio(t, p) /\ UNCHANGED <<rw, rwcall, share>>
           \/ UNCHANGED rwVars
    PROVE  RwIInv'
<1>1. CASE RwTick
  <2>1. KernelStep /\ [Next]_vars
    BY <1>1 DEF RwTick, KernelStep, Next, OtherStep
  <2>2. knl.obj \subseteq knl'.obj
    BY <2>1, KernelKin DEF RwIInv, Base, Kin
  <2>3. Base' /\ \A t \in Task : Undisturbed(t) /\ LockKept(t) /\ Survives(t)
    BY <2>1, <2>2, SchedulerSpares DEF RwIInv, RwInv2
  <2> QED
    BY <1>1, <2>2, <2>3, RwTickType, Untouched DEF RwIInv, RwInv2
<1>2. ASSUME UNCHANGED <<rw, rwcall, share>> PROVE RwType' /\ rw' = rw /\ \A t \in Task : Twin(t)
  BY <1>2, TwinAll DEF RwIInv, RwInv2, RwType
<1>3. CASE RwTaskStep
  <2>1. [Next]_vars /\ \A t \in Task : t \in knl.obj \ knl'.obj => rwcall[t] = NoCall
    BY <1>3 DEF RwTaskStep, Next, OtherStep, KernelStep
  <2>2. /\ Base' /\ knl'.obj \cap Obj = knl.obj \cap Obj
        /\ \A t \in Task : Undisturbed(t) /\ LockKept(t) /\ Survives(t)
    BY <2>1, SchedulerSpares DEF RwIInv, RwInv2
  <2>3. Lock \in Obj
    BY RwAssumption DEF Obj
  <2> QED
    BY <1>2, <1>3, <2>2, <2>3, Untouched DEF RwTaskStep
<1>4. CASE AppCalls /\ Direct /\ UNCHANGED rwOnly
  <2>1. /\ Base' /\ knl.obj \subseteq knl'.obj
        /\ \A t \in Task : Undisturbed(t) /\ LockKept(t)
    BY <1>4, DirectSpares DEF RwIInv
  <2> QED
    BY <1>2, <1>4, <2>1, Untouched DEF rwOnly, Survives
<1>5. ASSUME NEW u \in Task, NEW p \in AppPrio, SetPrio(u, p), UNCHANGED <<rw, rwcall, share>>
      PROVE  RwIInv'
  <2>1. [Next]_vars
    BY <1>5 DEF Next
  <2>2. knl.obj \subseteq knl'.obj
    BY <1>5, SetPrioStep DEF RwIInv, Kin
  <2>3. Base' /\ \A t \in Task : Undisturbed(t) /\ LockKept(t) /\ Survives(t)
    BY <2>1, <2>2, SchedulerSpares DEF RwIInv, RwInv2
  <2> QED
    BY <1>2, <1>5, <2>2, <2>3, Untouched
<1>6. CASE UNCHANGED rwVars
  <2>1. [Next]_vars /\ knl' = knl /\ UNCHANGED <<rw, rwcall, share>>
    BY <1>6 DEF rwVars, vars
  <2>2. Base' /\ \A t \in Task : Undisturbed(t) /\ LockKept(t) /\ Survives(t)
    BY <2>1, SchedulerSpares DEF RwIInv, RwInv2
  <2> QED
    BY <1>2, <2>1, <2>2, Untouched
<1> QED
  BY <1>1, <1>3, <1>4, <1>5, <1>6
----------------------------------------------------------------------------
(* The task that goes on with its call.                                    *)

Goes(op, at, got) ==
    LET c == knl.curr
    IN  /\ rwcall' \in [Task -> CallType]
        /\ rwcall'[c].op = op /\ rwcall'[c].at = at /\ rwcall'[c].got = got
        /\ at = "none" => rwcall'[c] = NoCall
        /\ \A t \in Task \ {c} : rwcall'[t] = rwcall[t]

LEMMA CallUpdate ==
    ASSUME RwType, NEW t \in Task, NEW r \in CallType, rwcall' = [rwcall EXCEPT ![t] = r]
    PROVE  /\ rwcall' \in [Task -> CallType] /\ rwcall'[t] = r
           /\ \A u \in Task \ {t} : rwcall'[u] = rwcall[u]
  BY DEF RwType

LEMMA CallFields ==
    ASSUME NEW r \in CallType
    PROVE  /\ \A at \in {"sem", "mutex", "lock"} \cup Inside :
                 /\ [r EXCEPT !.at = at] \in CallType
                 /\ [r EXCEPT !.at = at].op = r.op /\ [r EXCEPT !.at = at].at = at
                 /\ [r EXCEPT !.at = at].got = r.got
                 /\ [r EXCEPT !.at = at].timeout = r.timeout
  BY DEF CallType, Inside

LEMMA GoToGoes ==
    ASSUME RwType, knl.curr \in Task, NEW place \in {"sem", "mutex", "lock"} \cup Inside,
           GoTo(place)
    PROVE  Goes(Me.op, place, Me.got)
<1> DEFINE r == [rwcall[knl.curr] EXCEPT !.at = place]
<1>1. rwcall[knl.curr] \in CallType
  BY DEF RwType
<1>2. /\ r \in CallType /\ r.op = rwcall[knl.curr].op /\ r.at = place
      /\ r.got = rwcall[knl.curr].got
  BY <1>1, CallFields
<1>3. rwcall' = [rwcall EXCEPT ![knl.curr] = r]
  BY DEF GoTo, RwType
<1> HIDE DEF r
<1>4. /\ rwcall' \in [Task -> CallType] /\ rwcall'[knl.curr] = r
      /\ \A u \in Task \ {knl.curr} : rwcall'[u] = rwcall[u]
  BY <1>2, <1>3, CallUpdate
<1>5. place # "none"
  BY DEF Inside, Loop
<1> QED
  BY <1>2, <1>4, <1>5 DEF Goes, Me

LEMMA RetimeGoes ==
    ASSUME RwType, knl.curr \in Task, NEW place \in Inside, NEW n \in Nat,
           rwcall' = [rwcall EXCEPT ![knl.curr].at = place, ![knl.curr].timeout = n]
    PROVE  Goes(Me.op, place, Me.got)
<1> DEFINE r == [rwcall[knl.curr] EXCEPT !.at = place, !.timeout = n]
<1>1. rwcall[knl.curr] \in CallType
  BY DEF RwType
<1>2. /\ r \in CallType /\ r.op = rwcall[knl.curr].op /\ r.at = place
      /\ r.got = rwcall[knl.curr].got
  BY <1>1 DEF CallType, Inside
<1>3. rwcall' = [rwcall EXCEPT ![knl.curr] = r]
  BY DEF RwType
<1> HIDE DEF r
<1>4. /\ rwcall' \in [Task -> CallType] /\ rwcall'[knl.curr] = r
      /\ \A u \in Task \ {knl.curr} : rwcall'[u] = rwcall[u]
  BY <1>2, <1>3, CallUpdate
<1>5. place # "none"
  BY DEF Inside, Loop
<1> QED
  BY <1>2, <1>4, <1>5 DEF Goes, Me

LEMMA GrantGoes ==
    ASSUME RwType, knl.curr \in Task, NEW what \in {"read", "write"}, Granted_(what)
    PROVE  Goes(Me.op, "post", what)
<1> DEFINE r == [rwcall[knl.curr] EXCEPT !.at = "post", !.got = what]
<1>1. rwcall[knl.curr] \in CallType
  BY DEF RwType
<1>2. /\ r \in CallType /\ r.op = rwcall[knl.curr].op /\ r.at = "post"
      /\ r.got = what
  BY <1>1 DEF CallType, Inside
<1>3. rwcall' = [rwcall EXCEPT ![knl.curr] = r]
  BY DEF Granted_, RwType
<1> HIDE DEF r
<1>4. /\ rwcall' \in [Task -> CallType] /\ rwcall'[knl.curr] = r
      /\ \A u \in Task \ {knl.curr} : rwcall'[u] = rwcall[u]
  BY <1>2, <1>3, CallUpdate
<1> QED
  BY <1>2, <1>4 DEF Goes, Me

LEMMA EndGoes ==
    ASSUME RwType, knl.curr \in Task, EndCall
    PROVE  Goes("none", "none", "none")
<1>1. NoCall \in CallType /\ NoCall.op = "none" /\ NoCall.at = "none" /\ NoCall.got = "none"
  BY DEF NoCall, CallType
<1>2. /\ rwcall' \in [Task -> CallType] /\ rwcall'[knl.curr] = NoCall
      /\ \A u \in Task \ {knl.curr} : rwcall'[u] = rwcall[u]
  BY <1>1, CallUpdate DEF EndCall
<1> QED
  BY <1>1, <1>2 DEF Goes

LEMMA GoesTwin ==
    ASSUME NEW op, NEW at, NEW got, Goes(op, at, got), NEW t \in Task \ {knl.curr},
           share'[t] = share[t]
    PROVE  Twin(t)
  BY DEF Goes, Twin, SameCall

LEMMA OthersPlaced ==
    ASSUME RwIInv, rw.excess \subseteq rw'.excess, NEW c,
           \A t \in Task \ {c} : Undisturbed(t) /\ LockKept(t) /\ Survives(t) /\ Twin(t)
    PROVE  \A t \in Task \ {c} : Shaped(t)' /\ Placed(t)'
  BY TwinShaped, PlacedStays DEF RwIInv, RwInv2, Base, Twin

LEMMA ActorPlaced ==
    ASSUME NEW t \in Task, t \in knl'.obj \/ rwcall'[t] = NoCall,
           rwcall'[t].at # "lock", InPendNext(t) => arg'[t] # Lock,
           rwcall'[t].at = "sleep" <=> InPendNext(t) /\ arg'[t] = Signal,
           rwcall'[t].at \in Inside => knl'.owner[Lock] = t /\ knl'.nesting[Lock] = 1,
           knl'.owner[Lock] = t => rwcall'[t].at \in Inside \/ t \in rw'.excess,
           knl'.owner[Lock] = t /\ knl'.nesting[Lock] > 1 => t \in rw'.excess
    PROVE  Placed(t)'
  BY DEF Placed, InPend, InPendNext

(* Who runs outside of the kernel is in no pend call, and who is past the  *)
(* mutex is alone there.                                                   *)
LEMMA Runner ==
    ASSUME RwIInv, TaskRuns
    PROVE  /\ knl.curr \in Task /\ ~InPend(knl.curr) /\ knl.curr \in knl.obj
           /\ rwcall[knl.curr] \in CallType
<1>1. Safe /\ knl.curr \in Task
  BY TypeFacts DEF RwIInv, Base, Safe
<1>2. knl.curr \in ReadySet(knl)
  BY <1>1, RunsReady DEF TaskRuns
<1> QED
  BY <1>1, <1>2 DEF TaskRuns, InPend, ReadySet, RwIInv, RwInv2, RwType

LEMMA Solo ==
    ASSUME RwIInv, NEW c \in Task, rwcall[c].at \in Inside, NEW t \in Task \ {c}
    PROVE  rwcall[t].at \notin Inside
  BY DEF RwIInv, RwInv2, Placed

LEMMA WaiterInside ==
    ASSUME RwType, NEW t \in Task, Shaped(t)
    PROVE  WaitsToWrite(t) <=> rwcall[t].op = "wpend" /\ rwcall[t].at \in Loop
<1>1. rwcall[t].at \in {"none", "sem", "mutex", "lock"} \cup Inside
  BY DEF RwType, CallType
<1>2. rwcall[t].op = "wpend" => rwcall[t].at \notin {"sem", "mutex"}
  BY DEF Shaped
<1> QED
  BY <1>1, <1>2 DEF WaitsToWrite, Inside, Loop

(* The kernel's part of a step inside of a call.                           *)
Mild == /\ Base' /\ SameOwners(knl, knl') /\ knl'.obj = knl.obj
        /\ \A t \in Task : Undisturbed(t) /\ Unmoved(t)

LEMMA RestMild ==
    ASSUME RwIInv, UNCHANGED vars PROVE Mild
<1>1. [Next]_vars /\ knl' = knl /\ pc' = pc /\ arg' = arg
  BY DEF vars
<1>2. Base' /\ \A t \in Task : Undisturbed(t)
  BY <1>1, SchedulerSpares DEF RwIInv, RwInv2
<1> QED
  BY <1>1, <1>2, StayUnmoved DEF Mild, SameOwners

LEMMA SignalMild ==
    ASSUME RwIInv, SignalAll PROVE Mild
<1>1. CASE SemPost(Signal, "ALL")
  <2>1. /\ Base' /\ SameOwners(knl, knl') /\ knl'.obj = knl.obj
        /\ \E A \in SUBSET Waiters(knl, Signal) : Woke(A, "POST")
    BY <1>1, SemPostBase, RwAssumption DEF RwIInv
  <2>2. Signal # Lock
    BY RwAssumption
  <2>3. PICK A \in SUBSET Waiters(knl, Signal) : Woke(A, "POST")
    BY <2>1
  <2>4. \A t \in Task : Undisturbed(t)
    BY <2>2, <2>3, WokeSpares DEF RwIInv
  <2>5. \A t \in Task : Unmoved(t)
    BY <2>3 DEF Woke, Ended, Steady
  <2> QED
    BY <2>1, <2>4, <2>5 DEF Mild
<1>2. CASE UNCHANGED <<knl, isr, pc, arg, count, countMax>>
  BY <1>2, RestMild DEF vars
<1> QED
  BY <1>1, <1>2 DEF SignalAll

LEMMA TakeMild ==
    ASSUME RwIInv, SemTake(Signal) PROVE Mild
<1>1. Base' /\ knl' = knl /\ \A t \in Task : Steady(t)
  BY SemTakeBase, RwAssumption DEF RwIInv
<1> QED
  BY <1>1, SteadySpares DEF Mild, SameOwners, Steady

(* A step of a call that has the mutex, and keeps it.                      *)
LEMMA InsideStep ==
    ASSUME RwIInv, knl.curr \in Task, knl.curr \in knl.obj, Me.at \in Inside,
           Base', SameOwners(knl, knl'), knl'.obj = knl.obj,
           \A t \in Task \ {knl.curr} : Undisturbed(t),
           NEW at \in Inside, NEW got, Goes(Me.op, at, got),
           IF at = "sleep" THEN InPendNext(knl.curr) /\ arg'[knl.curr] = Signal
                           ELSE ~InPendNext(knl.curr),
           at \in Loop => Me.op \in Timed,
           got # "none" => at = "post" /\ Me.op \in Timed \cup Trying,
           RwType', rw'.excess = rw.excess, rw'.made = rw.made, share' = share,
           Ledger'
    PROVE  RwIInv'
<1> PICK c \in Task : c = knl.curr
  OBVIOUS
<1>1. \A t \in Task \ {c} : Twin(t) /\ Survives(t) /\ LockKept(t)
  BY GoesTwin, SameSpares DEF Survives
<1>2. \A t \in Task \ {c} : Shaped(t)' /\ Placed(t)'
  BY <1>1, OthersPlaced
<1>3. /\ rwcall'[c].op = rwcall[c].op /\ rwcall'[c].at = at /\ rwcall'[c].got = got
      /\ rwcall[c].at \in Inside
  BY DEF Goes, Me
<1>4. Shaped(c)'
  <2>1. rwcall[c].op \notin {"none", "create", "destroy"} /\ share[c] = "none"
    BY <1>3 DEF RwIInv, RwInv2, Shaped, Inside, Loop, NoCall
  <2>2. at \notin {"none", "sem", "mutex"}
    BY DEF Inside, Loop
  <2> QED
    BY <1>3, <2>1, <2>2 DEF Shaped, Me
<1>5. Placed(c)'
  <2>1. knl'.owner[Lock] = c /\ knl'.nesting[Lock] = 1
    BY <1>3 DEF RwIInv, RwInv2, Placed, SameOwners
  <2>2. ~(knl'.nesting[Lock] > 1)
    BY <2>1
  <2>3. at # "lock" /\ Lock # Signal
    BY RwAssumption DEF Inside, Loop
  <2> QED
    BY <1>3, <2>1, <2>2, <2>3, ActorPlaced
<1>6. MadeOK'
  <2>1. rwcall[c].op \notin {"none", "create", "destroy"} /\ rw.made
    BY <1>3 DEF RwIInv, RwInv2, Shaped, MadeOK, Inside, Loop, NoCall
  <2>2. \A t \in Task : rwcall[t].op # "destroy" /\ rwcall'[t].op # "destroy"
    <3>1. rwcall[c] # NoCall
      BY <2>1 DEF NoCall
    <3>2. \A t \in Task : rwcall[t].op # "destroy"
      BY <2>1, <3>1 DEF RwIInv, RwInv2, MadeOK
    <3> QED
      BY <1>3, <3>2 DEF Goes
  <2> QED
    BY <2>1, <2>2 DEF RwIInv, RwInv2, MadeOK
<1> QED
  BY <1>2, <1>4, <1>5, <1>6 DEF RwIInv, RwInv2
----------------------------------------------------------------------------
(* What the steps inside of a call do to the ledger.                       *)

LEMMA InsideClaims ==
    ASSUME RwIInv, NEW c \in Task, c = knl.curr, rwcall[c].at \in Inside,
           NEW op, NEW at, NEW got, Goes(op, at, got), share' = share
    PROVE  /\ \A t \in Task \ {c} :
                 /\ Twin(t) /\ ~WaitsToWrite(t) /\ ~WaitsToRead(t)
                 /\ ~WaitsToWrite(t)' /\ ~WaitsToRead(t)'
           /\ share[c] = "none" /\ share'[c] = "none"
           /\ rwcall'[c].op = op /\ rwcall'[c].at = at /\ rwcall'[c].got = got
<1>1. ASSUME NEW t \in Task \ {c}
      PROVE  /\ Twin(t) /\ ~WaitsToWrite(t) /\ ~WaitsToRead(t)
             /\ ~WaitsToWrite(t)' /\ ~WaitsToRead(t)'
  <2>1. Twin(t)
    BY GoesTwin
  <2>2. rwcall[t].at \notin Inside
    BY Solo
  <2>3. ~WaitsToWrite(t) /\ ~WaitsToRead(t)
    BY <2>2, WaiterInside DEF RwIInv, RwInv2, Inside, WaitsToRead
  <2> QED
    BY <2>1, <2>3, TwinClaims
<1>2. rwcall[c] # NoCall
  BY DEF NoCall, Inside, Loop
<1>3. share[c] = "none"
  BY <1>2 DEF RwIInv, RwInv2, Shaped
<1> QED
  BY <1>1, <1>3 DEF Goes

(* Nothing but the place changes.                                          *)
LEMMA QuietLedger ==
    ASSUME RwIInv, knl.curr \in Task, Me.at \in Inside, NEW at \in Inside,
           Goes(Me.op, at, Me.got), share' = share, rw' = rw, Me.op \notin Posting,
           Me.op = "wpend" => (Me.at \in Loop <=> at \in Loop),
           Me.op = "rpend" /\ at \in Loop => ~NoWriters
    PROVE  Ledger'
<1> PICK c \in Task : c = knl.curr
  OBVIOUS
<1> DEFINE op == rwcall[c].op
<1>1. /\ \A t \in Task \ {c} : Twin(t) /\ ~WaitsToRead(t)'
      /\ share'[c] = share[c] /\ rwcall'[c].op = op /\ rwcall'[c].at = at
      /\ rwcall'[c].got = rwcall[c].got /\ rwcall[c].at \in Inside /\ op \notin Posting
  BY InsideClaims DEF Me
<1>2. ASSUME NEW t \in Task \ {c}
      PROVE  /\ Reads(t)' <=> Reads(t)
             /\ Writes(t)' <=> Writes(t)
             /\ WaitsToWrite(t)' <=> WaitsToWrite(t)
             /\ WaitsToRead(t)' => ~NoWriters
  BY <1>1, TwinClaims
<1>3. /\ Reads(c)' <=> Reads(c)
      /\ Writes(c)' <=> Writes(c)
  BY <1>1 DEF Reads, Writes, Has, Leaves
<1>4. WaitsToWrite(c)' <=> WaitsToWrite(c)
  BY <1>1 DEF WaitsToWrite, Inside, Loop, Me
<1>5. WaitsToRead(c)' => ~NoWriters
  BY <1>1 DEF WaitsToRead, Me
<1> QED
  BY <1>2, <1>3, <1>4, <1>5, LedgerSame DEF RwIInv, RwInv2

(* A reader comes in.                                                      *)
LEMMA ReadLedger ==
    ASSUME RwIInv, knl.curr \in Task, Me.at = "held", Me.op \in {"rpend", "rpend_try"},
           Goes(Me.op, "post", "read"), share' = share, NoWriters,
           rw' = [rw EXCEPT !.readers = @ + 1]
    PROVE  Ledger'
<1> PICK c \in Task : c = knl.curr
  OBVIOUS
<1>1. /\ \A t \in Task \ {c} : Twin(t) /\ ~WaitsToRead(t)' /\ ~WaitsToWrite(t)'
      /\ share[c] = "none" /\ share'[c] = "none"
      /\ rwcall'[c].op = rwcall[c].op /\ rwcall'[c].at = "post" /\ rwcall'[c].got = "read"
  BY InsideClaims DEF Me, Inside
<1>2. rw \in [made : BOOLEAN, readers : Nat, writers : Nat, writing : BOOLEAN,
              excess : SUBSET Task]
  BY DEF RwIInv, RwInv2, RwType
<1>3. /\ rw'.readers = rw.readers + 1 /\ rw'.writers = 0 /\ rw'.writing = FALSE
      /\ rw.writers = 0 /\ rw.writing = FALSE /\ rw.readers \in Nat
  BY <1>2 DEF NoWriters
<1>4. \A t \in Task \ {c} : (Reads(t)' <=> Reads(t)) /\ (Writes(t)' <=> Writes(t))
  BY <1>1, <1>3, TwinClaims
<1>5. rwcall[c].got = "none"
  BY DEF RwIInv, RwInv2, Shaped, Me
<1>6. ~Reads(c) /\ Reads(c)' /\ ~Writes(c)' /\ ~WaitsToRead(c)' /\ ~WaitsToWrite(c)'
  BY <1>1, <1>5 DEF Me, Reads, Writes, Has, Leaves, Posting, WaitsToRead, WaitsToWrite, Loop
<1>7. Readers' = Readers \cup {c} /\ c \notin Readers
  BY <1>4, <1>6 DEF Readers
<1>8. IsFiniteSet(Readers) /\ Cardinality(Readers) <= rw.readers
      /\ (Calm => Cardinality(Readers) = rw.readers)
  BY DEF RwIInv, RwInv2, Ledger
<1>9. IsFiniteSet(Readers') /\ Cardinality(Readers') = Cardinality(Readers) + 1
      /\ Cardinality(Readers) \in Nat
  BY <1>7, <1>8, FS_AddElement, FS_CardinalityType
<1>10. Calm' <=> Calm
  BY DEF Calm, SuspendUsed, DestroyUsed
<1>11. \A t \in Task : ~Writes(t)' /\ ~WaitsToRead(t)' /\ ~WaitsToWrite(t)'
  BY <1>1, <1>3, <1>4, <1>6 DEF RwIInv, RwInv2, Ledger
<1> QED
  BY <1>3, <1>8, <1>9, <1>10, <1>11 DEF Ledger, WaitsToRead

(* A writer comes in.                                                      *)
LEMMA WriteLedger ==
    ASSUME RwIInv, knl.curr \in Task, Me.at \in Inside, Me.op \in {"wpend", "wpend_try"},
           Goes(Me.op, "post", "write"), share' = share, Free,
           rw'.readers = rw.readers, rw'.writing = TRUE, rw'.writers = 0
    PROVE  Ledger'
<1> PICK c \in Task : c = knl.curr
  OBVIOUS
<1>1. /\ \A t \in Task \ {c} : Twin(t) /\ ~WaitsToRead(t)' /\ ~WaitsToWrite(t)'
      /\ share[c] = "none" /\ share'[c] = "none"
      /\ rwcall'[c].op = rwcall[c].op /\ rwcall'[c].at = "post" /\ rwcall'[c].got = "write"
  BY InsideClaims DEF Me
<1>2. IsFiniteSet(Readers) /\ Cardinality(Readers) <= rw.readers /\ rw.readers = 0
  BY DEF RwIInv, RwInv2, Ledger, Free
<1>3. Readers = {}
  BY <1>2, FS_CardinalityType, FS_EmptySet
<1>4. \A t \in Task : ~Reads(t) /\ ~Writes(t)
  BY <1>3 DEF Readers, Free, RwIInv, RwInv2, Ledger
<1>5. ASSUME NEW t \in Task \ {c} PROVE ~Reads(t)' /\ ~Writes(t)'
  <2>1. /\ Has(t, "read")' <=> Has(t, "read")
        /\ Has(t, "write")' <=> Has(t, "write")
        /\ Leaves(t)' <=> Leaves(t)
        /\ rwcall'[t].op = rwcall[t].op
    BY <1>1, TwinClaims DEF Twin, SameCall
  <2>2. /\ ~Has(t, "read") /\ ~Has(t, "write")
        /\ Leaves(t) => rwcall[t].op \notin {"rpost", "wpost", "post"}
    BY <1>4 DEF Reads, Writes, Free
  <2> QED
    BY <2>1, <2>2 DEF Reads, Writes
<1>6. Writes(c)' /\ ~Reads(c)' /\ ~WaitsToRead(c)' /\ ~WaitsToWrite(c)'
  BY <1>1 DEF Me, Reads, Writes, Has, Leaves, Posting, WaitsToRead, WaitsToWrite, Loop
<1>7. Readers' = {}
  BY <1>5, <1>6 DEF Readers
<1>8. IsFiniteSet(Readers') /\ Cardinality(Readers') = 0
  BY <1>7, FS_EmptySet
<1>9. \A t \in Task : ~Reads(t)' /\ ~WaitsToRead(t)' /\ ~WaitsToWrite(t)'
  BY <1>1, <1>5, <1>6
<1>10. \A t \in Task : Writes(t)' <=> t = c
  BY <1>5, <1>6
<1> QED
  BY <1>2, <1>8, <1>9, <1>10 DEF Ledger, WaitsToRead

(* A writer begins to wait, or gives up.                                   *)
LEMMA QueueLedger ==
    ASSUME RwIInv, knl.curr \in Task, Me.at \in {"held", "fail"}, Me.op = "wpend",
           NEW at \in {"first", "post"}, Goes(Me.op, at, Me.got), share' = share,
           Me.at = "held" <=> at = "first",
           rw' = [rw EXCEPT !.writers = IF at = "first" THEN @ + 1 ELSE @ - 1]
    PROVE  Ledger' /\ rw'.writers \in {0, 1}
<1> PICK c \in Task : c = knl.curr
  OBVIOUS
<1>1. /\ \A t \in Task \ {c} : /\ Twin(t) /\ ~WaitsToRead(t)' /\ ~WaitsToWrite(t)'
                               /\ ~WaitsToWrite(t)
      /\ share[c] = "none" /\ share'[c] = "none"
      /\ rwcall'[c].op = "wpend" /\ rwcall'[c].at = at /\ rwcall'[c].got = rwcall[c].got
  BY InsideClaims DEF Me, Inside, Loop
<1>2. rw \in [made : BOOLEAN, readers : Nat, writers : Nat, writing : BOOLEAN,
              excess : SUBSET Task]
  BY DEF RwIInv, RwInv2, RwType
<1>3. /\ WaitsToWrite(c) <=> Me.at = "fail"
      /\ WaitsToWrite(c)' <=> at = "first"
      /\ ~WaitsToRead(c)'
  BY <1>1 DEF WaitsToWrite, WaitsToRead, Me
<1>4. rw.writers = IF Me.at = "fail" THEN 1 ELSE 0
  BY <1>1, <1>3 DEF RwIInv, RwInv2, Ledger
<1>5. /\ rw'.writers = IF at = "first" THEN 1 ELSE 0
      /\ rw'.readers = rw.readers /\ rw'.writing = rw.writing
  BY <1>2, <1>4
<1>6. /\ Reads(c)' <=> Reads(c)
      /\ Writes(c)' <=> Writes(c)
  BY <1>1, <1>5 DEF Me, Reads, Writes, Has, Leaves, Posting
<1>7. \A t \in Task : (Reads(t)' <=> Reads(t)) /\ (Writes(t)' <=> Writes(t))
  BY <1>1, <1>5, <1>6, TwinClaims
<1>8. Readers' = Readers
  BY <1>7 DEF Readers
<1>9. Calm' <=> Calm
  BY DEF Calm, SuspendUsed, DestroyUsed
<1>10. \A t \in Task : ~WaitsToRead(t)' /\ (WaitsToWrite(t)' <=> t = c /\ at = "first")
  BY <1>1, <1>3
<1> QED
  BY <1>5, <1>7, <1>8, <1>9, <1>10 DEF RwIInv, RwInv2, Ledger, WaitsToRead

(* The lock is given back: whoever does so had it.                         *)
LEMMA LeaveLedger ==
    ASSUME RwIInv, knl.curr \in Task, Me.at = "held", Me.op \in Posting,
           Goes(Me.op, "post", Me.got), share' = share,
           rw' = IF LeavesReader THEN [rw EXCEPT !.readers = @ - 1]
                 ELSE IF LeavesWriter THEN [rw EXCEPT !.writing = FALSE] ELSE rw
    PROVE  Ledger' /\ (LeavesReader => rw.readers - 1 \in Nat)
<1> PICK c \in Task : c = knl.curr
  OBVIOUS
<1>1. /\ \A t \in Task \ {c} : /\ Twin(t) /\ ~WaitsToRead(t)' /\ ~WaitsToWrite(t)'
                               /\ ~WaitsToWrite(t)
      /\ share[c] = "none" /\ share'[c] = "none"
      /\ rwcall'[c].op = rwcall[c].op /\ rwcall'[c].at = "post"
      /\ rwcall'[c].got = rwcall[c].got
  BY InsideClaims DEF Me, Inside
<1>2. rw \in [made : BOOLEAN, readers : Nat, writers : Nat, writing : BOOLEAN,
              excess : SUBSET Task]
  BY DEF RwIInv, RwInv2, RwType
<1>3. rwcall[c].got = "none" /\ rwcall[c].op \in Posting /\ rwcall[c].at = "held"
  BY DEF RwIInv, RwInv2, Shaped, Me
<1>4. ~Reads(c)' /\ ~Writes(c)' /\ ~WaitsToRead(c)' /\ ~WaitsToWrite(c)' /\ ~WaitsToWrite(c)
  BY <1>1, <1>3 DEF Reads, Writes, Has, Leaves, WaitsToRead, WaitsToWrite, Loop, Posting
<1>5. /\ Leaves(c) /\ ~Has(c, "read") /\ ~Has(c, "write")
  BY <1>1, <1>3 DEF Leaves, Has
<1>6. /\ IsFiniteSet(Readers) /\ Cardinality(Readers) <= rw.readers
      /\ Calm => Cardinality(Readers) = rw.readers
      /\ rw.writers = 0
  BY <1>1, <1>4 DEF RwIInv, RwInv2, Ledger
<1>7. (Calm' <=> Calm) /\ \A t \in Task : ~WaitsToRead(t)' /\ ~WaitsToWrite(t)'
  BY <1>1, <1>4 DEF Calm, SuspendUsed, DestroyUsed
<1>8. CASE Reads(c)
  <2>1. c \in Readers /\ ~rw.writing
    BY <1>8 DEF Readers, RwIInv, RwInv2, Ledger
  <2>2. Cardinality(Readers \ {c}) = Cardinality(Readers) - 1 /\ IsFiniteSet(Readers \ {c})
        /\ Cardinality(Readers) \in Nat /\ Cardinality(Readers \ {c}) \in Nat
    BY <1>6, <2>1, FS_RemoveElement, FS_CardinalityType
  <2>3. rw.readers > 0 /\ rw.readers \in Nat
    BY <1>2, <1>6, <2>2
  <2>4. rwcall[c].op \in {"rpost", "post"}
    BY <1>5, <1>8, <2>1 DEF Reads
  <2>5. LeavesReader
    BY <2>3, <2>4 DEF LeavesReader, Me
  <2>6. /\ rw'.readers = rw.readers - 1 /\ rw'.writers = 0 /\ rw'.writing = FALSE
        /\ rw.writing = FALSE
    BY <1>2, <1>6, <2>1, <2>5
  <2>7. \A t \in Task \ {c} : (Reads(t)' <=> Reads(t)) /\ (Writes(t)' <=> Writes(t))
    BY <1>1, <2>6, TwinClaims
  <2>8. Readers' = Readers \ {c}
    BY <1>4, <2>7 DEF Readers
  <2>9. \A t \in Task : ~Writes(t)'
    BY <1>4, <2>6, <2>7 DEF RwIInv, RwInv2, Ledger
  <2> QED
    BY <1>6, <1>7, <2>2, <2>3, <2>6, <2>8, <2>9 DEF Ledger, WaitsToRead
<1>9. CASE Writes(c)
  <2>1. /\ rw.writing /\ rw.readers = 0 /\ \A t \in Task \ {c} : ~Writes(t)
        /\ \A t \in Task : ~Reads(t)
    BY <1>9 DEF RwIInv, RwInv2, Ledger
  <2>2. rwcall[c].op \in {"wpost", "post"}
    BY <1>5, <1>9 DEF Writes
  <2>3. LeavesWriter /\ ~LeavesReader
    BY <2>1, <2>2 DEF LeavesReader, LeavesWriter, Me
  <2>4. rw'.readers = 0 /\ rw'.writers = 0 /\ rw'.writing = FALSE
    BY <1>2, <1>6, <2>1, <2>3
  <2>5. ASSUME NEW t \in Task \ {c} PROVE ~Reads(t)' /\ ~Writes(t)'
    <3>1. /\ Has(t, "read")' <=> Has(t, "read")
          /\ Has(t, "write")' <=> Has(t, "write")
          /\ Leaves(t)' <=> Leaves(t)
          /\ rwcall'[t].op = rwcall[t].op
      BY <1>1, TwinClaims DEF Twin, SameCall
    <3>2. /\ ~Has(t, "read") /\ ~Has(t, "write")
          /\ Leaves(t) => rwcall[t].op \notin {"rpost", "wpost", "post"}
      BY <2>1 DEF Reads, Writes
    <3> QED
      BY <3>1, <3>2 DEF Reads, Writes
  <2>6. Readers' = {} /\ \A t \in Task : ~Reads(t)' /\ ~Writes(t)'
    BY <1>4, <2>5 DEF Readers
  <2>7. IsFiniteSet(Readers') /\ Cardinality(Readers') = 0
    BY <2>6, FS_EmptySet
  <2> QED
    BY <1>7, <2>3, <2>4, <2>6, <2>7 DEF Ledger, WaitsToRead
<1>10. Reads(c) \/ Writes(c)
  BY <1>3, <1>5 DEF Reads, Writes, Posting
<1> QED
  BY <1>8, <1>9, <1>10
----------------------------------------------------------------------------
(* The steps of a call between taking the mutex and giving it back.        *)

RwRecord == [made : BOOLEAN, readers : Nat, writers : Nat, writing : BOOLEAN,
             excess : SUBSET Task]

LEMMA Here ==
    ASSUME RwIInv, NEW place \in Inside, At(place)
    PROVE  /\ TaskRuns /\ knl.curr \in Task /\ knl.curr \in knl.obj /\ ~InPend(knl.curr)
           /\ Me.at = place /\ Me \in CallType /\ RwType /\ rw \in RwRecord
           /\ Me.op \in Timed \cup Trying \cup Posting
           /\ place \in Loop => Me.op \in Timed
           /\ place # "post" => Me.got = "none"
<1>1. TaskRuns /\ Me.at = place
  BY DEF At
<1>2. /\ knl.curr \in Task /\ ~InPend(knl.curr) /\ knl.curr \in knl.obj
      /\ rwcall[knl.curr] \in CallType
  BY <1>1, Runner
<1>3. Me.op \notin {"none", "create", "destroy"}
  BY <1>1, <1>2 DEF RwIInv, RwInv2, Shaped, Me, Inside, Loop, NoCall
<1>4. Me.op \in Timed \cup Trying \cup Posting
  BY <1>2, <1>3 DEF CallType, Me
<1>5. (place \in Loop => Me.op \in Timed) /\ (place # "post" => Me.got = "none")
  BY <1>1, <1>2 DEF RwIInv, RwInv2, Shaped, Me
<1> QED
  BY <1>1, <1>2, <1>4, <1>5 DEF RwIInv, RwInv2, RwType, RwRecord, Me

LEMMA MildStep ==
    ASSUME RwIInv, NEW place \in Inside, At(place), Mild,
           NEW at \in Inside \ {"sleep"}, NEW got, Goes(Me.op, at, got),
           at \in Loop => Me.op \in Timed,
           got # "none" => at = "post" /\ Me.op \in Timed \cup Trying,
           rw' \in RwRecord, rw'.excess = rw.excess, rw'.made = rw.made, share' = share,
           Ledger'
    PROVE  RwIInv'
<1>1. /\ knl.curr \in Task /\ knl.curr \in knl.obj /\ ~InPend(knl.curr) /\ Me.at \in Inside
      /\ RwType
  BY Here
<1>2. ~InPendNext(knl.curr)
  BY <1>1 DEF Mild, Unmoved
<1>3. RwType'
  BY <1>1 DEF RwType, RwRecord, Goes
<1> QED
  BY <1>1, <1>2, <1>3, InsideStep DEF Mild

LEMMA StillMild == ASSUME RwIInv, NoKernelChange PROVE Mild
  BY RestMild DEF NoKernelChange, vars

LEMMA LoopLedger ==
    ASSUME RwIInv, knl.curr \in Task, Me.at \in Loop, Me.op \in Timed, NEW at \in Loop,
           Goes(Me.op, at, Me.got), share' = share, rw' = rw
    PROVE  Ledger'
<1>1. Me.op \notin Posting /\ Me.at \in Inside /\ at \in Inside
  BY DEF Timed, Posting, Inside
<1>2. Me.op = "rpend" => ~NoWriters
  BY DEF RwIInv, RwInv2, Ledger, Me
<1> QED
  BY <1>1, <1>2, QuietLedger

LEMMA ReadKeeps == RwIInv /\ Read => RwIInv'
<1> SUFFICES ASSUME RwIInv, Read PROVE RwIInv'
  OBVIOUS
<1>1. /\ "held" \in Inside /\ "post" \in Inside \ {"sleep"} /\ "first" \in Inside \ {"sleep"}
      /\ "post" \notin Loop
  BY DEF Inside, Loop
<1>2. /\ At("held") /\ Me.op \in {"rpend", "rpend_try"} /\ Mild /\ share' = share
  BY StillMild DEF Read
<1>3. /\ knl.curr \in Task /\ Me.at = "held" /\ RwType /\ rw \in RwRecord
      /\ Me.got = "none"
  BY <1>1, <1>2, Here
<1>4. CASE NoWriters
  <2>1. rw' = [rw EXCEPT !.readers = @ + 1] /\ Granted_("read")
    BY <1>4 DEF Read
  <2>2. Goes(Me.op, "post", "read")
    BY <1>3, <2>1, GrantGoes
  <2>3. Ledger'
    BY <1>2, <1>3, <1>4, <2>1, <2>2, ReadLedger
  <2>4. rw' \in RwRecord /\ rw'.excess = rw.excess /\ rw'.made = rw.made
    BY <1>3, <2>1 DEF RwRecord
  <2>5. Me.op \in Timed \cup Trying
    BY <1>2 DEF Timed, Trying
  <2> QED
    BY <1>1, <1>2, <2>2, <2>3, <2>4, <2>5, MildStep
<1>5. CASE ~NoWriters
  <2> DEFINE at == IF Me.op = "rpend" THEN "first" ELSE "post"
  <2>1. rw' = rw /\ GoTo(at)
    BY <1>5 DEF Read
  <2>2. at \in Inside \ {"sleep"} /\ (at \in Loop => Me.op = "rpend")
    BY <1>1
  <2> HIDE DEF at
  <2>3. Goes(Me.op, at, Me.got)
    BY <1>3, <2>1, <2>2, GoToGoes
  <2>4. Me.op \notin Posting /\ "rpend" \in Timed
    BY <1>2 DEF Posting, Timed
  <2>5. Ledger'
    BY <1>1, <1>2, <1>3, <1>5, <2>1, <2>2, <2>3, <2>4, QuietLedger
  <2> QED
    BY <1>1, <1>2, <1>3, <2>1, <2>2, <2>3, <2>4, <2>5, MildStep
<1> QED
  BY <1>4, <1>5

LEMMA WriteKeeps == RwIInv /\ (Write \/ WriteTry) => RwIInv'
<1> SUFFICES ASSUME RwIInv, Write \/ WriteTry PROVE RwIInv'
  OBVIOUS
<1>1. /\ "held" \in Inside /\ "post" \in Inside \ {"sleep"} /\ "first" \in Inside \ {"sleep"}
      /\ "post" \notin Loop /\ "wpend" \in Timed /\ "wpend_try" \in Timed \cup Trying
      /\ "wpend_try" \notin Posting
  BY DEF Inside, Loop, Timed, Trying, Posting
<1>2. /\ At("held") /\ Me.op \in {"wpend", "wpend_try"} /\ Mild /\ share' = share
  BY StillMild DEF Write, WriteTry
<1>3. /\ knl.curr \in Task /\ Me.at = "held" /\ RwType /\ rw \in RwRecord
      /\ Me.got = "none"
  BY <1>1, <1>2, Here
<1>4. CASE Write
  <2>1. /\ rw' = [rw EXCEPT !.writers = @ + 1] /\ GoTo("first") /\ Me.op = "wpend"
    BY <1>4 DEF Write
  <2>2. Goes(Me.op, "first", Me.got)
    BY <1>1, <1>3, <2>1, GoToGoes
  <2>3. Ledger'
    BY <1>2, <1>3, <2>1, <2>2, QueueLedger
  <2>4. rw' \in RwRecord /\ rw'.excess = rw.excess /\ rw'.made = rw.made
    BY <1>3, <2>1 DEF RwRecord
  <2> QED
    BY <1>1, <1>2, <1>3, <2>1, <2>2, <2>3, <2>4, MildStep
<1>5. CASE WriteTry /\ Free
  <2>1. /\ rw' = [rw EXCEPT !.writing = TRUE] /\ Granted_("write") /\ Me.op = "wpend_try"
    BY <1>5 DEF WriteTry
  <2>2. Goes(Me.op, "post", "write")
    BY <1>3, <2>1, GrantGoes
  <2>3. rw' \in RwRecord /\ rw'.excess = rw.excess /\ rw'.made = rw.made
        /\ rw'.readers = rw.readers /\ rw'.writing = TRUE /\ rw'.writers = rw.writers
    BY <1>3, <2>1 DEF RwRecord
  <2>4. \A t \in Task \ {knl.curr} : ~WaitsToWrite(t)
    BY <1>1, <1>2, <1>3, <2>2, InsideClaims DEF Me
  <2>5. ~WaitsToWrite(knl.curr)
    BY <2>1 DEF WaitsToWrite, Me
  <2>6. rw'.writers = 0
    BY <2>3, <2>4, <2>5 DEF RwIInv, RwInv2, Ledger
  <2>7. Ledger'
    BY <1>1, <1>2, <1>3, <1>5, <2>2, <2>3, <2>6, WriteLedger
  <2> QED
    BY <1>1, <1>2, <2>1, <2>2, <2>3, <2>7, MildStep
<1>6. CASE WriteTry /\ ~Free
  <2>1. rw' = rw /\ GoTo("post") /\ Me.op = "wpend_try"
    BY <1>6 DEF WriteTry
  <2>2. Goes(Me.op, "post", Me.got)
    BY <1>1, <1>3, <2>1, GoToGoes
  <2>3. Ledger'
    BY <1>1, <1>2, <1>3, <2>1, <2>2, QuietLedger
  <2> QED
    BY <1>1, <1>2, <1>3, <2>1, <2>2, <2>3, MildStep
<1> QED
  BY <1>4, <1>5, <1>6

LEMMA LeaveKeeps == RwIInv /\ Leave => RwIInv'
<1> SUFFICES ASSUME RwIInv, Leave PROVE RwIInv'
  OBVIOUS
<1>1. "held" \in Inside /\ "post" \in Inside \ {"sleep"} /\ "post" \notin Loop
  BY DEF Inside, Loop
<1>2. /\ At("held") /\ Me.op \in Posting /\ share' = share /\ GoTo("post")
      /\ rw' = IF LeavesReader THEN [rw EXCEPT !.readers = @ - 1]
               ELSE IF LeavesWriter THEN [rw EXCEPT !.writing = FALSE] ELSE rw
  BY DEF Leave
<1>3. /\ knl.curr \in Task /\ Me.at = "held" /\ RwType /\ rw \in RwRecord
      /\ Me.got = "none"
  BY <1>1, <1>2, Here
<1>4. Mild
  <2>1. CASE (LeavesReader /\ rw.readers = 1) \/ LeavesWriter
    BY <2>1, SignalMild DEF Leave
  <2>2. CASE ~((LeavesReader /\ rw.readers = 1) \/ LeavesWriter)
    BY <2>2, StillMild DEF Leave, NoKernelChange, NoMutexChange
  <2> QED
    BY <2>1, <2>2
<1>5. Goes(Me.op, "post", Me.got)
  BY <1>1, <1>2, <1>3, GoToGoes
<1>6. Ledger' /\ (LeavesReader => rw.readers - 1 \in Nat)
  BY <1>2, <1>3, <1>5, LeaveLedger
<1>7. rw' \in RwRecord /\ rw'.excess = rw.excess /\ rw'.made = rw.made
  BY <1>2, <1>3, <1>6 DEF RwRecord
<1> QED
  BY <1>1, <1>2, <1>3, <1>4, <1>5, <1>6, <1>7, MildStep

LEMMA RemainKeeps == RwIInv /\ (Remain \/ RemainRead) => RwIInv'
<1> SUFFICES ASSUME RwIInv, Remain \/ RemainRead PROVE RwIInv'
  OBVIOUS
<1> DEFINE Places == {"first", "again", "read1", "read2"}
           Nexts  == {"wait", "fail", "read1", "read2"}
<1>1. Places \subseteq Loop /\ Nexts \subseteq Loop \ {"sleep"} /\ Loop \subseteq Inside
      /\ 1 \in Nat
  BY DEF Inside, Loop
<1>2. Mild /\ share' = share /\ rw' = rw
  BY StillMild DEF Remain, RemainRead
<1>3. PICK place \in Places : At(place)
  BY DEF Remain, RemainRead
<1>4. /\ knl.curr \in Task /\ Me.at = place /\ RwType /\ rw \in RwRecord /\ Me \in CallType
      /\ Me.got = "none" /\ Me.op \in Timed
  <2>1. place \in Inside /\ place \in Loop /\ place # "post"
    BY <1>1
  <2> QED
    BY <1>3, <2>1, Here
<1>5. \E at \in Nexts : Goes(Me.op, at, Me.got)
  <2>1. ASSUME NEW at \in Nexts, GoTo(at) PROVE Goes(Me.op, at, Me.got)
    BY <1>1, <1>4, <2>1, GoToGoes
  <2>2. ASSUME NEW at \in Nexts, NEW n \in Nat,
               rwcall' = [rwcall EXCEPT ![knl.curr].at = at, ![knl.curr].timeout = n]
        PROVE  Goes(Me.op, at, Me.got)
    <3>1. at \in Inside
      BY <1>1
    <3> QED
      BY <1>4, <2>2, <3>1, RetimeGoes
  <2>3. CASE Remain
    <3>1. \/ \E at \in Nexts : GoTo(at)
          \/ rwcall' = [rwcall EXCEPT ![knl.curr].at = "wait", ![knl.curr].timeout = 1]
      BY <2>3 DEF Remain
    <3>2. "wait" \in Nexts
      OBVIOUS
    <3> QED
      BY <1>1, <2>1, <2>2, <3>1, <3>2
  <2>4. CASE RemainRead
    <3> DEFINE rest == IF Me.left < 0 THEN Forever ELSE Me.left
               n    == IF rest = 0 THEN 1 ELSE rest
               at   == IF Me.at = "read2" /\ rest = 0 THEN "fail" ELSE "wait"
    <3>1. n \in Nat /\ at \in Nexts
      BY <1>4, TimeAssumption DEF CallType, Forever
    <3>2. rwcall' = [rwcall EXCEPT ![knl.curr].at = at, ![knl.curr].timeout = n]
      BY <2>4 DEF RemainRead
    <3> HIDE DEF n, at
    <3> QED
      BY <2>2, <3>1, <3>2
  <2> QED
    BY <2>3, <2>4
<1>6. PICK at \in Nexts : Goes(Me.op, at, Me.got)
  BY <1>5
<1>7. at \in Loop /\ at \in Inside \ {"sleep"} /\ place \in Inside /\ Me.at \in Loop
  BY <1>1, <1>4
<1>8. Ledger'
  BY <1>2, <1>4, <1>6, <1>7, LoopLedger
<1> QED
  BY <1>2, <1>3, <1>4, <1>6, <1>7, <1>8, MildStep

LEMMA WaitOverKeeps == RwIInv /\ WaitOver => RwIInv'
<1> SUFFICES ASSUME RwIInv, WaitOver PROVE RwIInv'
  OBVIOUS
<1>1. /\ "wait" \in Inside /\ "wait" \in Loop /\ "post" \in Inside \ {"sleep"}
      /\ "post" \notin Loop
  BY DEF Inside, Loop
<1>2. At("wait") /\ ~MustWait /\ Mild /\ share' = share
  BY StillMild DEF WaitOver
<1>3. /\ knl.curr \in Task /\ Me.at = "wait" /\ RwType /\ rw \in RwRecord
      /\ Me.op \in {"rpend", "wpend"}
  BY <1>1, <1>2, Here DEF Timed
<1>4. Me.op = "wpend" /\ Free
  BY <1>1, <1>2, <1>3 DEF MustWait, RwIInv, RwInv2, Ledger, Me
<1>5. rw' = [rw EXCEPT !.writing = TRUE, !.writers = @ - 1] /\ Granted_("write")
  BY <1>4 DEF WaitOver
<1>6. Goes(Me.op, "post", "write")
  BY <1>3, <1>5, GrantGoes
<1>7. rw.writers = 1
  BY <1>1, <1>3, <1>4, WaiterInside DEF RwIInv, RwInv2, Ledger, Me
<1>8. /\ rw' \in RwRecord /\ rw'.excess = rw.excess /\ rw'.made = rw.made
      /\ rw'.readers = rw.readers /\ rw'.writing = TRUE /\ rw'.writers = 0
  <2>1. rw.writers - 1 = 0 /\ 0 \in Nat
    BY <1>7
  <2>2. rw' = [rw EXCEPT !.writing = TRUE, !.writers = 0]
    BY <1>5, <2>1
  <2> QED
    BY <1>3, <2>2 DEF RwRecord
<1>9. Ledger'
  BY <1>1, <1>2, <1>3, <1>4, <1>6, <1>8, WriteLedger
<1>10. "wpend" \in Timed
  BY DEF Timed
<1> QED
  BY <1>1, <1>2, <1>4, <1>6, <1>8, <1>9, <1>10, MildStep

LEMMA TokenKeeps == RwIInv /\ WaitTakesToken => RwIInv'
<1> SUFFICES ASSUME RwIInv, WaitTakesToken PROVE RwIInv'
  OBVIOUS
<1>1. /\ "wait" \in Inside /\ "wait" \in Loop /\ "again" \in Inside \ {"sleep"}
      /\ "again" \in Loop
  BY DEF Inside, Loop
<1>2. At("wait") /\ Mild /\ share' = share /\ rw' = rw /\ GoTo("again")
  BY TakeMild DEF WaitTakesToken
<1>3. /\ knl.curr \in Task /\ Me.at = "wait" /\ RwType /\ rw \in RwRecord
      /\ Me.got = "none" /\ Me.op \in Timed
  BY <1>1, <1>2, Here
<1>4. Goes(Me.op, "again", Me.got)
  BY <1>1, <1>2, <1>3, GoToGoes
<1>5. Ledger'
  BY <1>1, <1>2, <1>3, <1>4, LoopLedger
<1> QED
  BY <1>1, <1>2, <1>3, <1>4, <1>5, MildStep

LEMMA SleepKeeps == RwIInv /\ WaitSleeps => RwIInv'
<1> SUFFICES ASSUME RwIInv, WaitSleeps PROVE RwIInv'
  OBVIOUS
<1>1. /\ "wait" \in Inside /\ "wait" \in Loop /\ "fail" \in Inside \ {"sleep"}
      /\ "fail" \in Loop /\ "sleep" \in Inside /\ "sleep" \in Loop
  BY DEF Inside, Loop
<1>2. At("wait") /\ share' = share /\ rw' = rw
  BY DEF WaitSleeps
<1>3. /\ knl.curr \in Task /\ Me.at = "wait" /\ RwType /\ rw \in RwRecord
      /\ Me.got = "none" /\ Me.op \in Timed /\ Me \in CallType /\ knl.curr \in knl.obj
  BY <1>1, <1>2, Here
<1>4. CASE NoKernelChange /\ GoTo("fail")
  <2>1. Mild
    BY <1>4, StillMild
  <2>2. Goes(Me.op, "fail", Me.got)
    BY <1>1, <1>3, <1>4, GoToGoes
  <2>3. Ledger'
    BY <1>1, <1>2, <1>3, <2>2, LoopLedger
  <2> QED
    BY <1>1, <1>2, <1>3, <2>1, <2>2, <2>3, MildStep
<1>5. CASE SemBlock(Signal, Me.timeout) /\ GoTo("sleep")
  <2>1. Me.timeout \in Nat /\ Signal \in Waitable \ Mutex
    BY <1>3, RwAssumption DEF CallType
  <2>2. /\ Base' /\ SameOwners(knl, knl') /\ knl'.obj = knl.obj
        /\ Alone(knl.curr) /\ Blocked(knl.curr, Signal)
    BY <1>5, <2>1, SemBlockBase DEF RwIInv
  <2>3. Goes(Me.op, "sleep", Me.got)
    BY <1>1, <1>3, <1>5, GoToGoes
  <2>4. Ledger'
    BY <1>1, <1>2, <1>3, <2>3, LoopLedger
  <2>5. \A t \in Task \ {knl.curr} : Undisturbed(t)
    BY <2>2, SteadySpares DEF Alone
  <2>6. InPendNext(knl.curr) /\ arg'[knl.curr] = Signal
    BY <2>2 DEF Blocked
  <2>7. RwType'
    BY <1>2, <1>3, <2>3 DEF RwType, Goes
  <2> QED
    BY <1>1, <1>2, <1>3, <2>2, <2>3, <2>4, <2>5, <2>6, <2>7, InsideStep
<1> QED
  BY <1>4, <1>5 DEF WaitSleeps

LEMMA WokenKeeps == RwIInv /\ WaitReturns => RwIInv'
<1> SUFFICES ASSUME RwIInv, WaitReturns PROVE RwIInv'
  OBVIOUS
<1> DEFINE at == IF pend_state2errno(knl.pendState[knl.curr]) = "K_ERR_NONE" THEN "again" ELSE "fail"
<1>1. at \in {"again", "fail"}
  OBVIOUS
<1>2. PendReturn /\ Me.at = "sleep" /\ GoTo(at) /\ share' = share /\ rw' = rw
  BY DEF WaitReturns, SemPendReturn
<1> HIDE DEF at
<1>3. at \in Inside /\ at \in Loop /\ at # "sleep" /\ "sleep" \in Loop /\ "sleep" \in Inside
  BY <1>1 DEF Inside, Loop
<1>4. /\ Base' /\ knl' = knl /\ knl.curr \in Task /\ Alone(knl.curr) /\ Left(knl.curr)
  BY <1>2, AnswerStep DEF RwIInv
<1>5. /\ RwType /\ Me.got = "none" /\ Me.op \in Timed /\ knl.curr \in knl.obj
  <2>1. rwcall[knl.curr] # NoCall
    BY <1>2 DEF Me, NoCall
  <2> QED
    BY <1>2, <1>3, <1>4, <2>1 DEF RwIInv, RwInv2, Shaped, Placed, Me
<1>6. Goes(Me.op, at, Me.got)
  BY <1>2, <1>3, <1>4, <1>5, GoToGoes
<1>7. Ledger'
  BY <1>2, <1>3, <1>4, <1>5, <1>6, LoopLedger
<1>8. \A t \in Task \ {knl.curr} : Undisturbed(t)
  BY <1>4, SteadySpares DEF Alone
<1>9. RwType' /\ ~InPendNext(knl.curr) /\ SameOwners(knl, knl')
  BY <1>2, <1>4, <1>5, <1>6 DEF RwType, Goes, Left, SameOwners
<1> QED
  BY <1>2, <1>3, <1>4, <1>5, <1>6, <1>7, <1>8, <1>9, InsideStep

LEMMA FailKeeps == RwIInv /\ WaitFails => RwIInv'
<1> SUFFICES ASSUME RwIInv, WaitFails PROVE RwIInv'
  OBVIOUS
<1>1. /\ "fail" \in Inside /\ "fail" \in Loop /\ "post" \in Inside \ {"sleep"}
      /\ "post" \notin Loop
  BY DEF Inside, Loop
<1>2. At("fail") /\ share' = share /\ GoTo("post")
  BY DEF WaitFails
<1>3. /\ knl.curr \in Task /\ Me.at = "fail" /\ RwType /\ rw \in RwRecord
      /\ Me.got = "none" /\ Me.op \in {"rpend", "wpend"}
  BY <1>1, <1>2, Here DEF Timed
<1>4. Goes(Me.op, "post", Me.got)
  BY <1>1, <1>2, <1>3, GoToGoes
<1>5. CASE Me.op = "wpend"
  <2>1. Mild /\ rw' = [rw EXCEPT !.writers = @ - 1]
    BY <1>5, SignalMild DEF WaitFails
  <2>2. Ledger' /\ rw'.writers \in {0, 1}
    BY <1>2, <1>3, <1>4, <1>5, <2>1, QueueLedger
  <2>3. rw' \in RwRecord /\ rw'.excess = rw.excess /\ rw'.made = rw.made
    BY <1>3, <2>1, <2>2 DEF RwRecord
  <2> QED
    BY <1>1, <1>2, <1>3, <1>4, <2>1, <2>2, <2>3, MildStep
<1>6. CASE Me.op = "rpend"
  <2>1. Mild /\ rw' = rw
    BY <1>6, StillMild DEF WaitFails, NoKernelChange, NoMutexChange
  <2>2. Me.op \notin Posting
    BY <1>6 DEF Posting
  <2>3. Ledger'
    BY <1>1, <1>2, <1>3, <1>4, <1>6, <2>1, <2>2, QuietLedger
  <2> QED
    BY <1>1, <1>2, <1>3, <1>4, <2>1, <2>3, MildStep
<1> QED
  BY <1>3, <1>5, <1>6
----------------------------------------------------------------------------
(* The steps at both ends of a call.                                       *)

LEMMA EdgeStep ==
    ASSUME RwIInv, NEW c \in Task, Base', RwType', rw.excess \subseteq rw'.excess,
           \A t \in Task \ {c} : Undisturbed(t) /\ LockKept(t) /\ Survives(t) /\ Twin(t),
           Shaped(c)', Placed(c)', MadeOK', Ledger'
    PROVE  RwIInv'
<1>1. \A t \in Task \ {c} : Shaped(t)' /\ Placed(t)'
  BY OthersPlaced
<1> QED
  BY <1>1 DEF RwIInv, RwInv2

LEMMA NoCallFields ==
    NoCall.op = "none" /\ NoCall.at = "none" /\ NoCall.got = "none" /\ NoCall \in CallType
  BY DEF NoCall, CallType

LEMMA EndShaped == ASSUME NEW t \in Task, rwcall'[t] = NoCall PROVE Shaped(t)'
  BY NoCallFields DEF Shaped, Loop

(* Nobody destroys the lock while somebody is in a call.                   *)
LEMMA NobodyDestroys ==
    ASSUME RwIInv, NEW c \in Task, rwcall[c].op \in Timed \cup Trying \cup Posting
    PROVE  rw.made /\ \A t \in Task : rwcall[t].op # "destroy"
<1>1. rwcall[c] # NoCall /\ rwcall[c].op \notin {"none", "create", "destroy"}
  BY DEF NoCall, Timed, Trying, Posting
<1>2. rw.made
  BY <1>1 DEF RwIInv, RwInv2, MadeOK
<1>3. \A t \in Task : rwcall[t].op # "destroy"
  BY <1>1 DEF RwIInv, RwInv2, MadeOK
<1> QED
  BY <1>2, <1>3

LEMMA SurvivesAll ==
    ASSUME knl.obj \cap Task \subseteq knl'.obj, NEW t \in Task PROVE Survives(t)
  BY DEF Survives

LEMMA TooManyKeeps == RwIInv /\ TooMany => RwIInv'
<1> SUFFICES ASSUME RwIInv, TooMany PROVE RwIInv'
  OBVIOUS
<1> PICK c \in Task : c = knl.curr
  BY Runner DEF TooMany, At
<1>1. /\ At("held") /\ "held" \in Inside /\ share' = share /\ EndCall
      /\ Me.op \in {"rpend", "rpend_try", "wpend"} /\ Mild
      /\ rw' = [rw EXCEPT !.excess = @ \cup {c}]
  BY StillMild DEF TooMany, Inside
<1>2. /\ ~InPend(c) /\ Me.at = "held" /\ RwType /\ rw \in RwRecord
      /\ Me.got = "none" /\ c \in knl.obj /\ Me.op \in Timed \cup Trying \cup Posting
  BY <1>1, Here
<1>3. Goes("none", "none", "none")
  BY <1>1, <1>2, EndGoes
<1>4. /\ rw' \in RwRecord /\ rw'.excess = rw.excess \cup {c} /\ rw'.made = rw.made
      /\ rw'.readers = rw.readers /\ rw'.writers = rw.writers /\ rw'.writing = rw.writing
  BY <1>1, <1>2 DEF RwRecord
<1>5. RwType'
  BY <1>1, <1>2, <1>3, <1>4 DEF RwType, RwRecord, Goes
<1>6. \A t \in Task \ {c} : Undisturbed(t) /\ LockKept(t) /\ Survives(t) /\ Twin(t)
  BY <1>1, <1>3, GoesTwin, SameSpares DEF Mild, Survives
<1>7. rwcall'[c] = NoCall
  BY <1>3 DEF Goes
<1>8. Placed(c)'
  <2>1. ~InPendNext(c) /\ c \in knl'.obj /\ c \in rw'.excess
    BY <1>1, <1>2, <1>4 DEF Mild, Unmoved
  <2>2. rwcall'[c].at = "none" /\ "none" \notin Inside
    BY <1>7, NoCallFields DEF Inside, Loop
  <2> QED
    BY <2>1, <2>2, ActorPlaced
<1>9. MadeOK'
  <2>1. /\ rw.made /\ \A t \in Task : rwcall[t].op # "destroy"
    BY <1>2, NobodyDestroys DEF Me
  <2>2. \A t \in Task : rwcall'[t].op # "destroy"
    BY <1>3, <2>1 DEF Goes
  <2> QED
    BY <1>1, <1>4, <2>1, <2>2 DEF RwIInv, RwInv2, MadeOK, Mild
<1>10. Ledger'
  <2>1. /\ \A t \in Task \ {c} : Twin(t) /\ ~WaitsToRead(t)'
        /\ share[c] = "none" /\ share'[c] = "none"
    BY <1>1, <1>2, <1>3, InsideClaims DEF Me
  <2>2. ~Reads(c) /\ ~Writes(c) /\ ~WaitsToWrite(c)
    BY <1>1, <1>2, <2>1 DEF Me, Reads, Writes, Has, Leaves, WaitsToWrite, Posting
  <2>3. ~Reads(c)' /\ ~Writes(c)' /\ ~WaitsToWrite(c)' /\ ~WaitsToRead(c)'
    BY <1>7, <2>1, NoCallFields
    DEF Reads, Writes, Has, Leaves, WaitsToWrite, WaitsToRead, Posting
  <2> QED
    BY <1>4, <2>1, <2>2, <2>3, TwinClaims, LedgerSame DEF RwIInv, RwInv2
<1>11. Base' /\ Shaped(c)' /\ rw.excess \subseteq rw'.excess
  BY <1>1, <1>4, <1>7, EndShaped DEF Mild
<1> QED
  BY <1>5, <1>6, <1>8, <1>9, <1>10, <1>11, EdgeStep

(* The mutex is given back, and who waits for it first has it.             *)
LEMMA PostPlaces ==
    ASSUME RwIInv, NEW c \in Task, c = knl.curr, At("post"),
           MutexPost(Lock), Goes("none", "none", "none"),
           \A t \in Task \ {c} : share'[t] = share[t], rw' = rw
    PROVE  /\ Base' /\ knl'.obj = knl.obj
           /\ \A t \in Task : Shaped(t)' /\ Placed(t)'
<1>1. ~InPend(c) /\ c \in knl.obj /\ Lock \in Mutex /\ Safe
  BY Here, RwAssumption DEF Inside, RwIInv, Base
<1>2. rwcall'[c] = NoCall /\ rwcall'[c].at = "none" /\ "none" \notin Inside
  BY NoCallFields DEF Goes, Inside, Loop
<1>3. \A t \in Task \ {c} : Twin(t)
  BY GoesTwin
<1>4. \A t \in Task : Shaped(t)'
  BY <1>2, <1>3, EndShaped, TwinShaped DEF RwIInv, RwInv2
<1>5. ASSUME knl'.obj = knl.obj, NEW t \in Task \ {c}, Undisturbed(t), knl.owner[Lock] = c,
             knl'.owner[Lock] # t
      PROVE  Placed(t)'
  <2>1. LockKept(t) /\ Survives(t) /\ SameCall(t)
    BY <1>3, <1>5 DEF LockKept, Survives, Twin
  <2> QED
    BY <1>1, <1>5, <2>1, PlacedStays DEF RwIInv, RwInv2
<1>6. ASSUME ~InPendNext(c), knl'.obj = knl.obj, knl'.owner[Lock] # c \/ c \in rw.excess
      PROVE  Placed(c)'
  BY <1>1, <1>2, <1>6, ActorPlaced
<1>7. /\ Base' /\ knl'.obj = knl.obj /\ knl.owner[Lock] = c
      /\ \/ (\A u \in Task : Steady(u)) /\ Changed(Lock, NoTask, 0)
         \/ \E t \in Waiters(knl, Lock) : Woke({t}, "POST") /\ Changed(Lock, t, 1)
  BY <1>1, MutexPostStep DEF RwIInv, MutexPost
<1>8. CASE (\A u \in Task : Steady(u)) /\ Changed(Lock, NoTask, 0)
  <2>1. knl'.owner[Lock] \notin Task /\ ~InPendNext(c)
    BY <1>1, <1>8, NullAssumption DEF Changed, Steady, Unmoved
  <2>2. \A t \in Task \ {c} : Placed(t)'
    BY <1>5, <1>7, <1>8, <2>1, SteadySpares
  <2> QED
    BY <1>4, <1>6, <1>7, <2>1, <2>2
<1>9. ASSUME NEW w \in Waiters(knl, Lock), Woke({w}, "POST"), Changed(Lock, w, 1)
      PROVE  \A t \in Task : Shaped(t)' /\ Placed(t)'
  <2>1. w \in Task /\ IsPending(knl, w) /\ InPend(w) /\ arg[w] = Lock /\ w # c
    BY <1>1 DEF Waiters, RwIInv, Base, WaitInv
  <2>2. knl'.owner[Lock] = w /\ knl'.nesting[Lock] = 1
    BY <1>9 DEF Changed
  <2>3. \A t \in Task \ {w} : Steady(t)
    BY <1>9 DEF Woke
  <2>4. ~InPendNext(c)
    BY <1>1, <2>1, <2>3 DEF Steady, Unmoved
  <2>5. \A t \in Task \ {c, w} : Placed(t)'
    BY <1>5, <1>7, <2>2, <2>3, SteadySpares
  <2>6. /\ InPendNext(w) /\ arg'[w] = Lock /\ knl'.pendState[w] = "POST"
        /\ ~IsSleeping(knl', w)
    BY <1>9, <2>1 DEF Woke, Ended, Unmoved
  <2>7. rwcall[w].at = "lock" /\ rwcall'[w].at = "lock" /\ Lock # Signal /\ "lock" \notin Inside
        /\ w \in knl.obj
    <3>1. rwcall[w].at = "lock"
      BY <2>1 DEF RwIInv, RwInv2, Placed
    <3>2. rwcall[w] # NoCall
      BY <3>1, NoCallFields
    <3> QED
      BY <2>1, <3>1, <3>2, RwAssumption DEF Goes, RwIInv, RwInv2, Placed, Inside, Loop
  <2>8. Placed(w)'
    BY <1>7, <2>2, <2>6, <2>7 DEF Placed, InPend, InPendNext
  <2> QED
    BY <1>4, <1>6, <1>7, <2>1, <2>2, <2>4, <2>5, <2>8
<1> QED
  BY <1>4, <1>7, <1>8, <1>9

LEMMA RwPostKeeps == RwIInv /\ RwPost => RwIInv'
<1> SUFFICES ASSUME RwIInv, RwPost PROVE RwIInv'
  OBVIOUS
<1> PICK c \in Task : c = knl.curr
  BY Runner DEF RwPost, At
<1>1. /\ At("post") /\ "post" \in Inside /\ EndCall /\ rw' = rw /\ MutexPost(Lock)
      /\ share' = IF rwcall[c].got = "none" THEN share ELSE [share EXCEPT ![c] = rwcall[c].got]
  BY DEF RwPost, Inside, Me
<1>2. /\ rwcall[c].at = "post" /\ RwType /\ rwcall[c].op \in Timed \cup Trying \cup Posting
      /\ rwcall[c] \in CallType
  BY <1>1, Here DEF Me
<1>3. Goes("none", "none", "none") /\ rwcall'[c] = NoCall
  BY <1>1, <1>2, EndGoes DEF Goes
<1>4. share[c] = "none"
  BY <1>2, NoCallFields DEF RwIInv, RwInv2, Shaped
<1>5. /\ share' \in [Task -> {"none", "read", "write"}] /\ share'[c] = rwcall[c].got
      /\ \A t \in Task \ {c} : share'[t] = share[t]
  BY <1>1, <1>2, <1>4 DEF RwType, CallType
<1>6. /\ Base' /\ knl'.obj = knl.obj
      /\ \A t \in Task : Shaped(t)' /\ Placed(t)'
  BY <1>1, <1>3, <1>5, PostPlaces
<1>7. RwType'
  BY <1>1, <1>2, <1>3, <1>5 DEF RwType, Goes
<1>8. MadeOK'
  <2>1. /\ rw.made /\ \A t \in Task : rwcall[t].op # "destroy"
    BY <1>2, NobodyDestroys
  <2>2. \A t \in Task : rwcall'[t].op # "destroy"
    BY <1>3, <2>1 DEF Goes
  <2> QED
    BY <1>1, <1>6, <2>1, <2>2 DEF RwIInv, RwInv2, MadeOK
<1>9. Ledger'
  <2>1. \A t \in Task \ {c} : Twin(t)
    BY <1>3, <1>5, GoesTwin
  <2>2. /\ Has(c, "read")' <=> Has(c, "read")
        /\ Has(c, "write")' <=> Has(c, "write")
    BY <1>3, <1>4, <1>5, NoCallFields DEF Has
  <2>3. ~Leaves(c) /\ ~WaitsToWrite(c)
    BY <1>2 DEF Leaves, WaitsToWrite
  <2>4. ~Leaves(c)' /\ ~WaitsToWrite(c)' /\ ~WaitsToRead(c)'
    BY <1>3, NoCallFields DEF Leaves, WaitsToWrite, WaitsToRead
  <2>5. /\ Reads(c)' <=> Reads(c)
        /\ Writes(c)' <=> Writes(c)
    BY <2>2, <2>3, <2>4 DEF Reads, Writes
  <2>6. ASSUME NEW t \in Task \ {c}
        PROVE  /\ Reads(t)' <=> Reads(t)
               /\ Writes(t)' <=> Writes(t)
               /\ WaitsToWrite(t)' <=> WaitsToWrite(t)
               /\ WaitsToRead(t)' => ~NoWriters
    BY <1>1, <2>1, TwinClaims DEF RwIInv, RwInv2, Ledger, WaitsToRead
  <2> QED
    BY <1>1, <2>3, <2>4, <2>5, <2>6, LedgerSame DEF RwIInv, RwInv2
<1> QED
  BY <1>6, <1>7, <1>8, <1>9 DEF RwIInv, RwInv2
(* A call asks for the mutex.                                              *)
LEMMA PendLedger ==
    ASSUME RwIInv, NEW c \in Task, c = knl.curr, Me = NoCall,
           NEW op \in Timed \cup Trying \cup Posting, NEW at \in {"held", "lock"},
           Goes(op, at, "none"), rw' = rw,
           share[c] \in (CASE op = "rpost" -> {"read"} [] op = "wpost" -> {"write"}
                           [] op = "post" -> {"read", "write"} [] OTHER -> {"none"}),
           share'[c] = "none", \A t \in Task \ {c} : share'[t] = share[t]
    PROVE  Ledger'
<1>1. ASSUME NEW t \in Task \ {c}
      PROVE  /\ Reads(t)' <=> Reads(t)
             /\ Writes(t)' <=> Writes(t)
             /\ WaitsToWrite(t)' <=> WaitsToWrite(t)
             /\ WaitsToRead(t)' => ~NoWriters
  BY GoesTwin, TwinClaims DEF RwIInv, RwInv2, Ledger, WaitsToRead
<1>2. /\ rwcall[c].op = "none" /\ rwcall[c].at = "none" /\ rwcall[c].got = "none"
      /\ rwcall'[c].op = op /\ rwcall'[c].at = at /\ rwcall'[c].got = "none"
  BY NoCallFields DEF Me, Goes
<1>3. ~WaitsToWrite(c) /\ ~WaitsToWrite(c)' /\ ~WaitsToRead(c)'
  BY <1>2 DEF WaitsToWrite, WaitsToRead, Loop
<1>4. /\ Reads(c) <=> share[c] = "read"
      /\ Writes(c) <=> share[c] = "write"
  BY <1>2 DEF Reads, Writes, Has, Leaves
<1>5. (Reads(c) => ~rw.writing) /\ (Writes(c) => rw.writing)
  BY DEF RwIInv, RwInv2, Ledger
<1>6. CASE op \in Posting
  <2>1. Leaves(c)' /\ ~Has(c, "read")' /\ ~Has(c, "write")'
    BY <1>2, <1>6 DEF Leaves, Has
  <2>2. /\ Reads(c)' <=> op = "rpost" \/ (op = "post" /\ ~rw.writing)
        /\ Writes(c)' <=> op = "wpost" \/ (op = "post" /\ rw.writing)
    BY <1>2, <2>1 DEF Reads, Writes
  <2>3. /\ op = "rpost" => share[c] = "read"
        /\ op = "wpost" => share[c] = "write"
        /\ op = "post" => share[c] \in {"read", "write"}
        /\ op \in {"rpost", "wpost", "post"}
    BY <1>6 DEF Posting
  <2>4. /\ Reads(c)' <=> Reads(c)
        /\ Writes(c)' <=> Writes(c)
    BY <1>4, <1>5, <2>2, <2>3
  <2> QED
    BY <1>1, <1>3, <2>4, LedgerSame DEF RwIInv, RwInv2
<1>7. CASE op \notin Posting
  <2>1. share[c] = "none"
    BY <1>7 DEF Posting
  <2>2. ~Reads(c)' /\ ~Writes(c)'
    BY <1>2, <1>7 DEF Reads, Writes, Leaves, Has
  <2> QED
    BY <1>1, <1>3, <1>4, <2>1, <2>2, LedgerSame DEF RwIInv, RwInv2
<1> QED
  BY <1>6, <1>7

LEMMA PendPlaces ==
    ASSUME RwIInv, NEW c \in Task, c = knl.curr, Me = NoCall, TaskRuns,
           NEW op \in Timed \cup Trying \cup Posting, NEW timeout \in 0 .. Forever,
           op \in Posting => timeout = Forever,
           NEW at \in {"held", "lock"}, Goes(op, at, "none"), rw' = rw,
           IF at = "held" THEN MutexPendFirst(Lock) ELSE MutexBlock(Lock, timeout)
    PROVE  /\ Base' /\ knl'.obj = knl.obj /\ Placed(c)'
           /\ \A t \in Task \ {c} : Undisturbed(t) /\ LockKept(t)
<1>1. ~InPend(c) /\ c \in knl.obj /\ Lock \in Mutex /\ Lock # Signal /\ Safe
  BY Runner, RwAssumption DEF RwIInv, Base
<1>2. rwcall[c].at = "none" /\ rwcall'[c].at = at /\ rwcall'[c].op = op /\ "none" \notin Inside
  BY NoCallFields DEF Me, Goes, Inside, Loop
<1>4. CASE at = "held"
  <2>1. "held" \in Inside /\ "held" # "sleep"
    BY DEF Inside
  <2>2. /\ Base' /\ \A u \in Task : Steady(u) /\ knl.owner[Lock] = NoTask
        /\ knl'.owner[Lock] = c /\ knl'.nesting[Lock] = 1 /\ knl'.obj = knl.obj
    BY <1>1, <1>4, PendFirstStep DEF RwIInv, Changed
  <2>3. ~InPendNext(c)
    BY <1>1, <2>2 DEF Steady, Unmoved
  <2>4. Placed(c)'
    BY <1>1, <1>2, <1>4, <2>1, <2>2, <2>3, ActorPlaced
  <2>5. \A t \in Task \ {c} : Undisturbed(t) /\ LockKept(t)
    BY <2>2, SteadySpares, NullAssumption DEF LockKept
  <2> QED
    BY <2>2, <2>4, <2>5
<1>5. CASE at = "lock"
  <2>1. MutexBlock(Lock, timeout)
    BY <1>5
  <2>2. /\ Base' /\ Alone(c) /\ Blocked(c, Lock) /\ SameOwners(knl, knl')
        /\ knl'.obj = knl.obj /\ knl.owner[Lock] # c
        /\ timeout = Forever => ~IsSleeping(knl', c)
    BY <1>1, <2>1, MutexBlockStep DEF RwIInv
  <2>3. \A t \in Task \ {c} : Undisturbed(t) /\ LockKept(t)
    BY <2>2, SteadySpares, SameSpares DEF Alone
  <2>4. /\ InPendNext(c) /\ arg'[c] = Lock /\ knl'.pendState[c] = "NONE"
        /\ knl'.owner[Lock] # c
    BY <2>2 DEF Blocked, SameOwners
  <2>5. "lock" \notin Inside
    BY DEF Inside, Loop
  <2>6. Placed(c)'
    BY <1>1, <1>2, <1>5, <2>2, <2>4, <2>5 DEF Placed, InPend, InPendNext
  <2> QED
    BY <2>2, <2>3, <2>6
<1> QED
  BY <1>4, <1>5

(* The mutex is taken once more, and the call returns.                     *)
LEMMA PendNestedKeeps ==
    ASSUME RwIInv, Me = NoCall, MutexPendAgain(Lock), UNCHANGED <<rwcall, share, rw>>
    PROVE  RwIInv'
<1>1. Lock \in Mutex /\ TaskRuns
  BY RwAssumption DEF MutexPendAgain, Preamble
<1> PICK c \in Task : c = knl.curr
  BY <1>1, Runner
<1>2. ~InPend(c) /\ c \in knl.obj /\ rwcall[c] = NoCall
  BY <1>1, Runner DEF Me
<1>3. /\ Base' /\ (\A u \in Task : Steady(u)) /\ knl.owner[Lock] = c /\ c # NoTask
      /\ knl'.owner[Lock] = c /\ knl'.obj = knl.obj
  BY <1>1, PendAgainStep, NullAssumption DEF RwIInv, Changed
<1>4. rwcall'[c].at = "none" /\ "none" \notin Inside /\ rw' = rw
  BY <1>2, NoCallFields DEF Inside, Loop
<1>5. \A t \in Task : Twin(t)
  BY TwinAll
<1>6. \A t \in Task \ {c} : Undisturbed(t) /\ LockKept(t) /\ Survives(t)
  BY <1>3, SteadySpares DEF LockKept, Survives
<1>7. RwType' /\ Shaped(c)'
  BY <1>5, TwinShaped DEF RwIInv, RwInv2, RwType
<1>8. Placed(c)'
  <2>1. c \in rw'.excess
    BY <1>2, <1>3, <1>4, NoCallFields DEF RwIInv, RwInv2, Placed
  <2>2. ~InPendNext(c)
    BY <1>2, <1>3 DEF Steady, Unmoved
  <2> QED
    BY <1>2, <1>3, <1>4, <2>1, <2>2, ActorPlaced
<1>9. MadeOK'
  BY <1>3, <1>5, MadeSame DEF RwIInv, RwInv2
<1>10. Ledger'
  BY <1>4, <1>5, LedgerSame, TwinClaims DEF RwIInv, RwInv2, Ledger, WaitsToRead
<1> QED
  BY <1>3, <1>4, <1>5, <1>6, <1>7, <1>8, <1>9, <1>10, EdgeStep

LEMMA RwPendKeeps ==
    ASSUME RwIInv, NEW op \in Timed \cup Trying \cup Posting, NEW timeout \in TimeoutOf(op),
           \A t \in Task : rwcall[t].op # "destroy",
           share[knl.curr] \in (CASE op = "rpost" -> {"read"} [] op = "wpost" -> {"write"}
                                  [] op = "post" -> {"read", "write"} [] OTHER -> {"none"}),
           RwPend(op, timeout)
    PROVE  RwIInv'
<1>0. CASE MutexPendAgain(Lock) /\ UNCHANGED <<rwcall, share, rw>>
  BY <1>0, PendNestedKeeps DEF RwPend
<1> SUFFICES ASSUME ~(MutexPendAgain(Lock) /\ UNCHANGED <<rwcall, share, rw>>)
             PROVE  RwIInv'
  BY <1>0
<1> DEFINE r(at) == [op |-> op, at |-> at, timeout |-> timeout, left |-> timeout,
                     got |-> "none"]
<1>1. PICK at \in {"held", "lock"} :
          /\ IF at = "held" THEN MutexPendFirst(Lock) ELSE MutexBlock(Lock, timeout)
          /\ rwcall' = [rwcall EXCEPT ![knl.curr] = r(at)]
          /\ share' = IF op \in Posting THEN [share EXCEPT ![knl.curr] = "none"] ELSE share
  BY DEF RwPend, Enters
<1>2. TaskRuns
  BY <1>1 DEF MutexPendFirst, MutexBlock, Preamble
<1> PICK c \in Task : c = knl.curr
  BY <1>2, Runner
<1>3. /\ rw.made /\ Me = NoCall /\ rw' = rw
      /\ share' = IF op \in Posting THEN [share EXCEPT ![c] = "none"] ELSE share
  BY <1>1 DEF RwPend
<1>4. /\ timeout \in 0 .. Forever /\ (op \in Posting => timeout = Forever)
      /\ 0 .. Forever \subseteq Nat
  BY RwAssumption, TimeAssumption DEF TimeoutOf, Timed, Trying, Posting, Forever
<1>5. /\ r(at) \in CallType /\ r(at).op = op /\ r(at).at = at /\ r(at).got = "none"
      /\ at # "none"
  BY <1>4 DEF CallType, Inside
<1> HIDE DEF r
<1>6. RwType
  BY DEF RwIInv, RwInv2
<1>7. Goes(op, at, "none")
  BY <1>1, <1>5, <1>6, CallUpdate DEF Goes
<1>8. op \notin Posting => share[c] = "none"
  BY DEF Posting
<1>9. /\ share' \in [Task -> {"none", "read", "write"}] /\ share'[c] = "none"
      /\ \A t \in Task \ {c} : share'[t] = share[t]
  BY <1>3, <1>6, <1>8 DEF RwType
<1>10. RwType'
  BY <1>3, <1>6, <1>7, <1>9 DEF RwType, Goes
<1>11. /\ Base' /\ knl'.obj = knl.obj /\ Placed(c)'
       /\ \A t \in Task \ {c} : Undisturbed(t) /\ LockKept(t)
  BY <1>1, <1>2, <1>3, <1>4, <1>7, PendPlaces
<1>12. \A t \in Task \ {c} : Survives(t) /\ Twin(t)
  BY <1>7, <1>9, <1>11, GoesTwin DEF Survives
<1>13. /\ rwcall'[c].op = op /\ rwcall'[c].at = at /\ rwcall'[c].got = "none"
       /\ \A t \in Task \ {c} : rwcall'[t] = rwcall[t]
  BY <1>7 DEF Goes
<1>14. op \notin {"none", "create", "destroy"}
  BY DEF Timed, Trying, Posting
<1>15. Shaped(c)'
  BY <1>9, <1>13, <1>14 DEF Shaped, Loop
<1>16. MadeOK'
  BY <1>3, <1>11, <1>13, <1>14 DEF RwIInv, RwInv2, MadeOK
<1>17. Ledger'
  BY <1>3, <1>7, <1>9, PendLedger
<1> QED
  BY <1>3, <1>10, <1>11, <1>12, <1>15, <1>16, <1>17, EdgeStep

(* A call is told of the mutex, or of its deadline.                        *)
LEMMA DroppedLedger ==
    ASSUME RwIInv, NEW c \in Task, c = knl.curr, rwcall[c].at = "lock", ~Calm \/ ~Leaves(c),
           Goes("none", "none", "none"), rw' = rw, share' = share, share[c] = "none",
           rwcall[c].got = "none"
    PROVE  Ledger'
<1>1. ASSUME NEW t \in Task \ {c}
      PROVE  /\ Reads(t)' <=> Reads(t)
             /\ Writes(t)' <=> Writes(t)
             /\ WaitsToWrite(t)' <=> WaitsToWrite(t)
             /\ WaitsToRead(t)' => ~NoWriters
  BY GoesTwin, TwinClaims DEF RwIInv, RwInv2, Ledger, WaitsToRead
<1>2. /\ rwcall'[c].op = "none" /\ rwcall'[c].at = "none" /\ rwcall'[c].got = "none"
  BY DEF Goes
<1>3. ~WaitsToWrite(c) /\ ~WaitsToWrite(c)' /\ ~WaitsToRead(c)'
  BY <1>2 DEF WaitsToWrite, WaitsToRead, Loop
<1>4. ~Reads(c)' /\ ~Writes(c)'
  BY <1>2 DEF Reads, Writes, Has, Leaves, Posting
<1>5. CASE ~Leaves(c)
  <2>1. ~Reads(c) /\ ~Writes(c)
    BY <1>5 DEF Reads, Writes, Has
  <2> QED
    BY <1>1, <1>3, <1>4, <2>1, LedgerSame DEF RwIInv, RwInv2
<1>6. CASE ~Calm
  <2>1. Readers' = Readers \ {c}
    BY <1>1, <1>4 DEF Readers
  <2>2. IsFiniteSet(Readers) /\ Cardinality(Readers) <= rw.readers /\ rw.readers \in Nat
    BY DEF RwIInv, RwInv2, Ledger, RwType
  <2>3. IsFiniteSet(Readers') /\ Cardinality(Readers') <= rw.readers
    <3>1. Readers \ {c} \subseteq Readers
      OBVIOUS
    <3>2. IsFiniteSet(Readers') /\ Cardinality(Readers') <= Cardinality(Readers)
      BY <2>1, <2>2, <3>1, FS_Subset
    <3>3. Cardinality(Readers') \in Nat /\ Cardinality(Readers) \in Nat
      BY <2>2, <3>2, FS_CardinalityType
    <3> QED
      BY <2>2, <3>2, <3>3
  <2>4. ~Calm' /\ (NoWriters' <=> NoWriters)
    BY <1>6 DEF Calm, SuspendUsed, DestroyUsed, NoWriters
  <2>5. \A t \in Task : /\ Writes(t)' => Writes(t)
                        /\ Reads(t)' => Reads(t)
                        /\ WaitsToWrite(t)' <=> WaitsToWrite(t)
                        /\ WaitsToRead(t)' => ~NoWriters
    BY <1>1, <1>3, <1>4
  <2> QED
    BY <2>3, <2>4, <2>5 DEF RwIInv, RwInv2, Ledger, WaitsToRead
<1> QED
  BY <1>5, <1>6

LEMMA RwReturnKeeps == RwIInv /\ RwPendReturn => RwIInv'
<1> SUFFICES ASSUME RwIInv, RwPendReturn PROVE RwIInv'
  OBVIOUS
<1>1. /\ PendReturn /\ rwcall[knl.curr].at = "lock" /\ rw' = rw /\ share' = share
      /\ IF pend_state2errno(knl.pendState[knl.curr]) = "K_ERR_NONE"
         THEN GoTo("held") ELSE EndCall
  BY DEF RwPendReturn, MutexPendReturn, Me
<1>2. /\ Base' /\ knl' = knl /\ knl.curr \in Task /\ InPend(knl.curr)
      /\ Alone(knl.curr) /\ Left(knl.curr) /\ ~IsPending(knl, knl.curr)
  BY <1>1, AnswerStep DEF RwIInv
<1> PICK c \in Task : c = knl.curr
  BY <1>2
<1>3. /\ ~InPendNext(c) /\ SameOwners(knl, knl')
      /\ \A t \in Task \ {c} : Undisturbed(t) /\ LockKept(t) /\ Survives(t)
  BY <1>2, SteadySpares, SameSpares DEF Alone, Left, SameOwners, Survives
<1>4. RwType /\ Shaped(c) /\ Placed(c)
  BY DEF RwIInv, RwInv2
<1>5. /\ c \in knl'.obj /\ share[c] = "none" /\ rwcall[c].got = "none"
      /\ rwcall[c].op \notin {"none", "create", "destroy"}
      /\ rwcall[c].op \in Timed \cup Trying \cup Posting
  BY <1>1, <1>2, <1>4, NoCallFields DEF Shaped, Placed, RwType, CallType
<1>6. knl.owner[Lock] = c <=> knl.pendState[c] = "POST"
  BY <1>1, <1>4 DEF Placed
<1>7. rw.made /\ \A t \in Task : rwcall[t].op # "destroy"
  BY <1>5, NobodyDestroys
<1>8. CASE knl.pendState[c] = "POST"
  <2>1. GoTo("held") /\ "held" \in Inside /\ "held" \notin Loop
    BY <1>1, <1>8 DEF pend_state2errno, Inside, Loop
  <2>2. Goes(Me.op, "held", Me.got)
    BY <1>4, <2>1, GoToGoes
  <2>3. /\ rwcall'[c].op = rwcall[c].op /\ rwcall'[c].at = "held" /\ rwcall'[c].got = "none"
        /\ \A t \in Task \ {c} : rwcall'[t] = rwcall[t]
    BY <1>5, <2>2 DEF Goes, Me
  <2>4. \A t \in Task \ {c} : Twin(t)
    BY <1>1, <2>2, GoesTwin
  <2>5. RwType'
    BY <1>1, <1>4, <2>2 DEF RwType, Goes
  <2>6. Shaped(c)'
    BY <1>1, <1>5, <2>1, <2>3 DEF Shaped
  <2>7. Placed(c)'
    <3>1. knl'.owner[Lock] = c /\ knl'.nesting[Lock] = 1
      BY <1>1, <1>2, <1>4, <1>6, <1>8 DEF Placed
    <3> QED
      BY <1>3, <1>5, <2>1, <2>3, <3>1, ActorPlaced
  <2>8. MadeOK'
    BY <1>1, <1>2, <1>7, <2>3 DEF RwIInv, RwInv2, MadeOK
  <2>9. Ledger'
    <3>1. /\ Reads(c)' <=> Reads(c)
          /\ Writes(c)' <=> Writes(c)
      BY <1>1, <1>5, <2>3 DEF Reads, Writes, Has, Leaves
    <3>2. ~WaitsToWrite(c) /\ ~WaitsToWrite(c)' /\ ~WaitsToRead(c)'
      BY <1>1, <2>3 DEF WaitsToWrite, WaitsToRead, Loop
    <3>3. ASSUME NEW t \in Task \ {c}
          PROVE  /\ Reads(t)' <=> Reads(t)
                 /\ Writes(t)' <=> Writes(t)
                 /\ WaitsToWrite(t)' <=> WaitsToWrite(t)
                 /\ WaitsToRead(t)' => ~NoWriters
      BY <1>1, <2>4, TwinClaims DEF RwIInv, RwInv2, Ledger, WaitsToRead
    <3> QED
      BY <1>1, <3>1, <3>2, <3>3, LedgerSame DEF RwIInv, RwInv2
  <2> QED
    BY <1>1, <1>2, <1>3, <2>4, <2>5, <2>6, <2>7, <2>8, <2>9, EdgeStep
<1>9. CASE knl.pendState[c] # "POST"
  <2>1. EndCall
    BY <1>1, <1>9 DEF pend_state2errno
  <2>2. Goes("none", "none", "none") /\ rwcall'[c] = NoCall /\ rwcall'[c].at = "none"
    BY <1>4, <2>1, EndGoes DEF Goes
  <2>3. \A t \in Task \ {c} : Twin(t)
    BY <1>1, <2>2, GoesTwin
  <2>4. RwType'
    BY <1>1, <1>4, <2>2 DEF RwType, Goes
  <2>5. Shaped(c)'
    BY <2>2, EndShaped
  <2>6. Placed(c)'
    <3>1. knl'.owner[Lock] # c /\ "none" \notin Inside
      BY <1>2, <1>6, <1>9 DEF Inside, Loop
    <3> QED
      BY <1>3, <1>5, <2>2, <3>1, ActorPlaced
  <2>7. MadeOK'
    BY <1>1, <1>2, <1>7, <2>2 DEF RwIInv, RwInv2, MadeOK, Goes
  <2>8. ~Calm \/ ~Leaves(c)
    <3>1. SUFFICES ASSUME Calm, Leaves(c) PROVE FALSE
      OBVIOUS
    <3>2. knl.pendState[c] = "NONE" /\ ~SuspendUsed
      BY <1>1, <1>4, <1>9, <3>1 DEF Placed, Leaves, Calm
    <3> QED
      BY <1>2, <3>2 DEF RwIInv, Base, WaitInv
  <2>9. Ledger'
    BY <1>1, <1>5, <2>2, <2>8, DroppedLedger
  <2> QED
    BY <1>1, <1>2, <1>3, <2>3, <2>4, <2>5, <2>6, <2>7, <2>9, EdgeStep
<1> QED
  BY <1>8, <1>9
----------------------------------------------------------------------------
(* Creation and destruction.                                               *)

(* A call that only creates or destroys, and claims nothing.               *)
LEMMA IdleLedger ==
    ASSUME RwIInv, NEW c \in Task, c = knl.curr, NEW op \in {"create", "destroy"},
           rwcall[c].op \in {"none", "create", "destroy"}, rwcall[c].got = "none",
           NEW at \in {"sem", "mutex"}, Goes(op, at, "none"), rw' = rw, share' = share,
           share[c] = "none"
    PROVE  Ledger'
<1>1. ASSUME NEW t \in Task \ {c}
      PROVE  /\ Reads(t)' <=> Reads(t)
             /\ Writes(t)' <=> Writes(t)
             /\ WaitsToWrite(t)' <=> WaitsToWrite(t)
             /\ WaitsToRead(t)' => ~NoWriters
  BY GoesTwin, TwinClaims DEF RwIInv, RwInv2, Ledger, WaitsToRead
<1>2. /\ ~Reads(c) /\ ~Writes(c) /\ ~WaitsToWrite(c)
      /\ ~Reads(c)' /\ ~Writes(c)' /\ ~WaitsToWrite(c)' /\ ~WaitsToRead(c)'
  BY DEF Goes, Reads, Writes, Has, Leaves, WaitsToWrite, WaitsToRead, Posting
<1> QED
  BY <1>1, <1>2, LedgerSame DEF RwIInv, RwInv2

LEMMA EdgePlaced ==
    ASSUME RwIInv, NEW c \in Task, rwcall[c].at \in {"none", "sem"}, c \in knl'.obj,
           ~InPendNext(c), SameOwners(knl, knl'), rw' = rw,
           rwcall'[c].at \in {"sem", "mutex"}
    PROVE  Placed(c)'
<1>1. {"none", "sem", "mutex"} \cap (Inside \cup {"lock", "sleep"}) = {}
  BY DEF Inside, Loop
<1>2. /\ knl'.owner[Lock] = c => c \in rw'.excess
  BY <1>1 DEF RwIInv, RwInv2, Placed, SameOwners
<1> QED
  BY <1>1, <1>2, ActorPlaced

LEMMA BeginKeeps == RwIInv /\ (RwCreate \/ (RwDestroy /\ \A t \in Task : rwcall[t] = NoCall
                                                             /\ share[t] = "none"))
                    => RwIInv'
<1> SUFFICES ASSUME RwIInv,
                    RwCreate \/ (RwDestroy /\ \A t \in Task : rwcall[t] = NoCall
                                                            /\ share[t] = "none")
             PROVE  RwIInv'
  OBVIOUS
<1> DEFINE r(op) == [NoCall EXCEPT !.op = op, !.at = "sem"]
<1>1. PICK op \in {"create", "destroy"} :
         /\ IF op = "create" THEN ~rw.made ELSE /\ rw.made
                                                /\ \A t \in Task : rwcall[t] = NoCall
                                                                   /\ share[t] = "none"
         /\ Begins(op, "sem")
  BY DEF RwCreate, RwDestroy
<1>2. /\ TaskRuns /\ Me = NoCall /\ rwcall' = [rwcall EXCEPT ![knl.curr] = r(op)]
      /\ NoKernelChange /\ rw' = rw /\ share' = share
  BY <1>1 DEF Begins
<1> PICK c \in Task : c = knl.curr
  BY <1>2, Runner
<1>3. /\ r(op) \in CallType /\ r(op).op = op /\ r(op).at = "sem" /\ r(op).got = "none"
  <2>1. r(op) \in CallType /\ r(op).op = op /\ r(op).at = "sem" /\ r(op).got = NoCall.got
    BY NoCallFields DEF CallType
  <2> QED
    BY <2>1, NoCallFields
<1> HIDE DEF r
<1>4. RwType /\ ~InPend(c) /\ c \in knl.obj /\ Mild /\ rwcall[c] = NoCall
  BY <1>2, Runner, StillMild DEF RwIInv, RwInv2, Me
<1>5. Goes(op, "sem", "none")
  BY <1>2, <1>3, <1>4, CallUpdate DEF Goes
<1>6. RwType'
  BY <1>2, <1>4, <1>5 DEF RwType, Goes
<1>7. \A t \in Task \ {c} : Undisturbed(t) /\ LockKept(t) /\ Survives(t) /\ Twin(t)
  BY <1>2, <1>4, <1>5, GoesTwin, SameSpares DEF Mild, Survives
<1>8. \A t \in Task : share[t] = "none" /\ (op = "create" => rwcall[t].op \in {"none", "create"})
  BY <1>1 DEF RwIInv, RwInv2, MadeOK
<1>9. /\ rwcall'[c].op = op /\ rwcall'[c].at = "sem" /\ rwcall'[c].got = "none"
      /\ \A t \in Task \ {c} : rwcall'[t] = rwcall[t]
  BY <1>5 DEF Goes
<1>10. Shaped(c)'
  BY <1>2, <1>8, <1>9 DEF Shaped, Loop
<1>11. Placed(c)'
  <2>1. ~InPendNext(c) /\ c \in knl'.obj /\ SameOwners(knl, knl')
    BY <1>4 DEF Mild, Unmoved
  <2> QED
    BY <1>2, <1>4, <1>9, <2>1, EdgePlaced, NoCallFields
<1>12. MadeOK'
  <2>1. rw.made => Lock \in knl'.obj
    BY <1>4 DEF RwIInv, RwInv2, MadeOK, Mild
  <2>2. \A t \in Task : rwcall'[t].op \notin {"none", "create"} => op = "destroy"
    BY <1>8, <1>9
  <2>3. \A t \in Task : rwcall'[t].op = "destroy" => op = "destroy" /\ t = c
    BY <1>1, <1>8, <1>9, NoCallFields
  <2> QED
    BY <1>1, <1>2, <1>8, <1>9, <2>1, <2>2, <2>3 DEF MadeOK
<1>13. Ledger'
  BY <1>2, <1>4, <1>5, <1>8, NoCallFields, IdleLedger
<1> QED
  BY <1>2, <1>4, <1>6, <1>7, <1>10, <1>11, <1>12, <1>13, EdgeStep DEF Mild

LEMMA RwSemKeeps == RwIInv /\ (CreateSem \/ DestroySem) => RwIInv'
<1> SUFFICES ASSUME RwIInv, CreateSem \/ DestroySem PROVE RwIInv'
  OBVIOUS
<1>1. /\ TaskRuns /\ Me.at = "sem" /\ Me.op \in {"create", "destroy"} /\ GoTo("mutex")
      /\ rw' = rw /\ share' = share
      /\ (\E n, max : SemCreate(Signal, n, max)) \/ SemDestroy(Signal)
  BY DEF CreateSem, DestroySem, At
<1> PICK c \in Task : c = knl.curr
  BY <1>1, Runner
<1>2. RwType /\ ~InPend(c) /\ c \in knl.obj
  BY <1>1, Runner DEF RwIInv, RwInv2
<1>3. Signal \in Waitable \ Mutex /\ Signal # Lock /\ Signal \notin Task /\ Signal \in Obj
  BY RwAssumption, KindAssumption DEF Obj
<1>4. /\ Base' /\ SameOwners(knl, knl') /\ knl.obj \ {Signal} \subseteq knl'.obj
      /\ \A t \in Task : Undisturbed(t) /\ Unmoved(t)
  <2>1. ASSUME NEW n, NEW max, SemCreate(Signal, n, max)
        PROVE  /\ Base' /\ SameOwners(knl, knl') /\ knl.obj \ {Signal} \subseteq knl'.obj
               /\ \A t \in Task : Undisturbed(t) /\ Unmoved(t)
    <3>1. /\ Base' /\ SameOwners(knl, knl') /\ knl'.obj = knl.obj \cup {Signal}
          /\ \A t \in Task : Steady(t)
      BY <1>3, <2>1, SemCreateBase DEF RwIInv
    <3> QED
      BY <3>1, SteadySpares DEF Steady
  <2>2. ASSUME SemDestroy(Signal)
        PROVE  /\ Base' /\ SameOwners(knl, knl') /\ knl.obj \ {Signal} \subseteq knl'.obj
               /\ \A t \in Task : Undisturbed(t) /\ Unmoved(t)
    <3>1. /\ Base' /\ SameOwners(knl, knl') /\ knl'.obj = knl.obj \ {Signal}
          /\ Woke(Waiters(knl, Signal), "DESTROY")
      BY <1>3, <2>2, SemDestroyBase DEF RwIInv
    <3>2. \A t \in Task : Undisturbed(t)
      BY <1>3, <3>1, WokeSpares DEF RwIInv
    <3> QED
      BY <3>1, <3>2 DEF Woke, Ended, Steady
  <2> QED
    BY <1>1, <2>1, <2>2
<1>5. Shaped(c) /\ rwcall[c].at = "sem" /\ rwcall[c].op \in {"create", "destroy"}
      /\ rwcall[c].got = "none" /\ share[c] = "none"
  BY <1>1, NoCallFields DEF RwIInv, RwInv2, Shaped, Me
<1>6. Goes(Me.op, "mutex", "none")
  BY <1>1, <1>2, <1>5, GoToGoes DEF Me
<1>7. /\ rwcall'[c].op = rwcall[c].op /\ rwcall'[c].at = "mutex" /\ rwcall'[c].got = "none"
      /\ \A t \in Task \ {c} : rwcall'[t] = rwcall[t]
  BY <1>6 DEF Goes, Me
<1>8. RwType'
  BY <1>1, <1>2, <1>6 DEF RwType, Goes
<1>9. \A t \in Task \ {c} : Undisturbed(t) /\ LockKept(t) /\ Survives(t) /\ Twin(t)
  BY <1>1, <1>3, <1>4, <1>6, GoesTwin, SameSpares DEF Survives
<1>10. Shaped(c)'
  BY <1>1, <1>5, <1>7 DEF Shaped, Loop
<1>11. Placed(c)'
  <2>1. ~InPendNext(c) /\ c \in knl'.obj
    BY <1>2, <1>3, <1>4 DEF Unmoved
  <2> QED
    BY <1>1, <1>4, <1>5, <1>7, <2>1, EdgePlaced
<1>12. MadeOK'
  <2>1. \A t \in Task : rwcall'[t].op = rwcall[t].op
    BY <1>7
  <2>2. ASSUME NEW t \in Task, rwcall'[t].op = "destroy", NEW u \in Task, u # t
        PROVE  rwcall'[u] = NoCall
    <3>1. rwcall[t].op = "destroy" /\ rwcall[u] = NoCall
      BY <2>1, <2>2 DEF RwIInv, RwInv2, MadeOK
    <3> QED
      BY <1>5, <1>7, <3>1, NoCallFields
  <2> QED
    BY <1>1, <1>3, <1>4, <2>1, <2>2 DEF RwIInv, RwInv2, MadeOK
<1>13. Ledger'
  BY <1>1, <1>5, <1>6, IdleLedger DEF Me
<1>14. rw.excess \subseteq rw'.excess
  BY <1>1
<1> QED
  BY <1>4, <1>8, <1>9, <1>10, <1>11, <1>12, <1>13, <1>14, EdgeStep

(* Nobody uses the lock.                                                   *)
LEMMA EmptyLedger ==
    ASSUME rw.readers = 0, rw.writers = 0, rw.writing = FALSE,
           \A t \in Task : /\ rwcall[t].op \in {"none", "create", "destroy"}
                           /\ rwcall[t].got = "none" /\ share[t] = "none"
    PROVE  Ledger
<1>1. \A t \in Task : ~Reads(t) /\ ~Writes(t) /\ ~WaitsToWrite(t) /\ rwcall[t].op # "rpend"
  BY DEF Reads, Writes, Has, Leaves, WaitsToWrite, Posting
<1>2. Readers = {}
  BY <1>1 DEF Readers
<1>3. IsFiniteSet(Readers) /\ Cardinality(Readers) = 0
  BY <1>2, FS_EmptySet
<1> QED
  BY <1>1, <1>3 DEF Ledger

LEMMA FreshLock ==
    ASSUME RwIInv, NEW c \in Task, c = knl.curr, Base', EndCall, share' = share,
           rw' = NoRw \/ rw' = [NoRw EXCEPT !.made = TRUE],
           rw'.made => Lock \in knl'.obj, knl'.owner[Lock] = NoTask,
           \A t \in Task : Steady(t), \A t \in Task : t \in knl.obj => t \in knl'.obj,
           \A t \in Task \ {c} : rwcall[t].op \in {"none", "create"},
           rwcall[c].op \in {"create", "destroy"}, rwcall[c].at = "mutex",
           \A t \in Task : share[t] = "none"
    PROVE  RwIInv'
<1>1. RwType /\ \A t \in Task : Shaped(t)
  BY DEF RwIInv, RwInv2
<1>2. Goes("none", "none", "none") /\ rwcall'[c] = NoCall
  BY <1>1, EndGoes DEF Goes
<1>3. /\ rw' \in RwRecord /\ rw'.readers = 0 /\ rw'.writers = 0 /\ rw'.writing = FALSE
      /\ rw'.excess = {}
  <2>1. \E b \in BOOLEAN : rw' = [made |-> b, readers |-> 0, writers |-> 0, writing |-> FALSE,
                                 excess |-> {}]
    BY DEF NoRw
  <2> QED
    BY <2>1 DEF RwRecord
<1>4. RwType'
  BY <1>1, <1>2, <1>3 DEF RwType, RwRecord, Goes
<1>5. \A t \in Task \ {c} : Twin(t) /\ rwcall'[t] = rwcall[t]
  BY <1>2, GoesTwin DEF Goes
<1>6. \A t \in Task : Shaped(t)'
  BY <1>1, <1>2, <1>5, TwinShaped, EndShaped
<1>7. \A t \in Task : rwcall'[t].op \in {"none", "create"}
  BY <1>2, <1>5, NoCallFields
<1>8. \A t \in Task : rwcall'[t].at \in {"none", "sem", "mutex"} /\ rwcall'[t].got = "none"
  BY <1>4, <1>6, <1>7, NoCallFields DEF Shaped, RwType, CallType, Timed, Trying
<1>9. ASSUME NEW t \in Task PROVE Placed(t)'
  <2>1. rwcall[t].at \in {"none", "sem", "mutex"}
    BY <1>5, <1>8
  <2>2. {"none", "sem", "mutex"} \cap (Inside \cup {"lock", "sleep"}) = {}
    BY DEF Inside, Loop
  <2>3. InPendNext(t) => arg'[t] # Lock /\ arg'[t] # Signal
    BY <2>1, <2>2 DEF RwIInv, RwInv2, Placed, Steady, Unmoved
  <2>4. t \in knl'.obj \/ rwcall'[t] = NoCall
    BY <1>2, <1>5 DEF RwIInv, RwInv2, Placed
  <2>5. knl'.owner[Lock] # t
    BY NullAssumption
  <2>6. rwcall'[t].at \notin Inside \cup {"lock", "sleep"}
    BY <1>8, <2>2
  <2> QED
    BY <2>3, <2>4, <2>5, <2>6, ActorPlaced
<1>10. MadeOK'
  BY <1>7 DEF MadeOK
<1>11. Ledger'
  <2>1. \A t \in Task : /\ rwcall'[t].op \in {"none", "create", "destroy"}
                        /\ rwcall'[t].got = "none" /\ share'[t] = "none"
    BY <1>7, <1>8
  <2>2. \A t \in Task : ~Reads(t)' /\ ~Writes(t)' /\ ~WaitsToWrite(t)' /\ rwcall'[t].op # "rpend"
    BY <2>1 DEF Reads, Writes, Has, Leaves, WaitsToWrite, Posting
  <2>3. Readers' = {}
    BY <2>2 DEF Readers
  <2>4. IsFiniteSet(Readers') /\ Cardinality(Readers') = 0
    BY <2>3, FS_EmptySet
  <2> QED
    BY <1>3, <2>2, <2>4 DEF Ledger
<1> QED
  BY <1>4, <1>6, <1>9, <1>10, <1>11 DEF RwIInv, RwInv2

LEMMA RwMutexKeeps == RwIInv /\ (CreateMutex \/ DestroyMutex) => RwIInv'
<1> SUFFICES ASSUME RwIInv, CreateMutex \/ DestroyMutex PROVE RwIInv'
  OBVIOUS
<1>1. TaskRuns /\ Me.at = "mutex" /\ EndCall /\ share' = share
  BY DEF CreateMutex, DestroyMutex, At
<1> PICK c \in Task : c = knl.curr
  BY <1>1, Runner
<1>2. /\ ~InPend(c) /\ c \in knl.obj /\ Lock \in Mutex /\ Lock \notin Task
      /\ rwcall[c].at = "mutex"
  BY <1>1, Runner, RwAssumption, KindAssumption DEF Obj, Me
<1>3. CASE CreateMutex
  <2>1. /\ MutexCreate(Lock) /\ Lock \notin knl.obj /\ rw' = [NoRw EXCEPT !.made = TRUE]
        /\ rwcall[c].op = "create"
    BY <1>3 DEF CreateMutex, MutexCreate, Me
  <2>2. /\ Base' /\ SameOwners(knl, knl') /\ knl'.obj = knl.obj \cup {Lock}
        /\ \A t \in Task : Steady(t)
    BY <1>2, <2>1, MutexCreateStep DEF RwIInv
  <2>3. knl'.owner[Lock] = NoTask
    BY <1>2, <2>1, <2>2 DEF RwIInv, Base, Owned, OwnLive, SameOwners
  <2>4. \A t \in Task : rwcall[t].op \in {"none", "create"} /\ share[t] = "none"
    BY <2>1 DEF RwIInv, RwInv2, MadeOK
  <2> QED
    BY <1>1, <1>2, <2>1, <2>2, <2>3, <2>4, FreshLock
<1>4. CASE DestroyMutex
  <2>1. MutexDestroy(Lock) /\ rw' = NoRw /\ rwcall[c].op = "destroy"
    BY <1>4 DEF DestroyMutex, Me
  <2>2. /\ Base' /\ Woke(Waiters(knl, Lock), "DESTROY") /\ knl'.owner[Lock] = NoTask
        /\ knl'.obj = knl.obj \ {Lock}
    BY <1>2, <2>1, MutexDestroyStep DEF RwIInv, Changed
  <2>3. \A t \in Task : share[t] = "none" /\ (t # c => rwcall[t] = NoCall)
    BY <2>1 DEF RwIInv, RwInv2, MadeOK
  <2>4. Waiters(knl, Lock) = {}
    <3>1. SUFFICES ASSUME NEW t \in Waiters(knl, Lock) PROVE FALSE
      OBVIOUS
    <3>2. t \in Task /\ InPend(t) /\ arg[t] = Lock
      BY DEF Waiters, RwIInv, Base, WaitInv
    <3>3. rwcall[t].at = "lock"
      BY <3>2 DEF RwIInv, RwInv2, Placed
    <3> QED
      BY <1>2, <2>3, <3>2, <3>3, NoCallFields
  <2>5. \A t \in Task : Steady(t)
    BY <2>2, <2>4 DEF Woke
  <2>6. ~rw'.made
    BY <2>1 DEF NoRw
  <2> QED
    BY <1>1, <1>2, <2>1, <2>2, <2>3, <2>5, <2>6, NoCallFields, FreshLock
<1> QED
  BY <1>3, <1>4
----------------------------------------------------------------------------
(* The read-write lock keeps its promises.                                 *)

LEMMA RwInitInv == RwInit => RwIInv
<1> SUFFICES ASSUME RwInit PROVE RwIInv
  OBVIOUS
<1>1. /\ MutexInit /\ rw = NoRw /\ rwcall = [t \in Task |-> NoCall]
      /\ share = [t \in Task |-> "none"]
  BY DEF RwInit
<1>2. Base
  BY <1>1, MutexInitInv DEF MutexIInv
<1>3. /\ \A t \in Task : ~InPend(t) /\ \A m \in Mutex : knl.owner[m] = NoTask
  BY <1>1 DEF MutexInit, Init, BootKernel, InPend
<1>4. RwType
  <2>1. rw \in RwRecord
    BY <1>1 DEF NoRw, RwRecord
  <2> QED
    BY <1>1, <2>1, NoCallFields DEF RwType, RwRecord
<1>5. ASSUME NEW t \in Task PROVE Shaped(t) /\ Placed(t)
  <2>1. rwcall[t] = NoCall /\ rwcall[t].op = "none" /\ rwcall[t].at = "none"
        /\ rwcall[t].got = "none"
    BY <1>1, NoCallFields
  <2>2. ~InPend(t) /\ knl.owner[Lock] # t /\ "none" \notin Inside
    BY <1>3, NullAssumption, RwAssumption DEF Inside, Loop
  <2> QED
    BY <2>1, <2>2 DEF Shaped, Placed, Loop
<1>6. ~rw.made /\ rw.readers = 0 /\ rw.writers = 0 /\ rw.writing = FALSE
  BY <1>1 DEF NoRw
<1>7. \A t \in Task : rwcall[t].op = "none" /\ rwcall[t].got = "none" /\ share[t] = "none"
  BY <1>1, NoCallFields
<1>8. MadeOK
  BY <1>6, <1>7 DEF MadeOK
<1>9. Ledger
  BY <1>6, <1>7, EmptyLedger
<1> QED
  BY <1>2, <1>4, <1>5, <1>8, <1>9 DEF RwIInv, RwInv2

LEMMA RwNextInv == RwIInv /\ [RwNext]_rwVars => RwIInv'
<1> SUFFICES ASSUME RwIInv, [RwNext]_rwVars PROVE RwIInv'
  OBVIOUS
<1>1. CASE RwInside
  BY <1>1, RwSemKeeps, RwMutexKeeps, RwReturnKeeps, TooManyKeeps, ReadKeeps, WriteKeeps,
     LeaveKeeps, RemainKeeps, WaitOverKeeps, TokenKeeps, SleepKeeps, WokenKeeps, FailKeeps,
     RwPostKeeps
  DEF RwInside
<1>2. CASE RwCalls
  BY <1>2, BeginKeeps, RwPendKeeps DEF RwCalls
<1>3. CASE RwTick \/ RwTaskStep \/ (AppCalls /\ Direct /\ UNCHANGED rwOnly) \/ UNCHANGED rwVars
  BY <1>3, RwForeign
<1>4. ASSUME NEW t \in Task, NEW p \in AppPrio, SetPrio(t, p), UNCHANGED <<rw, rwcall, share>>
      PROVE  RwIInv'
  BY <1>4, RwForeign
<1> QED
  BY <1>1, <1>2, <1>3, <1>4 DEF RwNext

(* What the invariant says of the three properties.                        *)
LEMMA RwFacts ==
    ASSUME RwIInv
    PROVE  /\ RwExclusive /\ RwMutexReturned
           /\ Calm => RwCountsExact
<1>1. RwType /\ Ledger /\ \A t \in Task : Shaped(t) /\ Placed(t)
  BY DEF RwIInv, RwInv2
<1>2. RwExclusive
  <2> SUFFICES ASSUME NEW t \in Task, NEW u \in Task, t # u, share[t] = "write"
               PROVE  share[u] = "none"
    BY DEF RwExclusive
  <2>1. Writes(t)
    BY DEF Writes, Has
  <2>2. ~Reads(u) /\ ~Writes(u)
    BY <1>1, <2>1 DEF Ledger
  <2>3. share[u] \in {"none", "read", "write"}
    BY <1>1 DEF RwType
  <2> QED
    BY <2>2, <2>3 DEF Reads, Writes, Has
<1>3. RwMutexReturned
  <2>1. ASSUME NEW t \in Task, Lock \in ToSet(knl.own[t])
        PROVE  rwcall[t] # NoCall \/ t \in rw.excess
    <3>1. knl.owner[Lock] = t
      BY <2>1 DEF RwIInv, Base, Owned, OwnRec
    <3>2. rwcall[t].at \in Inside \cup {"lock"} \/ t \in rw.excess
      BY <1>1, <3>1 DEF Placed
    <3> QED
      BY <3>2, NoCallFields DEF Inside, Loop
  <2>2. ASSUME NEW t \in Task, rwcall[t].at \notin {"none", "lock", "sem", "mutex"}
        PROVE  knl.owner[Lock] = t /\ knl.nesting[Lock] = 1
    <3>1. rwcall[t].at \in Inside
      BY <1>1, <2>2 DEF RwType, CallType
    <3> QED
      BY <1>1, <3>1 DEF Placed
  <2>3. ASSUME NEW t \in ToSet(knl.pend[Signal]) PROVE knl.owner[Lock] = t
    <3>1. Signal \in Obj
      BY RwAssumption DEF Obj
    <3>2. t \in Waiters(knl, Signal)
      BY <2>3, <3>1 DEF RwIInv, Base, Safe, Sound, Waiting, PendExact
    <3>3. t \in Task /\ InPend(t) /\ arg[t] = Signal
      BY <3>2 DEF Waiters, RwIInv, Base, WaitInv
    <3>4. rwcall[t].at = "sleep"
      BY <1>1, <3>3 DEF Placed
    <3> QED
      BY <1>1, <3>3, <3>4 DEF Placed, Inside, Loop
  <2> QED
    BY <2>1, <2>2, <2>3 DEF RwMutexReturned
<1>4. ASSUME Calm, rw.made, \A t \in Task : ~Leaves(t)
      PROVE  /\ rw.readers = Cardinality({t \in Task : Has(t, "read")})
             /\ rw.writers = Cardinality({t \in Task : WaitsToWrite(t)})
             /\ rw.writing = \E t \in Task : Has(t, "write")
  <2>1. \A t \in Task : (Reads(t) <=> Has(t, "read")) /\ (Writes(t) <=> Has(t, "write"))
    BY <1>4 DEF Reads, Writes
  <2>2. Readers = {t \in Task : Has(t, "read")}
    BY <2>1 DEF Readers
  <2>3. rw.readers = Cardinality({t \in Task : Has(t, "read")})
    BY <1>1, <1>4, <2>2 DEF Ledger
  <2>4. rw.writing <=> \E t \in Task : Has(t, "write")
    BY <1>1, <1>4, <2>1 DEF Ledger
  <2>5. rw.writing = \E t \in Task : Has(t, "write")
    BY <1>1, <2>4 DEF RwType
  <2>6. rw.writers = Cardinality({t \in Task : WaitsToWrite(t)})
    <3>1. CASE \A t \in Task : ~WaitsToWrite(t)
      <4>1. {t \in Task : WaitsToWrite(t)} = {}
        BY <3>1
      <4> QED
        BY <1>1, <3>1, <4>1, FS_EmptySet DEF Ledger
    <3>2. ASSUME NEW w \in Task, WaitsToWrite(w)
          PROVE  rw.writers = Cardinality({t \in Task : WaitsToWrite(t)})
      <4>1. \A t \in Task : WaitsToWrite(t) => knl.owner[Lock] = t
        BY <1>1, WaiterInside DEF Placed, Inside
      <4>2. {t \in Task : WaitsToWrite(t)} = {w}
        BY <3>2, <4>1
      <4> QED
        BY <1>1, <3>2, <4>2, FS_Singleton DEF Ledger
    <3> QED
      BY <3>1, <3>2
  <2> QED
    BY <2>3, <2>5, <2>6
<1> QED
  BY <1>2, <1>3, <1>4 DEF RwCountsExact

(* The inductive invariant of the read-write lock.                         *)
THEOREM RwInvariant == RwSpec => []RwIInv
<1> QED
  BY RwInitInv, RwNextInv, PTL DEF RwSpec

(* While a task was told that it writes, no other task was told that it    *)
(* reads or writes, whatever interleaved with the sections of their calls, *)
(* suspensions, priority changes and the deaths of other tasks included.   *)
THEOREM RwAlwaysExclusive == RwSpec => []RwExclusive
<1>1. RwIInv => RwExclusive
  BY RwFacts
<1> QED
  BY <1>1, RwInvariant, PTL

(* Every path through the calls gives the mutex inside of the lock back,   *)
(* but for calls that end at the limit of a count, whose task's later      *)
(* calls fail; a call that is past the mutex owns it, once, and who waits  *)
(* for the semaphore owns it.                                              *)
THEOREM RwMutexAlwaysReturned == RwSpec => []RwMutexReturned
<1>1. RwIInv => RwMutexReturned
  BY RwFacts
<1> QED
  BY <1>1, RwInvariant, PTL

(* The counts are exact between calls that give the lock back, if no task  *)
(* is suspended or destroyed: a call to give the lock back that is         *)
(* suspended while it waits for the mutex fails, and its share stays       *)
(* counted.                                                                *)
THEOREM RwCountsAlwaysExact == ~SuspendUsed /\ ~DestroyUsed /\ RwSpec => []RwCountsExact
<1>1. ~SuspendUsed /\ ~DestroyUsed /\ RwIInv => RwCountsExact
  BY RwFacts DEF Calm
<1>2. ~SuspendUsed /\ ~DestroyUsed => [](~SuspendUsed /\ ~DestroyUsed)
  <2>1. ~SuspendUsed /\ ~DestroyUsed => (~SuspendUsed /\ ~DestroyUsed)'
    BY DEF SuspendUsed, DestroyUsed
  <2> QED
    BY <2>1, PTL
<1> QED
  BY <1>1, <1>2, RwInvariant, PTL
=============================================================================
