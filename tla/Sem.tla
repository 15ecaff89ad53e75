-------------------------------- MODULE Sem ---------------------------------
(***************************************************************************)
(* Counting semaphores (tos_sem.c) on top of the scheduler: Waitable is    *)
(* the set of semaphores, knl.pend[s] is the list of sem->pend_obj.        *)
(***************************************************************************)
EXTENDS Task

CONSTANTS
    Counts,     \* initial counts tried at creation
    CountMaxes, \* limits tried at creation
    Timeouts    \* timeouts of tos_sem_pend: 0 is NOWAIT, TimeMax+1 FOREVER

ASSUME SemAssumption == /\ Counts \subseteq Nat /\ CountMaxes \subseteq Nat
                        /\ Timeouts \subseteq 0 .. Forever

VARIABLES
    count,    \* sem->count
    countMax  \* sem->count_max

semVars == <<knl, isr, pc, arg, count, countMax>>

SemInit == /\ Init
           /\ count    = [s \in Waitable |-> 0]
           /\ countMax = [s \in Waitable |-> 0]

SemCreate(s, n, max) ==
    /\ s \notin knl.obj
    /\ ReturnAnywhere("sem_create", [knl EXCEPT !.pend[s] = << >>, !.obj = @ \cup {s}])
    /\ count' = [count EXCEPT ![s] = IF n > max THEN max ELSE n]
    /\ countMax' = [countMax EXCEPT ![s] = max]

SemDestroy(s) ==
    /\ s \in knl.obj
    /\ FromAnywhere("sem_destroy",
          [pend_wakeup_all(knl, s, "DESTROY") EXCEPT !.pend[s] = << >>, !.obj = @ \ {s}])
    /\ UNCHANGED <<count, countMax>>

(* Faults: no limit; a token both granted and counted.                     *)
SemPost_NoLimit(s, opt) ==
    /\ s \in knl.obj
    /\ pend_is_nopending(knl, s) /\ ReturnAnywhere("sem_post", knl)
    /\ count' = [count EXCEPT ![s] = @ + 1]
    /\ UNCHANGED countMax

SemPost_Double(s, opt) ==
    /\ s \in knl.obj /\ count[s] # countMax[s]
    /\ ~pend_is_nopending(knl, s)
    /\ FromAnywhere("sem_post", pend_wakeup(knl, s, "POST", opt))
    /\ count' = [count EXCEPT ![s] = @ + 1]
    /\ UNCHANGED countMax

(* sem_do_post, opt "ONE" or "ALL"; at the limit it fails and changes      *)
(* nothing, whoever may be waiting.                                        *)
SemPost(s, opt) ==
    /\ s \in knl.obj /\ count[s] # countMax[s]
    /\ IF pend_is_nopending(knl, s)
       THEN /\ ReturnAnywhere("sem_post", knl)
            /\ count' = [count EXCEPT ![s] = @ + 1]
       ELSE /\ FromAnywhere("sem_post", pend_wakeup(knl, s, "POST", opt))
            /\ UNCHANGED count
    /\ UNCHANGED countMax

SemTake(s) ==
    /\ Preamble("sem_pend") /\ s \in knl.obj
    /\ count[s] > 0
    /\ count' = [count EXCEPT ![s] = @ - 1]
    /\ ThenReturn(knl)
    /\ UNCHANGED countMax

SemBlock(s, timeout) ==
    /\ Preamble("sem_pend") /\ s \in knl.obj
    /\ count[s] = 0
    /\ BlockIn(knl, s, timeout)
    /\ UNCHANGED <<count, countMax>>

SemPendReturn == PendReturn /\ UNCHANGED <<count, countMax>>

SemApi ==
    \/ \E s \in Waitable, n \in Counts, max \in CountMaxes : SemCreate(s, n, max)
    \/ \E s \in Waitable : SemDestroy(s) \/ SemTake(s)
    \/ \E s \in Waitable, opt \in {"ONE", "ALL"} : SemPost(s, opt)
    \/ \E s \in Waitable, timeout \in Timeouts : SemBlock(s, timeout)
    \/ SemPendReturn

SemNext == (Next /\ UNCHANGED <<count, countMax>>) \/ SemApi

SemSpec == SemInit /\ [][SemNext]_semVars
=============================================================================
