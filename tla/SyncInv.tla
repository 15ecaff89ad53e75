------------------------------ MODULE SyncInv -------------------------------
(***************************************************************************)
(* What events, completions, latches and barriers promise, over the states *)
(* of module Sync.                                                         *)
(***************************************************************************)
EXTENDS Sync, TaskInv

(* Tasks whose wait for o this step answers with PEND_STATE_POST.          *)
Answered(o) == {t \in ToSet(knl.pend[o]) : ~IsPending(knl', t) /\ knl'.pendState[t] = "POST"}

(* No task waits for event flags that are set, once every tos_event_post   *)
(* has looked through the waiters: a wait that begins between the store of *)
(* the flags and that search is not missed (tos_event_pend against         *)
(* event_do_post, whose store is outside of the disabled section).         *)
EventNoLostWakeup ==
    \A e \in Event \cap knl.obj :
        (\A t \in Task : pc[t] = "escan" => post[t].event # e) =>
            \A t \in ToSet(knl.pend[e]) : ~event_is_match(flag[e], want[t])

(* Flags that a clearing wait consumes are not given to a second clearing  *)
(* wait, nor to any waiter that it outranks, and are gone.                 *)
EventConsumedOnce ==
    [][ \A e \in Event : \A c \in Answered(e) :
          want[c].clr =>
              /\ flag'[e] = {}
              /\ \A t \in Answered(e) \ {c} : ~want[t].clr /\ knl.prio[t] <= knl.prio[c]
      ]_syncVars

(* A barrier counts the tasks that wait at it: it opens for the task that  *)
(* makes the number complete and for nobody before, whoever was turned     *)
(* away by the scheduler lock in between; open, it keeps nobody.           *)
BarrierExact ==
    \A b \in Barrier \cap knl.obj :
        IF count[b] = 0 THEN pend_is_nopending(knl, b)
        ELSE count[b] + Len(knl.pend[b]) = total[b]
=============================================================================
