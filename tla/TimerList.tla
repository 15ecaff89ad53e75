----------------------------- MODULE TimerList ------------------------------
(***************************************************************************)
(* The software timers' data (tos_timer.c, tos_list.h): operators on one   *)
(* record w that holds k_timer_ctl and every timer's fields.  The list is  *)
(* kept as the pointers of the code, since calls unlink entries that are   *)
(* not linked and the walk follows pointers it has saved.                  *)
(*                                                                         *)
(* k_tick_count (64 bits) is only added to times and compared with them:   *)
(* times are kept relative to it, 0 for all that have come.                *)
(***************************************************************************)
EXTENDS Integers, FiniteSets, SequencesExt

CONSTANTS
    Timer,     \* timers
    ListHead,  \* &k_timer_ctl.list
    NoTimer,   \* no timer
    LongestDelay, \* bound: delays and periods
    Garbage    \* bound: values found behind k_timer_ctl, see timer_takeoff

Never     == LongestDelay + 1  \* TOS_TIME_FOREVER as an expiry
Node      == Timer \cup {ListHead}
TimerOpt  == {"ONESHOT", "PERIODIC"}

ASSUME TimerAssumption == /\ ListHead \notin Timer /\ NoTimer \notin Node
                          /\ LongestDelay \in Nat /\ Garbage \subseteq 0 .. Never

(* The list is empty, no timer has been created.  A timer is "UNUSED",     *)
(* "STOPPED", "RUNNING" or "COMPLETED".                                    *)
NoTimers == [ next |-> Never, nx |-> [n \in Node |-> n], pv |-> [n \in Node |-> n],
              state |-> [x \in Timer |-> "UNUSED"], opt |-> [x \in Timer |-> "ONESHOT"],
              delay |-> [x \in Timer |-> 0], period |-> [x \in Timer |-> 0],
              expires |-> [x \in Timer |-> 0] ]

list_init(w, x) == [w EXCEPT !.nx[x] = x, !.pv[x] = x]

(* tos_list_del leaves the pointers of the entry itself as they are.       *)
list_del(w, x) == [w EXCEPT !.nx[w.pv[x]] = w.nx[x], !.pv[w.nx[x]] = w.pv[x]]

(* tos_list_add_tail(x, n): in front of n.                                 *)
list_add_tail(w, x, n) ==
    LET p  == w.pv[n]
        w1 == [w EXCEPT !.pv[n] = x, !.nx[x] = n, !.pv[x] = p]
    IN  [w1 EXCEPT !.nx[p] = x]

(* The entries met by following next pointers from the list head.          *)
NodeAt(w) ==
    LET at[i \in 0 .. Cardinality(Timer)] ==
            IF i = 0 THEN w.nx[ListHead]
            ELSE IF at[i - 1] = ListHead THEN ListHead ELSE w.nx[at[i - 1]]
    IN  at
Listed(w) == ToSet([i \in 1 .. Cardinality(Timer) |-> NodeAt(w)[i - 1]]) \ {ListHead}

(* Fault: the next expiry is not moved up.                                 *)
timer_place_Stale(w, x) ==
    LET at == NodeAt(w)
        Before(j) == at[j] = ListHead \/ w.expires[x] < w.expires[at[j]]
        i  == CHOOSE j \in DOMAIN at : Before(j) /\ \A h \in 0 .. j - 1 : ~Before(h)
    IN  list_add_tail(w, x, at[i])

(* Its kernel calls are in module Timer.  expires already holds the time   *)
(* from now on.                                                            *)
timer_place(w, x) ==
    LET at == NodeAt(w)
        Before(j) == at[j] = ListHead \/ w.expires[x] < w.expires[at[j]]
        i  == CHOOSE j \in DOMAIN at : Before(j) /\ \A h \in 0 .. j - 1 : ~Before(h)
        w1 == list_add_tail(w, x, at[i])
    IN  [w1 EXCEPT !.next = IF w1.nx[ListHead] = x THEN w.expires[x] ELSE @]

(* The emptiness test looks at the entry taken off, whose next pointer     *)
(* still leads to the list head when it was the only one: the head is then *)
(* read as if it were a timer, and g is what lies in memory behind it.     *)
timer_takeoff(w, x, g) ==
    LET w1 == list_del(w, x)
        n  == w1.nx[x]
    IN  IF w.nx[ListHead] # x THEN w1
        ELSE [w1 EXCEPT !.next = IF n = x THEN Never
                                 ELSE IF n = ListHead THEN g ELSE w.expires[n]]

timer_reset(w, x) ==
    [list_init(w, x) EXCEPT !.state[x] = "UNUSED", !.delay[x] = 0, !.expires[x] = 0,
                            !.period[x] = 0, !.opt[x] = "ONESHOT"]

tos_timer_create(w, x, delay, period, opt) ==
    [list_init(w, x) EXCEPT !.state[x] = "STOPPED", !.delay[x] = delay, !.expires[x] = 0,
                            !.period[x] = period, !.opt[x] = opt]

CreateRefused(delay, period, opt) ==
    \/ opt = "PERIODIC" /\ period = 0
    \/ opt = "ONESHOT" /\ delay = 0

(* Time from the start of a timer that was not running to its first expiry. *)
FirstDelay(w, x) == IF w.delay[x] = 0 THEN w.period[x] ELSE w.delay[x]

(* k_tick_count goes up by one; the expiry of a timer that is about to be  *)
(* placed, one of fresh, is still a duration.                              *)
Later(w, fresh) ==
    LET Sooner(n) == IF n > 0 THEN n - 1 ELSE 0
    IN  [w EXCEPT !.next = IF @ = Never THEN @ ELSE Sooner(@),
                  !.expires = [x \in Timer |-> IF x \in fresh THEN w.expires[x]
                                               ELSE Sooner(w.expires[x])]]

(* soft_timer_next_expires_get, 0 for an expiry that has come.             *)
soft_timer_next_expires_get(w) == w.next
=============================================================================
