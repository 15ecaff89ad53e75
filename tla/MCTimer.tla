------------------------------- MODULE MCTimer ------------------------------
(* A one-shot timer, shot, and a periodic one, beat, used by a task and by *)
(* their callbacks.                                                        *)
EXTENDS TimerInv

CONSTANTS idle, t1, tmr, shot, beat

MCTasks == {idle, t1, tmr}

(* Tasks do not take a running one-shot timer off: it may be ringing.      *)
CarefulCalls == ({"create", "start", "change"} \X {shot}) \cup (TimerCall \X {beat})

(* Callbacks handle their own timer, and start the one no task takes off.  *)
CarefulCallbacks == ({shot} \X {"start", "destroy"} \X {shot})
                       \cup {<<beat, "restart", beat>>, <<beat, "start", shot>>}

MCSettings == [ x \in {shot, beat} |->
    IF x = shot THEN {[delay |-> d, period |-> 0, opt |-> "ONESHOT"] : d \in {1, 2}}
             ELSE {[delay |-> d, period |-> 2, opt |-> "PERIODIC"] : d \in {0, 1}} ]

(* The timers of the run are used as the theorems about timers demand.     *)
ASSUME CarefulAssumption == CarefulUse
=============================================================================
