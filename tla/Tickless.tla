------------------------------ MODULE Tickless ------------------------------
(***************************************************************************)
(* The idle task sleeps through the ticks in which nobody is due           *)
(* (tos_tickless.c, tos_pm.c): it stops the tick interrupt, sets a wake-up *)
(* alarm, and when it is woken hands the ticks it planned to sleep to      *)
(* tick_update.  Time is counted in milliseconds while it sleeps.          *)
(*                                                                         *)
(* The code takes the planned time for the time slept, so this describes   *)
(* boards whose alarm is the only interrupt taken between tickless_enter   *)
(* and tickless_leave, and whose alarm runs for whole ticks.               *)
(***************************************************************************)
EXTENDS TaskInv

CONSTANTS
    TicksPerSec, \* k_cpu_tick_per_second
    MsPerSec,    \* K_TIME_MILLISEC_PER_SEC, 1000 in the code
    MaxDelay     \* max_delay() of the wake-up alarm, in milliseconds

ASSUME TicklessAssumption ==
    /\ TicksPerSec \in Nat \ {0} /\ MsPerSec \in Nat \ {0} /\ MsPerSec % TicksPerSec = 0
    /\ MaxDelay \in Nat /\ (TicksPerSec * MaxDelay) % MsPerSec = 0

VARIABLE nap \* tickless_proc: where it is, time_sleep, and the time that has passed

ticklessVars == <<knl, isr, pc, arg, nap>>

Awake == [phase |-> "awake", timeSleep |-> 0, slept |-> 0]

TicklessInit == Init /\ nap = Awake

(* There are no timers here.                                               *)
knl_next_expires_get(k) == IF k.tick = << >> THEN Forever ELSE k.expires[Head(k.tick)]

(* Fault: the first deadline is not looked at.                             *)
tickless_cpu_sleep_time_get_Max(k) == MaxDelay

tickless_cpu_sleep_time_get(k) ==
    LET next == knl_next_expires_get(k)
        time == (next * MsPerSec) \div TicksPerSec
    IN  IF next = Forever \/ time > MaxDelay THEN MaxDelay ELSE time

(* Rounded down, as in tickless_leave.                                     *)
Ticks(ms) == (TicksPerSec * ms) \div MsPerSec

Idling == TaskRuns /\ knl.curr = Idle

(* tickless_proc up to the end of its interrupts-disabled section: the     *)
(* tick interrupt is suspended and none is left pending.                   *)
TicklessEnter ==
    /\ Idling /\ nap.phase = "awake"
    /\ LET time == tickless_cpu_sleep_time_get(knl)
       IN  time # 0 /\ nap' = [phase |-> "asleep", timeSleep |-> time, slept |-> 0]
    /\ UNCHANGED vars

TimePasses ==
    /\ nap.phase = "asleep" /\ nap.slept < nap.timeSleep
    /\ nap' = [nap EXCEPT !.slept = @ + 1] /\ UNCHANGED vars

(* The interrupt of the alarm ends pm_cpu_lpwr_mode_enter.                 *)
AlarmRings ==
    /\ nap.phase = "asleep" /\ nap.slept = nap.timeSleep
    /\ nap' = [nap EXCEPT !.phase = "woken"]
    /\ isr' = <<"leave">> \o isr /\ knl' = [knl EXCEPT !.irqNest = @ + 1]
    /\ UNCHANGED <<pc, arg>>

(* tickless_leave: tickless_tick_fix, then knl_sched.                      *)
TicklessLeave ==
    /\ Idling /\ nap.phase = "woken"
    /\ ThenSched(tick_update(knl, Ticks(nap.timeSleep)))
    /\ nap' = Awake

TicklessNext ==
    \/ nap.phase = "awake" /\ Next /\ UNCHANGED nap
    \/ nap.phase = "woken" /\ IrqLeave /\ UNCHANGED nap
    \/ TicklessEnter \/ TimePasses \/ AlarmRings \/ TicklessLeave

TicklessSpec == TicklessInit /\ [][TicklessNext]_ticklessVars

----------------------------------------------------------------------------
(* What the clock promises to those who sleep.                             *)

TickStep == isr # << >> /\ Head(isr) = "tick" /\ Len(isr') = Len(isr) /\ Head(isr') # "tick"
WakeStep == nap.phase = "woken" /\ nap'.phase = "awake"
Sleeps   == { t \in Task : IsSleeping(knl, t) }

(* The ticks this step makes up for: that of a tick interrupt, or those in *)
(* the time that passed while the processor slept.                         *)
Passed == IF TickStep THEN 1
          ELSE IF WakeStep THEN Ticks(nap.slept) ELSE 0

OnTime ==
    \A t \in Sleeps :
        /\ Passed <= Remaining(knl, t)
        /\ Passed > 0 => (Passed = Remaining(knl, t)) = ~IsSleeping(knl', t)
        /\ IsSleeping(knl', t) => Remaining(knl', t) = Remaining(knl, t) - Passed

(* Every deadline moves with the time that has passed and with nothing     *)
(* else, however many sleepers enter or leave the delta list meanwhile;    *)
(* who reaches it is woken then; and the processor never sleeps past the   *)
(* first one (tick_task_place, tick_task_takeoff, tick_update,             *)
(* tickless_cpu_sleep_time_get, tickless_leave).                           *)
SleepersKeepTime == [][OnTime]_ticklessVars
=============================================================================
