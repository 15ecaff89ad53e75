------------------------------ MODULE AbsAlarm -------------------------------
(***************************************************************************)
(* What software timers promise, without lists, tasks and interrupts: an   *)
(* alarm that is set counts down and rings when it has reached zero, once  *)
(* or again and again, and an alarm that was cancelled does not ring.      *)
(***************************************************************************)
EXTENDS Integers

CONSTANTS Alarm, Silence, Off

VARIABLES
    left,    \* ticks until each alarm rings, Off when it is not set
    delay,   \* ticks until its first ring, 0 to use its period
    period,  \* ticks between rings
    repeats, \* whether it rings again and again
    ringing, \* the alarm that rings, or Silence
    punctual \* whether alarms ring at their tick

settings  == <<delay, period, repeats>>
alarmVars == <<left, settings, ringing, punctual>>

AlarmInit == /\ left = [x \in Alarm |-> Off] /\ ringing = Silence
             /\ delay = [x \in Alarm |-> 0] /\ period = delay
             /\ repeats = [x \in Alarm |-> FALSE] /\ punctual \in BOOLEAN

(* A repeating alarm that rings is set again by Repeat first.              *)
Repeats(x) == ringing = x /\ repeats[x] /\ left[x] = Off

(* An alarm with delay 0 that is set again may also ring at once.          *)
Arm(x) ==
    /\ ~Repeats(x)
    /\ \E n \in {delay[x]} \cup (IF delay[x] = 0 THEN {period[x]} ELSE {}) :
          left' = [left EXCEPT ![x] = n]
    /\ UNCHANGED <<settings, ringing, punctual>>

(* Only an alarm that is not set then may get other settings.             *)
Cancel(x) ==
    /\ left' = [left EXCEPT ![x] = Off]
    /\ \A y \in Alarm \ {x} : /\ delay'[y] = delay[y] /\ period'[y] = period[y]
                              /\ repeats'[y] = repeats[y]
    /\ UNCHANGED <<ringing, punctual>>

(* A punctual alarm that was given time is not overtaken by a tick.        *)
Tick ==
    /\ punctual => \A x \in Alarm : left[x] = 0 => delay[x] = 0
    /\ left' = [x \in Alarm |-> IF left[x] \in {Off, 0} THEN left[x] ELSE left[x] - 1]
    /\ UNCHANGED <<settings, ringing, punctual>>

Ring(x) ==
    /\ left[x] = 0 /\ ringing = Silence
    /\ left' = [left EXCEPT ![x] = Off] /\ ringing' = x
    /\ UNCHANGED <<settings, punctual>>

Repeat(x) ==
    /\ Repeats(x)
    /\ left' = [left EXCEPT ![x] = period[x]]
    /\ UNCHANGED <<settings, ringing, punctual>>

Hush == /\ ringing # Silence /\ ringing' = Silence
        /\ UNCHANGED <<left, settings, punctual>>

AlarmNext == \/ Tick \/ Hush
             \/ \E x \in Alarm : Arm(x) \/ Cancel(x) \/ Ring(x) \/ Repeat(x)

AlarmSpec == AlarmInit /\ [][AlarmNext]_alarmVars
=============================================================================
