------------------------------- MODULE MCTask -------------------------------
(* Three tasks and the idle task on two application priorities.            *)
EXTENDS Tickless

CONSTANTS idle, t1, t2, t3

MCTasks == {idle, t1, t2, t3}

(* The whole task API.                                                     *)
AllApi  == {"create", "destroy", "yield", "prio_change", "suspend", "resume",
            "delay", "delay_abort", "sched_lock", "timeslice_set"}
IsrCalls == {"suspend", "resume"}
=============================================================================
