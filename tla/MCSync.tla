------------------------------- MODULE MCSync -------------------------------
(* Clients of one object of each kind, one object alive at a time.         *)
EXTENDS SyncInv

CONSTANTS idle, t1, t2, t3, a, b, event, completion, latch, barrier

MCTasks == {idle, t1, t2, t3}

SyncCalls == {"create", "sched_lock", "obj_create", "obj_destroy",
              "pend", "post", "reset"}
IsrPosts  == {"post"}

(* Bound: the third client takes part in barriers only.                    *)
ThirdForBarrier == t3 \in knl.obj => Live \cap Barrier # {}

(* One flag or both, any or all of them, clearing or not.                  *)
MCPosted == {{a}, {b}}
MCWaits  == {[flags |-> {a, b}, all |-> TRUE, clr |-> TRUE],
             [flags |-> {a}, all |-> FALSE, clr |-> TRUE],
             [flags |-> {a, b}, all |-> FALSE, clr |-> FALSE]}
=============================================================================
