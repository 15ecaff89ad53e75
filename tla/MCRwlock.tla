------------------------------ MODULE MCRwlock ------------------------------
(* Users of a read-write lock, and of a mutex.                             *)
EXTENDS RwlockInv

CONSTANTS idle, t1, t2, t3, m1, lock, signal

MCTasks == {idle, t1, t2, t3}
MCPair  == {idle, t1, t2}

LockCalls == {"create", "mutex_create", "mutex_destroy", "mutex_pend", "mutex_post",
              "sem_create", "sem_destroy", "sem_pend", "sem_post"}
=============================================================================
