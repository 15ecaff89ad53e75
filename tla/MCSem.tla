-------------------------------- MODULE MCSem -------------------------------
(* Clients of one semaphore, and interrupt handlers that post it.          *)
EXTENDS SemInv

CONSTANTS idle, t1, t2, s1

MCPair    == {idle, t1, t2}
RaceCalls == {"create", "destroy", "sem_create", "sem_destroy", "sem_post", "sem_pend",
              "timeslice_set"}
IsrPosts  == {"sem_post", "timeslice_set"}
=============================================================================
