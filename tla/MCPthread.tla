----------------------------- MODULE MCPthread ------------------------------
(* A thread makes and joins two others that outrank it, or, with time      *)
(* slices, one other of its own priority.                                  *)
EXTENDS Pthread

CONSTANTS m, w1, w2

MCRank == [t \in Thread |-> IF t = m /\ ~RoundRobin THEN 2 ELSE 1]
=============================================================================
