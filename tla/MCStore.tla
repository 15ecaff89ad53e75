------------------------------ MODULE MCStore -------------------------------
(* Two pools of a heap with coarse size classes, and small containers.     *)
EXTENDS Store

CONSTANTS x1, x2, p1, c1

MCPools == (4 :> 20) @@ (32 :> 8)
=============================================================================
