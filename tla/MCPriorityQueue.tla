--------------------------- MODULE MCPriorityQueue ---------------------------
(* An instance of PriorityQueue; equal elements are the ties of cmp.       *)
EXTENDS PriorityQueue, TLC
CONSTANTS e1, e2, e3
RankTotal == e1 :> 1 @@ e2 :> 2 @@ e3 :> 3
=============================================================================
