--------------------------- MODULE MCComputeSum ----------------------------
(* A root over a node with two leaves.  The inputs are powers of two: a sum *)
(* tells whose it is.                                                       *)
EXTENDS ComputeSum, TLC

Four == 0 :> 2 @@ 1 :> 2 @@ 2 :> 3 @@ 3 :> 3
Powers == [i \in 0 .. n - 1 |-> 2 ^ i]
=============================================================================
