-------------------------- MODULE MCChainedFast --------------------------
(* ChainedFast with two web nodes, one for each request, whose clocks are  *)
(* in step or not.                                                         *)
EXTENDS ChainedFast, TLC

CONSTANTS p1, p2, n1, n2

Apart   == (p1 :> n1) @@ (p2 :> n2)
InStep  == [n \in Node |-> 0]
OneLate == (n1 :> 2) @@ (n2 :> 0)
=============================================================================
