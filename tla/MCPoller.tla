------------------------------- MODULE MCPoller -------------------------------
(* Finite instances of Poller: a handle and a C/int for the descriptor d1, *)
(* one for each of the others.                                             *)
EXTENDS Poller, TLC

CONSTANTS handle, int1, int2, int3, d1, d2, d3

Descriptor == handle :> d1 @@ int1 :> d1 @@ int2 :> d2 @@ int3 :> d3
Waits == {-1, 0, 1, 2}
=============================================================================
