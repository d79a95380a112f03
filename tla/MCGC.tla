-------------------------------- MODULE MCGC --------------------------------
(* Finite instances of GC.  The thread is not interchangeable with the     *)
(* other cells, nor the finalizer table with the other weak table.         *)
EXTENDS GC, TLC

Sym == Permutations(Obj \ {Thr})
=============================================================================
