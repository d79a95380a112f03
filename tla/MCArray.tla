------------------------------- MODULE MCArray -------------------------------
(* Finite instances of Array, of data and of the stack of a thread.        *)
EXTENDS Array

Indexes == -1 .. 5
Sizes == 0 .. 2
=============================================================================
