------------------------------- MODULE MCHash -------------------------------
(* Keys that share a bucket at every size, at small sizes only, and never. *)
EXTENDS Hash, TLC

CONSTANTS k1, k2, k3, k4, k5, x, y

PowersOfTwo == {1, 2, 4, 8, 16, 32, 64, 128}
Hashes == (k1 :> 5) @@ (k2 :> 5) @@ (k3 :> 5) @@ (k4 :> 21) @@ (k5 :> 2)
Alike == Permutations({k1, k2, k3}) \cup Permutations({x, y})
=============================================================================
