------------------------------ MODULE MCQueue ------------------------------
(* Slabs of two, so that a few items make the Span grow a level.           *)
EXTENDS Queue, TLC

MCIncrements == [d \in 0 .. MAX_DIMS + 1 |-> 2 ^ d]

Symmetry == Permutations(AlwaysReady) \union Permutations(Items \ AlwaysReady)
=============================================================================
