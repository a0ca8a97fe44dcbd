------------------------------ MODULE MCTable ------------------------------
(* Slabs of two; the table grows once it is more than half full.           *)
EXTENDS Table, TLC

MCIncrements == [d \in 0 .. MAX_DIMS + 1 |-> 2 ^ d]
MCOccupied == [d \in 0 .. MAX_DIMS |-> 2 ^ d]

Symmetry == Permutations(Keys) \union Permutations(Values)
=============================================================================
