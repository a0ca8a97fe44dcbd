----------------------------- MODULE MCMemBook -----------------------------
(* The chapters are interchangeable.                                       *)
EXTENDS MemBook, TLC

MCIncrements == [d \in 0 .. MAX_DIMS + 1 |-> 3 ^ d]

Symmetry == Permutations(Chapters)
=============================================================================
