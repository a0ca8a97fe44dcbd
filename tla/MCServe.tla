------------------------------ MODULE MCServe ------------------------------
(* Small instances of Serve: a plain connection on one port, a TLS         *)
(* connection on another, a command file; two slots to a slab, so that the *)
(* queue's tree deepens.                                                   *)
EXTENDS Serve

CONSTANTS c1, t1

MCIncrements == [d \in 0 .. MAX_DIMS + 1 |-> 2 ^ d]
TwoPorts == <<{c1}, {t1}>>
=============================================================================
