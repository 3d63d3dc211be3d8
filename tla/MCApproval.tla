----------------------------- MODULE MCApproval -----------------------------
(* Requests of one connection against concurrent REST requests, the sweep  *)
(* and the connection's teardown.                                          *)
EXTENDS Approval, TLC

CONSTANT c1

MCConnOf == [a \in Actions |-> c1]

MCSymmetry == Permutations(Actions)

=============================================================================
