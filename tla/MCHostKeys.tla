----------------------------- MODULE MCHostKeys -----------------------------
(* HostKeys for TLC: connections, requests and keys are interchangeable.    *)
EXTENDS HostKeys, TLC

MCSymmetry == Permutations(Conns) \cup Permutations(Admins) \cup Permutations(Keys)

=============================================================================
