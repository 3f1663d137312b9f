---------------------------- MODULE MCStreamKeys ----------------------------
(* Instances of StreamKeys for TLC: three clicks of one user. *)
EXTENDS StreamKeys, TLC

CONSTANTS u1, q1, q2, q3

MCOwner == [q \in Reqs |-> u1]

Symmetry == Permutations(Reqs)
=============================================================================
