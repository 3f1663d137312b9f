------------------------------ MODULE MCChatHub ------------------------------
(* Instances of ChatHub for TLC: two rooms, messages of the first and second. *)
EXTENDS ChatHub, TLC

CONSTANTS s1, s2, m1, m2, m3

MCRoom == [m \in Msgs |-> IF m = m3 THEN s2 ELSE s1]

Symmetry == Permutations(Chans)
=============================================================================
