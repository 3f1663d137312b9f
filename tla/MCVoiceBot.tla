----------------------------- MODULE MCVoiceBot -----------------------------
(* Instances of VoiceBot for TLC. *)
EXTENDS VoiceBot, TLC

CONSTANTS c1, c2

\* A request for two channels, and one that names a channel twice.
MCPaths == {<<c1, c2>>, <<c1, c1>>}

\* Bounds: only c2 is created and deleted; requests are made while the guild is
\* available, both channels have been made and at most one handler runs.
Bound ==
  /\ c1 \in Alive
  /\ viewing # "no" =>
       /\ link = "up" /\ made = Channels
       /\ Cardinality({g \in Goroutines : handler[g] # Idle}) <= 1

Symmetry == Permutations(Users) \cup Permutations(Goroutines)
=============================================================================
