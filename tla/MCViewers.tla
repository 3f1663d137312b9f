----------------------------- MODULE MCViewers -----------------------------
(* Instances of Viewers for TLC. *)
EXTENDS Viewers
=============================================================================
