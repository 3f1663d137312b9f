----------------------------- MODULE MCSessions -----------------------------
(* Instances of Sessions for TLC: a browser with two requests under way. *)
EXTENDS Sessions, TLC, FiniteSets

\* Bounds: requests overlap in pairs, of which one at least does more than read,
\* while the session is calm; statements fail in requests that run alone; one user
\* is banned.
Bound ==
  /\ Cardinality({q \in Requests : Active(q)}) > 1 =>
       calm /\ \A q \in Requests : req[q].sure
  /\ Cardinality({q \in Requests : Active(q) /\ req[q].kind = "page"}) <= 1
  /\ Cardinality(banned) <= 1

Symmetry == Permutations(Requests) \cup Permutations(Users)
=============================================================================
