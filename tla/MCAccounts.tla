----------------------------- MODULE MCAccounts -----------------------------
(* Instances of Accounts for TLC: two users, one of them on the admin list. *)
EXTENDS Accounts, TLC

CONSTANTS a, b

\* Bounds: admins stay signed in, one late statement at a time, and claims of
\* slugs, which touch no column of the others, race only logins.
Bound ==
  /\ admin \subseteq signedIn
  /\ Cardinality(late) <= 1
  /\ \/ \A q \in Reqs : ~Moderates(q)
     \/ /\ \A q \in Reqs : job[q].verb # "claim"
        /\ Cardinality({q \in Reqs : job[q].verb = "login"}) <= 1

Symmetry == Permutations(Reqs)
=============================================================================
