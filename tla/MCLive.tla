------------------------------- MODULE MCLive -------------------------------
(* Instances of Live for TLC: one dashboard, one stream beside it. *)
EXTENDS Live, Naturals

Busy(f) == \/ \E o \in Owners : form[o][f] # Rest(row[o][f]) \/ <<o, f>> \in doubt \/ draft[o][f] # row[o][f]
           \/ \E u \in late : u[2] = f

\* Bounds: one UPDATE given up and one form busy at a time (forms share nothing
\* but the page); the other stream is for members; settings change, none
\* of them waiting, under the listing that reads them, the cards; a kick races
\* the admin's list.
Bound ==
  /\ \A s \in Slugs \ Owners : row[s].discovery = "members"
  /\ Cardinality(late) <= 1
  /\ Cardinality({f \in Fields : Busy(f)}) <= 1
  /\ \A r \in Requests : listing[r].at # "idle" =>
       \A f \in Fields : Busy(f) => /\ f = "discovery" /\ listing[r].kind = "cards"
                                    /\ \A o \in Owners : ~form[o][f].queued
  /\ kick.at # "idle" =>
       /\ \A f \in Fields : ~Busy(f)
       /\ \A r \in Requests : listing[r].kind = "rows"
=============================================================================
