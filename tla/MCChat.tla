------------------------------- MODULE MCChat -------------------------------
(* Instances of Chat for TLC: one page, which posts m1, and another poster in *)
(* its room, of m2, whose own page is not looked at.                          *)
EXTENDS Chat, TLC

CONSTANTS s1, p1, p2, m1, m2

MCAuthor == [m \in Msgs |-> IF m = m2 THEN p2 ELSE p1]
MCWatching == [p \in Pages |-> s1]
MCRoom == [m \in Msgs |-> s1]

\* Bound: m2 is posted once m1 was confirmed, or lost with the server, its row
\* perhaps still to come.  Posts that overlap are the business of ChatHub's run
\* and of the proofs.
InTurn == req[m2] # "none" => told[m1] = "sent" \/ req[m1] = "lost"
=============================================================================
