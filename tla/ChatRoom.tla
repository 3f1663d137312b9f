------------------------------ MODULE ChatRoom ------------------------------
(***************************************************************************)
(* What the persistent chat promises, without handlers, hub or streams: a  *)
(* log of messages that only grows, posters who are told what became of    *)
(* their message, and pages that each list messages of their room.         *)
(***************************************************************************)
EXTENDS Sequences, Functions

CONSTANTS Msgs, Pages, Author, Room, Watching

VARIABLES
  log,      \* the messages that are stored
  told,     \* told[m]: what the poster of m knows
  screen    \* screen[p]: the messages page p shows, top to bottom

vars == <<log, told, screen>>

Init ==
  /\ log = {}
  /\ told = [m \in Msgs |-> "draft"]
  /\ screen = [p \in Pages |-> <<>>]

Post(m) ==
  /\ told[m] = "draft"
  /\ told' = [told EXCEPT ![m] = "waiting"]
  /\ UNCHANGED <<log, screen>>

\* A message that was posted is stored, whatever its poster is told, at once
\* or later, unless it bounced.
Store(m) ==
  /\ told[m] \notin {"draft", "bounced"}
  /\ m \notin log
  /\ log' = log \cup {m}
  /\ UNCHANGED <<told, screen>>

\* Only a stored message is ever confirmed, and that is final.
Confirm(m) ==
  /\ told[m] = "waiting"
  /\ m \in log
  /\ told' = [told EXCEPT ![m] = "sent"]
  /\ UNCHANGED <<log, screen>>

\* A poster who is not logged in any more is sent to the login page; his message
\* is not stored and never will be.
Bounce(m) ==
  /\ told[m] = "waiting"
  /\ m \notin log
  /\ told' = [told EXCEPT ![m] = "bounced"]
  /\ UNCHANGED <<log, screen>>

\* Some posters are told, or assume, that it failed.
Abandon(M) ==
  /\ told' = [m \in Msgs |-> IF m \in M /\ told[m] = "waiting" THEN "failed" ELSE told[m]]
  /\ UNCHANGED <<log, screen>>

\* A page shows a stored message of its room, once.
Show(p, m) ==
  /\ m \in log
  /\ Room[m] = Watching[p]
  /\ m \notin Range(screen[p])
  /\ screen' = [screen EXCEPT ![p] = Append(@, m)]
  /\ UNCHANGED <<log, told>>

\* A page is loaded anew.
Leave(p) ==
  /\ screen' = [screen EXCEPT ![p] = <<>>]
  /\ told' = [m \in Msgs |->
                IF Author[m] = p /\ told[m] = "waiting" THEN "failed" ELSE told[m]]
  /\ UNCHANGED log

Next ==
  \/ \E m \in Msgs : Post(m) \/ Store(m) \/ Confirm(m) \/ Bounce(m)
  \/ \E M \in SUBSET Msgs : Abandon(M)
  \/ \E p \in Pages : Leave(p) \/ \E m \in Msgs : Show(p, m)

Spec == Init /\ [][Next]_vars
=============================================================================
