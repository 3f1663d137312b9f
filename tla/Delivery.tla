------------------------------ MODULE Delivery ------------------------------
(***************************************************************************)
(* What the hub promises to those who use it, without lists, copies, locks *)
(* and buffers: a Publish call owes its message to those who are           *)
(* subscribed when it is made.  Until it ends they get the message, in any *)
(* order, or it is put down that they miss it; who leaves is owed nothing. *)
(* A call that returns owes nobody; one may break off and owe the rest.    *)
(***************************************************************************)
EXTENDS Sequences, Functions

CONSTANTS Slugs, Chans, Msgs, Room

VARIABLES
  members,  \* members[s]: the subscribers of slug s
  inbox,    \* inbox[ch]: what ch was handed since it subscribed
  call,     \* call[m]: where the Publish call of m is
  owed,     \* owed[m]: who was subscribed when it was made, and still is
  missed    \* <<ch, m>>: ch does without m

vars == <<members, inbox, call, owed, missed>>

Init ==
  /\ members = [s \in Slugs |-> {}]
  /\ inbox = [ch \in Chans |-> <<>>]
  /\ call = [m \in Msgs |-> "none"]
  /\ owed = [m \in Msgs |-> {}]
  /\ missed = {}

Join(s, ch) ==
  /\ \A t \in Slugs : ch \notin members[t]
  /\ members' = [members EXCEPT ![s] = @ \cup {ch}]
  /\ UNCHANGED <<inbox, call, owed, missed>>

Leave(s, ch) ==
  /\ ch \in members[s]
  /\ members' = [members EXCEPT ![s] = @ \ {ch}]
  /\ inbox' = [inbox EXCEPT ![ch] = <<>>]
  /\ owed' = [m \in Msgs |-> owed[m] \ {ch}]
  /\ missed' = {d \in missed : d[1] # ch}
  /\ UNCHANGED call

Call(m) ==
  /\ call[m] = "none"
  /\ call' = [call EXCEPT ![m] = "running"]
  /\ owed' = [owed EXCEPT ![m] = members[Room[m]]]
  /\ UNCHANGED <<members, inbox, missed>>

\* m is owed to ch, and it is not decided yet whether ch gets it.
Open(m, ch) ==
  /\ call[m] = "running"
  /\ ch \in owed[m]
  /\ m \notin Range(inbox[ch])
  /\ <<ch, m>> \notin missed

Hand(m, ch) ==
  /\ Open(m, ch)
  /\ inbox' = [inbox EXCEPT ![ch] = Append(@, m)]
  /\ UNCHANGED <<members, call, owed, missed>>

Miss(m, ch) ==
  /\ Open(m, ch)
  /\ missed' = missed \cup {<<ch, m>>}
  /\ UNCHANGED <<members, inbox, call, owed>>

Return(m) ==
  /\ call[m] = "running"
  /\ \A ch \in owed[m] : ~Open(m, ch)
  /\ call' = [call EXCEPT ![m] = "returned"]
  /\ UNCHANGED <<members, inbox, owed, missed>>

Break(m) ==
  /\ call[m] = "running"
  /\ call' = [call EXCEPT ![m] = "broken"]
  /\ UNCHANGED <<members, inbox, owed, missed>>

\* Everybody is gone and every call under way breaks off.
Restart ==
  /\ members' = [s \in Slugs |-> {}]
  /\ inbox' = [ch \in Chans |-> <<>>]
  /\ call' = [m \in Msgs |-> IF call[m] = "running" THEN "broken" ELSE call[m]]
  /\ owed' = [m \in Msgs |-> {}]
  /\ missed' = {}

Next ==
  \/ \E s \in Slugs, ch \in Chans : Join(s, ch) \/ Leave(s, ch)
  \/ \E m \in Msgs : Call(m) \/ Return(m) \/ Break(m)
  \/ \E m \in Msgs, ch \in Chans : Hand(m, ch) \/ Miss(m, ch)
  \/ Restart

Spec == Init /\ [][Next]_vars
=============================================================================
