------------------------------- MODULE ChatHub -------------------------------
(***************************************************************************)
(* The in-memory pub/sub hub of internal/chat/hub.go, as its callers drive *)
(* it: ChatStream handlers subscribe, receive and unsubscribe, ChatSend    *)
(* handlers publish.                                                       *)
(*                                                                         *)
(* What runs inside the hub's mutex is one step (Subscribe, Unsubscribe,   *)
(* the copy that Publish makes).  The sends of Publish run outside it, one *)
(* step per channel of the copy, so they interleave with everything.       *)
(*                                                                         *)
(* Chans is a pool of Go channel identities: make(chan) returns one that   *)
(* nothing refers to any more, so a closed channel is taken again once no  *)
(* Publish call still has it in its copy.                                  *)
(***************************************************************************)
EXTENDS Naturals, Sequences, Functions

CONSTANTS
  Slugs,    \* channel slugs, the keys of Hub.subs
  Chans,    \* Go channel identities
  Msgs,     \* messages, each the argument of one Publish call
  Room,     \* Room[m]: the slug argument of the Publish call for m
  BufCap    \* capacity of a subscriber's channel, 16 in Subscribe

ASSUME HubAssumption ==
  /\ Room \in [Msgs -> Slugs]
  /\ BufCap \in Nat \ {0}

VARIABLES
  subs,     \* Hub.subs; a slug without a key has the empty sequence
  open,     \* the channels that are made and not closed
  stream,   \* stream[ch]: every message put into ch since it was made
  taken,    \* taken[ch]: how many of them the reader has received
  publish,  \* publish[m]: where the Publish call for m is
  list,     \* list[m]: what is left of that call's private copy of subs
  \* history variables, read by the properties and by no action
  audience, \* audience[m]: the whole copy that call made, as a set
  dropped,  \* <<ch, m>>: m met a full ch
  pred      \* pred[m]: the Publish calls that had returned when m's began

hubVars == <<subs, open, stream, taken, publish, list, audience, dropped, pred>>

HubTypeOK ==
  /\ subs \in [Slugs -> Seq(Chans)]
  /\ open \in SUBSET Chans
  /\ stream \in [Chans -> Seq(Msgs)]
  /\ taken \in [Chans -> Nat]
  /\ publish \in [Msgs -> {"none", "ranging", "returned", "panicked", "lost"}]
  /\ list \in [Msgs -> Seq(Chans)]
  /\ audience \in [Msgs -> SUBSET Chans]
  /\ dropped \in SUBSET (Chans \X Msgs)
  /\ pred \in [Msgs -> SUBSET Msgs]

HubInit ==
  /\ subs = [s \in Slugs |-> <<>>]
  /\ open = {}
  /\ stream = [ch \in Chans |-> <<>>]
  /\ taken = [ch \in Chans |-> 0]
  /\ publish = [m \in Msgs |-> "none"]
  /\ list = [m \in Msgs |-> <<>>]
  /\ audience = [m \in Msgs |-> {}]
  /\ dropped = {}
  /\ pred = [m \in Msgs |-> {}]
-----------------------------------------------------------------------------
(* Subscribers *)

\* Mutant: channels taken from a pool while a publisher may still hold them.
FreshPooled(ch) == ch \notin open

\* A channel make() can return: neither open nor in a copy being ranged over.
Fresh(ch) ==
  /\ ch \notin open
  /\ \A m \in Msgs : ch \notin Range(list[m])

Subscribe(s, ch) ==
  /\ Fresh(ch)
  /\ open' = open \cup {ch}
  /\ subs' = [subs EXCEPT ![s] = Append(@, ch)]
  /\ UNCHANGED <<stream, taken, publish, list, audience, dropped, pred>>

\* Mutants: the entry is set to nil; what follows the entry is forgotten.
CutHole(seq, i) == [seq EXCEPT ![i] = "nil"]
CutRest(seq, i) == SubSeq(seq, 1, i - 1)

\* seq without its i-th element, append(list[:i], list[i+1:]...) in the code.
CutAt(seq, i) == SubSeq(seq, 1, i - 1) \o SubSeq(seq, i + 1, Len(seq))

\* Removes the first entry that is ch and closes ch, what it holds is lost.
\* A call that does not find ch changes nothing.
Unsubscribe(s, ch) ==
  /\ \E i \in DOMAIN subs[s] :
       /\ subs[s][i] = ch
       /\ \A j \in 1..(i - 1) : subs[s][j] # ch
       /\ subs' = [subs EXCEPT ![s] = CutAt(@, i)]
  /\ open' = open \ {ch}
  /\ stream' = [stream EXCEPT ![ch] = <<>>]
  /\ taken' = [taken EXCEPT ![ch] = 0]
  /\ audience' = [m \in Msgs |-> audience[m] \ {ch}]
  /\ dropped' = {d \in dropped : d[1] # ch}
  /\ UNCHANGED <<publish, list, pred>>

\* How many messages ch holds.
Held(ch) == Len(stream[ch]) - taken[ch]

\* The receive case of ChatStream's select.
Receive(ch) ==
  /\ ch \in open
  /\ taken[ch] < Len(stream[ch])
  /\ taken' = [taken EXCEPT ![ch] = @ + 1]
  /\ UNCHANGED <<subs, open, stream, publish, list, audience, dropped, pred>>
-----------------------------------------------------------------------------
(* Publishers *)

PublishCopy(m) ==
  /\ publish[m] = "none"
  /\ publish' = [publish EXCEPT ![m] = "ranging"]
  /\ list' = [list EXCEPT ![m] = subs[Room[m]]]
  /\ audience' = [audience EXCEPT ![m] = Range(subs[Room[m]])]
  /\ pred' = [pred EXCEPT ![m] = {k \in Msgs : publish[k] = "returned"}]
  /\ UNCHANGED <<subs, open, stream, taken, dropped>>

\* The next channel of the copy has room for the message.
PublishSend(m) ==
  /\ list[m] # <<>>
  /\ LET ch == Head(list[m]) IN
       /\ ch \in open
       /\ Held(ch) < BufCap
       /\ stream' = [stream EXCEPT ![ch] = Append(@, m)]
  /\ list' = [list EXCEPT ![m] = Tail(@)]
  /\ UNCHANGED <<subs, open, taken, publish, audience, dropped, pred>>

\* Mutants: a send without default blocks; the first full buffer ends the loop.
PublishBlock(m) == FALSE
PublishBreak(m) ==
  /\ list[m] # <<>> /\ Held(Head(list[m])) >= BufCap
  /\ list' = [list EXCEPT ![m] = <<>>]
  /\ UNCHANGED <<subs, open, stream, taken, publish, audience, dropped, pred>>

\* It is full: the select takes its default case.
PublishDrop(m) ==
  /\ list[m] # <<>>
  /\ LET ch == Head(list[m]) IN
       /\ ch \in open
       /\ Held(ch) >= BufCap
       /\ dropped' = dropped \cup {<<ch, m>>}
  /\ list' = [list EXCEPT ![m] = Tail(@)]
  /\ UNCHANGED <<subs, open, stream, taken, publish, audience, pred>>

\* It has been closed since the copy was made: a send on a closed channel is
\* always ready and panics, default case or not.  The loop ends there.
PublishPanic(m) ==
  /\ list[m] # <<>>
  /\ Head(list[m]) \notin open
  /\ publish' = [publish EXCEPT ![m] = "panicked"]
  /\ list' = [list EXCEPT ![m] = <<>>]
  /\ UNCHANGED <<subs, open, stream, taken, audience, dropped, pred>>

\* Mutant: the fan-out runs on in a goroutine of its own.
PublishReturnEarly(m) ==
  /\ publish[m] = "ranging"
  /\ publish' = [publish EXCEPT ![m] = "returned"]
  /\ UNCHANGED <<subs, open, stream, taken, list, audience, dropped, pred>>

PublishReturn(m) ==
  /\ publish[m] = "ranging"
  /\ list[m] = <<>>
  /\ publish' = [publish EXCEPT ![m] = "returned"]
  /\ UNCHANGED <<subs, open, stream, taken, list, audience, dropped, pred>>

PublishStep(m) ==
  PublishSend(m) \/ PublishDrop(m) \/ PublishPanic(m) \/ PublishReturn(m)

\* The process ends and a new one starts with NewHub: the hub is only memory.
ProcessExit ==
  /\ subs' = [s \in Slugs |-> <<>>]
  /\ open' = {}
  /\ stream' = [ch \in Chans |-> <<>>]
  /\ taken' = [ch \in Chans |-> 0]
  /\ publish' = [m \in Msgs |-> IF publish[m] = "ranging" THEN "lost" ELSE publish[m]]
  /\ list' = [m \in Msgs |-> <<>>]
  /\ audience' = [m \in Msgs |-> {}]
  /\ dropped' = {}
  /\ UNCHANGED pred

HubNext ==
  \/ \E s \in Slugs, ch \in Chans : Subscribe(s, ch) \/ Unsubscribe(s, ch)
  \/ \E ch \in Chans : Receive(ch)
  \/ \E m \in Msgs : PublishCopy(m) \/ PublishStep(m)
  \/ ProcessExit

HubSpec == HubInit /\ [][HubNext]_hubVars

\* A Publish call that has begun is a running goroutine that never waits.
\* Nothing is assumed of the readers: a browser may stop reading for good.
HubFairSpec == HubSpec /\ \A m \in Msgs : WF_hubVars(PublishStep(m))
-----------------------------------------------------------------------------
(* Properties *)

\* A Publish call as its caller sees it: one that panicked or was lost with the
\* process broke off.
Outcome(m) ==
  CASE publish[m] = "ranging" -> "running"
    [] publish[m] \in {"panicked", "lost"} -> "broken"
    [] OTHER -> publish[m]

\* The hub keeps the promises of Delivery, whose calls know nothing of copies that
\* go stale, channels that are made again and buffers that are full: everyone
\* subscribed when a message is published gets it once, or it is dropped for him
\* alone, unless he leaves or the call breaks off; nobody else gets it.
Service == INSTANCE Delivery WITH
  members <- [s \in Slugs |-> Range(subs[s])], inbox <- stream,
  call <- [m \in Msgs |-> Outcome(m)], owed <- audience, missed <- dropped
Delivers == Service!Spec

\* Every open channel is in the hub exactly once, under one slug, and every
\* channel in the hub is open.  So Unsubscribe always finds its channel, no
\* channel is closed twice (a Go panic), and a publisher that copies the list
\* now copies no closed channel.
Registered ==
  /\ \A s \in Slugs : Range(subs[s]) \subseteq open /\ IsInjective(subs[s])
  /\ \A ch \in open : \E s \in Slugs : ch \in Range(subs[s])
  /\ \A s, t \in Slugs : s # t => Range(subs[s]) \cap Range(subs[t]) = {}

\* A subscriber of a slug is only ever handed messages of that slug, however
\* channels come and go while a Publish ranges over an old copy.
RoomIsolation ==
  \A s \in Slugs : \A ch \in Range(subs[s]) :
    \A m \in Range(stream[ch]) : Room[m] = s

\* A subscriber is handed each message at most once, and never a message
\* after one whose Publish began when the first one's had already returned.
StreamOrder ==
  \A ch \in Chans : \A i, j \in DOMAIN stream[ch] :
    i < j => /\ stream[ch][i] # stream[ch][j]
             /\ stream[ch][j] \notin pred[stream[ch][i]]

\* A Publish that returned has served everyone of its copy who is still
\* subscribed: the message is in the channel or met a full buffer.
ReturnedServed ==
  \A m \in Msgs : publish[m] = "returned" =>
    \A ch \in audience[m] : m \in Range(stream[ch]) \/ <<ch, m>> \in dropped

\* "Publish fans out a message to all current subscribers for the channel.
\* Non-blocking: full buffers drop the message for that subscriber"
\* (hub.go:53): the same whichever way the call ended.
FanOut ==
  \A m \in Msgs : publish[m] \in {"returned", "panicked"} =>
    \A ch \in audience[m] : m \in Range(stream[ch]) \/ <<ch, m>> \in dropped

\* Publish is non-blocking: it ends even when no reader ever reads again.
PublishEnds ==
  \A m \in Msgs : publish[m] = "ranging" ~> publish[m] # "ranging"
=============================================================================
