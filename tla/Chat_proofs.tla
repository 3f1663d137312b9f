---------------------------- MODULE Chat_proofs ----------------------------
(***************************************************************************)
(* The safety of the chat for any number of rooms, pages, messages and     *)
(* channels, any buffer capacity and any history limit.                    *)
(*                                                                         *)
(* A step of the chat is a step of the hub or leaves the hub alone, so the *)
(* invariants of ChatHub_proofs hold here.  On top of them: StoreInv says  *)
(* how far a message has come when its handler, its Publish call and its   *)
(* page are where they are, PageInv what a page may hold, and ReachInv     *)
(* that a message being published is still on its way to every page that   *)
(* streams since before its history, or has met one of the two excuses.    *)
(***************************************************************************)
EXTENDS Chat, ChatHub_proofs, FiniteSetTheorems

\* A row that is committed was begun by a handler; a published message is
\* committed; only a message whose Publish returned is told "sent".
StoreInv ==
  \A m \in Msgs :
    /\ m \in db => stamp[m] > 0
    /\ stamp[m] > 0 => req[m] # "none"
    /\ told[m] = "draft" <=> req[m] = "none"
    /\ req[m] = "checking" => stamp[m] = 0
    /\ req[m] = "inserting" => stamp[m] > 0
    /\ req[m] = "stored" => m \in db
    /\ publish[m] # "none" => m \in db
    /\ publish[m] = "ranging" => req[m] = "stored"
    /\ told[m] = "sent" => publish[m] = "returned"
    /\ told[m] = "bounced" => req[m] = "ended" /\ stamp[m] = 0

\* A page shows and is about to show committed messages of its room, each at
\* most once on the screen.
PageInv ==
  \A p \in Pages :
    /\ IsInjective(screen[p])
    /\ \A m \in Range(screen[p]) \cup reply[p] \cup Range(wire[p]) :
         m \in db /\ Room[m] = Watching[p]

\* A history read during a stream counts until the handler of that stream ends.
BasisInv == \A p \in Pages : basis[p] = "kept" => conn[p] # NoChan

\* Message m is on page p, on its way to it, or excused.
Got(p, m) ==
  \/ m \in Range(screen[p]) \cup reply[p] \cup beyond[p] \cup Coming(p)
  \/ <<conn[p], m>> \in dropped

ReachInv ==
  \A p \in Pages, m \in Msgs :
    basis[p] = "kept" /\ Room[m] = Watching[p] =>
      /\ publish[m] = "returned" => Got(p, m)
      /\ publish[m] = "ranging" => Got(p, m) \/ conn[p] \in Range(list[m])

ChatInv ==
  /\ HubInv
  /\ ChatTypeOK
  /\ StoreInv
  /\ PageInv
  /\ ConnectedIsSubscribed
  /\ BasisInv
  /\ ReachInv
-----------------------------------------------------------------------------
\* A page's channel is one of Chans when there is one.
LEMMA ConnType ==
  ASSUME ChatTypeOK, NEW p \in Pages, conn[p] # NoChan
  PROVE  conn[p] \in Chans /\ Watching[p] \in Slugs
BY ChatAssumption DEF ChatTypeOK

\* The handlers and pages use the hub as ChatHub lets its callers.
LEMMA ChatStepIsHubStep == ChatTypeOK /\ [ChatNext]_chatVars => [HubNext]_hubVars
<1> SUFFICES ASSUME ChatTypeOK, [ChatNext]_chatVars PROVE [HubNext]_hubVars
  OBVIOUS
<1>1. CASE UNCHANGED chatVars
  BY <1>1 DEF chatVars
<1>2. ASSUME NEW m \in Msgs,
             Submit(m) \/ Handle(m) \/ InsertCommit(m) \/ GiveUp(m)
      PROVE  [HubNext]_hubVars
  <2>1. CASE Submit(m) \/ Bounce(m) \/ Refuse(m) \/ InsertBegin(m) \/ InsertReturn(m)
             \/ InsertError(m) \/ InsertCommit(m) \/ GiveUp(m)
    BY <2>1 DEF Submit, Bounce, Refuse, InsertBegin, InsertReturn, InsertError, InsertCommit, GiveUp
  <2>2. CASE Broadcast(m) \/ Fan(m) \/ Reply(m) \/ Recover(m)
    BY <2>2 DEF Broadcast, Fan, Reply, Recover, HubNext, PublishStep
  <2> QED BY <1>2, <2>1, <2>2 DEF Handle
<1>3. ASSUME NEW p \in Pages, PageStep(p) \/ Reload(p)
      PROVE  [HubNext]_hubVars
  <2>1. CASE HistoryQuery(p) \/ HistoryArrive(p) \/ HistoryFail(p) \/ HistoryRender(p)
             \/ StreamEvent(p) \/ StreamEnd(p) \/ Cut(p) \/ Reload(p)
    BY <2>1 DEF HistoryQuery, HistoryArrive, HistoryFail, HistoryRender, StreamEvent,
                StreamEnd, Cut, Reload
  <2>2. CASE Connect(p)
    BY <2>2, ChatAssumption DEF Connect, HubNext
  <2>3. CASE StreamTimeout(p)
    BY <2>3, ConnType DEF StreamTimeout, HubNext
  <2> QED BY <1>3, <2>1, <2>2, <2>3 DEF PageStep
<1>4. ASSUME NEW ch \in Chans, StreamWrite(ch) \/ HandlerGone(ch)
      PROVE  [HubNext]_hubVars
  BY <1>4 DEF StreamWrite, HandlerGone, HubNext
<1>5. CASE Crash
  BY <1>5 DEF Crash, HubNext
<1> QED BY <1>1, <1>2, <1>3, <1>4, <1>5 DEF ChatNext, RunStep
-----------------------------------------------------------------------------
\* What a handler writes next and what a page handles next are messages.
LEMMA NextWrittenType ==
  ASSUME HubInv, NEW ch \in Chans, taken[ch] < Len(stream[ch])
  PROVE  /\ stream[ch][taken[ch] + 1] \in Msgs
         /\ stream[ch][taken[ch] + 1] \in Range(stream[ch])
<1>1. /\ stream[ch] \in Seq(Msgs) /\ taken[ch] \in Nat /\ Len(stream[ch]) \in Nat
      /\ DOMAIN stream[ch] = 1..Len(stream[ch])
  BY LenProperties DEF HubInv, HubTypeOK
<1>2. taken[ch] + 1 \in DOMAIN stream[ch]
  BY <1>1
<1> QED BY <1>1, <1>2, ElementOfSeq DEF Range

LEMMA NextEventType ==
  ASSUME ChatTypeOK, NEW p \in Pages, wire[p] # <<>>
  PROVE  /\ Head(wire[p]) \in Msgs /\ Tail(wire[p]) \in Seq(Msgs)
         /\ Range(wire[p]) = {Head(wire[p])} \cup Range(Tail(wire[p]))
BY HeadTailRange DEF ChatTypeOK

Written(ch) == stream[ch][taken[ch] + 1]

\* A write appends the message to the page its handler serves and to no other.
LEMMA WriteEffect ==
  ASSUME HubInv, ChatTypeOK, NEW ch \in Chans, StreamWrite(ch)
  PROVE  /\ Written(ch) \in Msgs /\ Written(ch) \in Range(stream[ch])
         /\ wire' \in [Pages -> Seq(Msgs)]
         /\ \A p \in Pages : /\ conn[p] # ch => wire'[p] = wire[p]
                             /\ conn[p] = ch => Range(wire'[p]) = Range(wire[p]) \cup {Written(ch)}
<1>1. Written(ch) \in Msgs /\ Written(ch) \in Range(stream[ch])
  BY NextWrittenType DEF StreamWrite, Receive, Written
<1>2. wire' = [p \in Pages |-> IF conn[p] = ch THEN Append(wire[p], Written(ch)) ELSE wire[p]]
  BY DEF StreamWrite, Written
<1>3. \A p \in Pages : /\ Append(wire[p], Written(ch)) \in Seq(Msgs)
                      /\ Range(Append(wire[p], Written(ch))) = Range(wire[p]) \cup {Written(ch)}
  BY <1>1, AppendRange DEF ChatTypeOK
<1>4. wire \in [Pages -> Seq(Msgs)]
  BY DEF ChatTypeOK
<1> QED BY <1>1, <1>2, <1>3, <1>4

\* Rendering a message keeps the screens of their type.
LEMMA RenderType ==
  ASSUME ChatTypeOK, NEW p \in Pages, NEW m \in Msgs, RenderChat(p, m)
  PROVE  screen' \in [Pages -> Seq(Msgs)]
<1>1. screen[p] \in Seq(Msgs) /\ Append(screen[p], m) \in Seq(Msgs)
  BY AppendProperties DEF ChatTypeOK
<1> QED BY <1>1 DEF RenderChat, ChatTypeOK

\* Every step keeps the types.
LEMMA ChatTypeStep ==
  ASSUME HubInv, HubInv', ChatTypeOK, [ChatNext]_chatVars
  PROVE  ChatTypeOK'
<1>0. HubTypeOK'
  BY DEF HubInv
<1>1. CASE UNCHANGED chatVars
  BY <1>0, <1>1 DEF chatVars, dataVars, postVars, pageVars, ChatTypeOK
<1>2. ASSUME NEW m \in Msgs, Submit(m) \/ Bounce(m) \/ Refuse(m) \/ InsertReturn(m)
             \/ InsertError(m) \/ InsertCommit(m) \/ GiveUp(m) \/ Broadcast(m) \/ Fan(m)
             \/ Reply(m) \/ Recover(m)
      PROVE  ChatTypeOK'
  <2>1. CASE Submit(m) \/ InsertReturn(m) \/ GiveUp(m)
    <3>1. /\ req' = req \/ \E a \in {"checking", "stored"} : req' = [req EXCEPT ![m] = a]
          /\ told' = told \/ \E a \in {"waiting", "failed"} : told' = [told EXCEPT ![m] = a]
      BY <2>1 DEF Submit, InsertReturn, GiveUp
    <3>2. UNCHANGED <<dataVars, pageVars>>
      BY <2>1 DEF Submit, InsertReturn, GiveUp
    <3>3. req' \in [Msgs -> {"none", "checking", "inserting", "stored", "ended", "lost"}]
      BY <3>1 DEF ChatTypeOK
    <3>4. told' \in [Msgs -> {"draft", "waiting", "sent", "failed", "bounced"}]
      BY <3>1 DEF ChatTypeOK
    <3> QED BY <1>0, <3>2, <3>3, <3>4 DEF ChatTypeOK, dataVars, pageVars
  <2>4. CASE InsertCommit(m)
    BY <1>0, <2>4 DEF ChatTypeOK, postVars, pageVars, InsertCommit
  <2>3. CASE Broadcast(m) \/ Fan(m)
    BY <1>0, <2>3 DEF ChatTypeOK, dataVars, postVars, pageVars, Broadcast, Fan
  <2>2. CASE Bounce(m) \/ Refuse(m) \/ InsertError(m) \/ Reply(m) \/ Recover(m)
    BY <1>0, <2>2 DEF ChatTypeOK, dataVars, pageVars, Bounce, Refuse, InsertError, Reply, Recover, End
  <2> QED BY <1>2, <2>1, <2>2, <2>3, <2>4
<1>3. ASSUME NEW m \in Msgs, InsertBegin(m) PROVE ChatTypeOK'
  <2>1. Cardinality({k \in Msgs : stamp[k] > 0}) + 1 \in Nat
    BY ChatAssumption, FS_Subset, FS_CardinalityType
  <2> QED BY <1>0, <1>3, <2>1 DEF ChatTypeOK, pageVars, InsertBegin
<1>4. ASSUME NEW p \in Pages, HistoryQuery(p) \/ HistoryArrive(p) \/ HistoryFail(p)
             \/ Cut(p) \/ StreamTimeout(p) \/ StreamEnd(p)
      PROVE  ChatTypeOK'
  <2>1. RecentChatMessages(Watching[p]) \subseteq Msgs /\ Rows(Watching[p]) \subseteq Msgs
    BY DEF RecentChatMessages, Rows, ChatTypeOK
  <2>2. CASE HistoryQuery(p)
    <3>1. reply' \in [Pages -> SUBSET Msgs] /\ beyond' \in [Pages -> SUBSET Msgs]
      BY <2>1, <2>2 DEF ChatTypeOK, HistoryQuery
    <3>2. /\ phase' = [phase EXCEPT ![p] = "answered"]
          /\ \E b \in {"none", "kept"} : basis' = [basis EXCEPT ![p] = b]
          /\ UNCHANGED <<dataVars, postVars, conn, link, wire, screen>>
      BY <2>2 DEF HistoryQuery
    <3> QED BY <1>0, <3>1, <3>2 DEF ChatTypeOK, dataVars, postVars
  <2>3. CASE HistoryArrive(p) \/ HistoryFail(p)
    <3>1. CASE HistoryArrive(p)
      BY <1>0, <3>1 DEF ChatTypeOK, dataVars, postVars, HistoryArrive
    <3>2. CASE HistoryFail(p)
      BY <1>0, <3>2 DEF ChatTypeOK, dataVars, postVars, HistoryFail
    <3> QED BY <2>3, <3>1, <3>2
  <2>4. CASE Cut(p) \/ StreamTimeout(p) \/ StreamEnd(p)
    <3>1. <<>> \in Seq(Msgs)
      OBVIOUS
    <3>2. CASE Cut(p)
      BY <1>0, <3>1, <3>2 DEF ChatTypeOK, dataVars, postVars, Cut, Unserved
    <3>3. CASE StreamTimeout(p)
      BY <1>0, <3>3 DEF ChatTypeOK, dataVars, postVars, StreamTimeout, Unserved
    <3>4. CASE StreamEnd(p)
      BY <1>0, <3>4 DEF ChatTypeOK, dataVars, postVars, StreamEnd
    <3> QED BY <2>4, <3>2, <3>3, <3>4
  <2> QED BY <1>4, <2>2, <2>3, <2>4
<1>5. ASSUME NEW p \in Pages, HistoryRender(p) PROVE ChatTypeOK'
  <2>1. PICK m \in reply[p] : RenderChat(p, m) /\ reply' = [reply EXCEPT ![p] = @ \ {m}]
    BY <1>5 DEF HistoryRender
  <2>2. m \in Msgs
    BY DEF ChatTypeOK
  <2>3. screen' \in [Pages -> Seq(Msgs)]
    BY <2>1, <2>2, RenderType
  <2>4. reply' \in [Pages -> SUBSET Msgs]
    BY <2>1 DEF ChatTypeOK
  <2>5. UNCHANGED <<dataVars, postVars, phase, conn, link, wire, basis, beyond>>
    BY <1>5 DEF HistoryRender
  <2> QED BY <1>0, <2>3, <2>4, <2>5 DEF ChatTypeOK, dataVars, postVars
<1>6. ASSUME NEW p \in Pages, StreamEvent(p) PROVE ChatTypeOK'
  <2>1. screen' \in [Pages -> Seq(Msgs)]
    BY <1>6, NextEventType, RenderType DEF StreamEvent
  <2>2. /\ wire' = [wire EXCEPT ![p] = Tail(@)]
        /\ UNCHANGED <<dataVars, postVars, phase, reply, conn, link, basis, beyond>>
    BY <1>6 DEF StreamEvent
  <2>3. wire' \in [Pages -> Seq(Msgs)]
    BY <1>6, <2>2, NextEventType DEF StreamEvent, ChatTypeOK
  <2> QED BY <1>0, <2>1, <2>2, <2>3 DEF ChatTypeOK, dataVars, postVars
<1>7. ASSUME NEW p \in Pages, Connect(p) PROVE ChatTypeOK'
  BY <1>0, <1>7 DEF ChatTypeOK, dataVars, postVars, Connect
<1>8. ASSUME NEW p \in Pages, Reload(p) PROVE ChatTypeOK'
  <2>1. <<>> \in Seq(Msgs)
    OBVIOUS
  <2> QED BY <1>0, <1>8, <2>1 DEF ChatTypeOK, dataVars, Reload
<1>9. ASSUME NEW ch \in Chans, StreamWrite(ch) \/ HandlerGone(ch) PROVE ChatTypeOK'
  <2>1. CASE StreamWrite(ch)
    BY <1>0, <2>1, WriteEffect DEF ChatTypeOK, dataVars, postVars, StreamWrite
  <2>2. CASE HandlerGone(ch)
    BY <1>0, <2>2 DEF ChatTypeOK, dataVars, postVars, pageVars, HandlerGone
  <2> QED BY <1>9, <2>1, <2>2
<1>10. CASE Crash
  BY <1>0, <1>10 DEF ChatTypeOK, dataVars, Crash
<1> QED BY <1>1, <1>2, <1>3, <1>4, <1>5, <1>6, <1>7, <1>8, <1>9, <1>10
    DEF ChatNext, RunStep, Handle, PageStep
-----------------------------------------------------------------------------
\* Every step keeps StoreInv.
LEMMA StoreStep ==
  ASSUME HubInv, ChatTypeOK, StoreInv, [ChatNext]_chatVars
  PROVE  StoreInv'
<1>1. CASE UNCHANGED <<publish, dataVars, postVars>>
  BY <1>1 DEF dataVars, postVars, StoreInv
<1>2. ASSUME NEW m \in Msgs, Submit(m) \/ InsertReturn(m) \/ InsertCommit(m) \/ GiveUp(m)
      PROVE  StoreInv'
  BY <1>2 DEF StoreInv, ChatTypeOK, hubVars, dataVars, postVars, Submit, InsertReturn,
     InsertCommit, GiveUp
<1>3. ASSUME NEW m \in Msgs, Bounce(m) \/ Refuse(m) \/ InsertError(m) PROVE StoreInv'
  <2>1. CASE Bounce(m)
    <3>1. /\ UNCHANGED <<stamp, db, publish>> /\ req[m] = "checking"
          /\ req' = [req EXCEPT ![m] = "ended"]
          /\ told' = [told EXCEPT ![m] = IF @ = "waiting" THEN "bounced" ELSE @]
      BY <2>1 DEF Bounce, End, hubVars, dataVars
    <3> QED BY <3>1 DEF StoreInv, ChatTypeOK
  <2>2. CASE Refuse(m) \/ InsertError(m)
    <3>1. /\ UNCHANGED <<stamp, db, publish>> /\ req[m] \in {"checking", "inserting"}
          /\ req' = [req EXCEPT ![m] = "ended"]
          /\ told' = [told EXCEPT ![m] = IF @ = "waiting" THEN "failed" ELSE @]
      BY <2>2 DEF Refuse, InsertError, End, hubVars, dataVars
    <3> QED BY <3>1 DEF StoreInv, ChatTypeOK
  <2> QED BY <1>3, <2>1, <2>2
<1>4. ASSUME NEW m \in Msgs, InsertBegin(m) PROVE StoreInv'
  <2>1. Cardinality({k \in Msgs : stamp[k] > 0}) + 1 > 0
    BY ChatAssumption, FS_Subset, FS_CardinalityType
  <2> QED BY <1>4, <2>1 DEF StoreInv, ChatTypeOK, hubVars, InsertBegin
<1>5. ASSUME NEW m \in Msgs, Broadcast(m) PROVE StoreInv'
  BY <1>5 DEF StoreInv, ChatTypeOK, HubTypeOK, dataVars, postVars, Broadcast, PublishCopy
<1>6. ASSUME NEW m \in Msgs, Fan(m) PROVE StoreInv'
  BY <1>6, <1>1 DEF Fan, PublishSend, PublishDrop
<1>7. ASSUME NEW m \in Msgs, Reply(m) \/ Recover(m) PROVE StoreInv'
  <2>1. publish[m] = "ranging"
    BY <1>7 DEF Reply, Recover, PublishReturn, PublishPanic, HubInv, ListInv
  <2>2. CASE Reply(m)
    BY <2>1, <2>2 DEF StoreInv, ChatTypeOK, HubTypeOK, dataVars, Reply, PublishReturn, End
  <2>3. CASE Recover(m)
    BY <2>1, <2>3 DEF StoreInv, ChatTypeOK, HubTypeOK, dataVars, Recover, PublishPanic, End
  <2> QED BY <1>7, <2>2, <2>3
<1>8. ASSUME NEW p \in Pages, PageStep(p) PROVE StoreInv'
  BY <1>8, <1>1 DEF PageStep, HistoryQuery, HistoryArrive, HistoryFail, HistoryRender, Connect,
     StreamEvent, StreamEnd, Cut, StreamTimeout, hubVars, Subscribe, Unsubscribe
<1>9. ASSUME NEW p \in Pages, Reload(p) PROVE StoreInv'
  BY <1>9 DEF StoreInv, ChatTypeOK, hubVars, dataVars, Reload
<1>10. ASSUME NEW ch \in Chans, StreamWrite(ch) \/ HandlerGone(ch) PROVE StoreInv'
  BY <1>10, <1>1 DEF StreamWrite, HandlerGone, Receive, Unsubscribe
<1>11. CASE Crash
  BY <1>11 DEF StoreInv, ChatTypeOK, HubTypeOK, dataVars, Crash, ProcessExit
<1>12. CASE UNCHANGED chatVars
  BY <1>12, <1>1 DEF chatVars, hubVars
<1> QED BY <1>2, <1>3, <1>4, <1>5, <1>6, <1>7, <1>8, <1>9, <1>10, <1>11, <1>12
    DEF ChatNext, RunStep, Handle

\* Rendering m adds m to a page's screen, unless it is there, and leaves the
\* other pages alone.
LEMMA RenderEffect ==
  ASSUME ChatTypeOK, NEW p \in Pages, NEW m \in Msgs, RenderChat(p, m)
  PROVE  /\ Range(screen'[p]) = Range(screen[p]) \cup {m}
         /\ IsInjective(screen[p]) => IsInjective(screen'[p])
         /\ \A q \in Pages : q # p => screen'[q] = screen[q]
<1>1. screen[p] \in Seq(Msgs)
  BY DEF ChatTypeOK
<1>2. CASE m \in Range(screen[p])
  BY <1>2 DEF RenderChat
<1>3. CASE m \notin Range(screen[p])
  <2>1. screen'[p] = Append(screen[p], m) /\ \A q \in Pages : q # p => screen'[q] = screen[q]
    BY <1>3 DEF RenderChat, ChatTypeOK
  <2> QED BY <2>1, <1>1, <1>3, AppendRange, AppendDistinct
<1> QED BY <1>2, <1>3

\* What a handler writes to a page is committed and of the page's room.
LEMMA NextWrittenStored ==
  ASSUME HubInv, ChatTypeOK, StoreInv, ConnectedIsSubscribed,
         NEW p \in Pages, NEW m \in Range(stream[conn[p]]), m \in Msgs, conn[p] # NoChan
  PROVE  m \in db /\ Room[m] = Watching[p]
<1>1. conn[p] \in Chans /\ conn[p] \in Range(subs[Watching[p]]) /\ Watching[p] \in Slugs
  BY ConnType DEF ConnectedIsSubscribed
<1>2. publish[m] # "none"
  BY <1>1 DEF HubInv, BegunInv
<1> QED BY <1>1, <1>2 DEF StoreInv, HubInv, RoomIsolation

\* Every step keeps PageInv.
LEMMA PageInvStep ==
  ASSUME HubInv, ChatTypeOK, StoreInv, PageInv, ConnectedIsSubscribed, [ChatNext]_chatVars
  PROVE  PageInv'
<1>1. CASE db \subseteq db' /\ UNCHANGED <<screen, reply, wire>>
  BY <1>1 DEF PageInv
<1>2. ASSUME NEW m \in Msgs, Submit(m) \/ Handle(m) \/ InsertCommit(m) \/ GiveUp(m)
      PROVE  PageInv'
  BY <1>2, <1>1 DEF Handle, Submit, Bounce, Refuse, InsertBegin, InsertReturn, InsertError, Broadcast,
     Fan, Reply, Recover, InsertCommit, GiveUp, dataVars, pageVars
<1>3. ASSUME NEW p \in Pages, HistoryQuery(p) PROVE PageInv'
  <2>1. \A m \in RecentChatMessages(Watching[p]) : m \in db /\ Room[m] = Watching[p]
    BY DEF RecentChatMessages, Rows
  <2>2. /\ db' = db /\ screen' = screen /\ wire' = wire
        /\ reply' = [reply EXCEPT ![p] = RecentChatMessages(Watching[p])]
    BY <1>3 DEF HistoryQuery, dataVars
  <2> QED BY <2>1, <2>2 DEF PageInv, ChatTypeOK
<1>4. ASSUME NEW p \in Pages, HistoryFail(p) PROVE PageInv'
  BY <1>4 DEF PageInv, ChatTypeOK, HistoryFail, dataVars
<1>5. ASSUME NEW p \in Pages, HistoryRender(p) PROVE PageInv'
  <2>1. PICK m \in reply[p] : RenderChat(p, m) /\ reply' = [reply EXCEPT ![p] = @ \ {m}]
    BY <1>5 DEF HistoryRender
  <2>2. db' = db /\ wire' = wire /\ m \in Msgs
    BY <1>5 DEF HistoryRender, dataVars, ChatTypeOK
  <2>3. \A q \in Pages : q # p => screen'[q] = screen[q] /\ reply'[q] = reply[q]
    BY <2>1, <2>2, RenderEffect DEF ChatTypeOK
  <2>4. /\ Range(screen'[p]) = Range(screen[p]) \cup {m} /\ IsInjective(screen'[p])
        /\ reply'[p] \subseteq reply[p]
    BY <2>1, <2>2, RenderEffect DEF PageInv, ChatTypeOK
  <2> QED BY <2>2, <2>3, <2>4 DEF PageInv
<1>6. ASSUME NEW p \in Pages, StreamEvent(p) PROVE PageInv'
  <2> DEFINE m == Head(wire[p])
  <2>1. wire[p] # <<>> /\ RenderChat(p, m) /\ db' = db /\ reply' = reply
        /\ wire' = [wire EXCEPT ![p] = Tail(@)]
    BY <1>6 DEF StreamEvent, dataVars
  <2>2. m \in Msgs /\ m \in Range(wire[p]) /\ Range(Tail(wire[p])) \subseteq Range(wire[p])
    BY <2>1, NextEventType
  <2> HIDE DEF m
  <2>3. m \in db /\ Room[m] = Watching[p]
    BY <2>2 DEF PageInv
  <2>4. /\ Range(screen'[p]) = Range(screen[p]) \cup {m} /\ IsInjective(screen'[p])
        /\ \A q \in Pages : q # p => screen'[q] = screen[q]
    BY <2>1, <2>2, RenderEffect DEF PageInv
  <2>5. /\ Range(wire'[p]) \subseteq Range(wire[p])
        /\ \A q \in Pages : q # p => wire'[q] = wire[q]
    BY <2>1, <2>2 DEF ChatTypeOK
  <2> QED BY <2>1, <2>3, <2>4, <2>5 DEF PageInv
<1>7. ASSUME NEW p \in Pages,
             HistoryArrive(p) \/ Connect(p) \/ StreamTimeout(p) \/ StreamEnd(p)
      PROVE  PageInv'
  BY <1>7, <1>1 DEF HistoryArrive, Connect, StreamTimeout, StreamEnd, dataVars
<1>8. ASSUME NEW p \in Pages, Cut(p) \/ Reload(p) PROVE PageInv'
  <2>1. CASE Cut(p)
    BY <2>1, EmptyRange DEF PageInv, ChatTypeOK, Cut, dataVars
  <2>2. CASE Reload(p)
    BY <2>2, EmptyRange DEF PageInv, ChatTypeOK, Reload, dataVars
  <2> QED BY <1>8, <2>1, <2>2
<1>9. ASSUME NEW ch \in Chans, StreamWrite(ch) \/ HandlerGone(ch) PROVE PageInv'
  <2>1. CASE StreamWrite(ch)
    <3>1. UNCHANGED <<db, screen, reply>>
      BY <2>1 DEF StreamWrite, dataVars
    <3>2. /\ Written(ch) \in Msgs /\ Written(ch) \in Range(stream[ch])
          /\ \A p \in Pages :
               /\ conn[p] # ch => wire'[p] = wire[p]
               /\ conn[p] = ch => Range(wire'[p]) = Range(wire[p]) \cup {Written(ch)}
      BY <2>1, WriteEffect
    <3>3. ASSUME NEW p \in Pages, conn[p] = ch
          PROVE  Written(ch) \in db /\ Room[Written(ch)] = Watching[p]
      BY <3>2, <3>3, NextWrittenStored, ChatAssumption
    <3> QED BY <3>1, <3>2, <3>3 DEF PageInv
  <2>2. CASE HandlerGone(ch)
    BY <2>2, <1>1 DEF HandlerGone, dataVars, pageVars
  <2> QED BY <1>9, <2>1, <2>2
<1>10. CASE Crash
  BY <1>10, <1>1 DEF Crash, dataVars
<1>11. CASE UNCHANGED chatVars
  BY <1>11, <1>1 DEF chatVars, dataVars, pageVars
<1> QED BY <1>2, <1>3, <1>4, <1>5, <1>6, <1>7, <1>8, <1>9, <1>10, <1>11
    DEF ChatNext, RunStep, PageStep
-----------------------------------------------------------------------------
\* Pages whose connection is as before stay connected when their channels stay
\* open and in their rooms.
LEMMA StayConnected ==
  ASSUME ConnectedIsSubscribed,
         \A p \in Pages : conn'[p] # NoChan =>
           /\ conn'[p] = conn[p]
           /\ link[p] = "open" => link'[p] = "open"
           /\ conn[p] \in open \cap Range(subs[Watching[p]]) =>
                conn[p] \in open' \cap Range(subs'[Watching[p]])
  PROVE  ConnectedIsSubscribed'
BY DEF ConnectedIsSubscribed

\* A new stream gets a channel no page has.
LEMMA ConnectConnects ==
  ASSUME HubInv, ChatTypeOK, ConnectedIsSubscribed, NEW p \in Pages, Connect(p)
  PROVE  ConnectedIsSubscribed'
<1>1. PICK ch \in Chans : Subscribe(Watching[p], ch) /\ conn' = [conn EXCEPT ![p] = ch]
  BY DEF Connect
<1>2. /\ ch \notin open /\ open' = open \cup {ch} /\ ch # NoChan /\ Watching[p] \in Slugs
      /\ link' = [link EXCEPT ![p] = "open"]
  BY <1>1, ChatAssumption DEF Connect, Subscribe, Fresh
<1>3. /\ \A s \in Slugs : Range(subs[s]) \subseteq Range(subs'[s])
      /\ ch \in Range(subs'[Watching[p]])
  <2>1. subs' = [subs EXCEPT ![Watching[p]] = Append(@, ch)]
    BY <1>1 DEF Subscribe
  <2>2. Range(Append(subs[Watching[p]], ch)) = Range(subs[Watching[p]]) \cup {ch}
    BY <1>2, AppendRange DEF HubInv, HubTypeOK
  <2> QED BY <2>1, <2>2, <1>2 DEF HubInv, HubTypeOK
<1>4. conn'[p] = ch /\ \A q \in Pages : q # p => conn'[q] = conn[q]
  BY <1>1 DEF ChatTypeOK
<1>5. ASSUME NEW q \in Pages, q # p, conn[q] # NoChan
      PROVE  conn[q] \in open' \cap Range(subs'[Watching[q]]) /\ conn[q] # ch /\ link'[q] = "open"
  <2>1. conn[q] \in open \cap Range(subs[Watching[q]]) /\ link[q] = "open" /\ Watching[q] \in Slugs
    BY <1>5, ChatAssumption DEF ConnectedIsSubscribed
  <2> QED BY <2>1, <1>2, <1>3, <1>5 DEF ChatTypeOK
<1>6. ASSUME NEW q \in Pages, NEW r \in Pages, conn'[q] # NoChan, conn'[r] = conn'[q]
      PROVE  r = q
  BY <1>4, <1>5, <1>6 DEF ConnectedIsSubscribed
<1>7. ASSUME NEW q \in Pages, conn'[q] # NoChan
      PROVE  conn'[q] \in open' \cap Range(subs'[Watching[q]]) /\ link'[q] = "open"
  BY <1>2, <1>3, <1>4, <1>5, <1>7 DEF ChatTypeOK
<1> QED BY <1>6, <1>7 DEF ConnectedIsSubscribed

\* Every step keeps the pages that are served connected to what the hub feeds.
LEMMA ConnectedStep ==
  ASSUME HubInv, ChatTypeOK, ConnectedIsSubscribed, [ChatNext]_chatVars
  PROVE  ConnectedIsSubscribed'
<1>1. CASE UNCHANGED <<subs, open, conn, link>>
  BY <1>1, StayConnected
<1>2. ASSUME NEW m \in Msgs, Submit(m) \/ Handle(m) \/ InsertCommit(m) \/ GiveUp(m)
      PROVE  ConnectedIsSubscribed'
  BY <1>2, <1>1 DEF Handle, Submit, Bounce, Refuse, InsertBegin, InsertReturn, InsertError, Broadcast,
     Fan, Reply, Recover, InsertCommit, GiveUp, hubVars, pageVars, PublishCopy, PublishSend,
     PublishDrop, PublishReturn, PublishPanic
<1>3. ASSUME NEW p \in Pages,
             HistoryQuery(p) \/ HistoryArrive(p) \/ HistoryFail(p) \/ HistoryRender(p) \/ StreamEvent(p)
      PROVE  ConnectedIsSubscribed'
  BY <1>3, <1>1 DEF HistoryQuery, HistoryArrive, HistoryFail, HistoryRender, StreamEvent, hubVars
<1>4. ASSUME NEW p \in Pages, StreamEnd(p) PROVE ConnectedIsSubscribed'
  BY <1>4, StayConnected DEF StreamEnd, hubVars, ChatTypeOK
<1>5. ASSUME NEW p \in Pages, Cut(p) \/ Reload(p) PROVE ConnectedIsSubscribed'
  <2>1. /\ conn' = [conn EXCEPT ![p] = NoChan] /\ link' = [link EXCEPT ![p] = "connecting"]
        /\ UNCHANGED hubVars
    BY <1>5 DEF Cut, Reload, Unserved
  <2> QED BY <2>1, StayConnected DEF hubVars, ChatTypeOK
<1>6. ASSUME NEW p \in Pages, StreamTimeout(p) PROVE ConnectedIsSubscribed'
  <2>1. /\ conn[p] \in Chans /\ Watching[p] \in Slugs /\ Unsubscribe(Watching[p], conn[p])
        /\ conn' = [conn EXCEPT ![p] = NoChan] /\ link' = link /\ conn[p] # NoChan
    BY <1>6, ConnType DEF StreamTimeout, Unserved
  <2>2. /\ \A t \in Slugs : Range(subs'[t]) = Range(subs[t]) \ {conn[p]}
        /\ open' = open \ {conn[p]}
    BY <2>1, UnsubscribeEffect DEF Unsubscribe
  <2>3. ASSUME NEW q \in Pages, conn'[q] # NoChan
        PROVE  q # p /\ conn'[q] = conn[q] /\ conn[q] # conn[p] /\ Watching[q] \in Slugs
    BY <2>3, <2>1, ChatAssumption DEF ChatTypeOK, ConnectedIsSubscribed
  <2> QED BY <2>1, <2>2, <2>3, StayConnected
<1>7. ASSUME NEW ch \in Chans, StreamWrite(ch) PROVE ConnectedIsSubscribed'
  BY <1>7, <1>1 DEF StreamWrite, Receive
<1>8. ASSUME NEW ch \in Chans, HandlerGone(ch) PROVE ConnectedIsSubscribed'
  <2>1. PICK s \in Slugs : Unsubscribe(s, ch)
    BY <1>8 DEF HandlerGone
  <2>2. (\A p \in Pages : conn[p] # ch) /\ UNCHANGED <<conn, link>>
    BY <1>8 DEF HandlerGone, pageVars
  <2>3. /\ \A t \in Slugs : Range(subs'[t]) = Range(subs[t]) \ {ch}
        /\ open' = open \ {ch}
    BY <2>1, UnsubscribeEffect DEF Unsubscribe
  <2> QED BY <2>2, <2>3, ChatAssumption, StayConnected
<1>9. CASE Crash
  BY <1>9 DEF Crash, ConnectedIsSubscribed
<1>10. CASE UNCHANGED chatVars
  BY <1>10, <1>1 DEF chatVars, hubVars, pageVars
<1> QED BY <1>2, <1>3, <1>4, <1>5, <1>6, <1>7, <1>8, <1>9, <1>10, ConnectConnects
    DEF ChatNext, RunStep, PageStep

\* Every step keeps BasisInv.
LEMMA BasisStep ==
  ASSUME ChatTypeOK, BasisInv, [ChatNext]_chatVars
  PROVE  BasisInv'
<1>1. CASE UNCHANGED <<conn, basis>>
  BY <1>1 DEF BasisInv
<1>2. ASSUME NEW m \in Msgs, Submit(m) \/ Handle(m) \/ InsertCommit(m) \/ GiveUp(m)
      PROVE  BasisInv'
  BY <1>2, <1>1 DEF Handle, Submit, Bounce, Refuse, InsertBegin, InsertReturn, InsertError, Broadcast,
     Fan, Reply, Recover, InsertCommit, GiveUp, pageVars
<1>3. ASSUME NEW p \in Pages, PageStep(p) \/ Reload(p)
      PROVE  BasisInv'
  <2>1. CASE HistoryArrive(p) \/ HistoryRender(p) \/ StreamEvent(p) \/ StreamEnd(p)
    BY <2>1, <1>1 DEF HistoryArrive, HistoryRender, StreamEvent, StreamEnd
  <2>2. CASE HistoryQuery(p) \/ HistoryFail(p)
    <3>1. /\ conn' = conn
          /\ basis' = [basis EXCEPT ![p] = IF HistoryQuery(p) /\ conn[p] # NoChan THEN "kept" ELSE "none"]
              \/ basis' = [basis EXCEPT ![p] = "none"]
      BY <2>2 DEF HistoryQuery, HistoryFail
    <3> QED BY <3>1 DEF BasisInv, ChatTypeOK
  <2>3. CASE Connect(p)
    <3>1. PICK ch \in Chans : conn' = [conn EXCEPT ![p] = ch]
      BY <2>3 DEF Connect
    <3>2. basis' = basis
      BY <2>3 DEF Connect
    <3> QED BY <3>1, <3>2, ChatAssumption DEF BasisInv, ChatTypeOK
  <2>4. CASE Cut(p) \/ StreamTimeout(p) \/ Reload(p)
    <3>1. /\ conn' = [conn EXCEPT ![p] = NoChan]
          /\ \E b \in {"none", "cut"} : basis' = [basis EXCEPT ![p] = b]
      BY <2>4 DEF Cut, StreamTimeout, Reload, Unserved, ChatTypeOK
    <3> QED BY <3>1 DEF BasisInv, ChatTypeOK
  <2> QED BY <1>3, <2>1, <2>2, <2>3, <2>4 DEF PageStep
<1>4. ASSUME NEW ch \in Chans, StreamWrite(ch) \/ HandlerGone(ch) PROVE BasisInv'
  BY <1>4, <1>1 DEF StreamWrite, HandlerGone, pageVars
<1>5. CASE Crash
  BY <1>5 DEF Crash, BasisInv
<1>6. CASE UNCHANGED chatVars
  BY <1>6, <1>1 DEF chatVars, pageVars
<1> QED BY <1>2, <1>3, <1>4, <1>5, <1>6 DEF ChatNext, RunStep
-----------------------------------------------------------------------------
\* The messages a channel brings stay the same, or one more comes.
LEMMA QueueStays ==
  ASSUME HubInv, NEW ch \in Chans, taken'[ch] = taken[ch],
         \/ stream'[ch] = stream[ch]
         \/ \E m \in Msgs : stream'[ch] = Append(stream[ch], m)
  PROVE  Queued(ch) \subseteq Queued(ch)'
<1> DEFINE s == stream[ch]
           t == stream'[ch]
<1>1. s \in Seq(Msgs) /\ taken[ch] \in Nat
  BY DEF HubInv, HubTypeOK
<1>2. t = s \/ \E m \in Msgs : t = Append(s, m)
  OBVIOUS
<1>3. /\ Queued(ch) = {s[i] : i \in (taken[ch] + 1)..Len(s)}
      /\ Queued(ch)' = {t[i] : i \in (taken[ch] + 1)..Len(t)}
  BY DEF Queued
<1> HIDE DEF s, t
<1>4. Len(s) \in Nat /\ Len(t) \in Nat /\ Len(s) <= Len(t) /\ \A i \in 1..Len(s) : t[i] = s[i]
  <2>1. Len(s) \in Nat
    BY <1>1, LenProperties
  <2>2. ASSUME NEW m \in Msgs, t = Append(s, m)
        PROVE  Len(t) \in Nat /\ Len(s) <= Len(t) /\ \A i \in 1..Len(s) : t[i] = s[i]
    <3>1. Len(t) = Len(s) + 1 /\ \A i \in 1..Len(s) : Append(s, m)[i] = s[i]
      BY <1>1, <2>2, AppendProperties
    <3> QED BY <2>1, <2>2, <3>1
  <2> QED BY <1>2, <2>1, <2>2
<1>5. ASSUME NEW i \in (taken[ch] + 1)..Len(s) PROVE i \in (taken[ch] + 1)..Len(t) /\ t[i] = s[i]
  BY <1>1, <1>4
<1> QED BY <1>3, <1>5

\* A write takes the next message off the channel, and no other.
LEMMA NextTaken ==
  ASSUME HubInv, NEW ch \in Chans, StreamWrite(ch)
  PROVE  /\ Queued(ch) \subseteq Queued(ch)' \cup {Written(ch)}
         /\ \A c \in Chans : c # ch => Queued(c)' = Queued(c)
<1>1. /\ taken' = [taken EXCEPT ![ch] = @ + 1] /\ stream' = stream
      /\ taken \in [Chans -> Nat] /\ Len(stream[ch]) \in Nat
  BY LenProperties DEF StreamWrite, Receive, HubInv, HubTypeOK
<1>2. ASSUME NEW i \in (taken[ch] + 1)..Len(stream[ch]), i # taken[ch] + 1
      PROVE  i \in (taken'[ch] + 1)..Len(stream[ch])
  BY <1>1, <1>2
<1>3. Queued(ch) \subseteq Queued(ch)' \cup {Written(ch)}
  BY <1>1, <1>2 DEF Queued, Written
<1>4. \A c \in Chans : c # ch => Queued(c)' = Queued(c)
  BY <1>1 DEF Queued
<1> QED BY <1>3, <1>4

\* What comes to a page whose channel and wire are untouched.
LEMMA ComingSame ==
  ASSUME NEW p \in Pages, conn'[p] = conn[p], wire'[p] = wire[p],
         conn[p] # NoChan => stream'[conn[p]] = stream[conn[p]] /\ taken'[conn[p]] = taken[conn[p]]
  PROVE  Coming(p)' = Coming(p)
BY DEF Coming, Queued

\* A step that moves nothing off a page's way keeps what it got or is to get.
LEMMA GotKept ==
  ASSUME NEW p \in Pages, NEW m \in Msgs, Got(p, m),
         Range(screen[p]) \cup reply[p] \subseteq Range(screen'[p]) \cup reply'[p],
         Coming(p) \subseteq Coming(p)' \cup Range(screen'[p]),
         beyond'[p] = beyond[p], conn'[p] = conn[p],
         <<conn[p], m>> \in dropped => <<conn[p], m>> \in dropped'
  PROVE  Got(p, m)'
BY DEF Got

\* Steps that change neither Publish calls nor, for the pages concerned, what
\* they hold and what comes to them, keep ReachInv.
LEMMA ReachKept ==
  ASSUME ReachInv, UNCHANGED <<publish, list>>,
         \A p \in Pages : basis'[p] = "kept" =>
           /\ basis[p] = "kept"
           /\ conn'[p] = conn[p] /\ beyond'[p] = beyond[p]
           /\ Range(screen[p]) \cup reply[p] \subseteq Range(screen'[p]) \cup reply'[p]
           /\ Coming(p) \subseteq Coming(p)' \cup Range(screen'[p])
           /\ \A m \in Msgs : <<conn[p], m>> \in dropped => <<conn[p], m>> \in dropped'
  PROVE  ReachInv'
<1> SUFFICES ASSUME NEW p \in Pages, NEW m \in Msgs, basis'[p] = "kept", Room[m] = Watching[p]
             PROVE  /\ publish[m] = "returned" => Got(p, m)'
                    /\ publish[m] = "ranging" => Got(p, m)' \/ conn[p] \in Range(list[m])
  BY DEF ReachInv
<1>1. Got(p, m) => Got(p, m)'
  BY GotKept
<1> QED BY <1>1 DEF ReachInv

\* A page whose basis holds is served, from a channel of its room.
LEMMA BasisType ==
  ASSUME ChatTypeOK, BasisInv, ConnectedIsSubscribed, NEW p \in Pages, basis[p] = "kept"
  PROVE  /\ conn[p] # NoChan /\ conn[p] \in Chans /\ Watching[p] \in Slugs
         /\ conn[p] \in Range(subs[Watching[p]])
BY ConnType DEF BasisInv, ConnectedIsSubscribed

\* A Publish call that begins has every connected page of the room before it.
LEMMA ReachBroadcast ==
  ASSUME ChatTypeOK, BasisInv, ConnectedIsSubscribed, ReachInv, NEW k \in Msgs, Broadcast(k)
  PROVE  ReachInv'
<1>1. /\ publish' = [publish EXCEPT ![k] = "ranging"]
      /\ list' = [list EXCEPT ![k] = subs[Room[k]]]
      /\ stream' = stream /\ taken' = taken /\ dropped' = dropped /\ UNCHANGED pageVars
  BY DEF Broadcast, PublishCopy
<1> SUFFICES ASSUME NEW p \in Pages, NEW m \in Msgs, basis[p] = "kept", Room[m] = Watching[p]
             PROVE  /\ publish'[m] = "returned" => Got(p, m)'
                    /\ publish'[m] = "ranging" => Got(p, m)' \/ conn[p] \in Range(list'[m])
  BY <1>1 DEF ReachInv, pageVars
<1>2. Got(p, m) => Got(p, m)'
  BY <1>1, ComingSame, GotKept DEF pageVars
<1>3. CASE m = k
  BY <1>1, <1>3, BasisType DEF ChatTypeOK, HubTypeOK
<1>4. CASE m # k
  BY <1>1, <1>2, <1>4 DEF ReachInv, ChatTypeOK, HubTypeOK
<1> QED BY <1>3, <1>4

\* A message that leaves the copy is in the page's channel or dropped.
LEMMA ReachFan ==
  ASSUME HubInv, ChatTypeOK, BasisInv, ConnectedIsSubscribed, ReachInv, NEW k \in Msgs, Fan(k)
  PROVE  ReachInv'
<1>0. list[k] # <<>>
  BY DEF Fan, PublishSend, PublishDrop
<1>2. PICK ch \in Chans : ch = Head(list[k]) /\ Range(list[k]) = {ch} \cup Range(Tail(list[k]))
  BY <1>0, HeadTailRange DEF HubInv, HubTypeOK
<1>1. /\ ch \in open /\ publish' = publish /\ UNCHANGED pageVars
      /\ \/ stream' = [stream EXCEPT ![ch] = Append(@, k)] /\ dropped' = dropped
         \/ stream' = stream /\ dropped' = dropped \cup {<<ch, k>>}
      /\ list' = [list EXCEPT ![k] = Tail(@)] /\ list'[k] = Tail(list[k])
  BY <1>2 DEF Fan, PublishSend, PublishDrop, HubInv, HubTypeOK
<1> SUFFICES ASSUME NEW p \in Pages, NEW m \in Msgs, basis[p] = "kept", Room[m] = Watching[p]
             PROVE  /\ publish[m] = "returned" => Got(p, m)'
                    /\ publish[m] = "ranging" => Got(p, m)' \/ conn[p] \in Range(list'[m])
  BY <1>1 DEF ReachInv, pageVars
<1>3. conn[p] # NoChan /\ conn[p] \in Chans /\ taken' = taken
  BY BasisType DEF Fan, PublishSend, PublishDrop
<1>4. CASE stream' = [stream EXCEPT ![ch] = Append(@, k)] /\ dropped' = dropped /\ conn[p] = ch
  <2>1. stream'[ch] = Append(stream[ch], k) /\ stream[ch] \in Seq(Msgs) /\ taken[ch] \in Nat
        /\ taken[ch] <= Len(stream[ch])
    BY <1>4, <1>2 DEF HubInv, HubTypeOK, TakenBehind
  <2>2. /\ Len(stream'[ch]) = Len(stream[ch]) + 1 /\ stream'[ch][Len(stream[ch]) + 1] = k
        /\ Len(stream[ch]) \in Nat
    BY <2>1, AppendProperties, LenProperties
  <2>3. k \in Queued(ch)'
    <3>1. Len(stream[ch]) + 1 \in (taken'[ch] + 1)..Len(stream'[ch])
      BY <1>3, <2>1, <2>2
    <3> QED BY <3>1, <2>2 DEF Queued
  <2>4. Queued(ch) \subseteq Queued(ch)'
    BY <1>2, <1>3, <2>1, QueueStays
  <2>5. Coming(p) \subseteq Coming(p)' /\ k \in Coming(p)'
    BY <1>1, <1>3, <1>4, <2>3, <2>4 DEF Coming, pageVars
  <2>6. Got(p, m) => Got(p, m)'
    BY <1>1, <1>4, <2>5 DEF Got, pageVars
  <2>7. CASE m = k
    BY <2>5, <2>7 DEF Got
  <2>8. CASE m # k
    BY <2>6, <2>8, <1>1 DEF ReachInv, HubInv, HubTypeOK
  <2> QED BY <2>7, <2>8
<1>5. CASE stream' = [stream EXCEPT ![ch] = Append(@, k)] /\ dropped' = dropped /\ conn[p] # ch
  <2>1. stream'[conn[p]] = stream[conn[p]]
    BY <1>5, <1>3 DEF HubInv, HubTypeOK
  <2>2. Got(p, m) => Got(p, m)'
    BY <2>1, <1>1, <1>3, <1>5, ComingSame, GotKept DEF pageVars
  <2>3. conn[p] \in Range(list[m]) => conn[p] \in Range(list'[m])
    BY <1>1, <1>2, <1>5 DEF HubInv, HubTypeOK
  <2> QED BY <2>2, <2>3 DEF ReachInv
<1>6. CASE stream' = stream /\ dropped' = dropped \cup {<<ch, k>>}
  <2>1. Got(p, m) => Got(p, m)'
    BY <1>1, <1>3, <1>6, ComingSame, GotKept DEF pageVars
  <2>2. CASE m = k /\ conn[p] = ch
    BY <2>2, <1>1, <1>6 DEF Got, pageVars
  <2>3. CASE ~(m = k /\ conn[p] = ch)
    <3>1. conn[p] \in Range(list[m]) => conn[p] \in Range(list'[m])
      BY <2>3, <1>1, <1>2 DEF HubInv, HubTypeOK
    <3> QED BY <3>1, <2>1 DEF ReachInv
  <2> QED BY <2>2, <2>3
<1> QED BY <1>1, <1>4, <1>5, <1>6

\* A Publish call that ends: its copy is empty, so everyone got the message.
LEMMA ReachEnd ==
  ASSUME HubInv, ChatTypeOK, ReachInv, NEW k \in Msgs, Reply(k) \/ Recover(k)
  PROVE  ReachInv'
<1>1. /\ stream' = stream /\ taken' = taken /\ dropped' = dropped /\ UNCHANGED pageVars
      /\ \/ list' = list /\ list[k] = <<>> /\ publish[k] = "ranging"
            /\ publish' = [publish EXCEPT ![k] = "returned"]
         \/ list' = [list EXCEPT ![k] = <<>>] /\ publish' = [publish EXCEPT ![k] = "panicked"]
  BY DEF Reply, Recover, PublishReturn, PublishPanic
<1> SUFFICES ASSUME NEW p \in Pages, NEW m \in Msgs, basis[p] = "kept", Room[m] = Watching[p]
             PROVE  /\ publish'[m] = "returned" => Got(p, m)'
                    /\ publish'[m] = "ranging" => Got(p, m)' \/ conn[p] \in Range(list'[m])
  BY <1>1 DEF ReachInv, pageVars
<1>2. Got(p, m) => Got(p, m)'
  BY <1>1, ComingSame, GotKept DEF pageVars
<1>3. CASE m = k
  <2>1. list[k] = <<>> /\ publish[k] = "ranging" => Got(p, m)
    BY <1>3, EmptyRange DEF ReachInv
  <2> QED BY <2>1, <1>1, <1>2, <1>3 DEF HubInv, HubTypeOK
<1>4. CASE m # k
  BY <1>1, <1>2, <1>4 DEF ReachInv, HubInv, HubTypeOK
<1> QED BY <1>3, <1>4

\* A history holds every published message of the room, up to its limit.
LEMMA ReachQuery ==
  ASSUME ChatTypeOK, StoreInv, ReachInv, NEW p \in Pages, HistoryQuery(p)
  PROVE  ReachInv'
<1>1. /\ UNCHANGED <<hubVars, conn, wire, screen>>
      /\ reply' = [reply EXCEPT ![p] = RecentChatMessages(Watching[p])]
      /\ \A q \in Pages : q # p => basis'[q] = basis[q]
      /\ beyond' = [beyond EXCEPT
           ![p] = {m \in Rows(Watching[p]) : ~(Cardinality(Newer(m)) < Limit)}]
  BY DEF HistoryQuery, ChatTypeOK
<1> SUFFICES ASSUME NEW q \in Pages, NEW m \in Msgs, basis'[q] = "kept", Room[m] = Watching[q]
             PROVE  /\ publish[m] = "returned" => Got(q, m)'
                    /\ publish[m] = "ranging" => Got(q, m)' \/ conn[q] \in Range(list[m])
  BY <1>1 DEF ReachInv, hubVars
<1>2. CASE q = p
  <2>1. publish[m] # "none" => m \in Rows(Watching[p])
    BY <1>2 DEF StoreInv, Rows
  <2>2. publish[m] # "none" => m \in reply'[p] \cup beyond'[p]
    <3>1. m \in Rows(Watching[p]) =>
            m \in RecentChatMessages(Watching[p])
                  \cup {k \in Rows(Watching[p]) : ~(Cardinality(Newer(k)) < Limit)}
      BY DEF RecentChatMessages
    <3> QED BY <2>1, <3>1, <1>1 DEF ChatTypeOK
  <2> QED BY <2>2, <1>2 DEF Got
<1>3. CASE q # p
  <2>1. basis'[q] = basis[q] /\ reply'[q] = reply[q] /\ beyond'[q] = beyond[q]
    BY <1>1, <1>3 DEF ChatTypeOK
  <2>2. Got(q, m) => Got(q, m)'
    BY <1>1, <2>1, ComingSame, GotKept DEF hubVars
  <2> QED BY <2>1, <2>2 DEF ReachInv
<1> QED BY <1>2, <1>3

\* The message of a stream event goes from the wire to the screen.
LEMMA EventEffect ==
  ASSUME ChatTypeOK, NEW p \in Pages, StreamEvent(p), NEW q \in Pages
  PROVE  /\ Coming(q) \subseteq Coming(q)' \cup Range(screen'[q])
         /\ Range(screen[q]) \subseteq Range(screen'[q])
<1>1. /\ wire[p] # <<>> /\ RenderChat(p, Head(wire[p])) /\ wire' = [wire EXCEPT ![p] = Tail(@)]
      /\ UNCHANGED <<hubVars, conn>>
  BY DEF StreamEvent
<1>2. Head(wire[p]) \in Msgs /\ Range(wire[p]) = {Head(wire[p])} \cup Range(Tail(wire[p]))
  BY <1>1, NextEventType
<1>3. /\ Range(screen'[p]) = Range(screen[p]) \cup {Head(wire[p])}
      /\ \A r \in Pages : r # p => screen'[r] = screen[r]
  BY <1>1, <1>2, RenderEffect
<1>4. CASE q = p
  BY <1>1, <1>2, <1>3, <1>4 DEF Coming, Queued, hubVars, ChatTypeOK
<1>5. CASE q # p
  BY <1>1, <1>3, <1>5 DEF Coming, Queued, hubVars, ChatTypeOK
<1> QED BY <1>4, <1>5

\* The message of a write goes from the channel to the wire.
LEMMA WriteMoves ==
  ASSUME HubInv, ChatTypeOK, NEW ch \in Chans, StreamWrite(ch), NEW p \in Pages
  PROVE  Coming(p) \subseteq Coming(p)'
<1>1. UNCHANGED conn
  BY DEF StreamWrite
<1>2. /\ conn[p] # ch => wire'[p] = wire[p]
      /\ conn[p] = ch => Range(wire'[p]) = Range(wire[p]) \cup {Written(ch)}
  BY WriteEffect
<1>3. CASE conn[p] = ch
  BY <1>1, <1>2, <1>3, NextTaken DEF Coming
<1>4. CASE conn[p] # ch
  BY <1>1, <1>2, <1>4, NextTaken, ConnType DEF Coming
<1> QED BY <1>3, <1>4

\* Every step keeps ReachInv.
LEMMA ReachStep ==
  ASSUME HubInv, ChatTypeOK, StoreInv, PageInv, BasisInv, ConnectedIsSubscribed, ReachInv,
         [ChatNext]_chatVars
  PROVE  ReachInv'
<1>1. CASE UNCHANGED <<publish, list, stream, taken, dropped, conn, wire, screen, reply, basis, beyond>>
  BY <1>1, ComingSame, ReachKept
<1>2. ASSUME NEW m \in Msgs, Submit(m) \/ Handle(m) \/ InsertCommit(m) \/ GiveUp(m)
      PROVE  ReachInv'
  <2>1. CASE Submit(m) \/ Bounce(m) \/ Refuse(m) \/ InsertBegin(m) \/ InsertReturn(m) \/ InsertError(m)
             \/ InsertCommit(m) \/ GiveUp(m)
    BY <2>1, <1>1 DEF Submit, Bounce, Refuse, InsertBegin, InsertReturn, InsertError, InsertCommit,
       GiveUp, hubVars, pageVars
  <2> QED BY <1>2, <2>1, ReachBroadcast, ReachFan, ReachEnd DEF Handle
<1>3. ASSUME NEW p \in Pages, HistoryArrive(p) \/ StreamEnd(p) PROVE ReachInv'
  BY <1>3, <1>1 DEF HistoryArrive, StreamEnd, hubVars
<1>4. ASSUME NEW p \in Pages, HistoryFail(p) PROVE ReachInv'
  <2>1. /\ UNCHANGED <<hubVars, conn, wire, screen>> /\ basis' = [basis EXCEPT ![p] = "none"]
        /\ reply' = [reply EXCEPT ![p] = {}] /\ beyond' = [beyond EXCEPT ![p] = {}]
    BY <1>4 DEF HistoryFail
  <2>2. \A q \in Pages : basis'[q] = "kept" =>
          basis'[q] = basis[q] /\ reply'[q] = reply[q] /\ beyond'[q] = beyond[q]
    BY <2>1 DEF ChatTypeOK
  <2> QED BY <2>1, <2>2, ComingSame, ReachKept DEF hubVars
<1>5. ASSUME NEW p \in Pages, HistoryRender(p) PROVE ReachInv'
  <2>1. PICK m \in reply[p] : RenderChat(p, m) /\ reply' = [reply EXCEPT ![p] = @ \ {m}]
    BY <1>5 DEF HistoryRender
  <2>2. m \in Msgs
    BY DEF ChatTypeOK
  <2>3. UNCHANGED <<hubVars, conn, wire, basis, beyond>>
    BY <1>5 DEF HistoryRender
  <2>4. ASSUME NEW q \in Pages
        PROVE  Range(screen[q]) \cup reply[q] \subseteq Range(screen'[q]) \cup reply'[q]
    <3>0. Range(screen'[p]) = Range(screen[p]) \cup {m} /\ \A x \in Pages : x # p => screen'[x] = screen[x]
      BY <2>1, <2>2, RenderEffect
    <3>1. CASE q = p
      BY <3>0, <3>1, <2>1 DEF ChatTypeOK
    <3>2. CASE q # p
      BY <3>0, <3>2, <2>1 DEF ChatTypeOK
    <3> QED BY <3>1, <3>2
  <2> QED BY <2>3, <2>4, ComingSame, ReachKept DEF hubVars
<1>6. ASSUME NEW p \in Pages, StreamEvent(p) PROVE ReachInv'
  <2>1. UNCHANGED <<hubVars, reply, conn, basis, beyond>>
    BY <1>6 DEF StreamEvent
  <2>2. \A q \in Pages : /\ Coming(q) \subseteq Coming(q)' \cup Range(screen'[q])
                         /\ Range(screen[q]) \subseteq Range(screen'[q])
    BY <1>6, EventEffect
  <2> QED BY <2>1, <2>2, ReachKept DEF hubVars
<1>7. ASSUME NEW p \in Pages, Connect(p) PROVE ReachInv'
  <2>1. /\ \A q \in Pages : q # p => conn'[q] = conn[q]
        /\ link[p] = "connecting" /\ UNCHANGED <<publish, list, stream, taken, dropped>>
        /\ UNCHANGED <<reply, wire, screen, basis, beyond>>
    BY <1>7 DEF Connect, Subscribe, ChatTypeOK
  <2>2. basis[p] # "kept"
    BY <2>1 DEF BasisInv, ConnectedIsSubscribed
  <2> QED BY <2>1, <2>2, ComingSame, ReachKept
<1>8. ASSUME NEW p \in Pages, Cut(p) \/ Reload(p) PROVE ReachInv'
  <2>1. /\ UNCHANGED hubVars
        /\ basis'[p] # "kept"
        /\ \A q \in Pages : q # p =>
             /\ basis'[q] = basis[q] /\ conn'[q] = conn[q] /\ wire'[q] = wire[q]
             /\ screen'[q] = screen[q] /\ reply'[q] = reply[q] /\ beyond'[q] = beyond[q]
    BY <1>8 DEF Cut, Reload, Unserved, ChatTypeOK
  <2> QED BY <2>1, ComingSame, ReachKept DEF hubVars
<1>9. ASSUME NEW p \in Pages, StreamTimeout(p) PROVE ReachInv'
  <2>1. /\ Unsubscribe(Watching[p], conn[p]) /\ conn[p] \in Chans /\ conn[p] # NoChan
        /\ Watching[p] \in Slugs /\ basis'[p] # "kept"
        /\ \A q \in Pages : q # p => basis'[q] = basis[q] /\ conn'[q] = conn[q]
        /\ UNCHANGED <<reply, wire, screen, beyond>>
    BY <1>9, ConnType DEF StreamTimeout, Unserved, ChatTypeOK
  <2>2. /\ UNCHANGED <<publish, list>> /\ dropped' = {d \in dropped : d[1] # conn[p]}
        /\ \A c \in Chans : c # conn[p] => stream'[c] = stream[c] /\ taken'[c] = taken[c]
    BY <2>1, UnsubscribeEffect DEF Unsubscribe
  <2>3. ASSUME NEW q \in Pages, basis'[q] = "kept"
        PROVE  /\ q # p /\ conn'[q] = conn[q] /\ conn[q] # conn[p] /\ conn[q] \in Chans
               /\ basis[q] = "kept"
    BY <2>1, <2>3, BasisType DEF ConnectedIsSubscribed
  <2> QED BY <2>1, <2>2, <2>3, ComingSame, ReachKept
<1>10. ASSUME NEW ch \in Chans, StreamWrite(ch) PROVE ReachInv'
  <2>1. UNCHANGED <<publish, list, dropped, conn, screen, reply, basis, beyond>>
    BY <1>10 DEF StreamWrite, Receive
  <2> QED BY <1>10, <2>1, WriteMoves, ReachKept
<1>11. ASSUME NEW ch \in Chans, HandlerGone(ch) PROVE ReachInv'
  <2>1. PICK s \in Slugs : Unsubscribe(s, ch)
    BY <1>11 DEF HandlerGone
  <2>2. /\ UNCHANGED <<publish, list>> /\ UNCHANGED pageVars
        /\ \A c \in Chans : c # ch => stream'[c] = stream[c] /\ taken'[c] = taken[c]
        /\ dropped' = {d \in dropped : d[1] # ch}
        /\ \A q \in Pages : conn[q] # ch
    BY <2>1, <1>11, UnsubscribeEffect DEF Unsubscribe, HandlerGone
  <2>3. ASSUME NEW q \in Pages, basis'[q] = "kept"
        PROVE  /\ conn[q] \in Chans /\ conn[q] # ch /\ basis[q] = "kept"
    BY <2>2, <2>3, BasisType DEF pageVars
  <2> QED BY <2>2, <2>3, ComingSame, ReachKept DEF pageVars
<1>12. CASE Crash
  BY <1>12 DEF Crash, ReachInv
<1>13. CASE UNCHANGED chatVars
  BY <1>13, <1>1 DEF chatVars, hubVars, pageVars
<1> QED BY <1>2, <1>3, <1>4, <1>5, <1>6, <1>7, <1>8, <1>9, <1>10, <1>11, <1>12, <1>13,
           ReachQuery DEF ChatNext, RunStep, PageStep
-----------------------------------------------------------------------------
LEMMA ChatInitInv == ChatInit => ChatInv
<1> SUFFICES ASSUME ChatInit PROVE ChatInv
  OBVIOUS
<1>1. HubInv
  BY HubInitInv DEF ChatInit
<1>2. <<>> \in Seq(Msgs) /\ IsInjective(<<>>)
  BY DEF IsInjective
<1>3. ChatTypeOK
  BY <1>1, <1>2 DEF ChatInit, ChatTypeOK, HubInv
<1>4. StoreInv
  BY DEF ChatInit, HubInit, StoreInv
<1>5. PageInv
  BY <1>2, EmptyRange DEF ChatInit, PageInv
<1>6. ConnectedIsSubscribed /\ BasisInv /\ ReachInv
  BY DEF ChatInit, ConnectedIsSubscribed, BasisInv, ReachInv
<1> QED BY <1>1, <1>3, <1>4, <1>5, <1>6 DEF ChatInv

LEMMA ChatNextInv == ChatInv /\ [ChatNext]_chatVars => ChatInv'
<1> SUFFICES ASSUME ChatInv, [ChatNext]_chatVars PROVE ChatInv'
  OBVIOUS
<1>1. HubInv'
  BY ChatStepIsHubStep, HubNextInv, HubStutterInv DEF ChatInv
<1>2. ChatTypeOK'
  BY <1>1, ChatTypeStep DEF ChatInv
<1>3. StoreInv' /\ PageInv'
  BY StoreStep, PageInvStep DEF ChatInv
<1>4. ConnectedIsSubscribed' /\ BasisInv' /\ ReachInv'
  BY ConnectedStep, BasisStep, ReachStep DEF ChatInv
<1> QED BY <1>1, <1>2, <1>3, <1>4 DEF ChatInv

\* ChatInv is an invariant of the chat.
THEOREM ChatInvariant == ChatSpec => []ChatInv
BY ChatInitInv, ChatNextInv, PTL DEF ChatSpec

\* The handlers, pages and crashes of the chat drive the hub as ChatHub says
\* its callers do: what is proved of HubSpec holds of the hub in use.
THEOREM ChatUsesHub == ChatSpec => HubSpec
<1>1. ChatInit => HubInit
  BY DEF ChatInit
<1>2. ChatInv => ChatTypeOK
  BY DEF ChatInv
<1> QED BY <1>1, <1>2, ChatInvariant, ChatStepIsHubStep, PTL DEF ChatSpec, HubSpec

\* Handlers, table rows, pages and streams hold what their types allow.
THEOREM ChatTypes == ChatSpec => []ChatTypeOK
<1>1. ChatInv => ChatTypeOK
  BY DEF ChatInv
<1> QED BY <1>1, ChatInvariant, PTL

\* A page that a handler serves is subscribed to its own room on an open channel of
\* its own, whatever publishers, time-outs and crashes do, and whatever pages whose
\* streams broke still believe.
THEOREM ChatConnects == ChatSpec => []ConnectedIsSubscribed
<1>1. ChatInv => ConnectedIsSubscribed
  BY DEF ChatInv
<1> QED BY <1>1, ChatInvariant, PTL

\* The race of a page's history fetch with its event stream loses no message
\* that was confirmed to its sender, but to a full buffer or the row limit.
THEOREM ChatReaches == ChatSpec => []AckedReaches
<1>1. ChatInv => AckedReaches
  <2> SUFFICES ASSUME ChatInv, NEW p \in Pages, NEW m \in Msgs,
                      told[m] = "sent", Room[m] = Watching[p], basis[p] = "kept"
               PROVE  Got(p, m)
    BY DEF AckedReaches, Got
  <2>1. publish[m] = "returned"
    BY DEF ChatInv, StoreInv
  <2> QED BY <2>1 DEF ChatInv, ReachInv
<1> QED BY <1>1, ChatInvariant, PTL
-----------------------------------------------------------------------------
\* The end of a handler confirms its message or abandons it in the ChatRoom,
\* or the page no longer waits and nothing happens.
LEMMA EndMaps ==
  ASSUME ChatTypeOK, NEW m \in Msgs, NEW a \in {"sent", "failed", "bounced"}, End(m, a),
         UNCHANGED <<db, screen>>, a = "sent" => m \in db, a = "bounced" => m \notin db
  PROVE  [Promise!Next]_Promise!vars
<1>1. /\ told' = [told EXCEPT ![m] = IF @ = "waiting" THEN a ELSE @]
      /\ told \in [Msgs -> {"draft", "waiting", "sent", "failed", "bounced"}]
  BY DEF End, ChatTypeOK
<1>2. CASE told[m] # "waiting"
  BY <1>1, <1>2 DEF Promise!vars
<1>3. CASE told[m] = "waiting" /\ a = "sent"
  BY <1>1, <1>3 DEF Promise!Confirm, Promise!Next
<1>4. CASE told[m] = "waiting" /\ a = "failed"
  <2>1. Promise!Abandon({m})
    BY <1>1, <1>4 DEF Promise!Abandon
  <2> QED BY <2>1 DEF Promise!Next
<1>5. CASE told[m] = "waiting" /\ a = "bounced"
  BY <1>1, <1>5 DEF Promise!Bounce, Promise!Next
<1> QED BY <1>2, <1>3, <1>4, <1>5

\* Rendering a stored message of the room is Show, or the page has it.
LEMMA RenderMaps ==
  ASSUME NEW p \in Pages, NEW m \in Msgs, RenderChat(p, m), UNCHANGED <<db, told>>,
         m \in db, Room[m] = Watching[p]
  PROVE  [Promise!Next]_Promise!vars
<1>1. CASE m \in Range(screen[p])
  BY <1>1 DEF RenderChat, Promise!vars
<1>2. CASE m \notin Range(screen[p])
  <2>1. /\ screen' = [screen EXCEPT ![p] = Append(@, m)] /\ db' = db /\ told' = told
        /\ Promise!Range(screen[p]) = Range(screen[p])
    BY <1>2 DEF RenderChat, Range, Promise!Range
  <2>2. Promise!Show(p, m)
    BY <1>2, <2>1 DEF Promise!Show
  <2> QED BY <2>2 DEF Promise!Next
<1> QED BY <1>1, <1>2

LEMMA ChatStepMaps == ChatInv /\ [ChatNext]_chatVars => [Promise!Next]_Promise!vars
<1> SUFFICES ASSUME ChatInv, [ChatNext]_chatVars PROVE [Promise!Next]_Promise!vars
  OBVIOUS
<1>0. HubInv /\ ChatTypeOK /\ StoreInv /\ PageInv /\ ConnectedIsSubscribed
  BY DEF ChatInv
<1>1. CASE UNCHANGED <<db, told, screen>>
  BY <1>1 DEF Promise!vars
<1>2. ASSUME NEW m \in Msgs, Submit(m) PROVE Promise!Next
  BY <1>2 DEF Submit, dataVars, pageVars, Promise!Post, Promise!Next
<1>3. ASSUME NEW m \in Msgs, InsertCommit(m) PROVE Promise!Next
  <2>1. told[m] \notin {"draft", "bounced"}
    BY <1>0, <1>3 DEF InsertCommit, StoreInv
  <2>2. Promise!Store(m)
    BY <1>3, <2>1 DEF InsertCommit, postVars, pageVars, Promise!Store
  <2> QED BY <2>2 DEF Promise!Next
<1>4. ASSUME NEW m \in Msgs, Refuse(m) \/ InsertError(m) \/ Recover(m)
      PROVE  [Promise!Next]_Promise!vars
  <2>1. End(m, "failed") /\ UNCHANGED <<db, screen>>
    BY <1>4 DEF Refuse, InsertError, Recover, dataVars, pageVars
  <2> QED BY <1>0, <2>1, EndMaps
<1>5. ASSUME NEW m \in Msgs, Reply(m) PROVE [Promise!Next]_Promise!vars
  <2>1. m \in db
    BY <1>0, <1>5 DEF Reply, PublishReturn, StoreInv
  <2> QED BY <1>5, <1>0, <2>1, EndMaps DEF Reply, dataVars, pageVars
<1>6. ASSUME NEW m \in Msgs, GiveUp(m) PROVE Promise!Next
  <2>1. Promise!Abandon({m})
    BY <1>0, <1>6 DEF GiveUp, dataVars, pageVars, ChatTypeOK, Promise!Abandon
  <2> QED BY <2>1 DEF Promise!Next
<1>7. ASSUME NEW p \in Pages, HistoryRender(p) PROVE [Promise!Next]_Promise!vars
  <2>1. PICK m \in reply[p] : RenderChat(p, m)
    BY <1>7 DEF HistoryRender
  <2>2. m \in Msgs /\ m \in db /\ Room[m] = Watching[p]
    BY <1>0, <2>1 DEF ChatTypeOK, PageInv
  <2> QED BY <1>7, <2>1, <2>2, RenderMaps DEF HistoryRender, dataVars, postVars
<1>8. ASSUME NEW p \in Pages, StreamEvent(p) PROVE [Promise!Next]_Promise!vars
  <2>1. wire[p] # <<>> /\ RenderChat(p, Head(wire[p])) /\ UNCHANGED <<db, told>>
    BY <1>8 DEF StreamEvent, dataVars, postVars
  <2>2. Head(wire[p]) \in Msgs /\ Head(wire[p]) \in Range(wire[p])
    BY <1>0, <2>1, NextEventType
  <2>3. Head(wire[p]) \in db /\ Room[Head(wire[p])] = Watching[p]
    BY <1>0, <2>2 DEF PageInv
  <2> QED BY <2>1, <2>2, <2>3, RenderMaps
<1>9. ASSUME NEW p \in Pages, Reload(p) PROVE Promise!Next
  BY <1>9 DEF Reload, dataVars, Promise!Leave, Promise!Next
<1>10. ASSUME NEW m \in Msgs, Bounce(m) PROVE [Promise!Next]_Promise!vars
  <2>1. End(m, "bounced") /\ UNCHANGED <<db, screen>> /\ m \notin db
    BY <1>0, <1>10 DEF Bounce, StoreInv, dataVars, pageVars
  <2> QED BY <1>0, <2>1, EndMaps
<1>11. ASSUME NEW m \in Msgs, InsertBegin(m) \/ InsertReturn(m) \/ Broadcast(m) \/ Fan(m)
       PROVE  [Promise!Next]_Promise!vars
  BY <1>11, <1>1 DEF InsertBegin, InsertReturn, Broadcast, Fan, dataVars, postVars, pageVars
<1>12. ASSUME NEW p \in Pages, HistoryQuery(p) \/ HistoryArrive(p) \/ HistoryFail(p)
              \/ Connect(p) \/ Cut(p) \/ StreamTimeout(p) \/ StreamEnd(p)
       PROVE  [Promise!Next]_Promise!vars
  BY <1>12, <1>1 DEF HistoryQuery, HistoryArrive, HistoryFail, Connect, Cut, StreamTimeout,
     StreamEnd, dataVars, postVars
<1>13. ASSUME NEW ch \in Chans, StreamWrite(ch) \/ HandlerGone(ch)
       PROVE  [Promise!Next]_Promise!vars
  BY <1>13, <1>1 DEF StreamWrite, HandlerGone, dataVars, postVars, pageVars
<1>14. CASE UNCHANGED chatVars \/ Crash
  BY <1>14, <1>1 DEF chatVars, dataVars, postVars, pageVars, Crash
<1> QED BY <1>2, <1>3, <1>4, <1>5, <1>6, <1>7, <1>8, <1>9, <1>10, <1>11, <1>12, <1>13, <1>14
    DEF ChatNext, RunStep, Handle, PageStep

\* The chat implements ChatRoom: a page shows only stored messages of its
\* room, each once, and "sent" is said of nothing that is not stored.
THEOREM ChatImplementsRoom == ChatSpec => KeepsPromise
<1>1. ChatInit => Promise!Init
  BY DEF ChatInit, Promise!Init
<1> QED BY <1>1, ChatInvariant, ChatStepMaps, PTL DEF ChatSpec, KeepsPromise, Promise!Spec

-----------------------------------------------------------------------------
(* What follows for those who use the chat.                                *)

\* The hub keeps its promises to the chat: it delivers as Delivery says, its registry
\* is sound, rooms do not leak into each other, messages keep their order, and a
\* Publish that returned served everyone still there.
THEOREM ChatKeepsHub ==
  ChatSpec => Delivers /\ [](Registered /\ RoomIsolation /\ StreamOrder /\ ReturnedServed)
BY ChatUsesHub, HubImplementsDelivery, HubRegisters, HubIsolatesRooms, HubKeepsOrder, HubServes, PTL

\* What no step undoes: a stored message stays stored; what a poster was told is final,
\* "sent" of no message that is not stored, and one that bounced never will be; a page adds below what it shows
\* or is loaded anew, it removes and reorders nothing.
Lasting ==
  /\ db \subseteq db'
  /\ \A m \in Msgs :
       /\ told[m] \in {"sent", "failed", "bounced"} => told'[m] = told[m]
       /\ told'[m] = "sent" => m \in db'
       /\ told'[m] = "bounced" => m \notin db'
  /\ \A p \in Pages : \/ screen'[p] \in {screen[p], <<>>}
                      \/ \E m \in db : screen'[p] = Append(screen[p], m)

\* Crashes, time-outs, late commits, lost connections and reloads included.
THEOREM ChatLasts == ChatSpec => [][Lasting]_chatVars
<1>1. ASSUME ChatInv, ChatInv', [Promise!Next]_Promise!vars PROVE Lasting
  <2> USE DEF Lasting
  <2>1. /\ told \in [Msgs -> {"draft", "waiting", "sent", "failed", "bounced"}] /\ screen \in [Pages -> Seq(Msgs)]
        /\ db \in SUBSET Msgs
    BY <1>1 DEF ChatInv, ChatTypeOK
  <2>2. \A m \in Msgs : /\ told'[m] = "sent" => m \in db'
                        /\ told'[m] = "bounced" => m \notin db'
    <3>1. /\ stamp' \in [Msgs -> Nat] /\ StoreInv'
      BY <1>1 DEF ChatInv, ChatTypeOK
    <3>2. ASSUME NEW m \in Msgs PROVE /\ told'[m] = "sent" => m \in db'
                                      /\ told'[m] = "bounced" => m \notin db'
      <4>1. ~(0 > 0)
        OBVIOUS
      <4>2. /\ told'[m] = "sent" => publish'[m] = "returned" /\ (publish'[m] # "none" => m \in db')
            /\ told'[m] = "bounced" => stamp'[m] = 0 /\ (m \in db' => stamp'[m] > 0)
        BY <3>1 DEF StoreInv
      <4> QED BY <4>1, <4>2
    <3> QED BY <3>2
  <2>3. CASE UNCHANGED Promise!vars
    BY <2>2, <2>3 DEF Promise!vars
  <2>4. ASSUME NEW m \in Msgs, Promise!Post(m) \/ Promise!Store(m) \/ Promise!Confirm(m) \/ Promise!Bounce(m)
        PROVE  Lasting
    BY <2>1, <2>2, <2>4 DEF Promise!Post, Promise!Store, Promise!Confirm, Promise!Bounce
  <2>5. ASSUME NEW M \in SUBSET Msgs, Promise!Abandon(M) PROVE Lasting
    BY <2>1, <2>2, <2>5 DEF Promise!Abandon
  <2>6. ASSUME NEW p \in Pages, Promise!Leave(p) PROVE Lasting
    BY <2>1, <2>2, <2>6 DEF Promise!Leave
  <2>7. ASSUME NEW p \in Pages, NEW m \in Msgs, Promise!Show(p, m) PROVE Lasting
    <3>1. m \in db /\ screen'[p] = Append(screen[p], m) /\ \A q \in Pages : q # p => screen'[q] = screen[q]
      BY <2>1, <2>7 DEF Promise!Show
    <3>2. db' = db /\ told' = told
      BY <2>7 DEF Promise!Show
    <3>3. QED BY <2>2, <3>1, <3>2
  <2>8. QED BY <1>1, <2>3, <2>4, <2>5, <2>6, <2>7 DEF Promise!Next
<1>2. ChatInv /\ ChatInv' /\ [ChatNext]_chatVars => [Lasting]_chatVars
  BY <1>1, ChatStepMaps
<1>3. QED BY <1>2, ChatInvariant, PTL DEF ChatSpec

\* The page has shown its history and everything its stream brought, and it has been
\* served without a break since before the history was read.
CaughtUp(p) == basis[p] = "kept" /\ reply[p] = {} /\ Coming(p) = {}

\* What a page that is caught up shows: stored messages of its room, each exactly once,
\* and all that were confirmed to their senders, but those older than the history's
\* limit and those that met a full buffer.
ShowsAll ==
  \A p \in Pages : CaughtUp(p) =>
    /\ IsInjective(screen[p])
    /\ Range(screen[p]) \subseteq Rows(Watching[p])
    /\ \A m \in Msgs : told[m] = "sent" /\ Room[m] = Watching[p] =>
         m \in Range(screen[p]) \cup beyond[p] \/ <<conn[p], m>> \in dropped

\* A page that is caught up shows the room: fetch and stream, handler and hub, INSERT
\* and Publish between them lose, repeat and mix up nothing.
THEOREM ChatShowsAll == ChatSpec => []ShowsAll
<1>1. ASSUME ChatInv, AckedReaches PROVE ShowsAll
  <2> SUFFICES ASSUME NEW p \in Pages, CaughtUp(p)
               PROVE  /\ IsInjective(screen[p])
                      /\ Range(screen[p]) \subseteq Rows(Watching[p])
                      /\ \A m \in Msgs : told[m] = "sent" /\ Room[m] = Watching[p] =>
                           m \in Range(screen[p]) \cup beyond[p] \/ <<conn[p], m>> \in dropped
    BY DEF ShowsAll
  <2>1. IsInjective(screen[p]) /\ Range(screen[p]) \subseteq Rows(Watching[p])
    BY <1>1 DEF ChatInv, PageInv, Rows
  <2>2. \A m \in Msgs : told[m] = "sent" /\ Room[m] = Watching[p] =>
          m \in Range(screen[p]) \cup beyond[p] \/ <<conn[p], m>> \in dropped
    BY <1>1 DEF AckedReaches, CaughtUp
  <2>3. QED BY <2>1, <2>2
<1>2. QED BY <1>1, ChatInvariant, ChatReaches, PTL

\* As long as a page's connection lasts, what its stream has for it stays on the way
\* until the page shows it.  A handler that ends takes with it what its channel still
\* held, but what it has written arrives.  Nothing that is shown goes away.
NothingSkipped ==
  \A p \in Pages : link[p] = "open" /\ link'[p] = "open" =>
    /\ Range(wire[p]) \subseteq Range(wire'[p]) \cup Range(screen'[p])
    /\ Range(screen[p]) \subseteq Range(screen'[p])
    /\ conn'[p] = conn[p] => Coming(p) \subseteq Coming(p)' \cup Range(screen'[p])

LEMMA NothingSkippedStep ==
  ASSUME ChatInv, ChatNext, NEW p \in Pages, link[p] = "open", link'[p] = "open"
  PROVE  /\ Range(wire[p]) \subseteq Range(wire'[p]) \cup Range(screen'[p])
         /\ Range(screen[p]) \subseteq Range(screen'[p])
         /\ conn'[p] = conn[p] => Coming(p) \subseteq Coming(p)' \cup Range(screen'[p])
<1> USE DEF ChatInv
<1> DEFINE Kept == /\ Range(wire[p]) \subseteq Range(wire'[p]) \cup Range(screen'[p])
                   /\ Range(screen[p]) \subseteq Range(screen'[p])
                   /\ conn'[p] = conn[p] => Coming(p) \subseteq Coming(p)' \cup Range(screen'[p])
<1>1. ASSUME wire'[p] = wire[p], Range(screen[p]) \subseteq Range(screen'[p]),
             conn'[p] = conn[p] /\ conn[p] # NoChan =>
               stream'[conn[p]] = stream[conn[p]] /\ taken'[conn[p]] = taken[conn[p]]
      PROVE  Kept
  BY <1>1, ComingSame
<1>2. ASSUME NEW m \in Msgs, Submit(m) \/ Handle(m) \/ InsertCommit(m) \/ GiveUp(m)
      PROVE  Kept
  <2>1. CASE Fan(m) /\ PublishSend(m)
    <3>1. /\ stream' = [stream EXCEPT ![Head(list[m])] = Append(@, m)]
          /\ UNCHANGED <<taken, conn, wire, screen>>
      BY <2>1 DEF Fan, PublishSend, pageVars
    <3>2. conn[p] # NoChan =>
            /\ conn[p] \in Chans
            /\ \/ stream'[conn[p]] = stream[conn[p]]
               \/ stream'[conn[p]] = Append(stream[conn[p]], m)
      BY <3>1, ConnType DEF HubInv, HubTypeOK
    <3>3. conn[p] # NoChan => Queued(conn[p]) \subseteq Queued(conn[p])'
      BY <3>1, <3>2, QueueStays
    <3> QED BY <3>1, <3>3 DEF Coming
  <2>2. CASE ~(Fan(m) /\ PublishSend(m))
    <3>1. UNCHANGED <<stream, taken, conn, wire, screen>>
      BY <1>2, <2>2 DEF Handle, Submit, Bounce, Refuse, InsertBegin, InsertReturn, InsertError, Broadcast,
         Fan, Reply, Recover, InsertCommit, GiveUp, hubVars, pageVars, PublishCopy,
         PublishDrop, PublishReturn, PublishPanic
    <3> QED BY <1>1, <3>1
  <2> QED BY <2>1, <2>2
<1>3. ASSUME NEW q \in Pages, HistoryQuery(q) \/ HistoryArrive(q) \/ HistoryFail(q) \/ StreamEnd(q)
      PROVE  Kept
  BY <1>3, <1>1 DEF HistoryQuery, HistoryArrive, HistoryFail, StreamEnd, hubVars
<1>4. ASSUME NEW q \in Pages, Connect(q) PROVE Kept
  BY <1>4, <1>1 DEF Connect, Subscribe
<1>5. ASSUME NEW q \in Pages, Cut(q) \/ Reload(q) PROVE Kept
  <2>1. q # p
    BY <1>5 DEF Cut, Reload, ChatTypeOK
  <2>2. wire'[p] = wire[p] /\ screen'[p] = screen[p] /\ UNCHANGED hubVars
    BY <1>5, <2>1 DEF Cut, Reload, ChatTypeOK
  <2> QED BY <1>1, <2>2 DEF hubVars
<1>6. ASSUME NEW q \in Pages, StreamTimeout(q) PROVE Kept
  <2>1. /\ Unsubscribe(Watching[q], conn[q]) /\ conn[q] # NoChan /\ conn'[q] = NoChan
        /\ conn[q] \in Chans /\ Watching[q] \in Slugs /\ UNCHANGED <<wire, screen>>
    BY <1>6, ConnType DEF StreamTimeout, Unserved, ChatTypeOK
  <2>2. conn'[p] = conn[p] /\ conn[p] # NoChan => conn[p] # conn[q] /\ conn[p] \in Chans
    BY <2>1, ConnType DEF ConnectedIsSubscribed
  <2> QED BY <1>1, <2>1, <2>2, UnsubscribeEffect
<1>7. ASSUME NEW q \in Pages, HistoryRender(q) PROVE Kept
  <2>1. PICK m \in reply[q] : RenderChat(q, m)
    BY <1>7 DEF HistoryRender
  <2>2. m \in Msgs
    BY <2>1 DEF ChatTypeOK
  <2>3. Range(screen[p]) \subseteq Range(screen'[p])
    BY <2>1, <2>2, RenderEffect
  <2> QED BY <1>1, <1>7, <2>3 DEF HistoryRender, hubVars
<1>8. ASSUME NEW q \in Pages, StreamEvent(q) PROVE Kept
  <2>1. /\ Coming(p) \subseteq Coming(p)' \cup Range(screen'[p])
        /\ Range(screen[p]) \subseteq Range(screen'[p])
    BY <1>8, EventEffect
  <2>2. Range(wire[p]) \subseteq Range(wire'[p]) \cup Range(screen'[p])
    <3>1. /\ wire[q] # <<>> /\ RenderChat(q, Head(wire[q])) /\ wire' = [wire EXCEPT ![q] = Tail(@)]
      BY <1>8 DEF StreamEvent
    <3>2. Head(wire[q]) \in Msgs /\ Range(wire[q]) = {Head(wire[q])} \cup Range(Tail(wire[q]))
      BY <3>1, NextEventType
    <3>3. Range(screen'[q]) = Range(screen[q]) \cup {Head(wire[q])}
      BY <3>1, <3>2, RenderEffect
    <3> QED BY <3>1, <3>2, <3>3 DEF ChatTypeOK
  <2> QED BY <2>1, <2>2
<1>9. ASSUME NEW ch \in Chans, StreamWrite(ch) PROVE Kept
  <2>1. Range(wire[p]) \subseteq Range(wire'[p]) /\ UNCHANGED screen
    BY <1>9, WriteEffect DEF StreamWrite
  <2> QED BY <1>9, <2>1, WriteMoves
<1>10. ASSUME NEW ch \in Chans, HandlerGone(ch) PROVE Kept
  <2>1. PICK s \in Slugs : Unsubscribe(s, ch)
    BY <1>10 DEF HandlerGone
  <2>2. conn[p] # ch /\ UNCHANGED <<conn, wire, screen>>
    BY <1>10 DEF HandlerGone, pageVars
  <2> QED BY <1>1, <2>1, <2>2, ConnType, UnsubscribeEffect
<1>11. CASE Crash
  <2>1. UNCHANGED <<wire, screen>> /\ conn'[p] = NoChan
    BY <1>11 DEF Crash
  <2> QED BY <1>1, <2>1
<1> QED
  BY <1>2, <1>3, <1>4, <1>5, <1>6, <1>7, <1>8, <1>9, <1>10, <1>11 DEF ChatNext, RunStep, PageStep

\* Until it learns of a break a page loses nothing that was written to it, and while its
\* handler serves it nothing that reached its channel: the half of ShownOrCut that is not
\* about fairness.
THEOREM ChatSkipsNothing == ChatSpec => [][NothingSkipped]_chatVars
<1>1. ASSUME ChatInv, [ChatNext]_chatVars PROVE [NothingSkipped]_chatVars
  BY <1>1, NothingSkippedStep DEF NothingSkipped
<1>2. QED BY <1>1, ChatInvariant, PTL DEF ChatSpec

\* What the handler of m has before it, coarsest first: the checks, the INSERT, Publish.
StepsLeft(m) ==
  CASE req[m] = "checking" -> 4
    [] req[m] = "inserting" -> 3
    [] req[m] = "stored" /\ publish[m] = "none" -> 2
    [] req[m] = "stored" /\ publish[m] # "none" -> 1
    [] OTHER -> 0

\* A page that waits for an answer is waiting for a handler that is at work, at one of
\* its steps and never behind a Publish call that is already over, unless the handler
\* was lost with the server.
WaitingServed ==
  \A m \in Msgs :
    /\ told[m] = "waiting" => StepsLeft(m) > 0 \/ req[m] = "lost"
    /\ publish[m] \notin {"none", "ranging"} => req[m] \in {"ended", "lost"}

LEMMA WaitingStep == ChatInv /\ WaitingServed /\ [ChatNext]_chatVars => WaitingServed'
<1> SUFFICES ASSUME ChatInv, WaitingServed, [ChatNext]_chatVars, NEW m \in Msgs
             PROVE  /\ told'[m] = "waiting" => req'[m] \in {"checking", "inserting", "stored", "lost"}
                    /\ publish'[m] \notin {"none", "ranging"} => req'[m] \in {"ended", "lost"}
  BY DEF WaitingServed, StepsLeft
<1>1. /\ req \in [Msgs -> {"none", "checking", "inserting", "stored", "ended", "lost"}]
      /\ told \in [Msgs -> {"draft", "waiting", "sent", "failed", "bounced"}]
      /\ publish \in [Msgs -> {"none", "ranging", "returned", "panicked", "lost"}]
      /\ publish[m] = "ranging" => req[m] = "stored"
  BY DEF ChatInv, ChatTypeOK, HubTypeOK, StoreInv
<1>2. /\ told[m] = "waiting" => req[m] \in {"checking", "inserting", "stored", "lost"}
      /\ publish[m] \notin {"none", "ranging"} => req[m] \in {"ended", "lost"}
  BY <1>1 DEF WaitingServed, StepsLeft
<1>3. ASSUME NEW k \in Msgs, Submit(k) \/ InsertBegin(k) \/ InsertReturn(k) \/ InsertCommit(k) \/ GiveUp(k)
      PROVE  /\ told'[m] = "waiting" => req'[m] \in {"checking", "inserting", "stored", "lost"}
             /\ publish'[m] \notin {"none", "ranging"} => req'[m] \in {"ended", "lost"}
  <2>1. publish' = publish
    BY <1>3 DEF Submit, InsertBegin, InsertReturn, InsertCommit, GiveUp, hubVars
  <2>2. QED
    BY <1>1, <1>2, <1>3, <2>1 DEF Submit, InsertBegin, InsertReturn, InsertCommit, GiveUp, postVars,
       ChatInv, StoreInv
<1>4. ASSUME NEW k \in Msgs, NEW a \in {"sent", "failed", "bounced"}, End(k, a),
             publish' = publish \/ \E o \in {"returned", "panicked"} : publish' = [publish EXCEPT ![k] = o]
      PROVE  /\ told'[m] = "waiting" => req'[m] \in {"checking", "inserting", "stored", "lost"}
             /\ publish'[m] \notin {"none", "ranging"} => req'[m] \in {"ended", "lost"}
  BY <1>1, <1>2, <1>4 DEF End
<1>5. ASSUME NEW k \in Msgs, Bounce(k) \/ Refuse(k) \/ InsertError(k) \/ Reply(k) \/ Recover(k)
      PROVE  \E a \in {"sent", "failed", "bounced"} :
               /\ End(k, a)
               /\ publish' = publish \/ \E o \in {"returned", "panicked"} : publish' = [publish EXCEPT ![k] = o]
  BY <1>5 DEF Bounce, Refuse, InsertError, Reply, Recover, PublishReturn, PublishPanic, hubVars
<1>6. ASSUME NEW k \in Msgs, Broadcast(k) \/ Fan(k)
      PROVE  /\ told'[m] = "waiting" => req'[m] \in {"checking", "inserting", "stored", "lost"}
             /\ publish'[m] \notin {"none", "ranging"} => req'[m] \in {"ended", "lost"}
  <2>1. /\ UNCHANGED <<req, told>>
        /\ publish' = publish \/ publish' = [publish EXCEPT ![k] = "ranging"]
    BY <1>6 DEF Broadcast, Fan, PublishCopy, PublishSend, PublishDrop, postVars
  <2>2. QED BY <1>1, <1>2, <2>1
<1>7. ASSUME NEW p \in Pages, PageStep(p) \/ Reload(p)
      PROVE  /\ publish' = publish /\ req' = req
             /\ \A k \in Msgs : told'[k] = "waiting" => told[k] = "waiting"
  BY <1>1, <1>7 DEF PageStep, HistoryQuery, HistoryArrive, HistoryFail, HistoryRender, Connect, Subscribe,
     StreamEvent, StreamEnd, Cut, StreamTimeout, Unsubscribe, Reload, hubVars, postVars
<1>8. ASSUME NEW ch \in Chans, StreamWrite(ch) \/ HandlerGone(ch)
      PROVE  UNCHANGED <<publish, req, told>>
  BY <1>8 DEF StreamWrite, HandlerGone, Receive, Unsubscribe, postVars
<1>9. CASE Crash
  BY <1>1, <1>2, <1>9 DEF Crash, ProcessExit
<1>10. CASE UNCHANGED chatVars
  BY <1>2, <1>10 DEF chatVars, hubVars, postVars
<1> QED BY <1>2, <1>3, <1>4, <1>5, <1>6, <1>7, <1>8, <1>9, <1>10 DEF ChatNext, RunStep, Handle

\* Every POST a page waits for has a handler at work, whatever broke, crashed or
\* panicked meanwhile.
THEOREM ChatServesWaiting == ChatSpec => []WaitingServed
<1>1. ChatInit => WaitingServed
  BY DEF ChatInit, HubInit, WaitingServed
<1>2. QED BY <1>1, WaitingStep, ChatInvariant, PTL DEF ChatSpec

\* Each step of a handler under way ends it, brings it to a later stage or takes one
\* reader off the copy its Publish goes through; nobody else's step but a crash moves
\* it at all.
HandlerAdvances ==
  \A m \in Msgs : req[m] \notin {"none", "ended", "lost"} =>
    \/ req'[m] \in {"ended", "lost"}
    \/ /\ Handle(m)
       /\ \/ StepsLeft(m)' < StepsLeft(m)
          \/ StepsLeft(m)' = StepsLeft(m) /\ ToGo(m)' = ToGo(m) - 1
    \/ /\ ~Handle(m)
       /\ StepsLeft(m)' = StepsLeft(m) /\ ToGo(m)' = ToGo(m)

LEMMA HandlerStep ==
  ASSUME ChatInv, WaitingServed, NEW m \in Msgs, Handle(m), req[m] \notin {"none", "ended", "lost"}
  PROVE  \/ req'[m] \in {"ended", "lost"}
         \/ StepsLeft(m)' < StepsLeft(m)
         \/ StepsLeft(m)' = StepsLeft(m) /\ ToGo(m)' = ToGo(m) - 1
<1>1. /\ req \in [Msgs -> {"none", "checking", "inserting", "stored", "ended", "lost"}]
      /\ publish \in [Msgs -> {"none", "ranging", "returned", "panicked", "lost"}]
      /\ list \in [Msgs -> Seq(Chans)]
      /\ publish[m] = "ranging" => req[m] = "stored"
      /\ publish[m] # "ranging" => list[m] = <<>>
  BY DEF ChatInv, ChatTypeOK, HubInv, HubTypeOK, StoreInv, ListInv
<1>2. CASE Bounce(m) \/ Refuse(m) \/ InsertError(m) \/ Reply(m) \/ Recover(m)
  BY <1>1, <1>2 DEF Bounce, Refuse, InsertError, Reply, Recover, End
<1>3. CASE InsertBegin(m)
  BY <1>1, <1>3 DEF InsertBegin, StepsLeft
<1>4. CASE InsertReturn(m)
  BY <1>1, <1>4 DEF InsertReturn, StepsLeft, hubVars
<1>5. CASE Broadcast(m)
  <2>1. req' = req /\ req[m] = "stored" /\ publish[m] = "none" /\ publish'[m] = "ranging"
    BY <1>1, <1>5 DEF Broadcast, PublishCopy, postVars
  <2>2. QED BY <2>1 DEF StepsLeft
<1>6. CASE Fan(m)
  <2>1. list[m] # <<>> /\ list'[m] = Tail(list[m]) /\ UNCHANGED <<req, publish>>
    BY <1>1, <1>6 DEF Fan, PublishSend, PublishDrop, postVars
  <2>2. StepsLeft(m)' = StepsLeft(m)
    BY <2>1 DEF StepsLeft
  <2>3. ToGo(m)' = ToGo(m) - 1
    BY <1>1, <2>1, HeadTailProperties DEF ToGo
  <2>4. QED BY <2>2, <2>3
<1>7. QED BY <1>2, <1>3, <1>4, <1>5, <1>6 DEF Handle

LEMMA OthersStep ==
  ASSUME ChatInv, ChatNext, NEW m \in Msgs, ~Handle(m), req[m] \notin {"none", "ended", "lost"}
  PROVE  \/ req'[m] \in {"ended", "lost"}
         \/ StepsLeft(m)' = StepsLeft(m) /\ ToGo(m)' = ToGo(m)
<1>1. /\ req \in [Msgs -> {"none", "checking", "inserting", "stored", "ended", "lost"}]
      /\ told \in [Msgs -> {"draft", "waiting", "sent", "failed", "bounced"}]
      /\ publish \in [Msgs -> {"none", "ranging", "returned", "panicked", "lost"}]
      /\ list \in [Msgs -> Seq(Chans)]
      /\ told[m] = "draft" <=> req[m] = "none"
  BY DEF ChatInv, ChatTypeOK, HubTypeOK, StoreInv
<1>2. ASSUME req'[m] = req[m], publish'[m] = publish[m], list'[m] = list[m]
      PROVE  StepsLeft(m)' = StepsLeft(m) /\ ToGo(m)' = ToGo(m)
  BY <1>2 DEF StepsLeft, ToGo
<1>3. ASSUME NEW k \in Msgs, Submit(k) \/ InsertCommit(k) \/ GiveUp(k)
      PROVE  req'[m] = req[m] /\ UNCHANGED <<publish, list>>
  BY <1>1, <1>3 DEF Submit, InsertCommit, GiveUp, hubVars, postVars
<1>4. ASSUME NEW k \in Msgs, Handle(k)
      PROVE  req'[m] = req[m] /\ publish'[m] = publish[m] /\ list'[m] = list[m]
  <2>1. k # m
    BY <1>4
  <2>2. QED
    BY <1>1, <1>4, <2>1 DEF Handle, Bounce, Refuse, InsertBegin, InsertReturn, InsertError, Broadcast, Fan, Reply,
       Recover, End, PublishCopy, PublishSend, PublishDrop, PublishReturn, PublishPanic, hubVars, postVars
<1>5. ASSUME NEW p \in Pages, PageStep(p) \/ Reload(p)
      PROVE  UNCHANGED <<req, publish, list>>
  BY <1>5 DEF PageStep, HistoryQuery, HistoryArrive, HistoryFail, HistoryRender, Connect, Subscribe,
     StreamEvent, StreamEnd, Cut, StreamTimeout, Unsubscribe, Reload, hubVars, postVars
<1>6. ASSUME NEW ch \in Chans, StreamWrite(ch) \/ HandlerGone(ch)
      PROVE  UNCHANGED <<req, publish, list>>
  BY <1>6 DEF StreamWrite, HandlerGone, Receive, Unsubscribe, postVars
<1>7. CASE Crash
  BY <1>1, <1>7 DEF Crash
<1>8. QED BY <1>2, <1>3, <1>4, <1>5, <1>6, <1>7 DEF ChatNext, RunStep

\* A handler never goes back and never waits for another: it ends after as many steps
\* as there were readers and a handful more, which is the half of Answered that is not
\* about fairness.
THEOREM ChatHandlersAdvance == ChatSpec => [][HandlerAdvances]_chatVars
<1>1. ASSUME ChatInv, WaitingServed, [ChatNext]_chatVars PROVE [HandlerAdvances]_chatVars
  <2> SUFFICES ASSUME ChatNext PROVE HandlerAdvances
    BY <1>1
  <2>1. ASSUME NEW m \in Msgs, req[m] \notin {"none", "ended", "lost"}, Handle(m)
        PROVE  \/ req'[m] \in {"ended", "lost"}
               \/ StepsLeft(m)' < StepsLeft(m)
               \/ StepsLeft(m)' = StepsLeft(m) /\ ToGo(m)' = ToGo(m) - 1
    BY <1>1, <2>1, HandlerStep
  <2>2. ASSUME NEW m \in Msgs, req[m] \notin {"none", "ended", "lost"}, ~Handle(m)
        PROVE  \/ req'[m] \in {"ended", "lost"}
               \/ StepsLeft(m)' = StepsLeft(m) /\ ToGo(m)' = ToGo(m)
    BY <1>1, <2>2, OthersStep
  <2>3. QED BY <2>1, <2>2 DEF HandlerAdvances
<1>2. QED BY <1>1, ChatInvariant, ChatServesWaiting, PTL DEF ChatSpec
=============================================================================
