-------------------------------- MODULE Chat --------------------------------
(***************************************************************************)
(* The persistent chat: the hub of ChatHub, the ChatSend, ChatStream and   *)
(* ChatHistory handlers, the chat_messages table and the channel pages that*)
(* post, stream and render (web/static/channel-viewer.js).                 *)
(*                                                                         *)
(* A message m is one POST of one page.  Its request runs in a handler of  *)
(* its own, whose context a lost client or the 30 s timeout cancels; the   *)
(* database commits its row independently of what the handler is told.     *)
(*                                                                         *)
(* A page renders from two sources that race: the history fetched once     *)
(* when it loads, and its event stream.  What the server knows of a stream *)
(* and what the page believes of it are kept apart: a handler that returns *)
(* or dies leaves a page that still believes its stream open, and a page   *)
(* that is gone leaves a handler that still serves it.                     *)
(***************************************************************************)
EXTENDS ChatHub, FiniteSets

CONSTANTS
  Pages,    \* channel pages open in browsers
  Author,   \* Author[m]: the page whose form posts m, of Pages or elsewhere
  Watching, \* Watching[p]: the page's room, cfg.room
  Limit,    \* how many rows the history returns at most, 50 from the page
  NoChan    \* not a channel

ASSUME ChatAssumption ==
  /\ Watching \in [Pages -> Slugs]
  /\ \A m \in Msgs : Author[m] \in Pages => Room[m] = Watching[Author[m]]
  /\ IsFiniteSet(Msgs)
  /\ Limit \in Nat \ {0}
  /\ NoChan \notin Chans

VARIABLES
  stamp,    \* stamp[m]: rank of the row's created_at, 0 before the insert
  db,       \* the messages whose row is committed
  req,      \* req[m]: where the ChatSend handler of m is
  told,     \* told[m]: what the page knows of its POST
  phase,    \* phase[p]: where the page's history fetch is
  reply,    \* reply[p]: the rows of the fetch that are not rendered yet
  conn,     \* conn[p]: the Go channel of the handler that serves p's stream
  link,     \* link[p]: what the page's EventSource believes of its stream
  wire,     \* wire[p]: what was written to the page and it has not handled yet
  screen,   \* screen[p]: the messages the page shows, top to bottom
  \* history variables, read by the properties and by no action
  basis,    \* basis[p]: was the page served when its history was read, and since
  beyond    \* beyond[p]: the room's rows that the query's limit left out

dataVars == <<stamp, db>>
postVars == <<req, told>>
pageVars == <<phase, reply, conn, link, wire, screen, basis, beyond>>
chatVars == <<hubVars, dataVars, postVars, pageVars>>

ChatTypeOK ==
  /\ HubTypeOK
  /\ stamp \in [Msgs -> Nat]
  /\ db \in SUBSET Msgs
  /\ req \in [Msgs -> {"none", "checking", "inserting", "stored", "ended", "lost"}]
  /\ told \in [Msgs -> {"draft", "waiting", "sent", "failed", "bounced"}]
  /\ phase \in [Pages -> {"fetching", "answered", "loaded"}]
  /\ reply \in [Pages -> SUBSET Msgs]
  /\ conn \in [Pages -> Chans \cup {NoChan}]
  /\ link \in [Pages -> {"connecting", "open"}]
  /\ wire \in [Pages -> Seq(Msgs)]
  /\ screen \in [Pages -> Seq(Msgs)]
  /\ basis \in [Pages -> {"none", "kept", "cut"}]
  /\ beyond \in [Pages -> SUBSET Msgs]

ChatInit ==
  /\ HubInit
  /\ stamp = [m \in Msgs |-> 0]
  /\ db = {}
  /\ req = [m \in Msgs |-> "none"]
  /\ told = [m \in Msgs |-> "draft"]
  /\ phase = [p \in Pages |-> "fetching"]
  /\ reply = [p \in Pages |-> {}]
  /\ conn = [p \in Pages |-> NoChan]
  /\ link = [p \in Pages |-> "connecting"]
  /\ wire = [p \in Pages |-> <<>>]
  /\ screen = [p \in Pages |-> <<>>]
  /\ basis = [p \in Pages |-> "none"]
  /\ beyond = [p \in Pages |-> {}]
-----------------------------------------------------------------------------
(* Posting a message *)

\* The page's submit button is disabled while a POST of it is in flight.
Submit(m) ==
  /\ told[m] = "draft"
  /\ \A k \in Msgs : Author[k] = Author[m] => told[k] # "waiting"
  /\ told' = [told EXCEPT ![m] = "waiting"]
  /\ req' = [req EXCEPT ![m] = "checking"]
  /\ UNCHANGED <<hubVars, dataVars, pageVars>>

\* Mutant: the button comes back only after a success.
EndUnlessFailed(m, a) ==
  /\ req' = [req EXCEPT ![m] = "ended"]
  /\ told' = [told EXCEPT ![m] = IF @ = "waiting" /\ a = "sent" THEN a ELSE @]

\* The handler of m ends and a is what the page learns, unless it no longer
\* waits for the answer.
End(m, a) ==
  /\ req' = [req EXCEPT ![m] = "ended"]
  /\ told' = [told EXCEPT ![m] = IF @ = "waiting" THEN a ELSE @]

\* LoadUser finds no user: the session is over, the user is banned or the query
\* failed.  RequireSession redirects to /login, the fetch follows, and the page
\* takes the login page's 200 for a success, although nothing is stored.
Bounce(m) ==
  /\ req[m] = "checking"
  /\ End(m, "bounced")
  /\ UNCHANGED <<hubVars, dataVars, pageVars>>

\* Any early return of ChatSend: bad form, empty or too long, no such channel
\* or a database error.
Refuse(m) ==
  /\ req[m] = "checking"
  /\ End(m, "failed")
  /\ UNCHANGED <<hubVars, dataVars, pageVars>>

\* The INSERT's transaction starts: this is the created_at of the row, whose
\* column defaults to now().
InsertBegin(m) ==
  /\ req[m] = "checking"
  /\ req' = [req EXCEPT ![m] = "inserting"]
  /\ stamp' = [stamp EXCEPT ![m] = Cardinality({k \in Msgs : stamp[k] > 0}) + 1]
  /\ UNCHANGED <<hubVars, db, told, pageVars>>

\* PostgreSQL commits the row.  It may do so after the handler gave up.
InsertCommit(m) ==
  /\ stamp[m] > 0
  /\ m \notin db
  /\ db' = db \cup {m}
  /\ UNCHANGED <<hubVars, stamp, postVars, pageVars>>

InsertReturn(m) ==
  /\ req[m] = "inserting"
  /\ m \in db
  /\ req' = [req EXCEPT ![m] = "stored"]
  /\ UNCHANGED <<hubVars, dataVars, told, pageVars>>

\* The query fails or its context is cancelled, the row committed or not.
InsertError(m) ==
  /\ req[m] = "inserting"
  /\ End(m, "failed")
  /\ UNCHANGED <<hubVars, dataVars, pageVars>>

\* The call of Publish after the insert.
Broadcast(m) ==
  /\ req[m] = "stored"
  /\ PublishCopy(m)
  /\ UNCHANGED <<dataVars, postVars, pageVars>>

Fan(m) ==
  /\ PublishSend(m) \/ PublishDrop(m)
  /\ UNCHANGED <<dataVars, postVars, pageVars>>

\* Publish is over: 204.
Reply(m) ==
  /\ PublishReturn(m)
  /\ End(m, "sent")
  /\ UNCHANGED <<dataVars, pageVars>>

\* Mutant: Publish recovers its own panic and returns.
RecoverInside(m) ==
  /\ PublishPanic(m)
  /\ End(m, "sent")
  /\ UNCHANGED <<dataVars, pageVars>>

\* Publish panicked: the Recoverer middleware answers 500.
Recover(m) ==
  /\ PublishPanic(m)
  /\ End(m, "failed")
  /\ UNCHANGED <<dataVars, pageVars>>

\* The page's fetch rejects: the network broke while the handler goes on, or
\* the server is gone.
GiveUp(m) ==
  /\ told[m] = "waiting"
  /\ told' = [told EXCEPT ![m] = "failed"]
  /\ UNCHANGED <<hubVars, dataVars, req, pageVars>>
-----------------------------------------------------------------------------
(* The history of a page *)

\* The rows of room s, and those created after m's.
Rows(s) == {m \in db : Room[m] = s}
Newer(m) == {k \in Rows(Room[m]) : stamp[k] > stamp[m]}

\* Mutant: ORDER BY created_at without DESC.
FirstChatMessages(s) ==
  {m \in Rows(s) : Cardinality({k \in Rows(s) : stamp[k] < stamp[m]}) < Limit}

\* The last Limit rows of room s, as a set: HistoryRender orders them.
RecentChatMessages(s) == {m \in Rows(s) : Cardinality(Newer(m)) < Limit}

HistoryQuery(p) ==
  /\ phase[p] = "fetching"
  /\ phase' = [phase EXCEPT ![p] = "answered"]
  /\ reply' = [reply EXCEPT ![p] = RecentChatMessages(Watching[p])]
  /\ basis' = [basis EXCEPT ![p] = IF conn[p] = NoChan THEN "none" ELSE "kept"]
  /\ beyond' = [beyond EXCEPT ![p] = {m \in Rows(Watching[p]) : ~(Cardinality(Newer(m)) < Limit)}]
  /\ UNCHANGED <<hubVars, dataVars, postVars, conn, link, wire, screen>>

HistoryArrive(p) ==
  /\ phase[p] = "answered"
  /\ phase' = [phase EXCEPT ![p] = "loaded"]
  /\ UNCHANGED <<hubVars, dataVars, postVars, reply, conn, link, wire, screen, basis, beyond>>

\* The fetch rejects, or its body is the error text of a 500: only a log line.
HistoryFail(p) ==
  /\ phase[p] \in {"fetching", "answered"}
  /\ phase' = [phase EXCEPT ![p] = "loaded"]
  /\ reply' = [reply EXCEPT ![p] = {}]
  /\ basis' = [basis EXCEPT ![p] = "none"]
  /\ beyond' = [beyond EXCEPT ![p] = {}]
  /\ UNCHANGED <<hubVars, dataVars, postVars, conn, link, wire, screen>>

\* Mutant: no renderedIds.
RenderAlways(p, m) == screen' = [screen EXCEPT ![p] = Append(@, m)]

\* renderChat: a message already in renderedIds is skipped.
RenderChat(p, m) ==
  screen' = IF m \in Range(screen[p]) THEN screen
            ELSE [screen EXCEPT ![p] = Append(@, m)]

\* One turn of the forEach over the fetched rows, oldest first.  The loop is
\* one task of the page's event loop: no stream event is handled within it.
HistoryRender(p) ==
  /\ phase[p] = "loaded"
  /\ \E m \in reply[p] :
       /\ \A k \in reply[p] : stamp[m] <= stamp[k]
       /\ RenderChat(p, m)
       /\ reply' = [reply EXCEPT ![p] = @ \ {m}]
  /\ UNCHANGED <<hubVars, dataVars, postVars, phase, conn, link, wire, basis, beyond>>

\* Mutant: stream events wait until the history is there.
RenderingUntilLoaded(p) == phase[p] # "loaded" \/ reply[p] # {}

Rendering(p) == phase[p] = "loaded" /\ reply[p] # {}
-----------------------------------------------------------------------------
(* The event stream of a page *)

\* new EventSource, or its own reconnection: ChatStream subscribes, and its
\* first flush is what opens the stream for the page.
Connect(p) ==
  /\ link[p] = "connecting"
  /\ \E ch \in Chans :
       /\ Subscribe(Watching[p], ch)
       /\ conn' = [conn EXCEPT ![p] = ch]
  /\ link' = [link EXCEPT ![p] = "open"]
  /\ UNCHANGED <<dataVars, postVars, phase, reply, wire, screen, basis, beyond>>

\* ChatStream's select takes a message and writes it to the response; a page
\* that is gone gets nothing.
StreamWrite(ch) ==
  /\ Receive(ch)
  /\ wire' = [p \in Pages |->
               IF conn[p] = ch THEN Append(wire[p], stream[ch][taken[ch] + 1]) ELSE wire[p]]
  /\ UNCHANGED <<dataVars, postVars, phase, reply, conn, link, screen, basis, beyond>>

\* The page's "chat" listener gets the next message that was written.
StreamEvent(p) ==
  /\ wire[p] # <<>>
  /\ ~Rendering(p)
  /\ RenderChat(p, Head(wire[p]))
  /\ wire' = [wire EXCEPT ![p] = Tail(@)]
  /\ UNCHANGED <<hubVars, dataVars, postVars, phase, reply, conn, link, basis, beyond>>

\* No handler serves the page any more.
Unserved(p) ==
  /\ conn' = [conn EXCEPT ![p] = NoChan]
  /\ basis' = [basis EXCEPT ![p] = IF @ = "kept" THEN "cut" ELSE @]

\* middleware.Timeout cancels the context of a handler that has run 30 s, an
\* event stream included: it returns and unsubscribes.  The page does not know.
StreamTimeout(p) ==
  /\ conn[p] # NoChan
  /\ Unsubscribe(Watching[p], conn[p])
  /\ Unserved(p)
  /\ UNCHANGED <<dataVars, postVars, phase, reply, link, wire, screen, beyond>>

\* onerror: the page has handled all that was written and sees the response end.
StreamEnd(p) ==
  /\ link[p] = "open"
  /\ conn[p] = NoChan
  /\ wire[p] = <<>>
  /\ link' = [link EXCEPT ![p] = "connecting"]
  /\ UNCHANGED <<hubVars, dataVars, postVars, phase, reply, conn, wire, screen, basis, beyond>>

\* onerror: the connection breaks, with what is in flight.  A handler that
\* serves it has not noticed.
Cut(p) ==
  /\ link[p] = "open"
  /\ link' = [link EXCEPT ![p] = "connecting"]
  /\ wire' = [wire EXCEPT ![p] = <<>>]
  /\ Unserved(p)
  /\ UNCHANGED <<hubVars, dataVars, postVars, phase, reply, screen, beyond>>

\* Mutant: the select of ChatStream without its ctx.Done() case.
HandlerStays(ch) == FALSE

\* The handler of a page that is gone sees ctx.Done() and unsubscribes.
HandlerGone(ch) ==
  /\ \A p \in Pages : conn[p] # ch
  /\ \E s \in Slugs : Unsubscribe(s, ch)
  /\ UNCHANGED <<dataVars, postVars, pageVars>>

\* The page is loaded anew: an empty list, a new fetch, a new stream.  It
\* forgets the POST it was waiting for.
Reload(p) ==
  /\ phase' = [phase EXCEPT ![p] = "fetching"]
  /\ reply' = [reply EXCEPT ![p] = {}]
  /\ screen' = [screen EXCEPT ![p] = <<>>]
  /\ beyond' = [beyond EXCEPT ![p] = {}]
  /\ conn' = [conn EXCEPT ![p] = NoChan]
  /\ link' = [link EXCEPT ![p] = "connecting"]
  /\ wire' = [wire EXCEPT ![p] = <<>>]
  /\ basis' = [basis EXCEPT ![p] = "none"]
  /\ told' = [m \in Msgs |->
                IF Author[m] = p /\ told[m] = "waiting" THEN "failed" ELSE told[m]]
  /\ UNCHANGED <<hubVars, dataVars, req>>

\* The server process ends and restarts: every handler is gone, and no page
\* has been told.
Crash ==
  /\ ProcessExit
  /\ req' = [m \in Msgs |-> IF req[m] \in {"none", "ended"} THEN req[m] ELSE "lost"]
  /\ conn' = [p \in Pages |-> NoChan]
  /\ basis' = [p \in Pages |-> IF basis[p] = "kept" THEN "cut" ELSE basis[p]]
  /\ UNCHANGED <<dataVars, told, phase, reply, link, wire, screen, beyond>>
-----------------------------------------------------------------------------
(* Specifications *)

\* What the handler of m does on its own.
Handle(m) ==
  \/ Bounce(m) \/ Refuse(m) \/ InsertBegin(m) \/ InsertReturn(m) \/ InsertError(m)
  \/ Broadcast(m) \/ Fan(m) \/ Reply(m) \/ Recover(m)

PageStep(p) ==
  \/ HistoryQuery(p) \/ HistoryArrive(p) \/ HistoryFail(p) \/ HistoryRender(p)
  \/ Connect(p) \/ StreamEvent(p) \/ StreamTimeout(p) \/ StreamEnd(p) \/ Cut(p)

\* Every step but a restart of the server or of a page.
RunStep ==
  \/ \E m \in Msgs : Submit(m) \/ Handle(m) \/ InsertCommit(m) \/ GiveUp(m)
  \/ \E p \in Pages : PageStep(p)
  \/ \E ch \in Chans : StreamWrite(ch) \/ HandlerGone(ch)

ChatNext == RunStep \/ Crash \/ \E p \in Pages : Reload(p)

ChatSpec == ChatInit /\ [][ChatNext]_chatVars

\* A handler runs until it returns.  A browser keeps running the callbacks of
\* a loaded page and sees a response that is over end, net/http cancels the
\* context of a lost connection.  Nothing makes a page submit, connect or reload,
\* or the network or the server fail.
ChatFairness ==
  /\ \A m \in Msgs : WF_chatVars(Handle(m) \/ (req[m] = "lost" /\ GiveUp(m)))
  /\ \A ch \in Chans : WF_chatVars(StreamWrite(ch) \/ HandlerGone(ch))
  /\ \A p \in Pages : WF_chatVars(HistoryRender(p) \/ StreamEvent(p) \/ StreamEnd(p))

ChatFairSpec == ChatSpec /\ ChatFairness

-----------------------------------------------------------------------------
(* Properties *)

\* The chat keeps the promises of ChatRoom: a page shows only stored messages
\* of its room, each once and for as long as it is loaded, and a poster is
\* told "sent" of nothing that is not stored.
Promise == INSTANCE ChatRoom WITH log <- db
KeepsPromise == Promise!Spec

\* A handler that serves a page is subscribed to the page's room, on an open
\* channel no other page is served from, and the page believes it is connected:
\* whoever else leaves, nobody's subscription goes with his.
ConnectedIsSubscribed ==
  \A p \in Pages : conn[p] # NoChan =>
    /\ conn[p] \in open \cap Range(subs[Watching[p]])
    /\ link[p] = "open"
    /\ \A q \in Pages : conn[q] = conn[p] => q = p

\* A page that believes it is connected while the hub feeds it nothing, because
\* its handler timed out or died, learns of it and connects again.
NeverDeaf ==
  \A p \in Pages :
    (link[p] = "open" /\ conn[p] \notin Range(subs[Watching[p]])) ~> link[p] = "connecting"

\* What the page's stream still has for it, on the wire or in the channel.
Queued(ch) == {stream[ch][i] : i \in (taken[ch] + 1)..Len(stream[ch])}
Coming(p) == Range(wire[p]) \cup (IF conn[p] = NoChan THEN {} ELSE Queued(conn[p]))

\* The race of the fetch with the stream loses nothing: a page served without a
\* break since before its history was read misses no message of its room whose
\* sender was told "sent", unless the message was already older than the
\* history's limit or met a full buffer.  Of what is missed over a break or at a
\* full buffer see CaughtUpOnReconnect.
AckedReaches ==
  \A p \in Pages, m \in Msgs :
    told[m] = "sent" /\ Room[m] = Watching[p] /\ basis[p] = "kept" =>
      \/ m \in Range(screen[p]) \cup reply[p] \cup beyond[p] \cup Coming(p)
      \/ <<conn[p], m>> \in dropped

\* "slow readers get dropped messages (their browser refetches via history API
\* on reconnect)" (hub.go:4-6), "they'll catch up via /api/chat/{slug}/history on
\* reconnect" (hub.go:55): a page that had its history, lost its stream and is
\* connected again, with nothing left to handle, shows every confirmed message of
\* its room but those beyond the limit or dropped for its new stream.
CaughtUpOnReconnect ==
  \A p \in Pages, m \in Msgs :
    /\ told[m] = "sent" /\ Room[m] = Watching[p]
    /\ basis[p] = "cut" /\ phase[p] = "loaded" /\ reply[p] = {}
    /\ conn[p] # NoChan /\ Coming(p) = {}
    => m \in Range(screen[p]) \cup beyond[p] \/ <<conn[p], m>> \in dropped

\* Every POST is answered or given up: the submit button comes back.
Answered == \A m \in Msgs : told[m] = "waiting" ~> told[m] # "waiting"

\* The subscription of a lost connection is removed from the hub.
NoLeak ==
  \A ch \in Chans :
    (ch \in open /\ \A p \in Pages : conn[p] # ch) ~> ch \notin open

\* What is put into a page's channel is shown, or the page learns that its stream
\* broke.
ShownOrCut ==
  \A p \in Pages, m \in Msgs :
    m \in Coming(p) ~> (m \in Range(screen[p]) \/ link[p] = "connecting")
=============================================================================
