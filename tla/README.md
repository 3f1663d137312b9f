# A TLA+ model of winton-tv

winton-tv is one Go server: Discord members sign in, claim a channel, stream to
a LiveKit SFU and chat. This directory models the parts of it whose correctness
depends on the order in which things happen: TLA+ modules translated from the
source, TLC configurations that check them on small instances, and TLAPS proofs
that hold for every instance. Paths below are relative to the repository.

    tlc -config Chat.cfg MCChat          # one run: <name>.cfg with its MC module
    tlapm Chat_proofs.tla                # the proofs of a module

## 1. The system

| component | state | operations | talks to |
| --- | --- | --- | --- |
| Chat hub, `internal/chat/hub.go` | a map slug -> list of Go channels under a mutex | Subscribe, Unsubscribe, Publish | driven by the chat handlers |
| Persistent chat, `handlers.go:748-883`, `store.go:445-502`, `channel-viewer.js` | `chat_messages`; a page's list of rendered ids, its history fetch, its event stream | ChatSend, ChatHistory, ChatStream; submit, renderChat, EventSource | PostgreSQL, hub, browser |
| Stream keys, `handlers.go:376-414, 1208-1226`, `livekit.go` | three columns of `users`; LiveKit's ingresses | set up, rotate | PostgreSQL, LiveKit |
| Accounts, onboarding, moderation, `auth/*.go`, `handlers.go:1018-1124, 1248-1285` | `users` (slug, is_admin, banned), `admin_actions`, sessions | OAuth callback, claim a slug, ban, unban, promote, demote, logout | Discord, PostgreSQL |
| Voice bot and /c, `discord/bot.go`, `handlers.go:596-743` | userToCh, channels under a lock | eight gateway handlers, refreshChannels; /c, /c/<ids> | Discord gateway (external) |
| Login sessions and OAuth state, `auth.go:62-185`, `middleware.go:17-38`, `session.go` | `sessions`, the cookie, the nonce and user id in the session | Start, Callback, Logout, LoadUser; scs loads and writes back around every request | PostgreSQL, Discord, scs (external) |
| Player and multi-view, `channel-viewer.js:95-115, 284-398`, `multi-viewer.js` | overlay, badge, attached tracks, mute flag | LiveKit room events, clicks | LiveKit client (external) |
| LiveKit status, `livekit.go:176-250` | LiveKit's rooms | IsLive, ListLive, DeleteRoom | LiveKit (external) |
| Listings: landing page, `/api/live-streams`, `/admin/streams`, `/c`, channel and profile pages, the dashboard's badge | none; they read rooms and rows one after the other | Index, APILiveStreams, AdminStreams, CIndex, CView, Channel, Profile, DashboardLive | LiveKit, PostgreSQL |
| Settings forms, `dashboard.html`, `handlers.go:416-470, 884-921` | the row's columns; the form, its request and the one that waits | DashboardSetDiscovery, -Metadata, -Profile | htmx (external), PostgreSQL |
| Migrations, `store.go:505-567` | `schema_migrations` | migrate, once per start | PostgreSQL |
| Tokens, /multi, admin's lists of users and of the log, the rest of the dashboard's script | none of their own | one read or one signature each | LiveKit, PostgreSQL |
| Start and shutdown, `cmd/server/main.go` | - | router, Recoverer, the 30 s time-out, Shutdown | - |

What makes it hard:

* Every request runs in a goroutine of its own; the only lock in the chat is the
  hub's, and Publish sends outside it. `middleware.Timeout` cancels every handler
  after 30 s, event streams included, so subscriptions end all the time.
* No handler uses a transaction over two statements, and none can span LiveKit.
  LoadUser reads the caller's row once and the handler decides on that copy.
  A cancelled call reports an error and may have taken effect, or may yet.
* A page has two sources for its messages, a fetch and a stream, and nobody
  orders them. The hub, the bot's maps and all streams vanish with the process.
* discordgo starts a goroutine per gateway event.
* The session is read when a request begins and written back as a whole when it is
  answered, by every request: with an idle timeout, scs counts a loaded session as
  modified. Requests of one browser overlap, and the last answer wins.
* A listing is one call for the rooms, one per room and one query per stream; rooms,
  publishers and settings change in between and every call may fail on its own.
* The player's handlers run on events of LiveKit's client whose order the page does
  not control; connect() resolves after events it has caused.

What correctness means, component by component: the hub delivers messages of the
right room, once, in an order that respects calls that did not overlap, and never
waits for a reader; the race of history and stream loses no confirmed message to a
page whose stream lasts (what a full buffer or a break of the stream loses is promised
to be caught up from the history, and is not: finding 4), and a page that is fed no more
learns of it; the key on the dashboard works; a slug is given once and for ever; moderation
leaves an admin and a log that tells who is banned; /c shows who is where; a
browser is signed in as somebody Discord confirmed to it, and as the answers said;
a listing shows what was live and open to its reader, and all of that; a setting
answered 204 is the setting (the dashboard's "Saved" says less: it greets the login
page's 200 as well); a kick ends the stream; the player covers no running picture and a
muted cell is silent.

## 2. The modules

| module | models | proofs |
| --- | --- | --- |
| `Delivery` | abstract: what the hub promises | - |
| `ChatHub` | the hub as its callers drive it; implements `Delivery` | `ChatHub_proofs` |
| `ChatRoom` | abstract: what the chat promises | - |
| `Chat` | handlers, table and pages around `ChatHub`; implements `ChatRoom` | `Chat_proofs` |
| `StreamKeys` | set up and rotate against LiveKit and the row | `StreamKeys_proofs` |
| `Accounts` | sign-in, onboarding, moderation, audit log | `Accounts_proofs` |
| `VoiceBot` | the bot's maps, their writers and readers, the gateway | `VoiceBot_proofs` |
| `Sessions` | the sessions of one browser: cookie, table, nonce, login, logout | `Sessions_proofs` |
| `Live` | LiveKit's rooms, the listings made of them, the settings forms, the kick | `Live_proofs` |
| `Viewers` | the player of the channel page and a multi-view cell in one room | `Viewers_proofs` |
| `MC*` | the values of the constants and the bounds for TLC | - |

Every module names its variables after the code where the code has a name, says
at each variable what it stands for, and lists its history variables apart: no
guard reads them. Definitions marked "Mutant" are plausible bugs of the code;
each replaces the definition below it to show that a property notices. No
specification uses them.

### ChatHub

`subs` is Hub.subs. What the mutex covers is one step: `Subscribe`, `Unsubscribe`
and `PublishCopy`. Each send of Publish is a step of its own: `PublishSend` puts
the message into the channel, `PublishDrop` is the default case of a full buffer,
`PublishPanic` the send on a channel closed since the copy. A channel is
represented by everything put into it since it was made (`stream`) and how much
of that its reader took (`taken`): the buffer is the difference, and a property
can still speak of the past. `Chans` are identities that `make` can hand out
again once nobody refers to them (`Fresh`). Unsubscribe keeps the cut of the
slice as it is in the code. That it cuts in place, shifting an array that others might
see, cannot be expressed here: a list is a value. In the code it is harmless because
Publish ranges over a copy of its own; no property claims it.

### Delivery

A Publish call that owes its message to those subscribed when it is made: it hands it to
each or puts down that he misses it, returns when it owes nobody, or breaks off. There are
no copies, channels, buffers and locks; who leaves is owed nothing. `ChatHub` implements
it (`Delivers`) with the members of a room as the range of its list, `audience` as what is
owed, `dropped` as what is missed, and `Outcome` as the state of the call: a panic or a
lost process breaks it off.

### Chat

One message is one POST. Its handler goes through `req` ("checking",
"inserting", "stored", Publish, "ended", or "lost" with the server), the row through
`stamp` (created_at, the start of the INSERT's transaction) and `db` (committed), and the
page's knowledge is `told`. Commit and return of the INSERT are separate steps, so an
error can be reported for a committed row, and a row can be committed after its
handler gave up. `Bounce` is RequireSession's redirect to /login, whose page the fetch
gets as a success (`r.ok`, `channel-viewer.js:368`).

A page goes through `phase` and `reply` with its history, and `screen` is its list. Of its
stream the server's side and the page's are kept apart: `conn` is the channel of the
handler that serves the page, `link` what the page believes, `wire` what was written and
not handled yet. The 30 s (`StreamTimeout`) and the end of the server (`Crash`) take the
handler away from a page that goes on believing it is connected, until it has handled
what was written and sees the response end (`StreamEnd`); a connection that breaks
(`Cut`) or a page that is gone (`Reload`) leaves a handler that still serves it, until it
notices (`HandlerGone`). `basis` is history: was the page served when its history was
read ("kept"), and has that service been broken since ("cut").

Abstractions: the early returns of ChatSend are one action, `Refuse`; heartbeats and
wording are left out; two rows of equal created_at do not occur; `http.Flusher` is taken
to be there, as it is behind the session middleware. A Publish call is modelled to its
end although its request may time out: Publish takes no context.

### ChatRoom

A log that only grows, posters who are told "sent" of nothing that is not in the
log and may be turned away without being told so, pages that list messages of their room
from the log, each once, until they are reloaded. `Chat` implements it with `log <- db`.

### StreamKeys

One request is one click and creates one ingress at most, of the same name.
`old` is the copy of the row LoadUser made for the request. Each call (DeleteIngress,
ClearStreamCredentials, CreateWHIPIngress, SetStreamCredentials and the clean-up
after it) succeeds or fails; a failed one that was sent joins `late` and may be
carried out at any later time (`Land`); one that begins with a cancelled context
is never sent. The clean-up uses the request's context, as in the code.

### Accounts

One request is one callback, one claim of a slug or one moderation action. `job` is what
it was asked and `step` the statement it is at. The gates (RequireSession, RequireAdmin,
the refusal to ban or demote oneself) are read when the request begins, from the row as it
is then; so is the slug of who claims one, and who has one is redirected to the dashboard
whatever slug he asks for ("already"). Each SQL statement is a step with the guard of its
WHERE clause and its unique index; a failed one may `Land` later. The callback starts
after Discord's answers; `signedIn` says that a session names the user. The session blob
and the nonce are in `Sessions`, AdminStreamKick is in `Live`; columns nobody tests are
left out.

### VoiceBot

Discord (`at`, `made`, `gone`), the gateway connection (`link`, `wire`) and
discordgo are external; what they may do is what bot.go's comments and handlers
expect of them: a resumed session gets what it missed, a new one gets READY with
a stub of the guild and later GUILD_CREATE with a snapshot, an outage ends with
GUILD_CREATE alone. `handler[g]` is the work of goroutine g. Each handler's write
is one step under the lock; onReady goes on to refreshChannels, whose request and
write are two. `CView`, `ViewName`, `ViewUsers` are the walk of /c/<ids>, one
lock at a time; `ActiveVoiceChannels` is what /c lists.

### Sessions

`req[q]` is a request of one browser from its sending to its answer: the token of its
cookie, the session as loaded (`data`), whether it is to be written (`status`), and the
Set-Cookie of the answer. `Load`, `Commit`, `RenewToken` and `Destroy` are scs as
`auth.go` and `middleware.go` drive it (external, read off its documented contract: a
loaded session is modified, a missing row gives a session without a token, RenewToken
deletes the old row, Commit upserts the whole row). `Start`, `Callback`, `Refuse`,
`UpsertUser`, `SignIn`, `Logout`, `LoadUser` and `Page` are the handlers; a callback asks
for the ban in the row UpsertUser gave it, so a ban in between is found by the next
LoadUser. `tabs` are nonces that tabs took to Discord; a callback may also come with a
state this browser was never given (`Foreign`). `Reply` is the answer that arrives, or is
lost; a statement that fails may have been carried out; sessions expire at any time.
Tokens and nonces are numbered in the order they are made, which stands for their being
unguessable and new.

### Live

`rooms` and `publishing` are LiveKit's; `row` the settings of the owners, a column
group per form. `listing[r]` is one request: it asks for the rooms (`ListRooms`), for
the participants of each (`ListParticipants`, in any order, which covers the
code's), takes the streams in its scope (`Streams`) and reads each owner's row
(`GetUser`). Channel and profile pages and the dashboard's badge start with the
owner and ask about one room (`GetOwner`, `IsLive`). Each call can fail where the
code goes on without it. `watch[r]` is history: what was live, listable, steadily so,
or hidden while the request ran (`Observe`).

`draft` is what a form shows. The discovery form is posted by every `Change`; those of
metadata and profile are edited (`Edit`) and posted by a button (`Submit`). A form has one
request under way and remembers that one more waits; htmx posts the values as they are
when its turn comes. RequireSlug may turn a request away before its handler runs
(`Bounced`): the page then gets /login with 200, kept apart from the handler's 204 in
`answer`. `late` are UPDATEs given up that may still land, `doubt` the forms
to which that happened. `kick` is the request behind the kick button: DeleteRoom,
then the log entry whose error is dropped.

### Viewers

`stream` is the streamer at LiveKit, `seen[c]` the room as the SDK of client c knows
it: events reach each client in its own time, each with the handler it runs.
`page` are the elements of the channel page, `cell` those of a cell of /multi.
`Connect` runs subscriptions whose media is there before connect()'s promise
continues. `seen[c].tracks` are sets: a new track of a kind may come before the end of the
last is told. An element taken out of the document pauses (`there`, `stopped`), which
matters where it plays a later track by then. multi-viewer.js does not listen to
Disconnected: a cell whose own connection ended keeps its "is-live". What the SDK emits,
and that it unsubscribes tracks before a participant or the connection is gone, is
external. `Playing` is the video element's
event, `Unmute`, `DismissOverlay` and `ToggleMute` are clicks.

## 3. What is checked

| run | instance | properties | result |
| --- | --- | --- | --- |
| ChatHub | 2 rooms, 2 channels, 3 messages, buffers of 1 | HubTypeOK, Registered, Delivers, StreamOrder, ReturnedServed, PublishEnds | hold |
| ChatHubFanOut | 3 channels | FanOut | **violated**, finding 1 |
| Chat | 2 posters, 1 page, 2 channels, history limit 1 | ChatTypeOK, ConnectedIsSubscribed, AckedReaches, KeepsPromise, NeverDeaf, Answered, NoLeak, ShownOrCut | hold |
| ChatCaughtUp | 1 page, 1 message, 1 channel | CaughtUpOnReconnect | **violated**, finding 4 |
| StreamKeys | 3 clicks of one user | KeysTypeOK, KeyWorks, OnlyRotationKills, NoOrphan | hold |
| StreamKeysOne | the same | OneIngress | **violated**, finding 2 |
| Accounts | 2 users, 3 requests, 2 slugs | AccountsTypeOK, ClaimHolds, AuditTellsBans, SlugsOnlyClaimed, AdminRemains | hold |
| VoiceBot | 2 users, 2 channels, 2 handlers at a time | VoiceTypeOK, ListsOrdered, ViewHolds | hold |
| VoiceBotAll | 1 user | ListsAll | **violated**, finding 3 |
| Live | 2 streams, 1 dashboard, 1 listing, 1 kick | LiveTypeOK, ListedWasLive, LiveIsListed, HiddenStays, SavesHold | hold |
| Sessions | 2 users, 2 requests at a time, 3 tokens, 2 nonces | SessionsTypeOK, ConfirmedOnly, AsLastAnswered, TokenNamesOne, EndedForGood | hold |
| Viewers | a page and a cell, 5 sessions and tracks | ViewersTypeOK, OfflineShown, VideoUncovered, ButtonTellsSound | hold |

The bounds, and why they are enough:

* Buffers of one: full and empty are one message apart, so every run meets a full
  buffer. A history limit of one cuts off a row as soon as there are two.
* ChatHub has two channels and three Publish calls: one subscriber leaves and
  another comes, on the same channel identity, while two calls range over old
  copies; m3 belongs to the other room. FanOut needs a third channel behind the
  one that panics.
* In Chat one page reads, and posts one of the two messages; readers do not
  influence each other except through the list in the hub, whose interplay with two
  channels the page's own old and new stream already show. The other message is posted
  once the first was confirmed or its handler was lost with the server (`InTurn`), its
  row perhaps still to come; posts that overlap are in ChatHub's run. The constraint
  holds back a Submit only, which no fairness asks for, so it cuts no behaviour that
  liveness is about. The proofs need no such bound.
* Three clicks: two that overlap and one that comes after. A user's clicks never
  touch another user's row or ingresses.
* In Accounts the constraint `Bound` keeps admins signed in, allows one late
  statement at a time, and checks claims of slugs together with logins but not
  with moderation: they share no column.
* In VoiceBot the state space is finite without a bound on the length of the
  history: at most two handlers run and one event waits. `Bound` fixes one of the
  two channels and has /c/<ids> requested when the guild is available and one
  handler runs; requests are read-only.

* Live (1.2 million states) has one stream with a dashboard and one beside it, so a
  listing has a stream to lose or to mistake for the other. `Bound` keeps apart
  what shares no variable: one form is busy at a time, at most one UPDATE is given
  up, settings change only under the listing that reads them (the cards) and then
  none waits, a kick races only the admin's list, the stream without a dashboard
  stays "members". The proofs need none of this.
* Sessions (2.7 million states up to symmetry): two requests overlap, every new
  login needs a token, so three of them let a session be replaced twice, and two
  nonces let a second login overwrite the first. `Bound`: a pair that overlaps
  starts from a calm session and is not two reads; statements fail only in requests
  that run alone; one user is banned at a time. The proofs cover more requests and
  failures under overlap.
* Viewers (2.9 million states): five ids are two visits of the streamer, one of them with
  picture and sound, or one in which tracks are replaced while their ends are late. Page
  and cell share only the streamer.

Deadlock is checked but for StreamKeys, Accounts, Live, Sessions and Viewers. The
requests of the first two are a finite set: when all are over the model stops. In the
others a constraint or the counters of tokens, nonces and ids cut the graph, and
a state at the cut is no deadlock of the program.

Fairness. `HubFairSpec` is weak fairness of a running Publish loop and nothing else:
readers may stop for ever. `ChatFairness` is weak fairness of handlers (goroutines that
run until they return, or, lost with the server, leave a POST that the browser gives up),
of a stream's handler, which writes what it takes and notices a lost connection (net/http
cancels the request's context), and of a page's callbacks: rendering, events, and the end
of a response. Nobody is made to post, connect or reload, and nothing has to fail. The
other modules state no fairness: they have no property that needs it.

What each property is about is said above its definition. The ones worth reading first:
`AckedReaches` (the race of history and stream loses no confirmed message) and `NeverDeaf`
(a page that is fed no more learns of it), `Delivers` and `KeepsPromise` (the
refinements), `KeyWorks` (overlapping clicks, failures and late calls), `AuditTellsBans`,
`AdminRemains`, `ListsOrdered`, `AsLastAnswered`, `TokenNamesOne` (a stale write-back
gives nobody's session to another), `LiveIsListed` and `HiddenStays` (a list made of many
answers), `SavesHold` and `ButtonTellsSound`.

## 4. Findings

1. **Publish panics on a subscriber that leaves** (`hub.go:60`). The copy is made
   under the lock and sent to outside it; a channel closed in between panics, the
   rest of the copy is skipped and the poster is answered 500 for a stored
   message. "Publish fans out a message to all current subscribers"
   (`hub.go:53`). Streams end every 30 s, so this is no rare event in a busy room.
   What still holds: such a message is never confirmed (`AckedReaches`), and as long as
   nobody unsubscribes under a running Publish the comment is true (`HubFansOut`).
2. **Two ingresses for one user** after two overlapping clicks on "set up", no call
   failing (`handlers.go:380`; "One ingress per user",
   `002_stream_credentials.sql:1`). `NoOrphan` is the promise that is kept: clicks
   one after the other.
3. **The voice list can stay empty after a reconnect** (`bot.go:98`): the handler of READY
   may run after that of GUILD_CREATE and wipe its snapshot ("READY event
   re-populates the full snapshot", `bot.go:6-7`). `ListsOrdered` is what holds: users
   whose last two events did not overlap are listed right.
4. **Nothing is caught up on reconnect** (`channel-viewer.js:273`). "slow readers get dropped
   messages (their browser refetches via history API on reconnect)" (`hub.go:4-6`),
   "they'll catch up via /api/chat/{slug}/history on reconnect" (`hub.go:55`); but the
   page fetches the history once, when it loads (`channel-viewer.js:254`), and `onerror`
   only logs. What is posted between two streams of a page, every 30 s, stays missing
   until it is reloaded, and so does what met a full buffer. `AckedReaches` is what
   holds: as long as one handler serves the page, and its buffer has room.

Seen while modelling, without a run of its own, because the code promises nothing else
or the models show it at once:

* Who is signed out, banned, or not found for an error of the query is redirected to
  /login, and scripts follow: the chat leaves its field empty as after a success
  (`channel-viewer.js:368`) and the dashboard toasts "Saved" (`dashboard.js:110-111`),
  although nothing was stored. `told` "bounced" and `answer` "login" keep track of it.
* The chat list is in the order of arrival, not of time, when a stream event is
  handled before the history resolves (`channel-viewer.js:229, 257`).
* The error of the audit log is dropped (`handlers.go:1045` and its siblings,
  `1176`): an action that was carried out may be missing from it.
* `auth.go:147-149` promises that an admin on the list "can demote themselves and
  re-login", but AdminUserDemote refuses oneself (`handlers.go:1107`), and this
  refusal is what `AdminRemains` rests on.
* Any request that overlaps a login writes its older copy of the session back: a nonce
  can vanish or return, and a login can need a second try. What overlap
  cannot do is in `ConfirmedOnly` and `TokenNamesOne`; what it can is why
  `AsLastAnswered` asks for calm.
* Membership of the guild is asked for at login only; a session lives on for up to 30
  days after its user left the guild (`session.go`).
* /c lists the live streams of those in a voice channel whatever their discovery
  setting; only the cards go by it.
* When a track ends, the elements it was attached to are removed from the document,
  the page's only video element among them (`channel-viewer.js:327`,
  `multi-viewer.js:79`): who publishes again is heard and not seen until a reload.
  `there` keeps track of it.
* The end of an earlier audio track that is told after the next one was attached takes the
  cell's sink out of the document and pauses it (`multi-viewer.js:79`): the button says
  that sound is on, and there is none until the next track or two clicks. This is the
  exemption in `ButtonTellsSound` (`stopped` "other").
* A multi-view cell whose own connection ended stays marked live (`multi-viewer.js:83-85`
  listens to participants only); `OfflineShown` speaks of cells that are connected.

## 5. What is proved

For every value of the constants, from the assumptions named in the modules
(`HubAssumption`: buffers have room for one message at least; `ChatAssumption`:
authors watch the room they post to, the messages are finitely many, the limit is
positive; `KeysAssumption`: a click has an owner;
`AccountsAssumption`: the admin list are users, NULLs are not values;
`VoiceAssumption`, `SessionsAssumption`, `LiveAssumption` and `ViewersAssumption`: the
markers for "none" are not values, bounds are naturals, dashboards belong to streams).

* **ChatHub_proofs**: `HubTypes`, `HubRegisters`, `HubIsolatesRooms`,
  `HubKeepsOrder`, `HubServes`. None of the properties is inductive: a publisher's
  copy is old, so `HubInv` adds `ListInv` (a channel of a copy that is still open is
  still subscribed to the message's room and has not got the message yet: channels
  in a copy are not made again), `Served` (what a loop has done so far), `BegunInv` and
  two facts about closed channels and cursors. `HubImplementsDelivery` is the refinement of
  Delivery, one lemma per action; it needs `Undecided` besides: whoever is owed a
  message and is still in the copy has neither got nor missed it. `RoomIsolation` is a
  consequence, so the run checks `Delivers` in its place. `HubFansOut` is the exact
  condition of finding 1: `FanOut` holds of every behaviour in which nobody
  unsubscribes while his channel is still before a Publish. `HubTakesNoDetour` bounds
  a Publish by the length of its copy.
* **Chat_proofs**: `ChatUsesHub` shows that every behaviour of the chat is one of HubSpec,
  so the hub's results carry over; then `ChatTypes`, `ChatConnects`, `ChatReaches` and
  `ChatImplementsRoom` (the refinement of ChatRoom). `ChatInv` adds `StoreInv` (how far
  the message is when handler and Publish are where they are), `PageInv`, `BasisInv` and
  `ReachInv`: a message whose Publish is under way is on its way to each page whose stream
  preceded its history, or the page's channel is still in the copy. That is the heart of
  it: a row committed before the query is in the reply, one committed after it is
  published after it, to a channel already subscribed. "Preceded" means served by one
  handler ever since (`basis` "kept"), which is what `BasisInv` relates to `conn`. What
  follows for the users: `ChatKeepsHub` (the hub's results under the chat, crashes
  included), `ChatLasts` (no step takes anything back), `ChatShowsAll` (a page served
  without a break that is caught up shows stored messages of its room, each once, and all
  the confirmed ones that limit and buffers allow), `ChatSkipsNothing` (what is on its way
  stays so until shown), `ChatServesWaiting` (a waiting POST has a handler at work, or
  lost it with the server) and `ChatHandlersAdvance` (no handler goes back, waits for
  another or takes more steps than readers and stages).
* **StreamKeys_proofs**: `KeysTypes`, `KeysWork`, `KeysDieByRotation`,
  `KeysLeaveNoOrphan`. `KeysInv` follows an ingress from the click that makes it to the
  snapshots that name it (`Named`, `Made`, `LateInv`), says of a row that names a dead
  ingress that somebody is about to clear it (`RowInv`), and what one click at a
  time leaves for the next (`CalmInv`).
* **Accounts_proofs**: `AccountsTypes`, `ClaimsHold`, `AuditTells`, `SlugsAreClaimed`,
  `AnAdminRemains`, `AuditIsHonest`. What a statement does to the tables is proved once, for the
  handler and for one that is carried out late (`Effect...`). `AccountsInv` says which
  statements the handler of a job can be at or have given up (`JobInv`), that as long
  as moderation has not overlapped the only moderator under way is an admin and
  does not mean himself (`RulingInv`), and that the log is right or one entry behind,
  the entry of the one request that has changed the row (`AuditInv`). `AuditIsHonest` is
  the other half of what a log is for: no entry stands there twice or before its change;
  it needs `GivenUp`, where a request can be whose statement may still land.

* **VoiceBot_proofs**: `VoiceTypes`, `VoiceListsOrdered`, `VoiceViewHolds`. `VoiceInv`
  says that the last event about a user, waiting on the wire or in a handler, is
  where the user is, as long as no two handlers concern the user at once
  (`NewsInv`); that a channel is in the map or on its way there (`ChannelsInv`); and
  how much of its path a request for /c/<ids> has counted (`ViewInv`).
* **Sessions_proofs**: `SessionsTypes`, `SessionsConfirmedOnly`, `SessionsAsAnswered`,
  `SessionsTokenNamesOne`, `SessionsEndedForGood`. `SessionsInv` follows a request
  through its stages (`ShapeInv`); one that nothing overlaps knows the browser's
  cookie (`SoloInv`); a row and all requests that hold its token name one user
  (`NamedInv`), which is why a late write-back is harmless across users; an ended
  token is held by nobody (`EndedInv`); and the session a lone request carries is
  the one its handlers mean (`CalmInv`).
* **Live_proofs**: `LiveTypes`, `LiveListedWasLive`, `LiveLiveIsListed`, `LiveHiddenStays`,
  `LiveSavesHold`, `LiveKickHolds`, `LiveListingsAdvance` (a listing only ever has less to ask
  about, however many rooms open meanwhile). For a listing, `Seen` says that the history is true
  of the present and `Progress` that whatever was steady is still to be asked
  about, found, or put out; only the second is disturbed by the listing's own
  calls, only the first by rooms and forms. `FormInv` relates form, draft, request
  and row: only an UPDATE carried out leads to a 204, and what is in doubt is left out.
  `KickInv` says that log and answer come after the room is gone; `LiveKickHolds` follows
  from it. No run checks that property: one step of the code all but states it.
* **Viewers_proofs**: `ViewersTypes`, `OfflineIsShown`, `RunningVideoUncovered`,
  `MuteButtonTrue`, for any number of visits and tracks. `ViewersInv` says of the page
  (`PageSees`) that a shown track is one it is subscribed to and turned the badge on, and a
  playing one is uncovered; of the cell (`CellSees`) that it holds the streamer's present
  audio as soon as it is subscribed, even while muted, which is why unmuting needs no new
  event, and that nothing but the late end of another track stops what its sink plays.

Every safety property and action property that a passing run checks is a theorem, and
so are both refinements. Only model-checked is liveness (`PublishEnds`, `NeverDeaf`,
`Answered`, `NoLeak`, `ShownOrCut`), because TLAPS does not reason about fairness. Of three of
them the
half without fairness is proved: `HubTakesNoDetour`, `ChatHandlersAdvance` with
`ChatServesWaiting`, `ChatSkipsNothing`; what is left to fairness is that a step that can be taken
is. `NoLeak` and `NeverDeaf` have no such half: the handler, and the page that has handled what
was written, have one step to take.

## 6. Not modelled

* **Migrations** (`store.go:505-567`): a table of versions and one transaction per file.
  What two servers that start at once would do rests on PostgreSQL's locks on DDL,
  which nothing in this code shows; one process is deployed.
* **Graceful shutdown** (`main.go:183`): Shutdown waits 10 s for handlers that may run
  30 s, and for event streams that do not end by themselves, then the process exits.
  To clients and tables that is the crash that Chat and StreamKeys have at every
  step.
* **Configuration, router, middlewares, deployment files**: read once, no state.
* **Read-only parts**: `ViewerToken` and Multi sign strings; the lists of users and of
  the audit log are one query; the avatar and name of a stream follow its row.
* **In Live**: the titles and texts of cards, rate and size of the metadata beyond
  "too long", a page reloaded while its form's request is under way, and a second
  dashboard of the same owner (two tabs are two pages over one row: the later
  UPDATE wins, and neither is told).
* **In Sessions**: a session statement that is carried out after its request was
  answered (scs runs within the request's context), and the browser's other
  cookies. A second browser shares nothing but `banned`.
* **In Viewers**: the number of viewers beside the badge, autoplay refused by the browser
  (the hint and the button are there), reconnections inside the SDK.
* **In Accounts**: Discord's answers, and columns that nobody tests.

What would come next: Migrations with PostgreSQL's locks as an assumption; the
composition of `Sessions` and `Accounts` (`signedIn` of Accounts is the `Row(cookie).user`
of Sessions); liveness of the player (a streamer who stays is seen), which needs the
video element of `channel-viewer.js:327` to survive.
