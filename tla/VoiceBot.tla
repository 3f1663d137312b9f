------------------------------ MODULE VoiceBot ------------------------------
(***************************************************************************)
(* The Discord bot's picture of who is in which voice channel: the maps    *)
(* userToCh and channels, the gateway handlers that write them and the     *)
(* pages /c and /c/<ids> that read them.                                   *)
(*                                                                         *)
(* discordgo starts a goroutine for every event and waits for none, so     *)
(* handlers run in any order; each writes the maps under the bot's lock.   *)
(* onReady goes on without it, asks Discord for the channels over HTTP and *)
(* writes what it was told then.                                           *)
(*                                                                         *)
(* Discord and the gateway connection are external.  A session that is     *)
(* resumed gets the events it missed; a new one gets READY with a bare     *)
(* guild and then GUILD_CREATE with a snapshot.                            *)
(***************************************************************************)
EXTENDS Naturals, Sequences, FiniteSets, Functions

CONSTANTS
  Users,      \* members of the guild
  Channels,   \* ids of voice channels, never given twice
  NoChannel,  \* the empty channel id
  Goroutines, \* bound: how many handlers run at a time
  MaxWire,    \* bound: how many events wait on the gateway connection
  Paths       \* the channel ids of requests for /c/<ids>

ASSUME VoiceAssumption ==
  /\ IsFiniteSet(Users)
  /\ NoChannel \notin Channels
  /\ MaxWire \in Nat
  /\ Paths \subseteq Seq(Channels)

VARIABLES
  \* Discord
  at,       \* at[u]: the voice channel of u
  made,     \* channels that have been created
  gone,     \* channels that have been deleted
  \* the gateway connection
  link,     \* "off", "cut" (can be resumed), "syncing" (no GUILD_CREATE yet), "up"
  wire,     \* events sent and not dispatched, oldest first
  \* the bot
  handler,  \* handler[g]: what goroutine g has still to do
  userToCh, \* NoChannel for a user who is not in the map
  channels, \* ids in the map of channels
  \* one request for /c/<ids>
  path,     \* the ids asked for
  left,     \* the ids still to be looked at
  viewing,  \* "no", "name", "users" or "done"
  members,  \* members[u]: how often u is in memberIDs
  total,    \* totalInVoice
  \* history variables, read by the properties and by no action
  mixed,    \* users whose last two events were handled at the same time
  moved,    \* users whose entry has changed since the request began
  changed   \* channels whose entry has

discordVars == <<at, made, gone>>
mapVars == <<userToCh, channels>>
viewVars == <<path, left, viewing, members, total>>
voiceVars == <<discordVars, link, wire, handler, mapVars, viewVars, mixed, moved, changed>>

Alive == made \ gone
Idle == [kind |-> "idle"]
Ready == [kind |-> "ready"]
Refresh == [kind |-> "refresh"]
VoiceMap == [Users -> Channels \cup {NoChannel}]

Events ==
  {Ready}
    \cup [kind : {"guild"}, at : VoiceMap, channels : SUBSET Channels]
    \cup [kind : {"voice"}, user : Users, channel : Channels \cup {NoChannel}]
    \cup [kind : {"channel", "delete"}, channel : Channels]
Work == Events \cup {Idle, Refresh} \cup [kind : {"apply"}, channels : SUBSET Channels]

VoiceTypeOK ==
  /\ at \in VoiceMap
  /\ gone \in SUBSET made /\ made \in SUBSET Channels
  /\ link \in {"off", "cut", "syncing", "up"}
  /\ wire \in Seq(Events)
  /\ handler \in [Goroutines -> Work]
  /\ userToCh \in VoiceMap
  /\ channels \in SUBSET Channels
  /\ path \in Paths \cup {<<>>} /\ left \in Seq(Channels)
  /\ viewing \in {"no", "name", "users", "done"}
  /\ members \in [Users -> Nat] /\ total \in Nat
  /\ mixed \in SUBSET Users /\ moved \in SUBSET Users /\ changed \in SUBSET Channels

Nobody == [u \in Users |-> 0]
Nowhere == [u \in Users |-> NoChannel]

VoiceInit ==
  /\ made \in SUBSET Channels
  /\ gone = {}
  /\ at = Nowhere
  /\ link = "off"
  /\ wire = <<>>
  /\ handler = [g \in Goroutines |-> Idle]
  /\ userToCh = Nowhere
  /\ channels = {}
  /\ path = <<>> /\ left = <<>> /\ viewing = "no" /\ members = Nobody /\ total = 0
  /\ mixed = {} /\ moved = {} /\ changed = {}
-----------------------------------------------------------------------------
(* Discord, and what it sends *)

\* An event of the guild goes to a session that is up, or waits for a resume.
Emit(e) ==
  IF link \in {"up", "cut"}
  THEN Len(wire) < MaxWire /\ wire' = Append(wire, e)
  ELSE wire' = wire

\* u joins, changes or leaves a voice channel.
Move(u, c) ==
  /\ c # at[u]
  /\ c \in Alive \cup {NoChannel}
  /\ at' = [at EXCEPT ![u] = c]
  /\ Emit([kind |-> "voice", user |-> u, channel |-> c])
  /\ UNCHANGED <<made, gone, link, handler, mapVars, viewVars, mixed, moved, changed>>

CreateChannel(c) ==
  /\ c \notin made
  /\ made' = made \cup {c}
  /\ Emit([kind |-> "channel", channel |-> c])
  /\ UNCHANGED <<at, gone, link, handler, mapVars, viewVars, mixed, moved, changed>>

UpdateChannel(c) ==
  /\ c \in Alive
  /\ Emit([kind |-> "channel", channel |-> c])
  /\ UNCHANGED <<discordVars, link, handler, mapVars, viewVars, mixed, moved, changed>>

\* Discord sends everybody out of a channel before it deletes it.
DeleteChannel(c) ==
  /\ c \in Alive
  /\ \A u \in Users : at[u] # c
  /\ gone' = gone \cup {c}
  /\ Emit([kind |-> "delete", channel |-> c])
  /\ UNCHANGED <<at, made, link, handler, mapVars, viewVars, mixed, moved, changed>>

\* A new session: what the old one had not delivered is not sent again.
Identify ==
  /\ link \in {"off", "cut"}
  /\ link' = "syncing"
  /\ wire' = <<Ready>>
  /\ UNCHANGED <<discordVars, handler, mapVars, viewVars, mixed, moved, changed>>

\* The guild becomes available, at the start of a session or after an outage.
GuildAvailable ==
  /\ link = "syncing"
  /\ Len(wire) < MaxWire
  /\ link' = "up"
  /\ wire' = Append(wire, [kind |-> "guild", at |-> at, channels |-> Alive])
  /\ UNCHANGED <<discordVars, handler, mapVars, viewVars, mixed, moved, changed>>

GuildOutage ==
  /\ link = "up"
  /\ link' = "syncing"
  /\ UNCHANGED <<discordVars, wire, handler, mapVars, viewVars, mixed, moved, changed>>

Disconnect ==
  /\ link \in {"syncing", "up"}
  /\ link' = IF link = "up" THEN "cut" ELSE "off"
  /\ UNCHANGED <<discordVars, wire, handler, mapVars, viewVars, mixed, moved, changed>>

Resume ==
  /\ link = "cut"
  /\ link' = "up"
  /\ UNCHANGED <<discordVars, wire, handler, mapVars, viewVars, mixed, moved, changed>>
-----------------------------------------------------------------------------
(* The handlers *)

\* The users whose entry a handler sets or clears.
Concerns(h) ==
  IF h.kind \in {"ready", "guild"} THEN Users
  ELSE IF h.kind = "voice" THEN {h.user} ELSE {}

\* discordgo takes an event off the connection and starts its handler.
Dispatch(g) ==
  /\ link \in {"syncing", "up"}
  /\ wire # <<>>
  /\ handler[g] = Idle
  /\ handler' = [handler EXCEPT ![g] = Head(wire)]
  /\ wire' = Tail(wire)
  /\ LET fresh == Concerns(Head(wire))
         busy == UNION {Concerns(handler[h]) : h \in Goroutines}
     IN mixed' = (mixed \ fresh) \cup (fresh \cap busy)
  /\ UNCHANGED <<discordVars, link, mapVars, viewVars, moved, changed>>

\* A request that is running remembers, for the properties, what has changed.
Noted ==
  /\ IF viewing = "no" THEN UNCHANGED <<moved, changed>> ELSE
       /\ moved' = moved \cup {u \in Users : userToCh'[u] # userToCh[u]}
       /\ changed' = changed \cup {c \in Channels : (c \in channels') # (c \in channels)}
  /\ UNCHANGED <<discordVars, link, wire, viewVars, mixed>>

\* Mutant: the map is declared and never made.
SnapshotNil == userToCh' = [u \in {} |-> NoChannel]

\* READY's guild is a stub without voice states: the new map is empty.
StubSnapshot == userToCh' = Nowhere

OnReady(g) ==
  /\ handler[g] = Ready
  /\ StubSnapshot
  /\ handler' = [handler EXCEPT ![g] = Refresh]
  /\ UNCHANGED channels
  /\ Noted

\* refreshChannels: the request, answered, and then the write.
RefreshFetch(g) ==
  /\ handler[g] = Refresh
  /\ handler' = [handler EXCEPT ![g] = [kind |-> "apply", channels |-> Alive]]
  /\ UNCHANGED mapVars
  /\ Noted

RefreshFail(g) ==
  /\ handler[g] = Refresh
  /\ handler' = [handler EXCEPT ![g] = Idle]
  /\ UNCHANGED mapVars
  /\ Noted

RefreshApply(g) ==
  /\ handler[g].kind = "apply"
  /\ channels' = channels \cup handler[g].channels
  /\ handler' = [handler EXCEPT ![g] = Idle]
  /\ UNCHANGED userToCh
  /\ Noted

\* Mutant: the snapshot is added to the map that is there.
SnapshotMerge(f) == userToCh' = [u \in Users |-> IF f[u] = NoChannel THEN userToCh[u] ELSE f[u]]

Snapshot(f) == userToCh' = f

\* Channels that are gone are not removed.
OnGuildCreate(g) ==
  /\ handler[g].kind = "guild"
  /\ Snapshot(handler[g].at)
  /\ channels' = channels \cup handler[g].channels
  /\ handler' = [handler EXCEPT ![g] = Idle]
  /\ Noted

OnVoiceStateUpdate(g) ==
  /\ handler[g].kind = "voice"
  /\ userToCh' = [userToCh EXCEPT ![handler[g].user] = handler[g].channel]
  /\ handler' = [handler EXCEPT ![g] = Idle]
  /\ UNCHANGED channels
  /\ Noted

\* onChannelCreate and onChannelUpdate do the same.
OnChannelUpdate(g) ==
  /\ handler[g].kind = "channel"
  /\ channels' = channels \cup {handler[g].channel}
  /\ handler' = [handler EXCEPT ![g] = Idle]
  /\ UNCHANGED userToCh
  /\ Noted

OnChannelDelete(g) ==
  /\ handler[g].kind = "delete"
  /\ channels' = channels \ {handler[g].channel}
  /\ handler' = [handler EXCEPT ![g] = Idle]
  /\ UNCHANGED userToCh
  /\ Noted

Handle(g) ==
  \/ OnReady(g) \/ RefreshFetch(g) \/ RefreshFail(g) \/ RefreshApply(g)
  \/ OnGuildCreate(g) \/ OnVoiceStateUpdate(g) \/ OnChannelUpdate(g) \/ OnChannelDelete(g)

\* The server process restarts: empty maps, no session, no request.
Restart ==
  /\ handler' = [g \in Goroutines |-> Idle]
  /\ userToCh' = Nowhere
  /\ channels' = {}
  /\ link' = "off"
  /\ wire' = <<>>
  /\ path' = <<>> /\ left' = <<>> /\ viewing' = "no" /\ members' = Nobody /\ total' = 0
  /\ mixed' = {} /\ moved' = {} /\ changed' = {}
  /\ UNCHANGED discordVars
-----------------------------------------------------------------------------
(* The readers; each call holds the lock by itself *)

UsersInChannel(c) == {u \in Users : userToCh[u] = c}

\* The page /c lists these channels, each with all of its members.
ActiveVoiceChannels == {c \in channels : UsersInChannel(c) # {}}

CView(p) ==
  /\ viewing = "no"
  /\ path' = p /\ left' = p
  /\ viewing' = IF p = <<>> THEN "done" ELSE "name"
  /\ UNCHANGED <<discordVars, link, wire, handler, mapVars, members, total, mixed, moved, changed>>

\* The loop goes on to the next id, if there is one.
NextID ==
  /\ left' = Tail(left)
  /\ viewing' = IF Len(left) = 1 THEN "done" ELSE "name"

\* ChannelName: an unknown id is skipped.
ViewName ==
  /\ viewing = "name"
  /\ IF Head(left) \in channels
     THEN viewing' = "users" /\ UNCHANGED left
     ELSE NextID
  /\ UNCHANGED <<discordVars, link, wire, handler, mapVars, path, members, total, mixed, moved, changed>>

\* Mutant: no seenUser.
CountAll(u) == members[u] + 1

\* seenUser: a user is put into memberIDs once.
CountOnce(u) == IF members[u] = 0 THEN 1 ELSE members[u]

ViewUsers ==
  /\ viewing = "users"
  /\ LET here == UsersInChannel(Head(left))
     IN /\ total' = total + Cardinality(here)
        /\ members' = [u \in Users |-> IF u \in here THEN CountOnce(u) ELSE members[u]]
  /\ NextID
  /\ UNCHANGED <<discordVars, link, wire, handler, mapVars, path, mixed, moved, changed>>

\* What follows filters memberIDs by slug and live stream, and renders.
ViewEnd ==
  /\ viewing = "done"
  /\ path' = <<>> /\ left' = <<>> /\ viewing' = "no" /\ members' = Nobody /\ total' = 0
  /\ moved' = {} /\ changed' = {}
  /\ UNCHANGED <<discordVars, link, wire, handler, mapVars, mixed>>

VoiceNext ==
  \/ \E u \in Users, c \in Channels \cup {NoChannel} : Move(u, c)
  \/ \E c \in Channels : CreateChannel(c) \/ UpdateChannel(c) \/ DeleteChannel(c)
  \/ Identify \/ GuildAvailable \/ GuildOutage \/ Disconnect \/ Resume
  \/ \E g \in Goroutines : Dispatch(g) \/ Handle(g)
  \/ Restart
  \/ \E p \in Paths : CView(p)
  \/ ViewName \/ ViewUsers \/ ViewEnd

VoiceSpec == VoiceInit /\ [][VoiceNext]_voiceVars
-----------------------------------------------------------------------------
(* Properties *)

\* The bot has been told everything and has worked it off.
Quiet ==
  /\ link = "up"
  /\ wire = <<>>
  /\ \A g \in Goroutines : handler[g] = Idle

\* The page /c, asked when all is quiet, lists u where u is, and nowhere else.
ListedRight(u) ==
  \A c \in Channels :
    (c \in ActiveVoiceChannels /\ u \in UsersInChannel(c)) <=> at[u] = c

\* After outages, missed events and new sessions the page is right again, for
\* every user whose last two events were not handled at the same time.
ListsOrdered == Quiet => \A u \in Users \ mixed : ListedRight(u)

\* "on (re)connect the READY event re-populates the full snapshot, then
\* VoiceStateUpdate events keep it fresh" (bot.go:6-7): the page is right.
ListsAll == Quiet => \A u \in Users : ListedRight(u)

\* The view of several channels has nobody twice, and everybody who was in one
\* of them, in the bot's eyes, for as long as the request was running.
ViewHolds ==
  viewing = "done" =>
    /\ \A u \in Users : members[u] <= 1
    /\ \A u \in Users \ moved : userToCh[u] \notin changed =>
         (members[u] = 1 <=> userToCh[u] \in Range(path) \cap channels)
    /\ total >= Cardinality({u \in Users : members[u] = 1})
=============================================================================
