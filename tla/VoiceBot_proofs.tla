--------------------------- MODULE VoiceBot_proofs ---------------------------
(***************************************************************************)
(* The voice bot for any number of users, channels and handlers.           *)
(*                                                                         *)
(* VoiceInv, the inductive invariant, follows what the bot will know of a  *)
(* user: the last event about the user, waiting or in a handler, says      *)
(* where the user is (NewsInv), and every channel is known or on its way   *)
(* (ChannelsInv).  ViewInv says how far a request for /c/<ids> has come.   *)
(***************************************************************************)
EXTENDS VoiceBot, SequenceTheorems, FiniteSetTheorems, TLAPS

\* The bot hears of everything that happens, now or after a resume.
Hearing == link \in {"up", "cut"}

Waiting == 1 .. Len(wire)

\* Some event about u waits.
Expected(u) == \E i \in Waiting : u \in Concerns(wire[i])

\* Where a handler puts u.
Says(h, u) ==
  IF h.kind = "guild" THEN h.at[u] ELSE IF h.kind = "voice" THEN h.channel ELSE NoChannel

\* The last event about u says where u is, be it waiting, in a handler or in
\* the map; of users that are not mixed one handler is at work at most.
NewsInv ==
  /\ \A u \in Users \ mixed : \A g, h \in Goroutines :
       u \in Concerns(handler[g]) /\ u \in Concerns(handler[h]) => g = h
  /\ Hearing => \A u \in Users, i \in Waiting :
       /\ u \in Concerns(wire[i])
       /\ \A j \in Waiting : j > i => u \notin Concerns(wire[j])
       => Says(wire[i], u) = at[u]
  /\ Hearing => \A u \in Users \ mixed : ~Expected(u) =>
       /\ \A g \in Goroutines : u \in Concerns(handler[g]) => Says(handler[g], u) = at[u]
       /\ (\A g \in Goroutines : u \notin Concerns(handler[g])) => userToCh[u] = at[u]

\* What puts channel c into the map.
Brings(h, c) ==
  \/ h.kind \in {"guild", "apply"} /\ c \in h.channels
  \/ h.kind = "channel" /\ h.channel = c

\* Channels that exist are in the map or on the way there, no user is in one that
\* is gone, and only those are removed.
ChannelsInv ==
  /\ \A u \in Users : at[u] \in Alive \cup {NoChannel}
  /\ Hearing => \A c \in Alive :
       \/ c \in channels
       \/ \E g \in Goroutines : Brings(handler[g], c)
       \/ \E i \in Waiting : Brings(wire[i], c)
  /\ \A g \in Goroutines : handler[g].kind = "delete" => handler[g].channel \in gone
  /\ \A i \in Waiting : wire[i].kind = "delete" => wire[i].channel \in gone

\* u was met in a channel of the path that was looked at.
Met(u) == userToCh[u] \in channels /\ \E i \in 1 .. (Len(path) - Len(left)) : path[i] = userToCh[u]

\* left is what remains of the path, members whom the rest of it has met.
ViewInv ==
  /\ viewing = "no" => path = <<>> /\ left = <<>> /\ members = Nobody /\ moved = {} /\ changed = {}
  /\ viewing \in {"name", "users"} <=> left # <<>>
  /\ Len(left) <= Len(path)
  /\ \A i \in 1 .. Len(left) : left[i] = path[Len(path) - Len(left) + i]
  /\ viewing = "users" /\ left[1] \notin changed => left[1] \in channels
  /\ \A u \in Users : members[u] \in {0, 1}
  /\ \A u \in Users \ moved : userToCh[u] \notin changed => (members[u] = 1 <=> Met(u))
  /\ total >= Cardinality({u \in Users : members[u] = 1})

VoiceInv == VoiceTypeOK /\ NewsInv /\ ChannelsInv /\ ViewInv
-----------------------------------------------------------------------------
USE VoiceAssumption

\* What the parts of a handler's work are.
LEMMA WorkShape ==
  ASSUME NEW h \in Work
  PROVE  /\ h.kind = "voice" => h.user \in Users /\ h.channel \in Channels \cup {NoChannel}
         /\ h.kind = "guild" => h.at \in VoiceMap /\ h.channels \in SUBSET Channels
         /\ h.kind = "apply" => h.channels \in SUBSET Channels
         /\ h.kind \in {"channel", "delete"} => h.channel \in Channels
         /\ Concerns(h) \in SUBSET Users
         /\ \A u \in Users : Says(h, u) \in Channels \cup {NoChannel}
<1>1. CASE h \in {Ready, Idle, Refresh}
  BY <1>1 DEF Ready, Idle, Refresh, Concerns, Says
<1>2. CASE h \in [kind : {"guild"}, at : VoiceMap, channels : SUBSET Channels]
  BY <1>2 DEF Concerns, Says, VoiceMap
<1>3. CASE h \in [kind : {"voice"}, user : Users, channel : Channels \cup {NoChannel}]
  BY <1>3 DEF Concerns, Says
<1>4. CASE h \in [kind : {"channel", "delete"}, channel : Channels]
  BY <1>4 DEF Concerns, Says
<1>5. CASE h \in [kind : {"apply"}, channels : SUBSET Channels]
  BY <1>5 DEF Concerns, Says
<1> QED BY <1>1, <1>2, <1>3, <1>4, <1>5 DEF Work, Events

\* What Discord sends are events.
LEMMA EventKinds ==
  /\ Events \subseteq Work /\ Idle \in Work /\ Refresh \in Work /\ Ready \in Events
  /\ \A u \in Users, c \in Channels \cup {NoChannel} :
       [kind |-> "voice", user |-> u, channel |-> c] \in Events
  /\ \A c \in Channels : /\ [kind |-> "channel", channel |-> c] \in Events
                         /\ [kind |-> "delete", channel |-> c] \in Events
  /\ \A f \in VoiceMap, C \in SUBSET Channels :
       /\ [kind |-> "guild", at |-> f, channels |-> C] \in Events
       /\ [kind |-> "apply", channels |-> C] \in Work
BY DEF Events, Work

\* An event comes to the end of the wire, or nobody listens.
LEMMA EmitWire ==
  ASSUME VoiceTypeOK, NEW e \in Events, Emit(e)
  PROVE  /\ wire' \in Seq(Events)
         /\ Hearing => /\ Len(wire') = Len(wire) + 1
                       /\ wire'[Len(wire) + 1] = e
                       /\ \A i \in Waiting : wire'[i] = wire[i]
         /\ ~Hearing => wire' = wire
<1>1. wire \in Seq(Events) BY DEF VoiceTypeOK
<1>2. CASE Hearing
  <2>1. wire' = Append(wire, e) BY <1>2 DEF Emit, Hearing
  <2> QED BY <1>1, <1>2, <2>1, AppendProperties DEF Waiting
<1>3. CASE ~Hearing
  BY <1>1, <1>3 DEF Emit, Hearing
<1> QED BY <1>2, <1>3

\* Dispatch takes the oldest event.
LEMMA DispatchWire ==
  ASSUME VoiceTypeOK, NEW g \in Goroutines, Dispatch(g)
  PROVE  /\ wire' \in Seq(Events) /\ Len(wire) \in Nat /\ 1 \in Waiting
         /\ Head(wire) = wire[1] /\ wire[1] \in Events
         /\ Len(wire') = Len(wire) - 1
         /\ \A i \in 1 .. Len(wire') : i + 1 \in Waiting /\ wire'[i] = wire[i + 1]
         /\ \A i \in Waiting : i # 1 => i - 1 \in 1 .. Len(wire') /\ wire'[i - 1] = wire[i]
<1>1. wire \in Seq(Events) /\ wire # <<>> /\ wire' = Tail(wire)
  BY DEF VoiceTypeOK, Dispatch
<1>2. /\ Len(wire) \in Nat \ {0} /\ Head(wire) = wire[1] /\ wire[1] \in Events
      /\ Tail(wire) \in Seq(Events) /\ Len(Tail(wire)) = Len(wire) - 1
      /\ \A i \in 1 .. Len(Tail(wire)) : Tail(wire)[i] = wire[i + 1]
  BY <1>1, HeadTailProperties, LenProperties, EmptySeq, ElementOfSeq
<1> QED BY <1>1, <1>2 DEF Waiting

\* What a step of a handler does, whichever it is.
LEMMA HandleEffect ==
  ASSUME VoiceTypeOK, NEW g \in Goroutines, Handle(g)
  PROVE  /\ UNCHANGED <<discordVars, link, wire, viewVars, mixed>>
         /\ userToCh' \in VoiceMap /\ channels' \in SUBSET Channels
         /\ handler' \in [Goroutines -> Work]
         /\ \A h \in Goroutines : h # g => handler'[h] = handler[h]
         /\ handler'[g] \in Work /\ handler'[g].kind \in {"idle", "refresh", "apply"}
         /\ Concerns(handler'[g]) = {}
         /\ \A u \in Users : userToCh'[u] = IF u \in Concerns(handler[g]) THEN Says(handler[g], u)
                                                                        ELSE userToCh[u]
         /\ \A c \in Channels : Brings(handler[g], c) => c \in channels'
         /\ \A c \in channels : c \in channels' \/ (handler[g].kind = "delete" /\ handler[g].channel = c)
<1>0. /\ handler \in [Goroutines -> Work] /\ handler[g] \in Work
      /\ userToCh \in VoiceMap /\ channels \in SUBSET Channels /\ Alive \in SUBSET Channels
  BY DEF VoiceTypeOK, Alive
<1>1. UNCHANGED <<discordVars, link, wire, viewVars, mixed>>
  BY DEF Handle, OnReady, RefreshFetch, RefreshFail, RefreshApply, OnGuildCreate,
         OnVoiceStateUpdate, OnChannelUpdate, OnChannelDelete, Noted
<1>2. Nowhere \in VoiceMap BY DEF Nowhere, VoiceMap
<1>3. CASE OnReady(g)
  BY <1>0, <1>1, <1>2, <1>3, EventKinds
     DEF OnReady, StubSnapshot, Ready, Refresh, Concerns, Says, Brings, Nowhere
<1>4. CASE RefreshFetch(g)
  <2>1. [kind |-> "apply", channels |-> Alive] \in Work BY <1>0, EventKinds
  <2>2. /\ handler[g] = Refresh /\ UNCHANGED mapVars
        /\ handler' = [handler EXCEPT ![g] = [kind |-> "apply", channels |-> Alive]]
    BY <1>4 DEF RefreshFetch
  <2>3. \A u \in Users : u \notin Concerns(handler[g])
    BY <2>2 DEF Refresh, Concerns
  <2>4. \A c \in Channels : ~Brings(handler[g], c)
    BY <2>2 DEF Refresh, Brings
  <2>5. Concerns(handler'[g]) = {} /\ handler'[g].kind = "apply"
    BY <1>0, <2>2 DEF Concerns
  <2> QED BY <1>0, <1>1, <2>1, <2>2, <2>3, <2>4, <2>5 DEF mapVars
<1>5. CASE RefreshFail(g)
  BY <1>0, <1>1, <1>5, EventKinds DEF RefreshFail, Refresh, Idle, Concerns, Says, Brings, mapVars
<1>6. CASE RefreshApply(g)
  BY <1>0, <1>1, <1>6, EventKinds, WorkShape DEF RefreshApply, Idle, Concerns, Says, Brings
<1>7. CASE OnGuildCreate(g)
  BY <1>0, <1>1, <1>7, EventKinds, WorkShape DEF OnGuildCreate, Snapshot, Idle, Concerns, Says, Brings
<1>8. CASE OnVoiceStateUpdate(g)
  BY <1>0, <1>1, <1>8, EventKinds, WorkShape
     DEF OnVoiceStateUpdate, Idle, Concerns, Says, Brings, VoiceMap
<1>9. CASE OnChannelUpdate(g)
  BY <1>0, <1>1, <1>9, EventKinds, WorkShape DEF OnChannelUpdate, Idle, Concerns, Says, Brings
<1>10. CASE OnChannelDelete(g)
  BY <1>0, <1>1, <1>10, EventKinds, WorkShape DEF OnChannelDelete, Idle, Concerns, Says, Brings
<1> QED BY <1>3, <1>4, <1>5, <1>6, <1>7, <1>8, <1>9, <1>10 DEF Handle
-----------------------------------------------------------------------------
(* The last news of a user *)

\* An event that says where the users it concerns are, and concerns all that
\* have moved.
LEMMA NewsEmit ==
  ASSUME VoiceTypeOK, NewsInv, NEW e \in Events, Emit(e),
         UNCHANGED <<link, handler, userToCh, mixed>>,
         \A u \in Users : at'[u] # at[u] => u \in Concerns(e),
         \A u \in Users : u \in Concerns(e) => Says(e, u) = at'[u]
  PROVE  NewsInv'
<1>1. CASE Hearing
  <2>1. /\ Len(wire) \in Nat /\ Len(wire') = Len(wire) + 1
        /\ wire'[Len(wire) + 1] = e
        /\ \A i \in Waiting : wire'[i] = wire[i]
    BY <1>1, EmitWire, LenProperties DEF VoiceTypeOK
  <2>2. ASSUME NEW u \in Users, NEW i \in 1 .. Len(wire'), u \in Concerns(wire'[i]),
               \A j \in 1 .. Len(wire') : j > i => u \notin Concerns(wire'[j])
        PROVE  Says(wire'[i], u) = at'[u]
    <3>1. CASE i = Len(wire) + 1
      BY <2>1, <2>2, <3>1
    <3>2. CASE i # Len(wire) + 1
      <4>1. /\ i \in Waiting /\ \A j \in Waiting : j \in 1 .. Len(wire')
            /\ Len(wire) + 1 \in 1 .. Len(wire') /\ Len(wire) + 1 > i
        BY <2>1, <3>2 DEF Waiting
      <4>2. u \notin Concerns(e) BY <2>1, <2>2, <4>1
      <4>3. \A j \in Waiting : j > i => u \notin Concerns(wire[j])
        BY <2>1, <2>2, <4>1
      <4> QED BY <1>1, <2>1, <2>2, <4>1, <4>2, <4>3 DEF NewsInv
    <3> QED BY <3>1, <3>2
  <2>3. ASSUME NEW u \in Users, ~Expected(u)'
        PROVE  ~Expected(u) /\ at'[u] = at[u]
    <3>1. Len(wire) + 1 \in 1 .. Len(wire') /\ \A i \in Waiting : i \in 1 .. Len(wire')
      BY <2>1 DEF Waiting
    <3> QED BY <2>1, <2>3, <3>1 DEF Expected, Waiting
  <2> QED BY <1>1, <2>2, <2>3 DEF NewsInv, Waiting, Hearing
<1>2. CASE ~Hearing
  BY <1>2 DEF NewsInv, Hearing
<1> QED BY <1>1, <1>2

\* Dispatch hands the oldest news to a handler, and marks the users whose
\* previous news is still in one.
LEMMA NewsDispatch ==
  ASSUME VoiceTypeOK, NewsInv, NEW g \in Goroutines, Dispatch(g)
  PROVE  NewsInv'
<1> DEFINE e == wire[1]
<1>1. /\ Len(wire) \in Nat /\ 1 \in Waiting /\ Head(wire) = e
      /\ \A i \in 1 .. Len(wire') : i + 1 \in Waiting /\ wire'[i] = wire[i + 1]
      /\ \A i \in Waiting : i # 1 => i - 1 \in 1 .. Len(wire') /\ wire'[i - 1] = wire[i]
  BY DispatchWire
<1>2. /\ handler \in [Goroutines -> Work] /\ handler[g] = Idle
      /\ handler' = [handler EXCEPT ![g] = e]
      /\ UNCHANGED <<link, at, userToCh>>
  BY <1>1 DEF Dispatch, VoiceTypeOK, discordVars, mapVars
<1>3. mixed' = (mixed \ Concerns(e)) \cup
                 (Concerns(e) \cap UNION {Concerns(handler[h]) : h \in Goroutines})
  BY <1>1 DEF Dispatch
<1>4. Concerns(handler[g]) = {} BY <1>2 DEF Concerns, Idle
<1> HIDE DEF e
<1>5. ASSUME NEW u \in Users, u \notin mixed'
      PROVE  /\ u \in Concerns(e) => \A h \in Goroutines : u \notin Concerns(handler[h])
             /\ u \notin Concerns(e) => u \notin mixed
  BY <1>3, <1>5
<1>6. ASSUME NEW u \in Users, u \notin mixed', NEW h \in Goroutines, NEW k \in Goroutines,
             u \in Concerns(handler'[h]), u \in Concerns(handler'[k])
      PROVE  h = k
  BY <1>2, <1>4, <1>5, <1>6 DEF NewsInv
<1>7. ASSUME Hearing, NEW u \in Users, NEW i \in 1 .. Len(wire'), u \in Concerns(wire'[i]),
             \A j \in 1 .. Len(wire') : j > i => u \notin Concerns(wire'[j])
      PROVE  Says(wire'[i], u) = at'[u]
  <2>1. ASSUME NEW j \in Waiting, j > i + 1 PROVE u \notin Concerns(wire[j])
    <3>1. j # 1 /\ j - 1 > i BY <2>1 DEF Waiting
    <3> QED BY <1>1, <1>7, <2>1, <3>1
  <2> QED BY <1>1, <1>2, <1>7, <2>1 DEF NewsInv
<1>8. ASSUME Hearing, NEW u \in Users, u \notin mixed', ~Expected(u)'
      PROVE  /\ \A h \in Goroutines : u \in Concerns(handler'[h]) => Says(handler'[h], u) = at[u]
             /\ (\A h \in Goroutines : u \notin Concerns(handler'[h])) => userToCh[u] = at[u]
  <2>1. \A j \in Waiting : j # 1 => u \notin Concerns(wire[j])
    BY <1>1, <1>8 DEF Expected, Waiting
  <2>2. CASE u \in Concerns(e)
    <3>1. \A j \in Waiting : j > 1 => u \notin Concerns(wire[j])
      BY <2>1 DEF Waiting
    <3>2. Says(e, u) = at[u] BY <1>1, <1>8, <2>2, <3>1 DEF NewsInv, e
    <3> QED BY <1>2, <1>5, <1>8, <2>2, <3>2
  <2>3. CASE u \notin Concerns(e)
    <3>1. ~Expected(u) BY <2>1, <2>3 DEF Expected, e
    <3> QED BY <1>2, <1>4, <1>5, <1>8, <2>3, <3>1 DEF NewsInv
  <2> QED BY <2>2, <2>3
<1> QED BY <1>2, <1>6, <1>7, <1>8 DEF NewsInv, Hearing, Waiting

\* A handler writes what it was told.
LEMMA NewsHandle ==
  ASSUME VoiceTypeOK, NewsInv, NEW g \in Goroutines, Handle(g)
  PROVE  NewsInv'
<1>1. /\ UNCHANGED <<discordVars, link, wire, mixed>>
      /\ \A h \in Goroutines : h # g => handler'[h] = handler[h]
      /\ Concerns(handler'[g]) = {}
      /\ \A u \in Users : userToCh'[u] = IF u \in Concerns(handler[g]) THEN Says(handler[g], u)
                                                                     ELSE userToCh[u]
  BY HandleEffect
<1>2. \A u \in Users, h \in Goroutines :
        u \in Concerns(handler'[h]) => h # g /\ handler'[h] = handler[h]
  BY <1>1
<1>3. ASSUME Hearing, NEW u \in Users \ mixed, ~Expected(u),
             \A h \in Goroutines : u \notin Concerns(handler'[h])
      PROVE  userToCh'[u] = at[u]
  <2>1. CASE u \in Concerns(handler[g])
    BY <1>1, <1>3, <2>1 DEF NewsInv
  <2>2. CASE u \notin Concerns(handler[g])
    <3>1. \A h \in Goroutines : u \notin Concerns(handler[h])
      BY <1>1, <1>3, <2>2
    <3> QED BY <1>1, <1>3, <2>2, <3>1 DEF NewsInv
  <2> QED BY <2>1, <2>2
<1> QED BY <1>1, <1>2, <1>3 DEF NewsInv, Hearing, Expected, Waiting, discordVars

\* Every step keeps it.
LEMMA NewsStep == VoiceTypeOK /\ NewsInv /\ [VoiceNext]_voiceVars => NewsInv'
<1> SUFFICES ASSUME VoiceTypeOK, NewsInv, [VoiceNext]_voiceVars PROVE NewsInv'
  OBVIOUS
<1>0. Alive \in SUBSET Channels BY DEF VoiceTypeOK, Alive
<1>1. ASSUME NEW u \in Users, NEW c \in Channels \cup {NoChannel}, Move(u, c) PROVE NewsInv'
  <2> DEFINE e == [kind |-> "voice", user |-> u, channel |-> c]
  <2>1. e \in Events BY EventKinds
  <2>2. Concerns(e) = {u} /\ Says(e, u) = c BY DEF Concerns, Says
  <2>3. Emit(e) /\ UNCHANGED <<link, handler, userToCh, mixed>> /\ at' = [at EXCEPT ![u] = c]
    BY <1>1 DEF Move, mapVars
  <2>4. at \in VoiceMap BY DEF VoiceTypeOK
  <2> HIDE DEF e
  <2> QED BY <2>1, <2>2, <2>3, <2>4, NewsEmit DEF VoiceMap
<1>2. ASSUME NEW c \in Channels, CreateChannel(c) \/ UpdateChannel(c) PROVE NewsInv'
  <2> DEFINE e == [kind |-> "channel", channel |-> c]
  <2>1. e \in Events BY EventKinds
  <2>2. Concerns(e) = {} BY DEF Concerns
  <2>3. Emit(e) /\ UNCHANGED <<link, handler, userToCh, mixed, at>>
    BY <1>2 DEF CreateChannel, UpdateChannel, mapVars, discordVars
  <2> HIDE DEF e
  <2> QED BY <2>1, <2>2, <2>3, NewsEmit
<1>3. ASSUME NEW c \in Channels, DeleteChannel(c) PROVE NewsInv'
  <2> DEFINE e == [kind |-> "delete", channel |-> c]
  <2>1. e \in Events BY EventKinds
  <2>2. Concerns(e) = {} BY DEF Concerns
  <2>3. Emit(e) /\ UNCHANGED <<link, handler, userToCh, mixed, at>>
    BY <1>3 DEF DeleteChannel, mapVars
  <2> HIDE DEF e
  <2> QED BY <2>1, <2>2, <2>3, NewsEmit
<1>4. CASE GuildAvailable
  <2> DEFINE e == [kind |-> "guild", at |-> at, channels |-> Alive]
  <2>1. e \in Events BY <1>0, EventKinds DEF VoiceTypeOK
  <2>2. Concerns(e) = Users /\ \A u \in Users : Says(e, u) = at[u] BY DEF Concerns, Says
  <2>3. wire' = Append(wire, e) /\ wire \in Seq(Events) /\ UNCHANGED <<at, handler, userToCh, mixed>>
    BY <1>4 DEF GuildAvailable, VoiceTypeOK, discordVars, mapVars
  <2> HIDE DEF e
  <2>4. /\ Len(wire) \in Nat /\ Len(wire') = Len(wire) + 1
        /\ wire'[Len(wire) + 1] = e
    BY <2>1, <2>3, AppendProperties, LenProperties
  <2>5. Len(wire) + 1 \in 1 .. Len(wire') /\ \A i \in 1 .. Len(wire') : i # Len(wire) + 1 => Len(wire) + 1 > i
    BY <2>4
  <2>6. \A u \in Users : Expected(u)' BY <2>2, <2>4, <2>5 DEF Expected, Waiting
  <2>7. \A u \in Users, i \in 1 .. Len(wire') :
          (\A j \in 1 .. Len(wire') : j > i => u \notin Concerns(wire'[j])) => Says(wire'[i], u) = at[u]
    BY <2>2, <2>4, <2>5
  <2> QED BY <2>3, <2>6, <2>7 DEF NewsInv, Waiting
<1>5. CASE Identify \/ GuildOutage
  BY <1>5 DEF Identify, GuildOutage, NewsInv, Hearing, mapVars, discordVars
<1>6. CASE Disconnect \/ Resume
  <2>1. UNCHANGED <<at, wire, handler, userToCh, mixed>> /\ (Hearing' => Hearing)
    BY <1>6 DEF Disconnect, Resume, Hearing, mapVars, discordVars
  <2> QED BY <2>1 DEF NewsInv, Expected, Waiting
<1>7. ASSUME NEW g \in Goroutines, Dispatch(g) \/ Handle(g) PROVE NewsInv'
  BY <1>7, NewsDispatch, NewsHandle
<1>8. CASE Restart
  <2>1. \A g \in Goroutines : Concerns(handler'[g]) = {}
    BY <1>8 DEF Restart, Concerns, Idle
  <2>2. ~Hearing' BY <1>8 DEF Restart, Hearing
  <2> QED BY <2>1, <2>2 DEF NewsInv
<1>9. CASE (\E p \in Paths : CView(p)) \/ ViewName \/ ViewUsers \/ ViewEnd \/ UNCHANGED voiceVars
  <2>1. UNCHANGED <<at, link, wire, handler, userToCh, mixed>>
    BY <1>9 DEF CView, ViewName, ViewUsers, ViewEnd, voiceVars, discordVars, mapVars
  <2> QED BY <2>1 DEF NewsInv, Hearing, Expected, Waiting
<1> QED BY <1>1, <1>2, <1>3, <1>4, <1>5, <1>6, <1>7, <1>8, <1>9 DEF VoiceNext
-----------------------------------------------------------------------------
(* The channels *)

\* An event reaches the wire while channels are made; nothing is removed.
LEMMA ChannelsEmit ==
  ASSUME VoiceTypeOK, ChannelsInv, NEW e \in Events, Emit(e),
         UNCHANGED <<link, handler, channels>>, gone \subseteq gone',
         \A u \in Users : at'[u] \in Alive' \cup {NoChannel},
         \A c \in Alive' : c \in Alive \/ Brings(e, c),
         e.kind = "delete" => e.channel \in gone'
  PROVE  ChannelsInv'
<1>1. CASE Hearing
  <2>1. /\ Len(wire) \in Nat /\ Len(wire') = Len(wire) + 1
        /\ wire'[Len(wire) + 1] = e
        /\ \A i \in Waiting : wire'[i] = wire[i]
    BY <1>1, EmitWire, LenProperties DEF VoiceTypeOK
  <2>2. /\ \A i \in Waiting : i \in 1 .. Len(wire')
        /\ \A i \in 1 .. Len(wire') : i \in Waiting \/ i = Len(wire) + 1
        /\ Len(wire) + 1 \in 1 .. Len(wire')
    BY <2>1 DEF Waiting
  <2>3. ASSUME NEW c \in Alive'
        PROVE  \/ c \in channels
               \/ \E g \in Goroutines : Brings(handler[g], c)
               \/ \E i \in 1 .. Len(wire') : Brings(wire'[i], c)
    BY <1>1, <2>1, <2>2, <2>3 DEF ChannelsInv
  <2>4. ASSUME NEW i \in 1 .. Len(wire'), wire'[i].kind = "delete"
        PROVE  wire'[i].channel \in gone'
    BY <2>1, <2>2, <2>4 DEF ChannelsInv
  <2> QED BY <2>3, <2>4 DEF ChannelsInv, Waiting
<1>2. CASE ~Hearing
  BY <1>2, EmitWire DEF ChannelsInv, Hearing, Waiting
<1> QED BY <1>1, <1>2

\* Dispatch moves what brings a channel from the wire to a handler.
LEMMA ChannelsDispatch ==
  ASSUME VoiceTypeOK, ChannelsInv, NEW g \in Goroutines, Dispatch(g)
  PROVE  ChannelsInv'
<1>1. /\ 1 \in Waiting /\ Head(wire) = wire[1]
      /\ \A i \in 1 .. Len(wire') : i + 1 \in Waiting /\ wire'[i] = wire[i + 1]
      /\ \A i \in Waiting : i # 1 => i - 1 \in 1 .. Len(wire') /\ wire'[i - 1] = wire[i]
  BY DispatchWire
<1>2. /\ handler \in [Goroutines -> Work] /\ handler[g] = Idle
      /\ handler' = [handler EXCEPT ![g] = wire[1]]
      /\ UNCHANGED <<link, at, made, gone, channels>>
  BY <1>1 DEF Dispatch, VoiceTypeOK, discordVars, mapVars
<1>3. \A c \in Channels : ~Brings(handler[g], c) BY <1>2 DEF Brings, Idle
<1>4. ASSUME Hearing, NEW c \in Alive
      PROVE  \/ c \in channels
             \/ \E h \in Goroutines : Brings(handler'[h], c)
             \/ \E i \in 1 .. Len(wire') : Brings(wire'[i], c)
  <2>0. c \in Channels BY DEF VoiceTypeOK, Alive
  <2>1. CASE \E h \in Goroutines : Brings(handler[h], c)
    BY <1>2, <1>3, <2>0, <2>1
  <2>2. CASE \E i \in Waiting : Brings(wire[i], c)
    BY <1>1, <1>2, <2>2
  <2> QED BY <1>4, <2>1, <2>2 DEF ChannelsInv
<1>5. ASSUME NEW i \in 1 .. Len(wire'), wire'[i].kind = "delete" PROVE wire'[i].channel \in gone
  BY <1>1, <1>5 DEF ChannelsInv
<1>6. ASSUME NEW h \in Goroutines, handler'[h].kind = "delete" PROVE handler'[h].channel \in gone
  BY <1>1, <1>2, <1>6 DEF ChannelsInv
<1> QED BY <1>2, <1>4, <1>5, <1>6 DEF ChannelsInv, Hearing, Waiting, Alive

\* A handler puts what it brings into the map, and removes only what is gone.
LEMMA ChannelsHandle ==
  ASSUME VoiceTypeOK, ChannelsInv, NEW g \in Goroutines, Handle(g)
  PROVE  ChannelsInv'
<1>1. /\ UNCHANGED <<discordVars, link, wire>>
      /\ \A h \in Goroutines : h # g => handler'[h] = handler[h]
      /\ handler'[g].kind \in {"idle", "refresh", "apply"}
      /\ \A c \in Channels : Brings(handler[g], c) => c \in channels'
      /\ \A c \in channels : c \in channels' \/ (handler[g].kind = "delete" /\ handler[g].channel = c)
  BY HandleEffect
<1>2. ASSUME Hearing, NEW c \in Alive
      PROVE  \/ c \in channels'
             \/ \E h \in Goroutines : Brings(handler'[h], c)
             \/ \E i \in Waiting : Brings(wire[i], c)
  <2>0. c \in Channels /\ c \notin gone BY DEF VoiceTypeOK, Alive
  <2>1. CASE c \in channels
    BY <1>1, <2>0, <2>1 DEF ChannelsInv
  <2>2. CASE \E h \in Goroutines : Brings(handler[h], c)
    BY <1>1, <2>0, <2>2
  <2> QED BY <1>2, <2>1, <2>2 DEF ChannelsInv
<1>3. ASSUME NEW h \in Goroutines, handler'[h].kind = "delete" PROVE handler'[h].channel \in gone
  BY <1>1, <1>3 DEF ChannelsInv
<1> QED BY <1>1, <1>2, <1>3 DEF ChannelsInv, Hearing, Waiting, Alive, discordVars

\* Every step keeps it.
LEMMA ChannelsStep == VoiceTypeOK /\ ChannelsInv /\ [VoiceNext]_voiceVars => ChannelsInv'
<1> SUFFICES ASSUME VoiceTypeOK, ChannelsInv, [VoiceNext]_voiceVars PROVE ChannelsInv'
  OBVIOUS
<1>0. /\ Alive \in SUBSET Channels /\ at \in VoiceMap
      /\ \A u \in Users : at[u] \in Alive \cup {NoChannel}
  BY DEF VoiceTypeOK, Alive, ChannelsInv
<1>1. ASSUME NEW u \in Users, NEW c \in Channels \cup {NoChannel}, Move(u, c) PROVE ChannelsInv'
  <2> DEFINE e == [kind |-> "voice", user |-> u, channel |-> c]
  <2>1. e \in Events /\ e.kind = "voice" BY EventKinds
  <2>2. /\ Emit(e) /\ UNCHANGED <<link, handler, channels, made, gone>>
        /\ at' = [at EXCEPT ![u] = c] /\ c \in Alive \cup {NoChannel}
    BY <1>1 DEF Move, mapVars
  <2>3. \A v \in Users : at'[v] \in Alive \cup {NoChannel}
    BY <1>0, <2>2 DEF VoiceMap
  <2>4. Alive' = Alive BY <2>2 DEF Alive
  <2> HIDE DEF e
  <2> QED BY <2>1, <2>2, <2>3, <2>4, ChannelsEmit
<1>2. ASSUME NEW c \in Channels, CreateChannel(c) \/ UpdateChannel(c) PROVE ChannelsInv'
  <2> DEFINE e == [kind |-> "channel", channel |-> c]
  <2>1. e \in Events /\ e.kind = "channel" BY EventKinds
  <2>2. Brings(e, c) BY DEF Brings
  <2>3. /\ Emit(e) /\ UNCHANGED <<link, handler, channels, at, gone>>
        /\ made' = made \/ made' = made \cup {c}
    BY <1>2 DEF CreateChannel, UpdateChannel, mapVars, discordVars
  <2>4. Alive \subseteq Alive' /\ \A d \in Alive' : d \in Alive \/ d = c
    BY <2>3 DEF Alive
  <2> HIDE DEF e
  <2> QED BY <1>0, <2>1, <2>2, <2>3, <2>4, ChannelsEmit
<1>3. ASSUME NEW c \in Channels, DeleteChannel(c) PROVE ChannelsInv'
  <2> DEFINE e == [kind |-> "delete", channel |-> c]
  <2>1. e \in Events /\ e.kind = "delete" /\ e.channel = c BY EventKinds
  <2>2. /\ Emit(e) /\ UNCHANGED <<link, handler, channels, at, made>>
        /\ gone' = gone \cup {c} /\ \A u \in Users : at[u] # c
    BY <1>3 DEF DeleteChannel, mapVars
  <2>3. Alive' = Alive \ {c} BY <2>2 DEF Alive
  <2> HIDE DEF e
  <2> QED BY <1>0, <2>1, <2>2, <2>3, ChannelsEmit
<1>4. CASE GuildAvailable
  <2> DEFINE e == [kind |-> "guild", at |-> at, channels |-> Alive]
  <2>1. e \in Events /\ e.kind = "guild" BY <1>0, EventKinds
  <2>2. \A c \in Alive : Brings(e, c) BY DEF Brings
  <2>3. wire' = Append(wire, e) /\ wire \in Seq(Events) /\ UNCHANGED <<at, made, gone, handler>>
    BY <1>4 DEF GuildAvailable, VoiceTypeOK, discordVars
  <2> HIDE DEF e
  <2>4. /\ Len(wire) \in Nat /\ Len(wire') = Len(wire) + 1
        /\ wire'[Len(wire) + 1] = e
        /\ \A i \in Waiting : wire'[i] = wire[i]
    BY <2>1, <2>3, AppendProperties, LenProperties DEF Waiting
  <2>5. /\ Len(wire) + 1 \in 1 .. Len(wire')
        /\ \A i \in 1 .. Len(wire') : i \in Waiting \/ i = Len(wire) + 1
    BY <2>4 DEF Waiting
  <2>6. \A c \in Alive : \E i \in 1 .. Len(wire') : Brings(wire'[i], c)
    BY <2>2, <2>4, <2>5
  <2>7. \A i \in 1 .. Len(wire') : wire'[i].kind = "delete" => wire'[i].channel \in gone
    BY <2>1, <2>4, <2>5 DEF ChannelsInv
  <2> QED BY <2>3, <2>6, <2>7 DEF ChannelsInv, Waiting, Alive
<1>5. CASE Identify
  <2>1. wire' = <<Ready>> /\ ~Hearing' /\ UNCHANGED <<at, made, gone, handler>>
    BY <1>5 DEF Identify, Hearing, discordVars
  <2>2. \A i \in 1 .. Len(wire') : wire'[i].kind = "ready"
    BY <2>1 DEF Ready
  <2> QED BY <2>1, <2>2 DEF ChannelsInv, Waiting, Alive
<1>6. CASE GuildOutage \/ Disconnect \/ Resume
  <2>1. UNCHANGED <<at, made, gone, wire, handler, channels>> /\ (Hearing' => Hearing)
    BY <1>6 DEF GuildOutage, Disconnect, Resume, Hearing, mapVars, discordVars
  <2> QED BY <2>1 DEF ChannelsInv, Waiting, Alive
<1>7. ASSUME NEW g \in Goroutines, Dispatch(g) \/ Handle(g) PROVE ChannelsInv'
  BY <1>7, ChannelsDispatch, ChannelsHandle
<1>8. CASE Restart
  <2>1. \A g \in Goroutines : handler'[g].kind = "idle"
    BY <1>8 DEF Restart, Idle
  <2>2. ~Hearing' /\ 1 .. Len(wire') = {} /\ UNCHANGED <<at, made, gone>>
    BY <1>8 DEF Restart, Hearing, discordVars
  <2> QED BY <2>1, <2>2 DEF ChannelsInv, Alive, Waiting
<1>9. CASE (\E p \in Paths : CView(p)) \/ ViewName \/ ViewUsers \/ ViewEnd \/ UNCHANGED voiceVars
  <2>1. UNCHANGED <<at, made, gone, link, wire, handler, channels>>
    BY <1>9 DEF CView, ViewName, ViewUsers, ViewEnd, voiceVars, discordVars, mapVars
  <2> QED BY <2>1 DEF ChannelsInv, Hearing, Waiting, Alive
<1> QED BY <1>1, <1>2, <1>3, <1>4, <1>5, <1>6, <1>7, <1>8, <1>9 DEF VoiceNext
-----------------------------------------------------------------------------
(* The request for several channels *)

\* What a handler changes while a request runs is noted.
LEMMA NotedEffect ==
  ASSUME NEW g \in Goroutines, Handle(g)
  PROVE  Noted
BY DEF Handle, OnReady, RefreshFetch, RefreshFail, RefreshApply, OnGuildCreate,
       OnVoiceStateUpdate, OnChannelUpdate, OnChannelDelete

\* A handler may change the maps under a request.
LEMMA ViewHandle ==
  ASSUME VoiceTypeOK, ViewInv, NEW g \in Goroutines, Handle(g)
  PROVE  ViewInv'
<1>1. /\ UNCHANGED <<path, left, viewing, members, total>>
      /\ userToCh' \in VoiceMap /\ channels' \in SUBSET Channels
  BY HandleEffect DEF viewVars
<1>2. Noted BY NotedEffect
<1>3. CASE viewing = "no"
  <2>1. moved' = moved /\ changed' = changed BY <1>2, <1>3 DEF Noted
  <2>2. /\ path = <<>> /\ left = <<>> /\ \A u \in Users : members[u] = 0
    BY <1>3 DEF ViewInv, Nobody
  <2>3. \A u \in Users : ~Met(u)' BY <1>1, <2>2 DEF Met
  <2> QED BY <1>1, <1>3, <2>1, <2>2, <2>3 DEF ViewInv
<1>4. CASE viewing # "no"
  <2>1. /\ moved' = moved \cup {u \in Users : userToCh'[u] # userToCh[u]}
        /\ changed' = changed \cup {c \in Channels : (c \in channels') # (c \in channels)}
    BY <1>2, <1>4 DEF Noted
  <2>2. ASSUME NEW u \in Users \ moved', userToCh'[u] \notin changed'
        PROVE  /\ u \notin moved /\ userToCh[u] \notin changed
               /\ Met(u)' <=> Met(u)
    <3>1. u \notin moved /\ userToCh'[u] = userToCh[u] /\ userToCh[u] \notin changed
      BY <2>1, <2>2
    <3>2. userToCh[u] \in channels' <=> userToCh[u] \in channels
      BY <1>1, <2>1, <2>2, <3>1 DEF VoiceTypeOK
    <3> QED BY <1>1, <3>1, <3>2 DEF Met
  <2>3. \A c \in Channels \ changed' : c \notin changed /\ (c \in channels' <=> c \in channels)
    BY <2>1
  <2>4. viewing = "users" => left[1] \in Channels
    BY ElementOfSeq DEF ViewInv, VoiceTypeOK
  <2> QED BY <1>1, <1>4, <2>2, <2>3, <2>4 DEF ViewInv
<1> QED BY <1>3, <1>4

\* The loop's step to the next id.
LEMMA NextIDEffect ==
  ASSUME VoiceTypeOK, ViewInv, left # <<>>, NextID, path' = path
  PROVE  /\ left' \in Seq(Channels) /\ Len(left') = Len(left) - 1
         /\ left[1] \in Channels /\ left[1] = Head(left)
         /\ viewing' \in {"done", "name"} /\ (viewing' = "name" <=> left' # <<>>)
         /\ Len(left') <= Len(path)
         /\ \A i \in 1 .. Len(left') : left'[i] = path[Len(path) - Len(left') + i]
         /\ \A v : (\E i \in 1 .. (Len(path) - Len(left')) : path[i] = v) <=>
                 (\E i \in 1 .. (Len(path) - Len(left)) : path[i] = v) \/ left[1] = v
<1>1. /\ left \in Seq(Channels) /\ Len(left) \in Nat \ {0} /\ Len(left) <= Len(path)
      /\ path \in Seq(Channels) /\ Len(path) \in Nat
  BY LenProperties, EmptySeq DEF VoiceTypeOK, ViewInv
<1>2. /\ left' = Tail(left) /\ Tail(left) \in Seq(Channels) /\ Len(left') = Len(left) - 1
      /\ \A i \in 1 .. Len(left') : left'[i] = left[i + 1]
      /\ left[1] = Head(left) /\ left[1] \in Channels
  BY <1>1, HeadTailProperties, EmptySeq, ElementOfSeq DEF NextID
<1>3. viewing' \in {"done", "name"} /\ (viewing' = "name" <=> left' # <<>>)
  <2>1. left' = <<>> <=> Len(left) = 1
    <3>1. left' = <<>> <=> Len(left') = 0 BY <1>2, EmptySeq
    <3> QED BY <1>1, <1>2, <3>1
  <2> QED BY <2>1 DEF NextID
<1>4. \A i \in 1 .. Len(left) : left[i] = path[Len(path) - Len(left) + i]
  BY DEF ViewInv
<1>5. ASSUME NEW i \in 1 .. Len(left')
      PROVE  left'[i] = path[Len(path) - Len(left') + i]
  <2>1. i + 1 \in 1 .. Len(left) BY <1>1, <1>2
  <2>2. left'[i] = path[Len(path) - Len(left) + (i + 1)] BY <1>2, <1>4, <2>1
  <2>3. Len(path) - Len(left) + (i + 1) = Len(path) - Len(left') + i BY <1>1, <1>2, <2>1
  <2> QED BY <2>2, <2>3
<1>6. left[1] = path[Len(path) - Len(left')]
  <2>1. 1 \in 1 .. Len(left) /\ Len(path) - Len(left) + 1 = Len(path) - Len(left')
    BY <1>1, <1>2
  <2> QED BY <1>4, <2>1
<1>7. /\ 1 .. (Len(path) - Len(left')) = (1 .. (Len(path) - Len(left))) \cup {Len(path) - Len(left')}
      /\ Len(left') <= Len(path)
  BY <1>1, <1>2
<1> QED BY <1>2, <1>3, <1>5, <1>6, <1>7

\* An id that is not a channel brings nobody.
LEMMA ViewNameStep ==
  ASSUME VoiceTypeOK, ViewInv, ViewName
  PROVE  ViewInv'
<1>1. /\ viewing = "name" /\ left # <<>>
      /\ UNCHANGED <<userToCh, channels, path, members, total, moved, changed>>
  BY DEF ViewName, ViewInv, mapVars
<1>2. left[1] = Head(left)
  BY <1>1, HeadTailProperties DEF VoiceTypeOK
<1>3. CASE Head(left) \in channels
  <2>1. viewing' = "users" /\ left' = left BY <1>3 DEF ViewName
  <2>2. \A u \in Users : Met(u)' <=> Met(u) BY <1>1, <2>1 DEF Met
  <2> QED BY <1>1, <1>2, <1>3, <2>1, <2>2 DEF ViewInv
<1>4. CASE Head(left) \notin channels
  <2>1. NextID BY <1>4 DEF ViewName
  <2>2. /\ viewing' \in {"done", "name"} /\ (viewing' = "name" <=> left' # <<>>)
        /\ Len(left') <= Len(path)
        /\ \A i \in 1 .. Len(left') : left'[i] = path[Len(path) - Len(left') + i]
        /\ \A v : (\E i \in 1 .. (Len(path) - Len(left')) : path[i] = v) <=>
                 (\E i \in 1 .. (Len(path) - Len(left)) : path[i] = v) \/ left[1] = v
    BY <1>1, <2>1, NextIDEffect
  <2>3. \A u \in Users : Met(u)' <=> Met(u)
    BY <1>1, <1>2, <1>4, <2>2 DEF Met
  <2> QED BY <1>1, <2>2, <2>3 DEF ViewInv
<1> QED BY <1>3, <1>4

\* The users of a channel are put into memberIDs once; the total counts them
\* again for every channel.
LEMMA ViewUsersStep ==
  ASSUME VoiceTypeOK, ViewInv, ViewUsers
  PROVE  ViewInv' /\ members' \in [Users -> Nat] /\ total' \in Nat
<1> DEFINE here == UsersInChannel(Head(left))
           seen == {u \in Users : members[u] = 1}
<1>1. /\ viewing = "users" /\ left # <<>> /\ NextID
      /\ UNCHANGED <<userToCh, channels, path, moved, changed>>
      /\ total' = total + Cardinality(here)
      /\ members' = [u \in Users |-> IF u \in here THEN CountOnce(u) ELSE members[u]]
  BY DEF ViewUsers, ViewInv, mapVars
<1>2. /\ left[1] = Head(left) /\ left[1] \in Channels
      /\ viewing' \in {"done", "name"} /\ (viewing' = "name" <=> left' # <<>>)
      /\ Len(left') <= Len(path)
      /\ \A i \in 1 .. Len(left') : left'[i] = path[Len(path) - Len(left') + i]
      /\ \A v : (\E i \in 1 .. (Len(path) - Len(left')) : path[i] = v) <=>
               (\E i \in 1 .. (Len(path) - Len(left)) : path[i] = v) \/ left[1] = v
  BY <1>1, NextIDEffect
<1>3. \A u \in Users : /\ members[u] \in {0, 1}
                      /\ members'[u] = IF userToCh[u] = left[1] THEN 1 ELSE members[u]
  BY <1>1, <1>2 DEF ViewInv, CountOnce, UsersInChannel
<1>4. ASSUME NEW u \in Users \ moved, userToCh[u] \notin changed
      PROVE  members'[u] = 1 <=> Met(u)'
  <2>1. members[u] = 1 <=> Met(u) BY <1>4 DEF ViewInv
  <2>2. userToCh[u] = left[1] => userToCh[u] \in channels
    BY <1>1, <1>4 DEF ViewInv
  <2> QED BY <1>1, <1>2, <1>3, <2>1, <2>2 DEF Met
<1>5. /\ IsFiniteSet(here) /\ IsFiniteSet(seen) /\ {u \in Users : members'[u] = 1} \subseteq here \cup seen
      /\ Cardinality(here) \in Nat /\ Cardinality(seen) \in Nat /\ total \in Nat
  <2>1. IsFiniteSet(Users) /\ here \subseteq Users /\ seen \subseteq Users
    BY DEF VoiceAssumption, UsersInChannel
  <2>2. {u \in Users : members'[u] = 1} \subseteq here \cup seen
    BY <1>2, <1>3 DEF UsersInChannel
  <2> QED BY <2>1, <2>2, FS_Subset, FS_CardinalityType DEF VoiceTypeOK
<1> HIDE DEF here, seen
<1>6. Cardinality({u \in Users : members'[u] = 1}) <= Cardinality(here) + Cardinality(seen)
  <2>1. /\ IsFiniteSet(here \cup seen) /\ IsFiniteSet(here \cap seen)
        /\ Cardinality(here \cup seen) = Cardinality(here) + Cardinality(seen) - Cardinality(here \cap seen)
    BY <1>5, FS_Union, FS_Intersection
  <2>2. Cardinality(here \cap seen) \in Nat /\ Cardinality(here \cup seen) \in Nat
    BY <2>1, FS_CardinalityType
  <2>3. /\ Cardinality({u \in Users : members'[u] = 1}) <= Cardinality(here \cup seen)
        /\ Cardinality({u \in Users : members'[u] = 1}) \in Nat
    BY <1>5, <2>1, FS_Subset, FS_CardinalityType
  <2> QED BY <1>5, <2>1, <2>2, <2>3
<1>7. total >= Cardinality(seen) BY DEF ViewInv, seen
<1>8. total' \in Nat /\ total' >= Cardinality({u \in Users : members'[u] = 1})
  <2>1. Cardinality({u \in Users : members'[u] = 1}) \in Nat
    BY <1>5, FS_Union, FS_Subset, FS_CardinalityType
  <2> QED BY <1>1, <1>5, <1>6, <1>7, <2>1
<1>9. members' \in [Users -> Nat]
  BY <1>1, <1>3 DEF CountOnce, VoiceTypeOK
<1>10. \A u \in Users : members'[u] \in {0, 1} BY <1>3
<1> QED BY <1>1, <1>2, <1>4, <1>8, <1>9, <1>10 DEF ViewInv

\* Every step keeps it.
LEMMA ViewStep == VoiceTypeOK /\ ViewInv /\ [VoiceNext]_voiceVars => ViewInv'
<1> SUFFICES ASSUME VoiceTypeOK, ViewInv, [VoiceNext]_voiceVars PROVE ViewInv'
  OBVIOUS
<1>1. ASSUME UNCHANGED <<mapVars, viewVars, moved, changed>> PROVE ViewInv'
  BY <1>1 DEF mapVars, viewVars, ViewInv, Met
<1>2. CASE \/ \E u \in Users, c \in Channels \cup {NoChannel} : Move(u, c)
           \/ \E c \in Channels : CreateChannel(c) \/ UpdateChannel(c) \/ DeleteChannel(c)
           \/ Identify \/ GuildAvailable \/ GuildOutage \/ Disconnect \/ Resume
           \/ \E g \in Goroutines : Dispatch(g)
           \/ UNCHANGED voiceVars
  BY <1>1, <1>2 DEF Move, CreateChannel, UpdateChannel, DeleteChannel, Identify, GuildAvailable,
                    GuildOutage, Disconnect, Resume, Dispatch, voiceVars
<1>3. ASSUME NEW g \in Goroutines, Handle(g) PROVE ViewInv'
  BY <1>3, ViewHandle
<1>4. CASE Restart \/ ViewEnd
  <2>1. /\ path' = <<>> /\ left' = <<>> /\ viewing' = "no" /\ members' = Nobody /\ total' = 0
        /\ moved' = {} /\ changed' = {}
    BY <1>4 DEF Restart, ViewEnd
  <2>2. \A u \in Users : members'[u] = 0 /\ ~Met(u)' BY <2>1 DEF Nobody, Met
  <2>3. {u \in Users : members'[u] = 1} = {} BY <2>2
  <2>4. Cardinality({u \in Users : members'[u] = 1}) = 0
    <3>1. Cardinality({}) = 0 BY FS_EmptySet
    <3> QED BY <2>3, <3>1, Zenon
  <2> QED BY <2>1, <2>2, <2>4 DEF ViewInv
<1>5. ASSUME NEW p \in Paths, CView(p) PROVE ViewInv'
  <2>1. /\ path' = p /\ left' = p /\ p \in Seq(Channels) /\ Len(p) \in Nat
        /\ viewing' = (IF p = <<>> THEN "done" ELSE "name") /\ viewing = "no"
        /\ UNCHANGED <<userToCh, channels, members, total, moved, changed>>
    BY <1>5, LenProperties DEF CView, VoiceAssumption, mapVars
  <2>2. \A u \in Users : members[u] = 0 BY <2>1 DEF ViewInv, Nobody
  <2>3. \A u \in Users : ~Met(u)' BY <2>1 DEF Met
  <2>4. \A i \in 1 .. Len(p) : Len(p) - Len(p) + i = i BY <2>1
  <2>5. total >= Cardinality({u \in Users : members[u] = 1}) BY DEF ViewInv
  <2> QED BY <2>1, <2>2, <2>3, <2>4, <2>5 DEF ViewInv
<1> QED BY <1>2, <1>3, <1>4, <1>5, ViewNameStep, ViewUsersStep DEF VoiceNext
-----------------------------------------------------------------------------
(* The types *)

\* Every step keeps the type invariant.
LEMMA TypeStep == VoiceTypeOK /\ ViewInv /\ [VoiceNext]_voiceVars => VoiceTypeOK'
<1> SUFFICES ASSUME VoiceTypeOK, ViewInv, [VoiceNext]_voiceVars PROVE VoiceTypeOK'
  OBVIOUS
<1>0. Alive \in SUBSET Channels BY DEF VoiceTypeOK, Alive
<1>1. ASSUME NEW u \in Users, NEW c \in Channels \cup {NoChannel}, Move(u, c) PROVE VoiceTypeOK'
  <2>1. wire' \in Seq(Events) BY <1>1, EventKinds, EmitWire DEF Move
  <2>2. at' \in VoiceMap BY <1>1 DEF Move, VoiceTypeOK, VoiceMap
  <2> QED BY <1>1, <2>1, <2>2 DEF Move, VoiceTypeOK, mapVars, viewVars
<1>2. ASSUME NEW c \in Channels, CreateChannel(c) \/ UpdateChannel(c) PROVE VoiceTypeOK'
  <2>1. wire' \in Seq(Events) BY <1>2, EventKinds, EmitWire DEF CreateChannel, UpdateChannel
  <2>2. made' \in SUBSET Channels /\ gone' \in SUBSET made' /\ at' \in VoiceMap
    BY <1>2 DEF CreateChannel, UpdateChannel, VoiceTypeOK, discordVars
  <2> QED BY <1>2, <2>1, <2>2 DEF CreateChannel, UpdateChannel, VoiceTypeOK, mapVars, viewVars
<1>3. ASSUME NEW c \in Channels, DeleteChannel(c) PROVE VoiceTypeOK'
  <2>1. wire' \in Seq(Events) BY <1>3, EventKinds, EmitWire DEF DeleteChannel
  <2>2. gone' \in SUBSET made' BY <1>3 DEF DeleteChannel, VoiceTypeOK, Alive
  <2> QED BY <1>3, <2>1, <2>2 DEF DeleteChannel, VoiceTypeOK, mapVars, viewVars
<1>4. CASE Identify
  <2>1. wire' \in Seq(Events) BY <1>4, EventKinds DEF Identify
  <2> QED BY <1>4, <2>1 DEF Identify, VoiceTypeOK, discordVars, mapVars, viewVars
<1>5. CASE GuildAvailable
  <2>1. [kind |-> "guild", at |-> at, channels |-> Alive] \in Events
    BY <1>0, EventKinds DEF VoiceTypeOK
  <2>2. wire' \in Seq(Events) BY <1>5, <2>1, AppendProperties DEF GuildAvailable, VoiceTypeOK
  <2> QED BY <1>5, <2>2 DEF GuildAvailable, VoiceTypeOK, discordVars, mapVars, viewVars
<1>6. CASE GuildOutage \/ Disconnect \/ Resume
  BY <1>6 DEF GuildOutage, Disconnect, Resume, VoiceTypeOK, discordVars, mapVars, viewVars
<1>7. ASSUME NEW g \in Goroutines, Dispatch(g) PROVE VoiceTypeOK'
  <2>1. wire' \in Seq(Events) /\ Head(wire) \in Work /\ Head(wire) \in Events
    BY <1>7, DispatchWire, EventKinds
  <2>2. handler' \in [Goroutines -> Work] BY <1>7, <2>1 DEF Dispatch, VoiceTypeOK
  <2>3. mixed' \in SUBSET Users
    BY <1>7, <2>1, EventKinds, WorkShape DEF Dispatch, VoiceTypeOK
  <2> QED BY <1>7, <2>1, <2>2, <2>3 DEF Dispatch, VoiceTypeOK, discordVars, mapVars, viewVars
<1>8. ASSUME NEW g \in Goroutines, Handle(g) PROVE VoiceTypeOK'
  <2>1. /\ UNCHANGED <<discordVars, link, wire, viewVars, mixed>>
        /\ userToCh' \in VoiceMap /\ channels' \in SUBSET Channels
        /\ handler' \in [Goroutines -> Work]
    BY <1>8, HandleEffect
  <2>2. Noted BY <1>8, NotedEffect
  <2>3. moved' \in SUBSET Users /\ changed' \in SUBSET Channels
    BY <2>2 DEF Noted, VoiceTypeOK
  <2> QED BY <2>1, <2>3 DEF VoiceTypeOK, discordVars, viewVars
<1>9. CASE Restart
  BY <1>9, EventKinds, EmptySeq DEF Restart, VoiceTypeOK, discordVars, VoiceMap, Nowhere, Nobody
<1>10. ASSUME NEW p \in Paths, CView(p) PROVE VoiceTypeOK'
  BY <1>10 DEF CView, VoiceTypeOK, VoiceAssumption, discordVars, mapVars
<1>11. CASE ViewName
  <2>1. left # <<>> /\ path' = path BY <1>11 DEF ViewName, ViewInv
  <2>2. left' \in Seq(Channels) /\ viewing' \in {"no", "name", "users", "done"}
    BY <1>11, <2>1, NextIDEffect DEF ViewName, VoiceTypeOK
  <2> QED BY <1>11, <2>2 DEF ViewName, VoiceTypeOK, discordVars, mapVars
<1>12. CASE ViewUsers
  <2>1. left # <<>> /\ path' = path /\ NextID BY <1>12 DEF ViewUsers, ViewInv
  <2>2. left' \in Seq(Channels) /\ viewing' \in {"no", "name", "users", "done"}
    BY <2>1, NextIDEffect
  <2>3. members' \in [Users -> Nat] /\ total' \in Nat BY <1>12, ViewUsersStep
  <2> QED BY <1>12, <2>2, <2>3 DEF ViewUsers, VoiceTypeOK, discordVars, mapVars
<1>13. CASE ViewEnd
  BY <1>13, EmptySeq DEF ViewEnd, VoiceTypeOK, discordVars, mapVars, Nobody
<1>14. CASE UNCHANGED voiceVars
  BY <1>14 DEF voiceVars, VoiceTypeOK, discordVars, mapVars, viewVars
<1> QED BY <1>1, <1>2, <1>3, <1>4, <1>5, <1>6, <1>7, <1>8, <1>9, <1>10, <1>11, <1>12, <1>13,
           <1>14 DEF VoiceNext
-----------------------------------------------------------------------------
(* The theorems *)

\* It holds when the server starts.
LEMMA InitVoice == VoiceInit => VoiceInv
<1> SUFFICES ASSUME VoiceInit PROVE VoiceInv
  OBVIOUS
<1>1. VoiceTypeOK
  BY EventKinds, EmptySeq DEF VoiceInit, VoiceTypeOK, VoiceMap, Nowhere, Nobody
<1>2. \A g \in Goroutines : handler[g].kind = "idle" /\ Concerns(handler[g]) = {}
  BY DEF VoiceInit, Idle, Concerns
<1>3. ~Hearing /\ Waiting = {} BY DEF VoiceInit, Hearing, Waiting
<1>4. NewsInv BY <1>2, <1>3 DEF NewsInv
<1>5. \A u \in Users : at[u] = NoChannel BY DEF VoiceInit, Nowhere
<1>6. ChannelsInv BY <1>2, <1>3, <1>5 DEF ChannelsInv
<1>7. \A u \in Users : members[u] = 0 /\ ~Met(u) BY DEF VoiceInit, Nobody, Met
<1>8. {u \in Users : members[u] = 1} = {} BY <1>7
<1>9. Cardinality({u \in Users : members[u] = 1}) = 0
  <2>1. Cardinality({}) = 0 BY FS_EmptySet
  <2> QED BY <1>8, <2>1, Zenon
<1>10. ViewInv BY <1>7, <1>9 DEF ViewInv, VoiceInit
<1> QED BY <1>1, <1>4, <1>6, <1>10 DEF VoiceInv

\* The inductive invariant holds in every state the bot reaches.
THEOREM VoiceInvariant == VoiceSpec => []VoiceInv
<1>1. VoiceInv /\ [VoiceNext]_voiceVars => VoiceInv'
  BY NewsStep, ChannelsStep, ViewStep, TypeStep DEF VoiceInv
<1> QED BY InitVoice, <1>1, PTL DEF VoiceSpec

\* The maps, the wire and the handlers have their types: in particular the new
\* map that onReady makes from a guild without voice states has every user.
THEOREM VoiceTypes == VoiceSpec => []VoiceTypeOK
<1>1. VoiceInv => VoiceTypeOK BY DEF VoiceInv
<1> QED BY <1>1, VoiceInvariant, PTL

\* When all that was sent is worked off, /c lists every user in the right channel
\* whose last two events were not in handlers at the same time.
THEOREM VoiceListsOrdered == VoiceSpec => []ListsOrdered
<1>1. ASSUME VoiceInv, Quiet, NEW u \in Users \ mixed PROVE ListedRight(u)
  <2>1. /\ Hearing /\ Waiting = {} /\ ~Expected(u)
        /\ \A g \in Goroutines : Concerns(handler[g]) = {}
    BY <1>1 DEF Quiet, Hearing, Waiting, Expected, Concerns, Idle
  <2>2. userToCh[u] = at[u] BY <1>1, <2>1 DEF VoiceInv, NewsInv
  <2>3. \A c \in Channels, g \in Goroutines : ~Brings(handler[g], c)
    BY <1>1 DEF Quiet, Brings, Idle
  <2>4. Alive \subseteq channels
    BY <1>1, <2>1, <2>3 DEF VoiceInv, ChannelsInv, VoiceTypeOK, Alive
  <2>5. at[u] \in Alive \cup {NoChannel} BY <1>1 DEF VoiceInv, ChannelsInv
  <2>6. \A c \in Channels : c # NoChannel BY DEF VoiceAssumption
  <2> QED BY <2>2, <2>4, <2>5, <2>6 DEF ListedRight, ActiveVoiceChannels, UsersInChannel
<1>2. VoiceInv => ListsOrdered BY <1>1 DEF ListsOrdered
<1> QED BY <1>2, VoiceInvariant, PTL

\* /c/<ids> shows nobody twice, and whom the maps had in one of the channels all
\* the time the request ran, whatever the handlers wrote between its steps.
THEOREM VoiceViewHolds == VoiceSpec => []ViewHolds
<1>1. ASSUME VoiceInv, viewing = "done"
      PROVE  /\ \A u \in Users : members[u] <= 1
             /\ \A u \in Users \ moved : userToCh[u] \notin changed =>
                  (members[u] = 1 <=> userToCh[u] \in Range(path) \cap channels)
             /\ total >= Cardinality({u \in Users : members[u] = 1})
  <2>1. left = <<>> /\ Len(left) = 0 BY <1>1, EmptySeq DEF VoiceInv, ViewInv
  <2>2. path \in Seq(Channels) /\ Len(path) \in Nat /\ DOMAIN path = 1 .. Len(path)
    BY <1>1, LenProperties, EmptySeq DEF VoiceInv, VoiceTypeOK, VoiceAssumption
  <2>3. Range(path) = {path[i] : i \in 1 .. Len(path)} BY <2>2 DEF Range
  <2>4. \A u \in Users : Met(u) <=> userToCh[u] \in Range(path) \cap channels
    BY <2>1, <2>2, <2>3 DEF Met
  <2>5. \A u \in Users : members[u] \in {0, 1} BY <1>1 DEF VoiceInv, ViewInv
  <2> QED BY <1>1, <2>4, <2>5 DEF VoiceInv, ViewInv
<1>2. VoiceInv => ViewHolds BY <1>1 DEF ViewHolds
<1> QED BY <1>2, VoiceInvariant, PTL
=============================================================================
