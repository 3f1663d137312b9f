-------------------------- MODULE Viewers_proofs --------------------------
(***************************************************************************)
(* Proofs about Viewers, for every number of sessions and tracks.          *)
(***************************************************************************)
EXTENDS Viewers, TLAPS

Pages == [overlay : {{}, {"offline"}, {"connecting"}}, badge : BOOLEAN, video : Ids,
          playing : BOOLEAN, muted : BOOLEAN, hint : BOOLEAN, there : BOOLEAN,
          stopped : BOOLEAN]
Cells == [live : BOOLEAN, held : Ids, sink : Ids, on : SUBSET Ids, muted : BOOLEAN,
          silent : BOOLEAN, failed : BOOLEAN, there : BOOLEAN,
          stopped : {"no", "own", "other"}]
Views == [conn : {"connecting", "connected", "closed", "failed"}, session : Ids,
          tracks : [Kinds -> SUBSET Ids]]

\* Tracks belong to a session: at LiveKit there is none when the streamer is gone.
Whole(room) == room.session = 0 => room = Away

\* What holds of the page p and of what its SDK knows, v, after every event.  The
\* video element shows a track that is subscribed; a shown track turned the badge on;
\* only the "playing" event tells that it runs, and it uncovers it; and once the
\* connection stood or failed, a page that knows of no streamer does not wait.
PageSees(p, v) ==
  /\ p.video # 0 => p.video \in v.tracks["video"] /\ p.badge
  /\ p.video # 0 /\ p.playing => p.overlay = {}
  /\ v.conn # "connecting" /\ v.session = 0 => ~p.badge /\ p.overlay # {"connecting"}

\* What holds of the cell m while now is the streamer's audio track.  It holds that
\* track once it is subscribed; the element's flag is the button's; unmuted, the
\* element has the track that is held, and it is not that one's end that stopped it;
\* and while the connection stands it is live only if the SDK knows of a streamer.
CellSees(m, v, now) ==
  /\ m.held # 0 => m.held \in v.tracks["audio"]
  /\ now \in v.tracks["audio"] => m.held = now
  /\ m.silent = m.muted
  /\ ~m.muted /\ m.held # 0 => m.sink = m.held /\ m.stopped # "own"
  /\ m.live => v.conn # "connecting" /\ (v.conn = "connected" => v.session # 0)

\* What an SDK knows, n ids being given out.
ViewOK(v, n) ==
  /\ v \in Views
  /\ v.session = 0 => v.tracks = NoTracks
  /\ v.conn # "connected" => v.session = 0
  /\ \A k \in Kinds : \A id \in v.tracks[k] : 0 < id /\ id <= n

ViewersInv ==
  /\ made \in Ids
  /\ stream \in Streams /\ Whole(stream)
  /\ \A k \in Kinds : stream[k] <= made
  /\ page \in Pages /\ cell \in Cells
  /\ seen \in [Clients -> Views]
  /\ \A c \in Clients : ViewOK(seen[c], made)
  /\ PageSees(page, seen["page"])
  /\ CellSees(cell, seen["cell"], stream.audio)

-----------------------------------------------------------------------------
(* The handlers, each as a step from what the SDK knew to what it knows.   *)

LEMMA NumbersAreIds == MaxIds \in Nat /\ 0 \in Ids /\ Ids \subseteq Nat
BY ViewersAssumption DEF Ids

\* A track of a known session is attached: what the page shows is what is known.
LEMMA PageTakesTrack ==
  ASSUME NEW p \in Pages, NEW k \in Kinds, NEW id \in Ids, id # 0
  PROVE  /\ PageSubscribed(p, k, id) \in Pages
         /\ k = "video" => /\ PageSubscribed(p, k, id).video = id
                           /\ PageSubscribed(p, k, id).badge
                           /\ ~PageSubscribed(p, k, id).playing
         /\ k = "audio" => /\ PageSubscribed(p, k, id).video = p.video
                           /\ PageSubscribed(p, k, id).badge = p.badge
                           /\ PageSubscribed(p, k, id).playing = p.playing
                           /\ PageSubscribed(p, k, id).overlay = p.overlay
<1>1. CASE k = "video"
  BY <1>1 DEF PageSubscribed, hideOverlay, Pages
<1>2. CASE k = "audio"
  BY <1>2 DEF PageSubscribed, hideOverlay, Pages
<1>3. QED BY <1>1, <1>2 DEF Kinds

LEMMA PageLosesTracks ==
  ASSUME NEW p \in Pages, NEW gone \in SUBSET Ids, 0 \notin gone
  PROVE  /\ PageUnsubscribed(p, gone) \in Pages
         /\ PageUnsubscribed(p, gone).video = (IF p.video \in gone THEN 0 ELSE p.video)
         /\ PageUnsubscribed(p, gone).badge = p.badge
         /\ PageUnsubscribed(p, gone).overlay = p.overlay
         /\ PageUnsubscribed(p, gone).playing => p.playing
<1>1. CASE gone = {}
  BY <1>1 DEF PageUnsubscribed
<1>2. CASE gone # {}
  BY <1>2, NumbersAreIds DEF PageUnsubscribed, Pages
<1>3. QED BY <1>1, <1>2

LEMMA CellTakesTrack ==
  ASSUME NEW m \in Cells, NEW k \in Kinds, NEW id \in Ids, id # 0, m.silent = m.muted
  PROVE  /\ CellSubscribed(m, k, id) \in Cells
         /\ CellSubscribed(m, k, id).silent = CellSubscribed(m, k, id).muted
         /\ k = "audio" =>
              /\ CellSubscribed(m, k, id).held = id
              /\ CellSubscribed(m, k, id).live = m.live
              /\ ~CellSubscribed(m, k, id).muted =>
                   CellSubscribed(m, k, id).sink = id /\ CellSubscribed(m, k, id).stopped = "no"
         /\ k = "video" => CellSubscribed(m, k, id) = [m EXCEPT !.live = TRUE]
<1>1. CASE k = "video"
  BY <1>1 DEF CellSubscribed, Cells
<1>2. CASE k = "audio" /\ m.muted
  BY <1>2 DEF CellSubscribed, Cells
<1>3. CASE k = "audio" /\ ~m.muted
  BY <1>3 DEF CellSubscribed, Sounding, Cells
<1>4. QED BY <1>1, <1>2, <1>3 DEF Kinds

LEMMA CellLosesTracks ==
  ASSUME NEW m \in Cells, NEW gone \in SUBSET Ids, 0 \notin gone
  PROVE  /\ CellUnsubscribed(m, gone) \in Cells
         /\ CellUnsubscribed(m, gone).held = (IF m.held \in gone THEN 0 ELSE m.held)
         /\ CellUnsubscribed(m, gone).sink = (IF m.sink \in gone THEN 0 ELSE m.sink)
         /\ CellUnsubscribed(m, gone).muted = m.muted
         /\ CellUnsubscribed(m, gone).silent = m.silent
         /\ CellUnsubscribed(m, gone).live = m.live
         /\ m.sink \notin gone /\ m.stopped # "own" => CellUnsubscribed(m, gone).stopped # "own"
<1>1. CASE m.on \cap gone = {} \/ ~m.there
  BY <1>1, NumbersAreIds DEF CellUnsubscribed, Cells
<1>2. CASE ~(m.on \cap gone = {} \/ ~m.there)
  BY <1>2, NumbersAreIds DEF CellUnsubscribed, Cells
<1>3. QED BY <1>1, <1>2

-----------------------------------------------------------------------------
(* The steps.                                                              *)

LEMMA ViewersInitially == ViewersInit => ViewersInv
<1> SUFFICES ASSUME ViewersInit PROVE ViewersInv OBVIOUS
<1>1. stream = Away /\ made = 0 /\ Away \in Streams /\ Whole(Away)
  BY NumbersAreIds DEF ViewersInit, Away, Streams, Whole
<1>2. \A k \in Kinds : stream[k] <= made
  BY <1>1 DEF Away, Kinds
<1>3. NoTracks \in [Kinds -> SUBSET Ids] /\ \A k \in Kinds : NoTracks[k] = {}
  BY DEF NoTracks
<1>4. \A c \in Clients : seen[c] = [conn |-> "connecting", session |-> 0, tracks |-> NoTracks]
  BY DEF ViewersInit
<1>5. seen \in [Clients -> Views]
  BY <1>3, <1>4, NumbersAreIds DEF ViewersInit, Views
<1>6. \A c \in Clients : ViewOK(seen[c], made)
  BY <1>3, <1>4, <1>5 DEF ViewOK
<1>7. page \in Pages /\ page.video = 0
  <2>1. PICK live \in BOOLEAN :
          page = [overlay |-> {IF live THEN "connecting" ELSE "offline"}, badge |-> live,
                  video |-> 0, playing |-> FALSE, muted |-> TRUE, hint |-> FALSE,
                  there |-> TRUE, stopped |-> FALSE]
    BY DEF ViewersInit
  <2>2. CASE live
    BY <2>1, <2>2, NumbersAreIds DEF Pages
  <2>3. CASE ~live
    BY <2>1, <2>3, NumbersAreIds DEF Pages
  <2>4. QED BY <2>2, <2>3
<1>8. cell \in Cells
  BY NumbersAreIds DEF ViewersInit, Cells
<1>9. PageSees(page, seen["page"])
  BY <1>4, <1>7 DEF PageSees, Clients
<1>10. CellSees(cell, seen["cell"], stream.audio)
  BY <1>3, <1>4 DEF ViewersInit, CellSees, Clients, Kinds
<1>11. QED BY <1>1, <1>2, <1>5, <1>6, <1>7, <1>8, <1>9, <1>10, NumbersAreIds DEF ViewersInv

\* What the streamer does changes nothing a client knows; a track it publishes is
\* none that a client has.
LEMMA StreamerKeepsInv ==
  ASSUME ViewersInv, StreamStep, made' \in Ids, stream' \in Streams, Whole(stream'),
         made <= made', \A k \in Kinds : stream'[k] <= made',
         stream'.audio \in {0, stream.audio, made + 1}
  PROVE  ViewersInv'
<1>1. made \in Nat /\ made' \in Nat
  BY NumbersAreIds DEF ViewersInv
<1>2. seen' = seen /\ page' = page /\ cell' = cell
  BY DEF StreamStep
<1>3. \A c \in Clients : ViewOK(seen[c], made')
  <2>1. ASSUME NEW c \in Clients, NEW k \in Kinds, NEW id \in seen[c].tracks[k]
        PROVE  0 < id /\ id <= made'
    <3>1. id \in Nat /\ 0 < id /\ id <= made
      BY NumbersAreIds DEF ViewersInv, ViewOK, Views
    <3>2. QED BY <1>1, <3>1
  <2>2. QED BY <2>1 DEF ViewersInv, ViewOK
<1>4. 0 \notin seen["cell"].tracks["audio"] /\ made + 1 \notin seen["cell"].tracks["audio"]
  <2>1. \A id \in seen["cell"].tracks["audio"] : 0 < id /\ id <= made
    BY DEF ViewersInv, ViewOK, Clients, Kinds
  <2>2. QED BY <1>1, <2>1
<1>5. CellSees(cell, seen["cell"], stream'.audio)
  BY <1>4 DEF ViewersInv, CellSees
<1>6. QED BY <1>2, <1>3, <1>5 DEF ViewersInv

LEMMA StreamerSteps ==
  ASSUME ViewersInv, NEW k \in Kinds,
         Join \/ Leave \/ PublishTrack(k) \/ UnpublishTrack(k)
  PROVE  ViewersInv'
<1>1. made \in Nat /\ 0 \in Ids /\ (made < MaxIds => made + 1 \in Ids)
  BY ViewersAssumption DEF ViewersInv, Ids
<1>2. stream \in Streams /\ Whole(stream) /\ made \in Ids
      /\ (\A j \in Kinds : stream[j] <= made) /\ Kinds = {"video", "audio"}
      /\ (\A j \in Kinds : stream[j] \in Nat)
  BY NumbersAreIds DEF ViewersInv, Kinds, Streams
<1>3. CASE Join
  <2>1. made' = made + 1 /\ stream' = [stream EXCEPT !.session = made'] /\ StreamStep
        /\ made' \in Ids /\ made' # 0
    BY <1>1, <1>3 DEF Join
  <2>2. stream' \in Streams /\ Whole(stream') /\ stream'.audio = stream.audio
        /\ stream'.video = stream.video
    BY <1>2, <2>1 DEF Streams, Whole
  <2>3. stream.video \in Nat /\ stream.audio \in Nat /\ stream.video <= made /\ stream.audio <= made
    BY <1>2
  <2>4. stream'.video <= made' /\ stream'.audio <= made' /\ made <= made'
    BY <1>1, <2>1, <2>2, <2>3
  <2>5. \A j \in Kinds : stream'[j] <= made'
    BY <1>2, <2>4
  <2>6. QED BY <2>1, <2>2, <2>4, <2>5, StreamerKeepsInv
<1>4. CASE Leave
  <2>1. stream' \in Streams /\ Whole(stream') /\ made' = made /\ StreamStep
        /\ stream'.audio = 0 /\ stream'.video = 0
    BY <1>1, <1>4 DEF Leave, Away, Streams, Whole
  <2>2. \A j \in Kinds : stream'[j] <= made'
    BY <1>1, <1>2, <2>1
  <2>3. QED BY <1>1, <1>2, <2>1, <2>2, StreamerKeepsInv
<1>5. CASE PublishTrack(k)
  <2>1. made' = made + 1 /\ made' \in Ids /\ stream' = [stream EXCEPT ![k] = made'] /\ StreamStep
        /\ stream.session # 0
    BY <1>1, <1>5 DEF PublishTrack
  <2>2. stream' \in Streams /\ stream'.session = stream.session
    BY <1>2, <2>1 DEF Streams
  <2>3. (\A j \in Kinds : stream'[j] <= made') /\ stream'.audio \in {stream.audio, made'}
    BY <1>1, <1>2, <2>1 DEF Streams
  <2>4. QED BY <1>1, <2>1, <2>2, <2>3, StreamerKeepsInv DEF Whole
<1>6. CASE UnpublishTrack(k)
  <2>1. made' = made /\ stream' = [stream EXCEPT ![k] = 0] /\ StreamStep /\ stream[k] # 0
    BY <1>2, <1>6 DEF UnpublishTrack
  <2>2. stream' \in Streams /\ stream'.session = stream.session
    BY <1>1, <1>2, <2>1 DEF Streams
  <2>3. stream.session # 0
    BY <1>2, <2>1 DEF Whole, Away
  <2>4. (\A j \in Kinds : stream'[j] <= made') /\ stream'.audio \in {stream.audio, 0}
    BY <1>1, <1>2, <2>1 DEF Streams
  <2>5. QED BY <1>1, <1>2, <2>1, <2>2, <2>3, <2>4, StreamerKeepsInv DEF Whole
<1>7. QED BY <1>3, <1>4, <1>5, <1>6

\* An event of client c: it is enough that what c shows fits what c knows now.
LEMMA EventKeepsInv ==
  ASSUME ViewersInv, NEW c \in Clients, NEW v, NEW p, NEW m, ViewOK(v, made),
         seen' = [seen EXCEPT ![c] = v], Handled(c, p, m),
         c = "page" => p \in Pages /\ PageSees(p, v),
         c = "cell" => m \in Cells /\ CellSees(m, v, stream.audio)
  PROVE  ViewersInv'
<1>1. made' = made /\ stream' = stream
  BY DEF Handled
<1>2. seen' \in [Clients -> Views] /\ \A d \in Clients : ViewOK(seen'[d], made)
  BY DEF ViewersInv, ViewOK
<1>3. "page" \in Clients /\ "cell" \in Clients /\ (c = "page" \/ c = "cell")
  BY DEF Clients
<1>4. page' \in Pages /\ PageSees(page', seen'["page"])
  BY <1>3 DEF ViewersInv, Handled
<1>5. cell' \in Cells /\ CellSees(cell', seen'["cell"], stream.audio)
  BY <1>3 DEF ViewersInv, Handled
<1>6. QED BY <1>1, <1>2, <1>4, <1>5 DEF ViewersInv

\* What the viewer does changes nothing the SDK knows.
LEMMA LocalKeepsInv ==
  ASSUME ViewersInv, LocalStep, page' \in Pages, cell' \in Cells,
         PageSees(page', seen["page"]), CellSees(cell', seen["cell"], stream.audio)
  PROVE  ViewersInv'
BY DEF ViewersInv, LocalStep

LEMMA ViewerSteps ==
  ASSUME ViewersInv, Playing \/ DismissOverlay \/ Unmute \/ ToggleMute
  PROVE  ViewersInv'
<1>1. page \in Pages /\ cell \in Cells /\ PageSees(page, seen["page"])
      /\ CellSees(cell, seen["cell"], stream.audio)
  BY DEF ViewersInv
<1>2. CASE Playing
  BY <1>1, <1>2, LocalKeepsInv DEF Playing, hideOverlay, Pages, PageSees
<1>3. CASE DismissOverlay
  BY <1>1, <1>3, LocalKeepsInv DEF DismissOverlay, hideOverlay, Pages, PageSees
<1>4. CASE Unmute
  BY <1>1, <1>4, LocalKeepsInv DEF Unmute, Pages, PageSees
<1>5. CASE ToggleMute
  <2>1. cell' \in Cells /\ CellSees(cell', seen["cell"], stream.audio)
    <3>1. CASE cell.muted /\ cell.held # 0
      BY <1>1, <1>5, <3>1 DEF ToggleMute, CellToggled, Sounding, Cells, CellSees
    <3>2. CASE cell.muted /\ cell.held = 0
      BY <1>1, <1>5, <3>2 DEF ToggleMute, CellToggled, Cells, CellSees
    <3>3. CASE ~cell.muted
      BY <1>1, <1>5, <3>3, NumbersAreIds DEF ToggleMute, CellToggled, Cells, CellSees
    <3>4. QED BY <3>1, <3>2, <3>3
  <2>2. QED BY <1>1, <1>5, <2>1, LocalKeepsInv DEF ToggleMute
<1>6. QED BY <1>2, <1>3, <1>4, <1>5

-----------------------------------------------------------------------------
(* The events of the SDK.                                                  *)

\* What the SDK of a client knows before an event.
LEMMA KnownNow ==
  ASSUME ViewersInv, NEW c \in Clients
  PROVE  /\ seen[c] \in Views /\ ViewOK(seen[c], made)
         /\ \A k \in Kinds : Tracks(c, k) \in SUBSET Ids /\ 0 \notin Tracks(c, k)
         /\ stream \in Streams /\ Whole(stream) /\ page \in Pages /\ cell \in Cells
         /\ \A k \in Kinds : stream[k] \in Ids /\ stream[k] <= made
         /\ c = "page" => PageSees(page, seen[c])
         /\ c = "cell" => CellSees(cell, seen[c], stream.audio)
<1>1. seen[c] \in Views /\ ViewOK(seen[c], made)
  BY DEF ViewersInv
<1>2. \A k \in Kinds : Tracks(c, k) \in SUBSET Ids
  BY <1>1 DEF Views, Tracks
<1>3. \A k \in Kinds : 0 \notin Tracks(c, k)
  BY <1>1 DEF ViewOK, Tracks
<1>4. \A k \in Kinds : stream[k] \in Ids /\ stream[k] <= made
  BY DEF ViewersInv, Streams, Kinds
<1>5. QED BY <1>1, <1>2, <1>3, <1>4 DEF ViewersInv

LEMMA TrackSubscribedKeeps ==
  ASSUME ViewersInv, NEW c \in Clients, NEW k \in Kinds, TrackSubscribed(c, k)
  PROVE  ViewersInv'
<1> DEFINE ids == Tracks(c, k) \cup {stream[k]}
           v == [seen[c] EXCEPT !.tracks[k] = ids]
<1>1. stream[k] \in Ids /\ stream[k] # 0 /\ 0 < stream[k] /\ stream[k] <= made
      /\ seen[c].conn = "connected" /\ seen[c].session = stream.session
  <2>1. stream[k] \in Ids /\ stream[k] # 0 /\ stream[k] <= made
        /\ seen[c].conn = "connected" /\ seen[c].session = stream.session
    BY KnownNow DEF TrackSubscribed, Connected
  <2>2. \A i \in Ids : i # 0 => 0 < i
    BY ViewersAssumption DEF Ids
  <2>3. QED BY <2>1, <2>2
<1>2. seen[c].session # 0
  <2>1. Away["video"] = 0 /\ Away["audio"] = 0
    BY DEF Away
  <2>2. stream = Away => stream[k] = 0
    BY <2>1 DEF Kinds
  <2>3. QED BY KnownNow, <1>1, <2>2 DEF Whole
<1>3. seen' = [seen EXCEPT ![c] = v]
  BY DEF TrackSubscribed, KnowsTracks
<1>4. /\ v \in Views /\ v.conn = "connected" /\ v.session = seen[c].session
      /\ v.tracks[k] = ids /\ \A j \in Kinds : j # k => v.tracks[j] = seen[c].tracks[j]
  BY KnownNow, <1>1 DEF Views
<1> HIDE DEF v
<1>5. ViewOK(v, made)
  BY KnownNow, <1>1, <1>2, <1>4 DEF ViewOK, Tracks
<1>6. ASSUME c = "page"
      PROVE  /\ PageSubscribed(page, k, stream[k]) \in Pages
             /\ PageSees(PageSubscribed(page, k, stream[k]), v)
  <2>1. page \in Pages /\ PageSees(page, seen[c]) /\ PageSubscribed(page, k, stream[k]) \in Pages
    BY KnownNow, PageTakesTrack, <1>1, <1>6
  <2>2. CASE k = "video"
    BY <1>1, <1>2, <1>4, <2>1, <2>2, PageTakesTrack DEF PageSees
  <2>3. CASE k = "audio"
    BY <1>1, <1>2, <1>4, <2>1, <2>3, PageTakesTrack DEF PageSees, Kinds
  <2>4. QED BY <2>1, <2>2, <2>3 DEF Kinds
<1>7. ASSUME c = "cell"
      PROVE  /\ CellSubscribed(cell, k, stream[k]) \in Cells
             /\ CellSees(CellSubscribed(cell, k, stream[k]), v, stream.audio)
  <2>1. cell \in Cells /\ CellSees(cell, seen[c], stream.audio)
    BY KnownNow, <1>7
  <2>2. CellSubscribed(cell, k, stream[k]) \in Cells
    BY CellTakesTrack, <1>1, <2>1 DEF CellSees
  <2>3. CASE k = "video"
    <3>1. CellSubscribed(cell, k, stream[k]) = [cell EXCEPT !.live = TRUE]
      BY <2>3 DEF CellSubscribed
    <3>2. v.tracks["audio"] = seen[c].tracks["audio"]
      BY <1>4, <2>3 DEF Kinds
    <3>3. QED BY <1>1, <1>2, <1>4, <2>1, <2>2, <3>1, <3>2 DEF CellSees, Cells
  <2>4. CASE k = "audio"
    <3> DEFINE n == CellSubscribed(cell, k, stream[k])
    <3>1. n.held = stream.audio /\ n.live = cell.live /\ n.silent = n.muted
          /\ (~n.muted => n.sink = stream.audio /\ n.stopped = "no")
      BY <1>1, <2>1, <2>4, CellTakesTrack DEF CellSees
    <3>2. stream.audio \in v.tracks["audio"]
      BY <1>4, <2>4
    <3> HIDE DEF n
    <3>3. CellSees(n, v, stream.audio)
      BY <1>1, <1>2, <1>4, <2>1, <3>1, <3>2 DEF CellSees
    <3>4. QED BY <2>2, <3>3 DEF n
  <2>5. QED BY <2>2, <2>3, <2>4 DEF Kinds
<1>8. Handled(c, PageSubscribed(page, k, stream[k]), CellSubscribed(cell, k, stream[k]))
  BY DEF TrackSubscribed
<1>9. QED BY <1>3, <1>5, <1>6, <1>7, <1>8, EventKeepsInv

LEMMA TrackUnsubscribedKeeps ==
  ASSUME ViewersInv, NEW c \in Clients, NEW k \in Kinds, NEW id \in Ids,
         TrackUnsubscribed(c, k, id)
  PROVE  ViewersInv'
<1> DEFINE ids == Tracks(c, k) \ {id}
           v == [seen[c] EXCEPT !.tracks[k] = ids]
           gone == IF k = "audio" THEN {id} ELSE {}
<1>1. id \in Tracks(c, k) /\ id # stream[k] /\ id # 0 /\ seen[c].conn = "connected"
  BY KnownNow DEF TrackUnsubscribed, Connected
<1>2. seen[c].session # 0
  BY KnownNow, <1>1 DEF ViewOK, Tracks, NoTracks
<1>3. seen' = [seen EXCEPT ![c] = v]
  BY DEF TrackUnsubscribed, KnowsTracks
<1>4. /\ v \in Views /\ v.conn = "connected" /\ v.session = seen[c].session
      /\ v.tracks[k] = ids /\ \A j \in Kinds : j # k => v.tracks[j] = seen[c].tracks[j]
  BY KnownNow, <1>1 DEF Views
<1> HIDE DEF v
<1>5. ViewOK(v, made)
  BY KnownNow, <1>1, <1>2, <1>4 DEF ViewOK, Tracks
<1>6. ASSUME NEW j \in Kinds, NEW i \in seen[c].tracks[j], i # id PROVE i \in v.tracks[j]
  BY <1>4, <1>6 DEF Tracks
<1>7. ASSUME c = "page"
      PROVE  PageUnsubscribed(page, {id}) \in Pages /\ PageSees(PageUnsubscribed(page, {id}), v)
  <2>1. page \in Pages /\ PageSees(page, seen[c])
    BY KnownNow, <1>7
  <2> DEFINE p == PageUnsubscribed(page, {id})
  <2>2. p \in Pages /\ p.video = (IF page.video = id THEN 0 ELSE page.video)
        /\ p.badge = page.badge /\ p.overlay = page.overlay /\ (p.playing => page.playing)
    BY PageLosesTracks, <1>1, <2>1
  <2> HIDE DEF p
  <2>3. PageSees(p, v)
    BY <1>1, <1>2, <1>4, <1>6, <2>1, <2>2 DEF PageSees, Kinds
  <2>4. QED BY <2>2, <2>3 DEF p
<1>8. ASSUME c = "cell"
      PROVE  /\ CellUnsubscribed(cell, gone) \in Cells
             /\ CellSees(CellUnsubscribed(cell, gone), v, stream.audio)
  <2>1. cell \in Cells /\ CellSees(cell, seen[c], stream.audio)
    BY KnownNow, <1>8
  <2>2. gone \in SUBSET Ids /\ 0 \notin gone /\ stream.audio \notin gone
        /\ v.tracks["audio"] = seen[c].tracks["audio"] \ gone
    <3>1. CASE k = "audio"
      BY <1>1, <1>4, <3>1 DEF Tracks
    <3>2. CASE k = "video"
      BY <1>4, <3>2 DEF Kinds
    <3>3. QED BY <3>1, <3>2 DEF Kinds
  <2> DEFINE m == CellUnsubscribed(cell, gone)
  <2> HIDE DEF gone
  <2>3. m \in Cells /\ m.held = (IF cell.held \in gone THEN 0 ELSE cell.held)
        /\ m.sink = (IF cell.sink \in gone THEN 0 ELSE cell.sink)
        /\ m.muted = cell.muted /\ m.silent = cell.silent /\ m.live = cell.live
        /\ (cell.sink \notin gone /\ cell.stopped # "own" => m.stopped # "own")
    BY CellLosesTracks, <2>1, <2>2
  <2> HIDE DEF m
  <2>4. CellSees(m, v, stream.audio)
    BY <1>2, <1>4, <2>1, <2>2, <2>3 DEF CellSees
  <2>5. QED BY <2>3, <2>4 DEF m
<1>9. Handled(c, PageUnsubscribed(page, {id}), CellUnsubscribed(cell, gone))
  BY DEF TrackUnsubscribed
<1>10. QED BY <1>3, <1>5, <1>7, <1>8, <1>9, EventKeepsInv

LEMMA ParticipantConnectedKeeps ==
  ASSUME ViewersInv, NEW c \in Clients, ParticipantConnected(c)
  PROVE  ViewersInv'
<1> DEFINE v == [seen[c] EXCEPT !.session = stream.session]
<1>1. stream.session \in Ids /\ stream.session # 0 /\ seen[c].conn = "connected"
      /\ seen[c].session = 0 /\ seen[c].tracks = NoTracks
  BY KnownNow DEF ParticipantConnected, Connected, Streams, ViewOK
<1>2. v \in Views /\ v.conn = "connected" /\ v.session # 0 /\ v.tracks = seen[c].tracks
      /\ seen' = [seen EXCEPT ![c] = v]
  BY KnownNow, <1>1 DEF ParticipantConnected, Views
<1> HIDE DEF v
<1>3. ViewOK(v, made)
  BY KnownNow, <1>2 DEF ViewOK
<1>4. c = "page" => showConnecting(page) \in Pages /\ PageSees(showConnecting(page), v)
  BY KnownNow, <1>1, <1>2 DEF showConnecting, Pages, PageSees, NoTracks, Kinds
<1>5. c = "cell" => CellSees(cell, v, stream.audio)
  BY KnownNow, <1>1, <1>2 DEF CellSees
<1>6. QED BY <1>2, <1>3, <1>4, <1>5, KnownNow, EventKeepsInv DEF ParticipantConnected

LEMMA ParticipantDisconnectedKeeps ==
  ASSUME ViewersInv, NEW c \in Clients, ParticipantDisconnected(c)
  PROVE  ViewersInv'
<1> DEFINE v == [seen[c] EXCEPT !.session = 0]
           m == [cell EXCEPT !.live = FALSE]
<1>1. seen[c].conn = "connected" /\ \A k \in Kinds : seen[c].tracks[k] = {}
  BY DEF ParticipantDisconnected, Connected, Tracks
<1>2. seen[c].tracks = NoTracks
  BY KnownNow, <1>1 DEF Views, NoTracks
<1>3. v \in Views /\ v.conn = "connected" /\ v.session = 0 /\ v.tracks = seen[c].tracks
      /\ seen' = [seen EXCEPT ![c] = v]
  BY KnownNow, NumbersAreIds, <1>1 DEF ParticipantDisconnected, Views
<1> HIDE DEF v
<1>4. ViewOK(v, made)
  BY KnownNow, <1>2, <1>3 DEF ViewOK
<1>5. c = "page" => showOffline(page) \in Pages /\ PageSees(showOffline(page), v)
  BY KnownNow, <1>1, <1>3 DEF showOffline, Pages, PageSees, Kinds
<1>6. c = "cell" => m \in Cells /\ CellSees(m, v, stream.audio)
  BY KnownNow, <1>1, <1>3 DEF Cells, CellSees, Kinds
<1>7. Handled(c, showOffline(page), m)
  BY DEF ParticipantDisconnected
<1> HIDE DEF m
<1>8. QED BY <1>3, <1>4, <1>5, <1>6, <1>7, EventKeepsInv

LEMMA ConnectFailsKeeps ==
  ASSUME ViewersInv, NEW c \in Clients, ConnectFails(c)
  PROVE  ViewersInv'
<1> DEFINE v == [seen[c] EXCEPT !.conn = "failed"]
           m == [cell EXCEPT !.failed = TRUE]
<1>1. seen[c].conn = "connecting" /\ seen[c].session = 0 /\ seen[c].tracks = NoTracks
  BY KnownNow DEF ConnectFails, ViewOK
<1>2. v \in Views /\ v.conn = "failed" /\ v.session = 0 /\ v.tracks = NoTracks
      /\ seen' = [seen EXCEPT ![c] = v]
  BY KnownNow, <1>1 DEF ConnectFails, Views
<1> HIDE DEF v
<1>3. ViewOK(v, made)
  BY <1>2 DEF ViewOK, NoTracks
<1>4. c = "page" => showOffline(page) \in Pages /\ PageSees(showOffline(page), v)
  BY KnownNow, <1>1, <1>2 DEF showOffline, Pages, PageSees, NoTracks, Kinds
<1>5. c = "cell" => m \in Cells /\ CellSees(m, v, stream.audio)
  BY KnownNow, <1>1, <1>2 DEF Cells, CellSees
<1>6. Handled(c, showOffline(page), m)
  BY DEF ConnectFails
<1> HIDE DEF m
<1>7. QED BY <1>2, <1>3, <1>4, <1>5, <1>6, EventKeepsInv

\* The connection stands: the tracks that are subscribed at once, then the answer of
\* connect(), which may cover a picture but one that is not running yet.
LEMMA ConnectKeeps ==
  ASSUME ViewersInv, NEW c \in Clients, NEW early \in SUBSET Kinds, Connect(c, early)
  PROVE  ViewersInv'
<1> DEFINE Now(k) == k \in early /\ stream[k] # 0
           tracks == [k \in Kinds |-> IF Now(k) THEN {stream[k]} ELSE {}]
           v == [conn |-> "connected", session |-> stream.session, tracks |-> tracks]
           p1 == IF Now("video") THEN PageSubscribed(page, "video", stream["video"]) ELSE page
           p2 == IF Now("audio") THEN PageSubscribed(p1, "audio", stream["audio"]) ELSE p1
           p3 == PageConnected(p2, stream.session # 0)
           m1 == IF Now("video") THEN CellSubscribed(cell, "video", stream["video"]) ELSE cell
           m2 == IF Now("audio") THEN CellSubscribed(m1, "audio", stream["audio"]) ELSE m1
<1>1. seen[c].conn = "connecting" /\ seen[c].session = 0 /\ seen[c].tracks = NoTracks
      /\ NoTracks["video"] = {} /\ NoTracks["audio"] = {}
  BY KnownNow DEF Connect, ViewOK, NoTracks, Kinds
<1>2. "video" \in Kinds /\ "audio" \in Kinds /\ stream.session \in Ids
      /\ stream["video"] \in Ids /\ stream["audio"] \in Ids
  BY KnownNow DEF Kinds, Streams
<1>3. tracks \in [Kinds -> SUBSET Ids]
  BY KnownNow
<1>4. v \in Views /\ v.tracks = tracks /\ v.conn = "connected" /\ v.session = stream.session
      /\ seen' = [seen EXCEPT ![c] = v]
  BY <1>2, <1>3 DEF Connect, Views
<1>5. tracks["video"] = (IF Now("video") THEN {stream["video"]} ELSE {})
      /\ tracks["audio"] = (IF Now("audio") THEN {stream["audio"]} ELSE {})
  BY <1>2
<1>6. stream.session = 0 => ~Now("video") /\ ~Now("audio") /\ tracks = NoTracks
  BY KnownNow DEF Whole, Away, Kinds, NoTracks
<1>7. ViewOK(v, made)
  <2>1. ASSUME NEW k \in Kinds, NEW id \in tracks[k] PROVE 0 < id /\ id <= made
    <3>1. Now(k) /\ id = stream[k]
      BY DEF tracks
    <3>2. id \in Ids /\ id # 0 /\ id <= made
      BY <3>1, KnownNow
    <3>3. QED BY <3>2, NumbersAreIds
  <2>2. QED BY <1>4, <1>6, <2>1 DEF ViewOK
<1>8. Handled(c, p3, m2)
  BY DEF Connect
<1> HIDE DEF tracks, v
<1>9. ASSUME c = "page" PROVE p3 \in Pages /\ PageSees(p3, v)
  <2>1. page \in Pages /\ page.video = 0
    BY KnownNow, <1>1, <1>9 DEF PageSees
  <2>2. CASE stream.session = 0
    <3>1. p3 = showOffline(page)
      BY <1>6, <2>2 DEF PageConnected
    <3>2. QED BY <1>4, <2>1, <3>1 DEF showOffline, Pages, PageSees
  <2>3. CASE stream.session # 0
    <3>1. p1 \in Pages
          /\ (p1.video # 0 => p1.video \in tracks["video"] /\ p1.badge /\ ~p1.playing)
      BY <1>2, <1>5, <2>1, PageTakesTrack
    <3> HIDE DEF p1
    <3>2. p2 \in Pages
          /\ (p2.video # 0 => p2.video \in tracks["video"] /\ p2.badge /\ ~p2.playing)
      BY <1>2, <1>5, <3>1, PageTakesTrack
    <3>3. p3 = showConnecting(p2)
      BY <2>3 DEF PageConnected
    <3> HIDE DEF p2, p3
    <3>4. QED BY <1>4, <2>3, <3>2, <3>3 DEF showConnecting, Pages, PageSees
  <2>4. QED BY <2>2, <2>3
<1>10. ASSUME c = "cell" PROVE m2 \in Cells /\ CellSees(m2, v, stream.audio)
  <2>1. cell \in Cells /\ cell.held = 0 /\ ~cell.live /\ cell.silent = cell.muted
    BY KnownNow, <1>1, <1>10 DEF CellSees
  <2>2. m1 \in Cells /\ m1.held = 0 /\ m1.silent = m1.muted /\ (m1.live => stream.session # 0)
    <3>1. CASE Now("video")
      <4>1. m1 = [cell EXCEPT !.live = TRUE]
        BY <3>1 DEF CellSubscribed
      <4>2. stream.session # 0
        BY <1>6, <3>1
      <4>3. QED BY <2>1, <4>1, <4>2 DEF Cells
    <3>2. CASE ~Now("video")
      BY <2>1, <3>2
    <3>3. QED BY <3>1, <3>2
  <2> HIDE DEF m1
  <2>3. CASE Now("audio")
    <3>1. m2 \in Cells /\ m2.held = stream.audio /\ m2.silent = m2.muted /\ m2.live = m1.live
          /\ (~m2.muted => m2.sink = stream.audio /\ m2.stopped = "no")
      BY <1>2, <2>2, <2>3, CellTakesTrack
    <3> HIDE DEF m2
    <3>2. QED BY <1>4, <1>5, <2>2, <2>3, <3>1 DEF CellSees
  <2>4. CASE ~Now("audio")
    <3>1. m2 = m1
      BY <2>4
    <3> HIDE DEF m2
    <3>2. QED BY <1>4, <1>5, <2>2, <2>4, <3>1 DEF CellSees
  <2>5. QED BY <2>3, <2>4
<1> HIDE DEF p1, p2, p3, m1, m2
<1>11. QED BY <1>4, <1>7, <1>8, <1>9, <1>10, EventKeepsInv

\* The connection ends: the tracks go, and the page says so.
LEMMA DisconnectedKeeps ==
  ASSUME ViewersInv, NEW c \in Clients, Disconnected(c)
  PROVE  ViewersInv'
<1> DEFINE all == UNION {Tracks(c, k) : k \in Kinds}
           v == [conn |-> "closed", session |-> 0, tracks |-> NoTracks]
           p1 == PageUnsubscribed(page, all)
           p2 == showOffline(p1)
           heard == Tracks(c, "audio")
           m == CellUnsubscribed(cell, heard)
<1>1. NoTracks \in [Kinds -> SUBSET Ids] /\ NoTracks["audio"] = {}
      /\ \A k \in Kinds : NoTracks[k] = {}
  BY DEF NoTracks, Kinds
<1>2. v \in Views /\ ViewOK(v, made) /\ seen' = [seen EXCEPT ![c] = v]
  BY <1>1, NumbersAreIds DEF Disconnected, Views, ViewOK
<1>3. Handled(c, p2, m)
  BY DEF Disconnected
<1>4. all \in SUBSET Ids /\ 0 \notin all /\ Tracks(c, "video") \subseteq all
      /\ heard \in SUBSET Ids /\ 0 \notin heard
  BY KnownNow DEF Kinds
<1> HIDE DEF all
<1>5. ASSUME c = "page" PROVE p2 \in Pages /\ PageSees(p2, v)
  <2>1. page \in Pages /\ (page.video # 0 => page.video \in all)
    BY KnownNow, <1>4, <1>5 DEF PageSees, Tracks
  <2>2. p1 \in Pages /\ p1.video = 0
    BY <1>4, <2>1, PageLosesTracks
  <2> HIDE DEF p1
  <2>3. QED BY <2>2 DEF showOffline, Pages, PageSees
<1>6. ASSUME c = "cell" PROVE m \in Cells /\ CellSees(m, v, stream.audio)
  <2>1. cell \in Cells /\ (cell.held # 0 => cell.held \in heard) /\ cell.silent = cell.muted
    BY KnownNow, <1>4, <1>6 DEF CellSees, Tracks
  <2>2. m \in Cells /\ m.held = 0 /\ m.silent = m.muted
    BY <1>4, <2>1, CellLosesTracks
  <2> HIDE DEF m
  <2>3. QED BY <1>1, <2>2 DEF CellSees
<1> HIDE DEF v, p1, p2, m, heard
<1>7. QED BY <1>2, <1>3, <1>5, <1>6, EventKeepsInv

-----------------------------------------------------------------------------

\* Every step keeps what the page and the cell show in keeping with what their SDK
\* knows: this is the induction of the theorems below.
THEOREM ViewersInvariant == ViewersSpec => []ViewersInv
<1>1. ViewersInv /\ [ViewersNext]_viewerVars => ViewersInv'
  <2> SUFFICES ASSUME ViewersInv, [ViewersNext]_viewerVars PROVE ViewersInv'
    OBVIOUS
  <2>1. CASE Join \/ Leave
    BY <2>1, StreamerSteps DEF Kinds
  <2>2. ASSUME NEW k \in Kinds, PublishTrack(k) \/ UnpublishTrack(k) PROVE ViewersInv'
    BY <2>2, StreamerSteps
  <2>3. ASSUME NEW c \in Clients, NEW early \in SUBSET Kinds, Connect(c, early) PROVE ViewersInv'
    BY <2>3, ConnectKeeps
  <2>4. ASSUME NEW c \in Clients, ConnectFails(c) PROVE ViewersInv'
    BY <2>4, ConnectFailsKeeps
  <2>5. ASSUME NEW c \in Clients, ParticipantConnected(c) PROVE ViewersInv'
    BY <2>5, ParticipantConnectedKeeps
  <2>6. ASSUME NEW c \in Clients, ParticipantDisconnected(c) PROVE ViewersInv'
    BY <2>6, ParticipantDisconnectedKeeps
  <2>7. ASSUME NEW c \in Clients, Disconnected(c) PROVE ViewersInv'
    BY <2>7, DisconnectedKeeps
  <2>8. ASSUME NEW c \in Clients, NEW k \in Kinds, TrackSubscribed(c, k) PROVE ViewersInv'
    BY <2>8, TrackSubscribedKeeps
  <2>9. ASSUME NEW c \in Clients, NEW k \in Kinds, NEW id \in Ids, TrackUnsubscribed(c, k, id)
        PROVE  ViewersInv'
    BY <2>9, TrackUnsubscribedKeeps
  <2>10. CASE Playing \/ DismissOverlay \/ Unmute \/ ToggleMute
    BY <2>10, ViewerSteps
  <2>11. CASE UNCHANGED viewerVars
    BY <2>11 DEF viewerVars, ViewersInv
  <2>12. QED
    BY <2>1, <2>2, <2>3, <2>4, <2>5, <2>6, <2>7, <2>8, <2>9, <2>10, <2>11 DEF ViewersNext
<1>2. QED BY ViewersInitially, <1>1, PTL DEF ViewersSpec

\* The values are of their types: above all the overlay says one thing at a time.
THEOREM ViewersTypes == ViewersSpec => []ViewersTypeOK
<1>1. ViewersInv => ViewersTypeOK
  BY DEF ViewersInv, ViewersTypeOK, Pages, Cells, Views
<1>2. QED BY <1>1, ViewersInvariant, PTL

\* Who is gone is not shown as live, nor waited for, by a page whatever became of its
\* connection and by a cell while its connection stands.
THEOREM OfflineIsShown == ViewersSpec => []OfflineShown
<1>1. ASSUME ViewersInv PROVE OfflineShown
  <2>1. \A c \in Clients : GoneFor(c) => seen[c].conn = "connected" /\ seen[c].session = 0
    BY DEF GoneFor, Settled, Connected
  <2>2. seen["page"].conn \in {"closed", "failed"} =>
          seen["page"].conn # "connecting" /\ seen["page"].session = 0
    BY <1>1 DEF ViewersInv, ViewOK, Clients
  <2>3. page.overlay \in {{}, {"offline"}, {"connecting"}}
    BY <1>1 DEF ViewersInv, Pages
  <2>4. page.overlay # {"connecting"} => "connecting" \notin page.overlay
    BY <2>3
  <2>5. GoneFor("page") \/ seen["page"].conn \in {"closed", "failed"} =>
          ~page.badge /\ "connecting" \notin page.overlay
    BY <1>1, <2>1, <2>2, <2>4 DEF ViewersInv, PageSees, Clients
  <2>6. GoneFor("cell") => ~cell.live
    BY <1>1, <2>1 DEF ViewersInv, CellSees, Clients
  <2>7. QED BY <2>5, <2>6 DEF OfflineShown
<1>2. QED BY <1>1, ViewersInvariant, PTL

\* A running picture is not covered and its badge says LIVE.
THEOREM RunningVideoUncovered == ViewersSpec => []VideoUncovered
<1>1. ViewersInv => VideoUncovered
  BY DEF VideoUncovered, ViewersInv, PageSees
<1>2. QED BY <1>1, ViewersInvariant, PTL

\* What the mute button shows is what is heard, but for the sink that the late end of
\* an earlier track paused.
THEOREM MuteButtonTrue == ViewersSpec => []ButtonTellsSound
<1>1. ASSUME ViewersInv PROVE ButtonTellsSound
  <2>1. CellSees(cell, seen["cell"], stream.audio) /\ cell \in Cells
    BY <1>1 DEF ViewersInv
  <2>2. Settled("cell") /\ stream.audio # 0 => stream.audio \in seen["cell"].tracks["audio"]
    BY DEF Settled, Tracks, Kinds
  <2>3. cell.stopped \in {"no", "own", "other"}
    BY <2>1 DEF Cells
  <2>4. QED BY <2>1, <2>2, <2>3 DEF CellSees, ButtonTellsSound
<1>2. QED BY <1>1, ViewersInvariant, PTL
=============================================================================
