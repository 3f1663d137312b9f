------------------------------ MODULE Viewers ------------------------------
(***************************************************************************)
(* What a viewer sees and hears: the player of a channel page              *)
(* (channel-viewer.js) and a cell of the multi-view (multi-viewer.js), two *)
(* clients of one LiveKit room.                                            *)
(*                                                                         *)
(* The streamer comes, publishes and unpublishes tracks and goes; the SDK  *)
(* of each client learns of it event by event, each in its own time, and   *)
(* each event runs the page's handler.  Clicks, the connection's end and   *)
(* the video element's "playing" event come in between.                    *)
(***************************************************************************)
EXTENDS Naturals

CONSTANT MaxIds    \* bound: sessions and tracks of the streamer

ASSUME ViewersAssumption == MaxIds \in Nat

VARIABLES
  stream, \* the streamer at LiveKit: session and tracks by id, 0 for none
  made,   \* ids given out
  seen,   \* seen[c]: the room as the SDK of client c knows it: the streamer's session
          \* (0 for none) and the tracks subscribed; a new track of a kind may come
          \* before the end of the last is told
  page,   \* elements of the channel page
          \* overlay: classes of the overlay, {} when it is hidden
          \* there, stopped: the video element is in the document; was paused by leaving it
  cell    \* elements and variables of the multi-view cell
          \* held: attachedAudioTrack.  sink: track in the stream of the audio element,
          \* on: all tracks that name that element as theirs, there: it is in the document,
          \* stopped: whose end paused it, of the track it played ("own") or of another

viewerVars == <<stream, made, seen, page, cell>>

Clients == {"page", "cell"}
Kinds == {"video", "audio"}
Ids == 0 .. MaxIds
Away == [session |-> 0, video |-> 0, audio |-> 0]
Streams == [session : Ids, video : Ids, audio : Ids]
NoTracks == [k \in Kinds |-> {}]

ViewersTypeOK ==
  /\ stream \in Streams
  /\ made \in Ids
  /\ seen \in [Clients -> [conn : {"connecting", "connected", "closed", "failed"}, session : Ids,
                           tracks : [Kinds -> SUBSET Ids]]]
  /\ page \in [overlay : {{}, {"offline"}, {"connecting"}}, badge : BOOLEAN, video : Ids,
               playing : BOOLEAN, muted : BOOLEAN, hint : BOOLEAN, there : BOOLEAN,
               stopped : BOOLEAN]
  /\ cell \in [live : BOOLEAN, held : Ids, sink : Ids, on : SUBSET Ids, muted : BOOLEAN,
               silent : BOOLEAN, failed : BOOLEAN, there : BOOLEAN,
               stopped : {"no", "own", "other"}]

\* The page as Channel rendered it, by what IsLive said then.
ViewersInit ==
  /\ stream = Away /\ made = 0
  /\ seen = [c \in Clients |-> [conn |-> "connecting", session |-> 0, tracks |-> NoTracks]]
  /\ \E live \in BOOLEAN :
       page = [overlay |-> {IF live THEN "connecting" ELSE "offline"}, badge |-> live,
               video |-> 0, playing |-> FALSE, muted |-> TRUE, hint |-> FALSE,
               there |-> TRUE, stopped |-> FALSE]
  /\ cell = [live |-> FALSE, held |-> 0, sink |-> 0, on |-> {}, muted |-> TRUE,
             silent |-> TRUE, failed |-> FALSE, there |-> TRUE, stopped |-> "no"]

-----------------------------------------------------------------------------
(* Handlers of the channel page, p being its elements.                     *)

\* Mutant: the class of the wait is left on the overlay.
OfflineToo(p) == [p EXCEPT !.overlay = @ \cup {"offline"}, !.badge = FALSE]

showOffline(p) == [p EXCEPT !.overlay = {"offline"}, !.badge = FALSE]
showConnecting(p) == [p EXCEPT !.overlay = {"connecting"}]
hideOverlay(p) == [p EXCEPT !.overlay = {}]

\* TrackSubscribed: both kinds are attached to the one video element, in the place
\* of an earlier track of the kind, and attach() plays it.
PageSubscribed(p, k, id) ==
  IF k = "audio" THEN [p EXCEPT !.stopped = FALSE]
  ELSE [hideOverlay(p) EXCEPT !.video = id, !.badge = TRUE, !.playing = FALSE,
                              !.hint = @ \/ p.muted, !.stopped = FALSE]

\* TrackUnsubscribed takes the elements that some tracks were attached to out of the
\* document: here the page's only video element, whatever else it plays.  Leaving
\* the document pauses it.
PageUnsubscribed(p, gone) ==
  IF gone = {} THEN p
  ELSE [p EXCEPT !.video = IF @ \in gone THEN 0 ELSE @, !.there = FALSE,
                 !.playing = @ /\ ~p.there /\ p.video \notin gone,
                 !.stopped = @ \/ p.there]

\* Mutant: the answer of connect() is not asked for the streamer.
PageConnecting(p, present) == showConnecting(p)

\* connect().then: the room as it was when the connection stood.
PageConnected(p, present) == IF present THEN showConnecting(p) ELSE showOffline(p)

-----------------------------------------------------------------------------
(* Handlers of the multi-view cell, m being its state.                     *)

\* A track is attached to the sink, in the place of the one it had, and played.
Sounding(m, id) == [m EXCEPT !.sink = id, !.on = @ \cup {id}, !.silent = FALSE, !.stopped = "no"]

\* An audio track is held back until the cell is unmuted.
CellSubscribed(m, k, id) ==
  IF k = "video" THEN [m EXCEPT !.live = TRUE]
  ELSE IF m.muted THEN [m EXCEPT !.held = id]
  ELSE Sounding([m EXCEPT !.held = id], id)

\* TrackUnsubscribed: detach() takes the track off the sink if it was attached there,
\* and the sink out of the document, although it may play a later track by now.
\* Leaving the document pauses it; the next play() does not need it there.  gone are
\* audio tracks: the video element, which goes with its track, is not kept here.
CellUnsubscribed(m, gone) ==
  LET left == [m EXCEPT !.held = IF @ \in gone THEN 0 ELSE @,
                        !.sink = IF @ \in gone THEN 0 ELSE @, !.on = @ \ gone]
  IN
  IF m.on \cap gone = {} \/ ~m.there THEN left
  ELSE [left EXCEPT !.there = FALSE, !.stopped = IF m.sink \in gone THEN "own" ELSE "other"]

\* Mutant: unmuting only clears the element's flag.
CellUnmutes(m) == [m EXCEPT !.muted = ~@, !.silent = ~m.muted,
                            !.sink = IF m.muted THEN @ ELSE 0]

\* The mute button: pause() and detach, or attach and play().
CellToggled(m) ==
  IF ~m.muted
  THEN [m EXCEPT !.muted = TRUE, !.silent = TRUE, !.sink = IF @ = m.held THEN 0 ELSE @,
                 !.on = @ \ {m.held}]
  ELSE LET heard == [m EXCEPT !.muted = FALSE, !.silent = FALSE, !.stopped = "no"]
       IN  IF m.held = 0 THEN heard ELSE Sounding(heard, m.held)

-----------------------------------------------------------------------------
(* The streamer.                                                           *)

StreamStep == UNCHANGED <<seen, page, cell>>

Join ==
  /\ stream.session = 0 /\ made < MaxIds
  /\ made' = made + 1
  /\ stream' = [stream EXCEPT !.session = made']
  /\ StreamStep

PublishTrack(k) ==
  /\ stream.session # 0 /\ stream[k] = 0 /\ made < MaxIds
  /\ made' = made + 1
  /\ stream' = [stream EXCEPT ![k] = made']
  /\ StreamStep

UnpublishTrack(k) ==
  /\ stream[k] # 0
  /\ stream' = [stream EXCEPT ![k] = 0]
  /\ UNCHANGED made /\ StreamStep

Leave ==
  /\ stream.session # 0
  /\ stream' = Away
  /\ UNCHANGED made /\ StreamStep

-----------------------------------------------------------------------------
(* Events of the SDK, with the handlers they run.                          *)

Connected(c) == seen[c].conn = "connected"
Tracks(c, k) == seen[c].tracks[k]
KnowsTracks(c, k, ids) == seen' = [seen EXCEPT ![c].tracks[k] = ids]

\* Handled: p (m) is the page (cell) after the event that c got.
Handled(c, p, m) ==
  /\ page' = IF c = "page" THEN p ELSE page
  /\ cell' = IF c = "cell" THEN m ELSE cell
  /\ UNCHANGED <<stream, made>>

\* The connection stands.  Tracks whose media is there already are subscribed
\* before connect()'s promise continues, the others follow.
Connect(c, early) ==
  LET Now(k) == k \in early /\ stream[k] # 0
      Page(k, p) == IF Now(k) THEN PageSubscribed(p, k, stream[k]) ELSE p
      Cell(k, m) == IF Now(k) THEN CellSubscribed(m, k, stream[k]) ELSE m
  IN
  /\ seen[c].conn = "connecting"
  /\ seen' = [seen EXCEPT ![c] =
                [conn |-> "connected", session |-> stream.session,
                 tracks |-> [k \in Kinds |-> IF Now(k) THEN {stream[k]} ELSE {}]]]
  /\ Handled(c, PageConnected(Page("audio", Page("video", page)), stream.session # 0),
                Cell("audio", Cell("video", cell)))

ConnectFails(c) ==
  /\ seen[c].conn = "connecting"
  /\ seen' = [seen EXCEPT ![c].conn = "failed"]
  /\ Handled(c, showOffline(page), [cell EXCEPT !.failed = TRUE])

ParticipantConnected(c) ==
  /\ Connected(c) /\ seen[c].session = 0 /\ stream.session # 0
  /\ seen' = [seen EXCEPT ![c].session = stream.session]
  /\ Handled(c, showConnecting(page), cell)

TrackSubscribed(c, k) ==
  /\ Connected(c) /\ seen[c].session = stream.session
  /\ stream[k] # 0 /\ stream[k] \notin Tracks(c, k)
  /\ KnowsTracks(c, k, Tracks(c, k) \cup {stream[k]})
  /\ Handled(c, PageSubscribed(page, k, stream[k]), CellSubscribed(cell, k, stream[k]))

\* The end of any track that is no more, before or after its successor came.
TrackUnsubscribed(c, k, id) ==
  /\ Connected(c) /\ id \in Tracks(c, k) /\ id # stream[k]
  /\ KnowsTracks(c, k, Tracks(c, k) \ {id})
  /\ Handled(c, PageUnsubscribed(page, {id}),
                CellUnsubscribed(cell, IF k = "audio" THEN {id} ELSE {}))

\* The SDK unsubscribes the tracks of a participant before it is gone.
ParticipantDisconnected(c) ==
  /\ Connected(c) /\ seen[c].session \notin {0, stream.session}
  /\ \A k \in Kinds : Tracks(c, k) = {}
  /\ seen' = [seen EXCEPT ![c].session = 0]
  /\ Handled(c, showOffline(page), [cell EXCEPT !.live = FALSE])

\* The connection ends for good (a kick, the network): the SDK unsubscribes every
\* track, forgets the participants without a word and says Disconnected.  The page
\* has a handler for that; the cell has none and stays is-live.
Disconnected(c) ==
  LET all == UNION {Tracks(c, k) : k \in Kinds} IN
  /\ Connected(c)
  /\ seen' = [seen EXCEPT ![c] = [conn |-> "closed", session |-> 0, tracks |-> NoTracks]]
  /\ Handled(c, showOffline(PageUnsubscribed(page, all)),
                CellUnsubscribed(cell, Tracks(c, "audio")))

-----------------------------------------------------------------------------
(* The viewer and the video element.                                       *)

LocalStep == UNCHANGED <<stream, made, seen>>

\* Mutant: the page does not listen to the element.
PlayingUnheard ==
  /\ page.video # 0 /\ ~page.playing /\ ~page.stopped
  /\ page' = [page EXCEPT !.playing = TRUE]
  /\ UNCHANGED cell /\ LocalStep

\* "playing": frames are rendered, some time after the track was attached.
Playing ==
  /\ page.video # 0 /\ ~page.playing /\ ~page.stopped
  /\ page' = [hideOverlay(page) EXCEPT !.playing = TRUE]
  /\ UNCHANGED cell /\ LocalStep

DismissOverlay ==
  /\ page.overlay # {}
  /\ page' = hideOverlay(page)
  /\ UNCHANGED cell /\ LocalStep

\* The hint's click, which plays the element too.
Unmute ==
  /\ page.hint
  /\ page' = [page EXCEPT !.muted = FALSE, !.hint = FALSE, !.stopped = FALSE]
  /\ UNCHANGED cell /\ LocalStep

ToggleMute ==
  /\ cell' = CellToggled(cell)
  /\ UNCHANGED page /\ LocalStep

ViewersNext ==
  \/ Join \/ Leave \/ (\E k \in Kinds : PublishTrack(k) \/ UnpublishTrack(k))
  \/ \E c \in Clients :
       \/ (\E early \in SUBSET Kinds : Connect(c, early)) \/ ConnectFails(c)
       \/ ParticipantConnected(c) \/ ParticipantDisconnected(c) \/ Disconnected(c)
       \/ \E k \in Kinds : TrackSubscribed(c, k) \/ \E id \in Ids : TrackUnsubscribed(c, k, id)
  \/ Playing \/ DismissOverlay \/ Unmute \/ ToggleMute

ViewersSpec == ViewersInit /\ [][ViewersNext]_viewerVars

-----------------------------------------------------------------------------

\* Every event of the room was handled.
Settled(c) ==
  /\ Connected(c) /\ seen[c].session = stream.session
  /\ \A k \in Kinds : Tracks(c, k) = {stream[k]} \ {0}

GoneFor(c) == Settled(c) /\ stream.session = 0

\* When the streamer is gone and the client was told, or the page's connection is
\* gone, nothing says LIVE or waits for a picture: whatever the page was rendered
\* with, and however connecting, coming and going interleave.  Of a cell whose own
\* connection ended this does not hold.
OfflineShown ==
  /\ GoneFor("page") \/ seen["page"].conn \in {"closed", "failed"} =>
       ~page.badge /\ "connecting" \notin page.overlay
  /\ GoneFor("cell") => ~cell.live

\* A running picture is not covered, and its badge says LIVE: connect() resolves
\* after the subscription and covers it again, the "playing" event uncovers it.
VideoUncovered ==
  Connected("page") /\ page.video # 0 /\ page.playing => page.overlay = {} /\ page.badge

\* What the mute button shows is what is heard, whether it was pressed before,
\* between or after tracks came, were replaced and went: a muted cell is silent at
\* every moment; one that is not has the streamer's present audio track in its sink,
\* which plays unless the late end of an earlier track took it away, and no click
\* or track has played it since.
ButtonTellsSound ==
  /\ cell.muted => cell.sink = 0 \/ cell.silent
  /\ Settled("cell") /\ ~cell.muted /\ stream.audio # 0 =>
       /\ cell.sink = stream.audio /\ ~cell.silent
       /\ cell.stopped \in {"no", "other"}
=============================================================================
