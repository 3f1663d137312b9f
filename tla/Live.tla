-------------------------------- MODULE Live --------------------------------
(***************************************************************************)
(* Who is live, and who is told so: the rooms of the LiveKit server, the   *)
(* listings made of them (landing page, /api/live-streams, /admin/streams, *)
(* /c, channel and profile pages, the dashboard's badge), the settings     *)
(* forms of the dashboard that steer the listings, and the admin's kick.   *)
(*                                                                         *)
(* A listing is no snapshot.  ListLive asks for the rooms, then for the    *)
(* participants of each, then the handler reads the owner's row of each    *)
(* stream: every call is a step, may fail, and the rooms and rows change   *)
(* in between.  A form of the dashboard has one request under way; htmx    *)
(* keeps one later request waiting and posts the form's values as they are *)
(* when its turn comes.  The discovery form is posted by every change, the *)
(* others by their button.                                                 *)
(*                                                                         *)
(* A setting's request need not reach its handler: LoadUser leaves nobody  *)
(* in the context when its query fails or the owner is banned, and         *)
(* RequireSlug redirects to /login.  The XHR follows, gets a page with 200 *)
(* and dashboard.js says "Saved" though nothing was.  The page could tell: *)
(* the handler's own success is 204.                                       *)
(***************************************************************************)
EXTENDS FiniteSets

CONSTANTS
  Slugs,     \* room names; publisher identity = room name = slug
  Owners,    \* slugs whose owner has the dashboard open
  Texts,     \* contents of the metadata and profile forms
  TooLong,   \* those the handlers refuse with 400
  Requests,  \* listings under way
  Nothing    \* no stream is being kicked

ASSUME LiveAssumption ==
  /\ Owners \subseteq Slugs
  /\ TooLong \subseteq Texts
  /\ Nothing \notin Slugs

VARIABLES
  rooms,      \* rooms of the LiveKit server
  publishing, \* rooms whose publisher has a track
  claimed,    \* slugs with a row in users
  row,        \* row[s]: the owner's settings, one column (group) per form
  draft,      \* draft[o][f]: what the form shows
  form,       \* form[o][f]: the form's last request and its answer
  late,       \* <<owner, field, value>>: UPDATE given up, may still take effect
  listing,    \* listing[r]: a request that lists streams
  kick,       \* the request of the admin's kick button
  \* history variables, read by the properties and by no action
  watch,      \* watch[r]: what was so while the listing was under way
  doubt       \* <<owner, field>>: an UPDATE took effect after it was given up

worldVars == <<rooms, publishing, claimed>>
formVars == <<row, draft, form, late, doubt>>
liveVars == <<worldVars, formVars, listing, kick, watch>>

Fields == {"discovery", "metadata", "profile"}    \* forms of the dashboard
Setting == {"public", "members", "unlisted"}
Values(f) == IF f = "discovery" THEN Setting ELSE Texts
\* What the handlers accept.
Accepted(f) == IF f = "discovery" THEN Setting ELSE Texts \ TooLong

\* Owners, members of voice channels and the like: what a listing is about.
Kinds == {"cards", "rows", "voice", "page"}
NoListing == [at |-> "idle", kind |-> "rows", authed |-> FALSE, scope |-> {},
              todo |-> {}, found |-> {}, out |-> {}]
Unwatched == [live |-> {}, shown |-> {}, steady |-> {}, hidden |-> {}]
\* A form as rendered: what it shows, v, is what the row holds.
Rest(v) == [save |-> v, at |-> "rest", queued |-> FALSE, answer |-> "204"]
NoKick == [at |-> "idle", slug |-> Nothing, cut |-> FALSE, logged |-> FALSE]

LiveTypeOK ==
  /\ rooms \in SUBSET Slugs
  /\ publishing \in SUBSET rooms
  /\ claimed \in SUBSET Slugs
  /\ DOMAIN row = Slugs
  /\ \A s \in Slugs : DOMAIN row[s] = Fields /\ \A f \in Fields : row[s][f] \in Accepted(f)
  /\ DOMAIN draft = Owners /\ DOMAIN form = Owners
  /\ \A o \in Owners :
       /\ DOMAIN draft[o] = Fields /\ DOMAIN form[o] = Fields
       /\ \A f \in Fields :
            /\ draft[o][f] \in Values(f)
            /\ form[o][f] \in [save : Values(f),
                               at : {"rest", "posted", "stored", "bounced", "failed"},
                               queued : BOOLEAN, answer : {"204", "login", "no"}]
  /\ \A u \in late : u[1] \in Owners /\ u[2] \in Fields /\ u[3] \in Accepted(u[2])
  /\ listing \in [Requests -> [at : {"idle", "own", "rooms", "ask", "look", "done"},
                               kind : Kinds, authed : BOOLEAN, scope : SUBSET Slugs,
                               todo : SUBSET Slugs, found : SUBSET Slugs, out : SUBSET Slugs]]
  /\ kick \in [at : {"idle", "delete", "log", "done", "failed"},
               slug : Slugs \cup {Nothing}, cut : BOOLEAN, logged : BOOLEAN]
  /\ kick.at # "idle" => kick.slug \in Slugs
  /\ watch \in [Requests -> [live : SUBSET Slugs, shown : SUBSET Slugs,
                             steady : SUBSET Slugs, hidden : SUBSET Owners]]
  /\ doubt \in SUBSET (Owners \X Fields)

\* A LiveKit server just started, any rows, pages just rendered.
LiveInit ==
  /\ rooms = {}
  /\ publishing = {}
  /\ claimed \in {C \in SUBSET Slugs : Owners \subseteq C}
  /\ \E d \in [Slugs -> Setting], t \in Texts \ TooLong :
       row = [s \in Slugs |-> [f \in Fields |-> IF f = "discovery" THEN d[s] ELSE t]]
  /\ draft = [o \in Owners |-> row[o]]
  /\ form = [o \in Owners |-> [f \in Fields |-> Rest(row[o][f])]]
  /\ late = {}
  /\ listing = [r \in Requests |-> NoListing]
  /\ kick = NoKick
  /\ watch = [r \in Requests |-> Unwatched]
  /\ doubt = {}

\* Mutant: members see what is unlisted.
ShowToMembers(setting, authed) == setting = "public" \/ authed

\* Discovery: who sees the card of a stream.
shouldShowInDiscovery(setting, authed) ==
  \/ setting = "public"
  \/ setting = "members" /\ authed

\* The handler lists stream s, going by the row as it is now.
Listable(q, s) ==
  \/ q.kind = "rows"
  \/ /\ s \in claimed
     /\ q.kind = "cards" => shouldShowInDiscovery(row[s].discovery, q.authed)

Underway(q) == q.at \notin {"idle", "done"}

\* The handler answered that what was posted last is saved, and no older UPDATE came
\* after it.
AtRest(o, f) == form[o][f].at = "rest" /\ form[o][f].answer = "204" /\ <<o, f>> \notin doubt
Hides(o) == AtRest(o, "discovery") /\ form[o].discovery.save = "unlisted"

\* How the history of the requests under way goes on when rooms or rows change.
Observe ==
  watch' = [r \in Requests |->
    IF ~Underway(listing[r]) THEN watch[r]
    ELSE [live   |-> watch[r].live \cup publishing',
          shown  |-> watch[r].shown \cup {s \in Slugs : Listable(listing[r], s)'},
          steady |-> {s \in watch[r].steady : s \in publishing' /\ Listable(listing[r], s)'},
          hidden |-> {o \in watch[r].hidden : Hides(o)'}]]

-----------------------------------------------------------------------------
(* The LiveKit server.  A room is made by whoever enters first.            *)

\* kick.cut: the stream the admin looks at has ended since the button was pressed.
WorldStep ==
  /\ kick' = [kick EXCEPT !.cut = @ \/ (kick.at # "idle" /\ kick.slug \notin publishing')]
  /\ UNCHANGED <<formVars, listing>>
  /\ Observe

\* OBS connects through the ingress and its tracks arrive.
Publish(s) ==
  /\ s \notin publishing
  /\ publishing' = publishing \cup {s}
  /\ rooms' = rooms \cup {s}
  /\ UNCHANGED claimed /\ WorldStep

\* A viewer enters: a room, maybe without a publisher.
Enter(s) ==
  /\ s \notin rooms
  /\ rooms' = rooms \cup {s}
  /\ UNCHANGED <<publishing, claimed>> /\ WorldStep

Unpublish(s) ==
  /\ s \in publishing
  /\ publishing' = publishing \ {s}
  /\ UNCHANGED <<rooms, claimed>> /\ WorldStep

CloseRoom(s) ==
  /\ s \in rooms \ publishing
  /\ rooms' = rooms \ {s}
  /\ UNCHANGED <<publishing, claimed>> /\ WorldStep

\* Somebody completes onboarding and owns the slug.
SetUserSlug(s) ==
  /\ s \notin claimed
  /\ claimed' = claimed \cup {s}
  /\ UNCHANGED <<rooms, publishing>> /\ WorldStep

-----------------------------------------------------------------------------
(* Listings.                                                               *)

ListingStep == UNCHANGED <<worldVars, formVars, kick>>

\* A call about the slugs in S failed: nothing is asked of the answer about them.
Missed(r, S) == watch' = [watch EXCEPT ![r].steady = @ \ S]

\* A request about the slugs in S begins; a: its reader is signed in.
Begins(r, first, k, a, S) ==
  LET q == [NoListing EXCEPT !.at = first, !.kind = k, !.authed = a, !.scope = S,
                             !.todo = IF first = "ask" THEN S ELSE {}]
      V == {s \in Slugs : Listable(q, s)}
  IN
  /\ listing[r].at = "idle"
  /\ listing' = [listing EXCEPT ![r] = q]
  /\ watch' = [watch EXCEPT ![r] = [live |-> publishing, shown |-> V, steady |-> publishing \cap V,
                                    hidden |-> IF k = "cards" THEN {o \in Owners : Hides(o)} ELSE {}]]
  /\ ListingStep

\* Cards for the viewer LoadUser found, or for nobody.
Index(r) == \E a \in BOOLEAN : Begins(r, "rooms", "cards", a, Slugs)
APILiveStreams(r) == \E a \in BOOLEAN : Begins(r, "rooms", "cards", a, Slugs)

AdminStreams(r) == Begins(r, "rooms", "rows", FALSE, Slugs)

\* S: the streamers in all voice channels, or in those of the path.
CIndex(r) == \E S \in SUBSET Slugs : Begins(r, "rooms", "voice", FALSE, S)
CView(r) == \E S \in SUBSET Slugs : Begins(r, "rooms", "voice", FALSE, S)

Channel(r) == \E s \in Slugs : Begins(r, "own", "page", FALSE, {s})
Profile(r) == \E s \in Slugs : Begins(r, "own", "page", FALSE, {s})

\* The slug is the one of the user LoadUser found.
DashboardLive(r) == \E s \in claimed : Begins(r, "ask", "page", FALSE, {s})

\* Channel, Profile: the owner's row first; 404 or 500 end the request.
GetOwner(r) ==
  LET q == listing[r] IN
  /\ q.at = "own"
  /\ \/ /\ q.scope \subseteq claimed
        /\ listing' = [listing EXCEPT ![r].at = "ask", ![r].todo = q.scope]
        /\ UNCHANGED watch
     \/ /\ ~(q.scope \subseteq claimed)
        /\ listing' = [listing EXCEPT ![r].at = "done"]
        /\ UNCHANGED watch
     \/ /\ listing' = [listing EXCEPT ![r].at = "done"]
        /\ Missed(r, q.scope)
  /\ ListingStep

\* One room: a participant with a track.  An error is rendered as "offline".
IsLive(r) ==
  LET q == listing[r] IN
  /\ q.at = "ask" /\ q.kind = "page"
  /\ \/ /\ listing' = [listing EXCEPT ![r].at = "done", ![r].todo = {},
                                      ![r].out = q.todo \cap publishing]
        /\ UNCHANGED watch
     \/ /\ listing' = [listing EXCEPT ![r].at = "done", ![r].todo = {}]
        /\ Missed(r, q.todo)
  /\ ListingStep

\* An error is an empty list to every handler.
ListRooms(r) ==
  /\ listing[r].at = "rooms"
  /\ \/ /\ listing' = [listing EXCEPT ![r].at = "ask", ![r].todo = rooms]
        /\ UNCHANGED watch
     \/ /\ listing' = [listing EXCEPT ![r].at = "done"]
        /\ Missed(r, Slugs)
  /\ ListingStep

\* Mutant: a room counts as a stream although its publisher has no track.
ListRoomsWithAnyone(r, s) ==
  LET q == listing[r] IN
  /\ q.at = "ask" /\ q.kind # "page" /\ s \in q.todo
  /\ listing' = [listing EXCEPT ![r].todo = @ \ {s},
                                ![r].found = IF s \in rooms THEN @ \cup {s} ELSE @]
  /\ UNCHANGED watch
  /\ ListingStep

\* A room that is gone has no participants: not found, no stream either way.
ListParticipants(r, s) ==
  LET q == listing[r] IN
  /\ q.at = "ask" /\ q.kind # "page" /\ s \in q.todo
  /\ listing' = [listing EXCEPT ![r].todo = @ \ {s},
                                ![r].found = IF s \in publishing THEN @ \cup {s} ELSE @]
  /\ UNCHANGED watch
  /\ ListingStep

\* Mutant: an error ends the list instead of skipping the room.
ParticipantsStop(r, s) ==
  /\ listing[r].at = "ask" /\ listing[r].kind # "page" /\ s \in listing[r].todo
  /\ listing' = [listing EXCEPT ![r].todo = {}]
  /\ Missed(r, {s})
  /\ ListingStep

\* The room is skipped with a warning.
ParticipantsFail(r, s) ==
  /\ listing[r].at = "ask" /\ listing[r].kind # "page" /\ s \in listing[r].todo
  /\ listing' = [listing EXCEPT ![r].todo = @ \ {s}]
  /\ Missed(r, {s})
  /\ ListingStep

\* Every room was asked about: now the owners of the streams.
Streams(r) ==
  LET q == listing[r] IN
  /\ q.at = "ask" /\ q.kind # "page" /\ q.todo = {}
  /\ listing' = [listing EXCEPT ![r].at = "look", ![r].todo = q.found \cap q.scope, ![r].found = {}]
  /\ UNCHANGED watch
  /\ ListingStep

\* GetUserBySlug, GetUserByDiscordID.  The rows of /admin/streams need the row
\* for the name alone.
GetUser(r, s) ==
  LET q == listing[r] IN
  /\ q.at = "look" /\ s \in q.todo
  /\ listing' = [listing EXCEPT ![r].todo = @ \ {s},
                                ![r].out = IF Listable(q, s) THEN @ \cup {s} ELSE @]
  /\ UNCHANGED watch
  /\ ListingStep

GetUserFails(r, s) ==
  LET q == listing[r] IN
  /\ q.at = "look" /\ s \in q.todo /\ q.kind # "rows"
  /\ listing' = [listing EXCEPT ![r].todo = @ \ {s}]
  /\ Missed(r, {s})
  /\ ListingStep

Answer(r) ==
  /\ listing[r].at = "look" /\ listing[r].todo = {}
  /\ listing' = [listing EXCEPT ![r].at = "done"]
  /\ UNCHANGED watch
  /\ ListingStep

\* The answer was read; the request is over.
Over(r) ==
  /\ listing[r].at = "done"
  /\ listing' = [listing EXCEPT ![r] = NoListing]
  /\ watch' = [watch EXCEPT ![r] = Unwatched]
  /\ ListingStep

-----------------------------------------------------------------------------
(* The forms of the dashboard.                                             *)

FormStep == UNCHANGED <<worldVars, listing, kick>> /\ Observe

Posted(v) == [save |-> v, at |-> "posted", queued |-> FALSE, answer |-> "no"]

\* Form f, which shows v, is to be posted: at once, or (htmx) after the request that is
\* under way.
Submits(o, f, v) ==
  form' = [form EXCEPT ![o][f] = IF @.at = "rest" THEN Posted(v)
                                                  ELSE [@ EXCEPT !.queued = TRUE]]

\* Discovery: every change of the radio buttons posts the form.
Change(o, v) ==
  /\ v # draft[o].discovery
  /\ draft' = [draft EXCEPT ![o].discovery = v]
  /\ Submits(o, "discovery", v)
  /\ UNCHANGED <<row, late, doubt>>
  /\ FormStep

\* Metadata, profile: typing changes the page only.
Edit(o, f, v) ==
  /\ f # "discovery" /\ v # draft[o][f]
  /\ draft' = [draft EXCEPT ![o][f] = v]
  /\ UNCHANGED <<row, form, late, doubt>>
  /\ FormStep

\* Metadata, profile: the button posts the form.
Submit(o, f) ==
  /\ f # "discovery"
  /\ Submits(o, f, draft[o][f])
  /\ UNCHANGED <<row, draft, late, doubt>>
  /\ FormStep

Ended(o, f, how) == form' = [form EXCEPT ![o][f].at = how]

\* LoadUser found nobody to trust: RequireSlug redirects to /login, the handler never runs.
Bounced(o, f) == Ended(o, f, "bounced") /\ UNCHANGED <<row, late, doubt>>

\* Mutant: the length is not checked.
SaveAnything(o, f) ==
  /\ form[o][f].at = "posted"
  /\ \/ Bounced(o, f)
     \/ /\ row' = [row EXCEPT ![o][f] = form[o][f].save]
        /\ Ended(o, f, "stored")
        /\ UNCHANGED <<late, doubt>>
  /\ UNCHANGED draft
  /\ FormStep

\* Mutant: the error of the UPDATE is dropped and the page is told 204.
SaveRegardless(o, f) ==
  LET v == form[o][f].save IN
  /\ form[o][f].at = "posted" /\ v \in Accepted(f)
  /\ Ended(o, f, "stored")
  /\ row' \in {row, [row EXCEPT ![o][f] = v]}
  /\ UNCHANGED <<draft, late, doubt>>
  /\ FormStep

\* The middleware turns the request away, the handlers refuse the value (400), or the
\* UPDATE takes effect, fails, or is given up.
Save(o, f) ==
  LET v == form[o][f].save IN
  /\ form[o][f].at = "posted"
  /\ \/ Bounced(o, f)
     \/ /\ v \notin Accepted(f)
        /\ Ended(o, f, "failed")
        /\ UNCHANGED <<row, late, doubt>>
     \/ /\ v \in Accepted(f)
        /\ row' = [row EXCEPT ![o][f] = v]
        /\ Ended(o, f, "stored")
        /\ doubt' = doubt \ {<<o, f>>}
        /\ UNCHANGED late
     \/ /\ v \in Accepted(f)
        /\ Ended(o, f, "failed")
        /\ late' \in {late, late \cup {<<o, f, v>>}}
        /\ UNCHANGED <<row, doubt>>
  /\ UNCHANGED draft
  /\ FormStep

DashboardSetDiscovery(o) == Save(o, "discovery")
DashboardSetMetadata(o) == Save(o, "metadata")
DashboardSetProfile(o) == Save(o, "profile")

\* The success the page may be told of a request that ended so, or no: 4xx, 5xx, or the
\* answer is lost.
Answers(how) ==
  {"no"} \cup (CASE how = "stored" -> {"204"} [] how = "bounced" -> {"login"} [] OTHER -> {})

\* The answer reaches the page or is lost; htmx then sends what waits, as the form is
\* now.  "204" and "login" (a page with 200) are both toasted as "Saved".
Answered(o, f) ==
  LET was == form[o][f] IN
  /\ was.at \in {"stored", "bounced", "failed"}
  /\ \E a \in Answers(was.at) :
       form' = [form EXCEPT ![o][f] = IF was.queued THEN Posted(draft[o][f])
                                      ELSE [was EXCEPT !.at = "rest", !.answer = a]]
  /\ UNCHANGED <<row, draft, late, doubt>>
  /\ FormStep

\* A statement that was given up is carried out after all, or never.
Land(o, f, v) ==
  /\ <<o, f, v>> \in late
  /\ late' = late \ {<<o, f, v>>}
  /\ \/ row' = [row EXCEPT ![o][f] = v] /\ doubt' = doubt \cup {<<o, f>>}
     \/ UNCHANGED <<row, doubt>>
  /\ UNCHANGED <<draft, form>>
  /\ FormStep

\* GET /dashboard while nothing is being saved: the forms show the row again.
Dashboard(o) ==
  /\ \A f \in Fields : form[o][f].at = "rest"
  /\ draft' = [draft EXCEPT ![o] = row[o]]
  /\ form' = [form EXCEPT ![o] = [f \in Fields |-> Rest(row[o][f])]]
  /\ doubt' = {d \in doubt : d[1] # o}
  /\ UNCHANGED <<row, late>>
  /\ FormStep

-----------------------------------------------------------------------------
(* AdminStreamKick.                                                        *)

KickStep == UNCHANGED <<formVars, listing, claimed>>

PressKick(s) ==
  /\ kick.at = "idle"
  /\ kick' = [NoKick EXCEPT !.at = "delete", !.slug = s, !.cut = s \notin publishing]
  /\ UNCHANGED <<rooms, publishing, watch>>
  /\ KickStep

\* A room that does not exist counts as deleted; other errors are answered 502.
DeleteRoom ==
  /\ kick.at = "delete"
  /\ \/ /\ rooms' = rooms \ {kick.slug}
        /\ publishing' = publishing \ {kick.slug}
        /\ kick' = [kick EXCEPT !.at = "log", !.cut = TRUE]
     \/ /\ kick' = [kick EXCEPT !.at = "failed"]
        /\ UNCHANGED <<rooms, publishing>>
  /\ KickStep
  /\ Observe

\* The error of LogAdminAction is dropped.
LogAdminAction ==
  /\ kick.at = "log"
  /\ \E logged \in BOOLEAN : kick' = [kick EXCEPT !.at = "done", !.logged = logged]
  /\ UNCHANGED <<rooms, publishing, watch>>
  /\ KickStep

KickOver ==
  /\ kick.at \in {"done", "failed"}
  /\ kick' = NoKick
  /\ UNCHANGED <<rooms, publishing, watch>>
  /\ KickStep

-----------------------------------------------------------------------------

World(s) == Publish(s) \/ Enter(s) \/ Unpublish(s) \/ CloseRoom(s) \/ SetUserSlug(s)
           \/ PressKick(s)

List(r) ==
  \/ Index(r) \/ APILiveStreams(r) \/ AdminStreams(r) \/ CIndex(r) \/ CView(r)
  \/ Channel(r) \/ Profile(r) \/ DashboardLive(r)
  \/ GetOwner(r) \/ IsLive(r) \/ ListRooms(r) \/ Streams(r) \/ Answer(r) \/ Over(r)
  \/ \E s \in Slugs : \/ ListParticipants(r, s) \/ ParticipantsFail(r, s)
                      \/ GetUser(r, s) \/ GetUserFails(r, s)

Settings(o) ==
  \/ DashboardSetDiscovery(o) \/ DashboardSetMetadata(o) \/ DashboardSetProfile(o)
  \/ \E v \in Setting : Change(o, v)
  \/ \E f \in Fields : \/ Submit(o, f) \/ Answered(o, f)
                       \/ \E v \in Values(f) : Edit(o, f, v) \/ Land(o, f, v)
  \/ Dashboard(o)

LiveNext ==
  \/ \E s \in Slugs : World(s)
  \/ \E r \in Requests : List(r)
  \/ \E o \in Owners : Settings(o)
  \/ DeleteRoom \/ LogAdminAction \/ KickOver

LiveSpec == LiveInit /\ [][LiveNext]_liveVars

-----------------------------------------------------------------------------

\* What a listing shows was live, and might be shown to its reader, at some
\* time while the request ran: rooms and rows are read one by one and change in
\* between, the list never holds a stream out of an earlier answer.
ListedWasLive ==
  \A r \in Requests :
    listing[r].at = "done" => listing[r].out \subseteq watch[r].live \cap watch[r].shown

\* A stream that was live and listable from the first call to the answer is
\* listed, unless a call about it failed: no other room or row, however it
\* changes or fails, takes it off the list.
LiveIsListed ==
  \A r \in Requests :
    listing[r].at = "done" => watch[r].steady \cap listing[r].scope \subseteq listing[r].out

\* An owner whose last POST of the discovery form was "unlisted" and was answered 204,
\* before the request and until its answer, is on nobody's cards: whatever was posted
\* before it, lost, failed or overtaken.  (What dashboard.js calls "Saved" is not enough:
\* the page /login sends is toasted the same.)
HiddenStays ==
  \A r \in Requests :
    listing[r].at = "done" /\ listing[r].kind = "cards"
      => listing[r].out \cap watch[r].hidden = {}

\* When a form's last request was answered 204, the row holds what that request posted,
\* and for the discovery form, posted by every change, what the page shows: however fast
\* the owner changed it and whatever failed or was turned away before.  Only an UPDATE
\* that was given up and lands later can come in between.
SavesHold ==
  \A o \in Owners, f \in Fields : AtRest(o, f) =>
    /\ row[o][f] = form[o][f].save
    /\ f = "discovery" => form[o][f].save = draft[o][f]

\* A kick that was answered with success, or is in the audit log, ended the
\* stream that was running when the admin pressed the button.
KickHolds == kick.at = "done" \/ kick.logged => kick.cut
=============================================================================
