----------------------------- MODULE Live_proofs -----------------------------
(***************************************************************************)
(* Listings, settings forms and the kick, for any number of streams,       *)
(* owners, texts and requests.                                             *)
(*                                                                         *)
(* LiveInv, the inductive invariant: what a listing has found, still has   *)
(* to ask and has put out, against what was so while it ran (ListInv); how *)
(* a form, its request and the row agree (FormInv); and that a kick goes   *)
(* on only after the room is gone (KickInv).                               *)
(***************************************************************************)
EXTENDS Live, Naturals, TLAPS

\* Form f with request x, showing d, over column c; sure: no older UPDATE landed since.
\* What was stored, or answered 204, is in the row; discovery shows what was posted last
\* unless more waits.
Agrees(f, x, sure, d, c) ==
  /\ x.at = "stored" /\ sure => c = x.save
  /\ x.at = "rest" /\ x.answer = "204" /\ sure => c = x.save
  /\ x.at = "rest" => ~x.queued
  /\ f = "discovery" /\ ~x.queued => d = x.save
FormInv ==
  \A o \in Owners, f \in Fields :
    Agrees(f, form[o][f], <<o, f>> \notin doubt, draft[o][f], row[o][f])

\* The kick is logged and answered when the room is gone.
KickInv ==
  /\ kick.at \in {"log", "done"} => kick.cut
  /\ kick.logged => kick.at = "done"

\* Listing q, against what was so since it began (w): w is true of the present
\* (Seen); nothing is found or put out that was not live and listable, and what
\* was so all along is not lost (Progress).
Seen(q, w) ==
  Underway(q) =>
    /\ publishing \subseteq w.live
    /\ \A s \in Slugs : Listable(q, s) => s \in w.shown
    /\ \A s \in w.steady : s \in publishing /\ Listable(q, s)
    /\ \A o \in w.hidden : Hides(o)
Progress(q, w) ==
  /\ q.at \in {"idle", "own", "rooms", "ask"} => q.out = {}
  /\ q.found \subseteq w.live
  /\ q.out \subseteq w.live \cap w.shown
  /\ q.at = "look" => q.todo \subseteq w.live
  /\ q.at = "own" => q.kind = "page"
  /\ q.at \in {"rooms", "look"} => q.kind # "page"
  /\ q.kind = "page" => \A s, t \in q.scope : s = t
  /\ q.kind = "page" /\ q.at = "ask" => q.todo \subseteq claimed
  /\ q.kind = "page" /\ q.at = "ask" => w.steady \cap q.scope \subseteq q.todo
  /\ q.at = "ask" => w.steady \cap q.scope \subseteq q.todo \cup q.found
  /\ q.at = "look" => w.steady \cap q.scope \subseteq q.todo \cup q.out
  /\ q.at = "done" => w.steady \cap q.scope \subseteq q.out
  /\ q.kind = "cards" => q.out \cap w.hidden = {}
Sound(q, w) == Seen(q, w) /\ Progress(q, w)

ListInv == \A r \in Requests : Sound(listing[r], watch[r])

LiveInv == LiveTypeOK /\ FormInv /\ KickInv /\ ListInv
-----------------------------------------------------------------------------
USE LiveAssumption

\* The type invariant, part by part.
Listing == [at : {"idle", "own", "rooms", "ask", "look", "done"},
            kind : Kinds, authed : BOOLEAN, scope : SUBSET Slugs,
            todo : SUBSET Slugs, found : SUBSET Slugs, out : SUBSET Slugs]
Watch == [live : SUBSET Slugs, shown : SUBSET Slugs, steady : SUBSET Slugs, hidden : SUBSET Owners]
Form(f) == [save : Values(f), at : {"rest", "posted", "stored", "bounced", "failed"},
            queued : BOOLEAN, answer : {"204", "login", "no"}]
Kick == [at : {"idle", "delete", "log", "done", "failed"},
         slug : Slugs \cup {Nothing}, cut : BOOLEAN, logged : BOOLEAN]

WorldOK ==
  publishing \in SUBSET rooms /\ rooms \in SUBSET Slugs /\ claimed \in SUBSET Slugs
FormsOK ==
  /\ DOMAIN row = Slugs
  /\ \A s \in Slugs : DOMAIN row[s] = Fields /\ \A f \in Fields : row[s][f] \in Accepted(f)
  /\ DOMAIN draft = Owners /\ DOMAIN form = Owners
  /\ \A o \in Owners :
       /\ DOMAIN draft[o] = Fields /\ DOMAIN form[o] = Fields
       /\ \A f \in Fields : draft[o][f] \in Values(f) /\ form[o][f] \in Form(f)
  /\ \A u \in late : u[1] \in Owners /\ u[2] \in Fields /\ u[3] \in Accepted(u[2])
  /\ doubt \in SUBSET (Owners \X Fields)
ListsOK == listing \in [Requests -> Listing] /\ watch \in [Requests -> Watch]
KickOK == kick \in Kick /\ (kick.at # "idle" => kick.slug \in Slugs)

\* Both say the same.
LEMMA TypeParts ==
  /\ LiveTypeOK <=> WorldOK /\ FormsOK /\ ListsOK /\ KickOK
  /\ LiveTypeOK' <=> (WorldOK /\ FormsOK /\ ListsOK /\ KickOK)'
BY DEF LiveTypeOK, WorldOK, FormsOK, ListsOK, KickOK, Listing, Watch, Form, Kick

\* What a handler accepts is a value of the form; discovery accepts all of them.
LEMMA AcceptedValues ==
  /\ \A f \in Fields : Accepted(f) \subseteq Values(f)
  /\ Accepted("discovery") = Values("discovery")
BY DEF LiveAssumption, Values, Accepted
-----------------------------------------------------------------------------
(* The world and the forms, as a listing sees them *)

\* The history that Observe writes keeps listings sound, whatever changes.
LEMMA ObserveStep ==
  ASSUME LiveTypeOK, ListInv, Observe, UNCHANGED listing, claimed \subseteq claimed',
         publishing' \in SUBSET Slugs
  PROVE  ListInv' /\ ListsOK'
<1>1. ListsOK BY TypeParts
<1>2. ASSUME NEW r \in Requests, ~Underway(listing[r])
      PROVE  Sound(listing[r], watch[r])' /\ watch'[r] \in Watch
  <2>1. watch'[r] = watch[r] BY <1>1, <1>2 DEF Observe, ListsOK
  <2>2. Sound(listing[r], watch[r]) BY DEF ListInv
  <2>3. ~Underway(listing[r])' /\ listing[r].at \notin {"ask", "look", "own", "rooms"}
    BY <1>2, <1>1 DEF Underway
  <2> QED BY <1>1, <2>1, <2>2, <2>3 DEF Sound, Seen, Progress, ListsOK, Underway
<1>3. ASSUME NEW r \in Requests, Underway(listing[r])
      PROVE  Sound(listing[r], watch[r])' /\ watch'[r] \in Watch
  <2>1. /\ watch'[r] = [live   |-> watch[r].live \cup publishing',
                        shown  |-> watch[r].shown \cup {s \in Slugs : Listable(listing[r], s)'},
                        steady |-> {s \in watch[r].steady : s \in publishing' /\ Listable(listing[r], s)'},
                        hidden |-> {o \in watch[r].hidden : Hides(o)'}]
    BY <1>1, <1>3 DEF Observe
  <2>2. watch[r] \in Watch /\ listing[r] \in Listing BY <1>1 DEF ListsOK
  <2>3. watch'[r] \in Watch BY <2>1, <2>2 DEF Watch
  <2>4. Sound(listing[r], watch[r]) BY DEF ListInv
  <2>5. /\ publishing' \subseteq watch'[r].live
        /\ watch[r].live \subseteq watch'[r].live /\ watch[r].shown \subseteq watch'[r].shown
        /\ watch'[r].steady \subseteq watch[r].steady /\ watch'[r].hidden \subseteq watch[r].hidden
        /\ \A s \in Slugs : Listable(listing[r], s)' => s \in watch'[r].shown
        /\ \A s \in watch'[r].steady : s \in publishing' /\ Listable(listing[r], s)'
        /\ \A o \in watch'[r].hidden : Hides(o)'
    BY <2>1
  <2>6. listing'[r] = listing[r] OBVIOUS
  <2> QED BY <2>3, <2>4, <2>5, <2>6 DEF Sound, Seen, Progress
<1> QED BY <1>1, <1>2, <1>3 DEF ListInv, ListsOK, Observe

\* The world changes: rooms, publishers, owners.
LEMMA WorldStepStep ==
  ASSUME LiveInv, WorldStep, claimed \subseteq claimed', WorldOK'
  PROVE  LiveInv'
<1>1. LiveTypeOK /\ WorldOK /\ FormsOK /\ ListsOK /\ KickOK BY TypeParts DEF LiveInv
<1>2. ListInv' /\ ListsOK'
  BY <1>1, ObserveStep DEF LiveInv, WorldStep, WorldOK
<1>3. UNCHANGED <<row, draft, form, late, doubt>> BY DEF WorldStep, formVars
<1>4. FormsOK' /\ FormInv' BY <1>1, <1>3 DEF FormsOK, LiveInv, FormInv, Agrees
<1>5. KickOK' /\ KickInv'
  <2> DEFINE c == kick.cut \/ (kick.at # "idle" /\ kick.slug \notin publishing')
  <2>1. kick' = [kick EXCEPT !.cut = c] BY DEF WorldStep
  <2>2. c \in BOOLEAN /\ (kick.cut => c) OBVIOUS
  <2> HIDE DEF c
  <2>3. kick' \in Kick /\ kick'.at = kick.at /\ kick'.slug = kick.slug /\ kick'.cut = c
        /\ kick'.logged = kick.logged
    BY <1>1, <2>1, <2>2 DEF KickOK, Kick
  <2> QED BY <1>1, <2>2, <2>3 DEF LiveInv, KickOK, KickInv
<1> QED BY <1>2, <1>4, <1>5, TypeParts DEF LiveInv
-----------------------------------------------------------------------------
(* Listings *)

\* Request r goes on with listing q and history w; the world stands still.
Goes(r, q, w) ==
  /\ ListingStep
  /\ listing' = [listing EXCEPT ![r] = q]
  /\ watch' = [watch EXCEPT ![r] = w]

\* A listing that goes on soundly keeps the invariant.
LEMMA GoesStep ==
  ASSUME LiveInv, NEW r \in Requests, NEW q \in Listing, NEW w \in Watch,
         Goes(r, q, w), Sound(q, w)
  PROVE  LiveInv'
<1>1. LiveTypeOK /\ WorldOK /\ FormsOK /\ ListsOK /\ KickOK BY TypeParts DEF LiveInv
<1>2. UNCHANGED <<rooms, publishing, claimed, row, draft, form, late, doubt, kick>>
  BY DEF Goes, ListingStep, worldVars, formVars
<1>3. WorldOK' /\ FormsOK' /\ KickOK' /\ FormInv' /\ KickInv'
  BY <1>1, <1>2 DEF WorldOK, FormsOK, KickOK, LiveInv, FormInv, Agrees, KickInv
<1>4. ListsOK' BY <1>1 DEF ListsOK, Goes
<1>5. ASSUME NEW x, NEW y, Sound(x, y) PROVE Sound(x, y)'
  <2>1. /\ \A s : Listable(x, s)' <=> Listable(x, s)
        /\ \A o : Hides(o)' <=> Hides(o)
        /\ Underway(x)' <=> Underway(x)
    BY <1>2 DEF Listable, Hides, AtRest, Underway
  <2> QED BY <1>2, <1>5, <2>1 DEF Sound, Seen, Progress
<1>6. /\ listing'[r] = q /\ watch'[r] = w
      /\ \A p \in Requests \ {r} : listing'[p] = listing[p] /\ watch'[p] = watch[p]
  BY <1>1 DEF ListsOK, Goes
<1>7. \A p \in Requests : \E x, y : listing'[p] = x /\ watch'[p] = y /\ Sound(x, y)
  BY <1>6 DEF LiveInv, ListInv
<1>8. ListInv'
  <2>1. ASSUME NEW p \in Requests PROVE Sound(listing[p], watch[p])'
    <3>1. PICK x, y : listing'[p] = x /\ watch'[p] = y /\ Sound(x, y) BY <1>7
    <3>2. Sound(x, y)' BY <1>5, <3>1
    <3> QED BY <3>1, <3>2 DEF Sound, Seen, Progress, Underway, Listable
  <2> QED BY <2>1 DEF ListInv
<1> QED BY <1>3, <1>4, <1>8, TypeParts DEF LiveInv

\* What listings and their histories hold.
LEMMA ListingParts ==
  ASSUME LiveInv, NEW r \in Requests
  PROVE  /\ listing[r] \in Listing /\ watch[r] \in Watch /\ Sound(listing[r], watch[r])
         /\ listing = [listing EXCEPT ![r] = listing[r]] /\ watch = [watch EXCEPT ![r] = watch[r]]
         /\ publishing \subseteq Slugs /\ rooms \subseteq Slugs /\ publishing \subseteq rooms
         /\ NoListing \in Listing /\ Unwatched \in Watch
<1>1. LiveTypeOK /\ WorldOK /\ ListsOK BY TypeParts DEF LiveInv
<1>2. NoListing \in Listing /\ Unwatched \in Watch
  BY DEF NoListing, Unwatched, Listing, Watch, Kinds
<1> QED BY <1>1, <1>2 DEF LiveInv, ListInv, ListsOK, WorldOK

\* A request begins: what is live and listable now is what was so since it began.
LEMMA BeginsStep ==
  ASSUME LiveInv, NEW r \in Requests,
         NEW first \in {"own", "rooms", "ask"}, NEW k \in Kinds, NEW a \in BOOLEAN,
         NEW S \in SUBSET Slugs, k = "page" => \A s, t \in S : s = t,
         (first = "rooms") <=> (k # "page"), first = "ask" => S \subseteq claimed,
         Begins(r, first, k, a, S)
  PROVE  LiveInv'
<1> DEFINE q == [NoListing EXCEPT !.at = first, !.kind = k, !.authed = a, !.scope = S,
                                  !.todo = IF first = "ask" THEN S ELSE {}]
           V == {s \in Slugs : Listable(q, s)}
           w == [live |-> publishing, shown |-> V, steady |-> publishing \cap V,
                 hidden |-> IF k = "cards" THEN {o \in Owners : Hides(o)} ELSE {}]
<1>1. Goes(r, q, w) BY DEF Begins, Goes
<1>2. /\ q \in Listing /\ q.at = first /\ q.kind = k /\ q.scope = S /\ q.found = {} /\ q.out = {}
      /\ q.todo = IF first = "ask" THEN S ELSE {}
  BY DEF NoListing, Listing
<1>3. publishing \subseteq Slugs BY ListingParts
<1> HIDE DEF q
<1>4. w \in Watch BY <1>3 DEF Watch
<1>5. Sound(q, w)
  <2>1. /\ w.live = publishing /\ w.shown = V /\ w.steady = publishing \cap V
        /\ w.hidden = IF k = "cards" THEN {o \in Owners : Hides(o)} ELSE {}
    OBVIOUS
  <2>2. \A o \in w.hidden : Hides(o) BY <2>1
  <2> HIDE DEF w
  <2> QED BY <1>2, <1>3, <2>1, <2>2 DEF Sound, Seen, Progress
<1> HIDE DEF w
<1> QED BY <1>1, <1>2, <1>4, <1>5, GoesStep

\* A request under way goes on with n: only Progress is left to show.
LEMMA GoesOn ==
  ASSUME LiveInv, NEW r \in Requests, NEW n \in Listing, NEW v \in Watch,
         Goes(r, n, v), Underway(listing[r]),
         n.kind = listing[r].kind, n.authed = listing[r].authed,
         v.live = watch[r].live, v.shown = watch[r].shown, v.hidden = watch[r].hidden,
         v.steady \subseteq watch[r].steady, Progress(n, v)
  PROVE  LiveInv'
<1>1. Seen(listing[r], watch[r]) BY ListingParts DEF Sound
<1>2. \A t \in Slugs : Listable(n, t) <=> Listable(listing[r], t) BY DEF Listable
<1>3. v.steady \subseteq Slugs BY DEF Watch
<1>4. Seen(n, v) BY <1>1, <1>2, <1>3 DEF Seen
<1> QED BY <1>4, GoesStep DEF Sound

\* History v is w, but nothing is asked about the streams in S.
Forgets(v, w, S) ==
  /\ v \in Watch /\ v.live = w.live /\ v.shown = w.shown
  /\ v.steady = w.steady \ S /\ v.hidden = w.hidden

\* A call about the streams in S failed, and the listing goes on with q.
LEMMA MissedGoes ==
  ASSUME LiveInv, NEW r \in Requests, NEW S, NEW q,
         Missed(r, S), ListingStep, listing' = [listing EXCEPT ![r] = q]
  PROVE  \E v : Goes(r, q, v) /\ Forgets(v, watch[r], S)
<1>1. watch[r] \in Watch /\ LiveTypeOK BY ListingParts DEF LiveInv
<1>2. PICK v : v = [watch[r] EXCEPT !.steady = @ \ S] OBVIOUS
<1>3. watch' = [watch EXCEPT ![r] = v]
  BY <1>1, <1>2, TypeParts DEF Missed, ListsOK
<1>4. /\ v \in Watch /\ v.live = watch[r].live /\ v.shown = watch[r].shown
      /\ v.steady = watch[r].steady \ S /\ v.hidden = watch[r].hidden
  BY <1>1, <1>2 DEF Watch
<1>5. Goes(r, q, v) /\ Forgets(v, watch[r], S) BY <1>3, <1>4 DEF Goes, Forgets
<1> QED BY <1>5

\* Channel, Profile: the owner's row is there, or the request ends.
LEMMA GetOwnerStep ==
  ASSUME LiveInv, NEW r \in Requests, GetOwner(r)
  PROVE  LiveInv'
<1>1. PICK q, w : q = listing[r] /\ w = watch[r] OBVIOUS
<1>2. /\ q \in Listing /\ w \in Watch /\ Seen(q, w) /\ Progress(q, w)
      /\ watch = [watch EXCEPT ![r] = w]
      /\ publishing \subseteq rooms /\ rooms \subseteq Slugs
  BY <1>1, ListingParts DEF Sound
<1>3. q.at = "own" /\ Underway(q) /\ ListingStep
  BY <1>1 DEF GetOwner, Underway
<1>4. ASSUME NEW n, n = [q EXCEPT !.at = "done"], NEW v \in Watch, Goes(r, n, v),
             v.live = w.live, v.shown = w.shown, v.hidden = w.hidden,
             v.steady \subseteq w.steady, v.steady \cap q.scope = {}
      PROVE  LiveInv'
  <2>1. /\ n \in Listing /\ n.at = "done" /\ n.kind = q.kind /\ n.scope = q.scope
        /\ n.found = q.found /\ n.out = q.out /\ n.authed = q.authed
    BY <1>2, <1>4 DEF Listing
  <2>2. Progress(n, v) BY <1>2, <1>3, <1>4, <2>1 DEF Progress
  <2> QED BY <1>1, <1>3, <1>4, <2>1, <2>2, GoesOn
<1>5. CASE /\ q.scope \subseteq claimed
           /\ listing' = [listing EXCEPT ![r].at = "ask", ![r].todo = q.scope]
           /\ UNCHANGED watch
  <2>1. PICK n : n = [q EXCEPT !.at = "ask", !.todo = q.scope] OBVIOUS
  <2>2. listing' = [listing EXCEPT ![r] = n] BY <1>1, <1>5, <2>1
  <2>3. Goes(r, n, w) BY <1>2, <1>3, <1>5, <2>2 DEF Goes
  <2>4. /\ n \in Listing /\ n.at = "ask" /\ n.kind = q.kind /\ n.scope = q.scope /\ n.todo = q.scope
        /\ n.found = q.found /\ n.out = q.out /\ n.authed = q.authed
    BY <1>2, <2>1 DEF Listing
  <2>5. Progress(n, w) BY <1>2, <1>3, <1>5, <2>4 DEF Progress
  <2> QED BY <1>1, <1>2, <1>3, <2>3, <2>4, <2>5, GoesOn
<1>6. CASE /\ ~(q.scope \subseteq claimed)
           /\ listing' = [listing EXCEPT ![r].at = "done"]
           /\ UNCHANGED watch
  <2>1. PICK n : n = [q EXCEPT !.at = "done"] OBVIOUS
  <2>2. listing' = [listing EXCEPT ![r] = n] BY <1>1, <1>6, <2>1
  <2>3. Goes(r, n, w) BY <1>2, <1>3, <1>6, <2>2 DEF Goes
  <2>4. PICK s \in q.scope : s \notin claimed BY <1>6
  <2>5. q.kind = "page" /\ \A t \in q.scope : t = s BY <1>2, <1>3, <2>4 DEF Progress
  <2>6. \A t \in w.steady : t \in claimed BY <1>2, <1>3, <2>5 DEF Seen, Listable
  <2>7. w.steady \cap q.scope = {} BY <2>4, <2>5, <2>6
  <2> QED BY <1>2, <1>4, <2>1, <2>3, <2>7
<1>7. CASE /\ listing' = [listing EXCEPT ![r].at = "done"]
           /\ Missed(r, q.scope)
  <2>1. PICK n : n = [q EXCEPT !.at = "done"] OBVIOUS
  <2>2. listing' = [listing EXCEPT ![r] = n] BY <1>1, <1>7, <2>1
  <2>3. Missed(r, q.scope) BY <1>1, <1>3, <1>7
  <2>4. PICK v : Goes(r, n, v) /\ Forgets(v, watch[r], q.scope)
    BY <1>3, <2>2, <2>3, MissedGoes
  <2> QED BY <1>1, <1>4, <2>1, <2>4 DEF Forgets
<1> QED BY <1>1, <1>5, <1>6, <1>7 DEF GetOwner

\* The page's room is asked about.
LEMMA IsLiveStep ==
  ASSUME LiveInv, NEW r \in Requests, IsLive(r)
  PROVE  LiveInv'
<1>1. PICK q, w : q = listing[r] /\ w = watch[r] OBVIOUS
<1>2. /\ q \in Listing /\ w \in Watch /\ Seen(q, w) /\ Progress(q, w)
      /\ watch = [watch EXCEPT ![r] = w]
      /\ publishing \subseteq rooms /\ rooms \subseteq Slugs
  BY <1>1, ListingParts DEF Sound
<1>3. q.at = "ask" /\ q.kind = "page" /\ Underway(q) /\ ListingStep
  BY <1>1 DEF IsLive, Underway
<1>4. CASE /\ listing' = [listing EXCEPT ![r].at = "done", ![r].todo = {},
                                       ![r].out = q.todo \cap publishing]
           /\ UNCHANGED watch
  <2>1. PICK n : n = [q EXCEPT !.at = "done", !.todo = {}, !.out = q.todo \cap publishing] OBVIOUS
  <2>2. listing' = [listing EXCEPT ![r] = n] BY <1>1, <1>4, <2>1
  <2>3. Goes(r, n, w) BY <1>2, <1>3, <1>4, <2>2 DEF Goes
  <2>4. /\ n \in Listing /\ n.at = "done" /\ n.kind = q.kind /\ n.scope = q.scope
        /\ n.found = q.found /\ n.out = q.todo \cap publishing /\ n.authed = q.authed
    BY <1>2, <2>1 DEF Listing
  <2>5. q.todo \subseteq claimed /\ q.todo \subseteq Slugs BY <1>2, <1>3 DEF Progress, Listing
  <2>6. \A s \in q.todo : Listable(q, s) BY <1>3, <2>5 DEF Listable
  <2>7. q.todo \cap publishing \subseteq w.live \cap w.shown
    BY <1>2, <1>3, <2>5, <2>6 DEF Seen
  <2>8. w.steady \cap q.scope \subseteq q.todo \cap publishing
    BY <1>2, <1>3 DEF Seen, Progress
  <2>9. Progress(n, w) BY <1>2, <1>3, <2>4, <2>7, <2>8 DEF Progress
  <2> QED BY <1>1, <1>2, <1>3, <2>3, <2>4, <2>9, GoesOn
<1>5. CASE /\ listing' = [listing EXCEPT ![r].at = "done", ![r].todo = {}]
           /\ Missed(r, q.todo)
  <2>1. PICK n : n = [q EXCEPT !.at = "done", !.todo = {}] OBVIOUS
  <2>2. listing' = [listing EXCEPT ![r] = n] BY <1>1, <1>5, <2>1
  <2>3. Missed(r, q.todo) BY <1>1, <1>3, <1>5
  <2>4. PICK v : Goes(r, n, v) /\ Forgets(v, watch[r], q.todo)
    BY <1>3, <2>2, <2>3, MissedGoes
  <2>5. /\ n \in Listing /\ n.at = "done" /\ n.kind = q.kind /\ n.scope = q.scope
        /\ n.found = q.found /\ n.out = q.out /\ n.authed = q.authed
    BY <1>2, <2>1 DEF Listing
  <2>6. Progress(n, v) BY <1>1, <1>2, <1>3, <2>4, <2>5 DEF Progress, Forgets
  <2> QED BY <1>1, <1>3, <2>4, <2>5, <2>6, GoesOn DEF Forgets
<1> QED BY <1>1, <1>4, <1>5 DEF IsLive

\* The rooms are asked for: every stream is in one.
LEMMA ListRoomsStep ==
  ASSUME LiveInv, NEW r \in Requests, ListRooms(r)
  PROVE  LiveInv'
<1>1. PICK q, w : q = listing[r] /\ w = watch[r] OBVIOUS
<1>2. /\ q \in Listing /\ w \in Watch /\ Seen(q, w) /\ Progress(q, w)
      /\ watch = [watch EXCEPT ![r] = w]
      /\ publishing \subseteq rooms /\ rooms \subseteq Slugs
  BY <1>1, ListingParts DEF Sound
<1>3. q.at = "rooms" /\ Underway(q) /\ ListingStep
  BY <1>1 DEF ListRooms, Underway
<1>4. CASE /\ listing' = [listing EXCEPT ![r].at = "ask", ![r].todo = rooms]
           /\ UNCHANGED watch
  <2>1. PICK n : n = [q EXCEPT !.at = "ask", !.todo = rooms] OBVIOUS
  <2>2. listing' = [listing EXCEPT ![r] = n] BY <1>1, <1>4, <2>1
  <2>3. Goes(r, n, w) BY <1>2, <1>3, <1>4, <2>2 DEF Goes
  <2>4. /\ n \in Listing /\ n.at = "ask" /\ n.kind = q.kind /\ n.scope = q.scope /\ n.todo = rooms
        /\ n.found = q.found /\ n.out = q.out /\ n.authed = q.authed
    BY <1>2, <2>1 DEF Listing
  <2>5. w.steady \subseteq rooms BY <1>2, <1>3 DEF Seen
  <2>6. Progress(n, w) BY <1>2, <1>3, <2>4, <2>5 DEF Progress, Forgets
  <2> QED BY <1>1, <1>2, <1>3, <2>3, <2>4, <2>6, GoesOn
<1>5. CASE /\ listing' = [listing EXCEPT ![r].at = "done"]
           /\ Missed(r, Slugs)
  <2>1. PICK n : n = [q EXCEPT !.at = "done"] OBVIOUS
  <2>2. listing' = [listing EXCEPT ![r] = n] BY <1>1, <1>5, <2>1
  <2>3. Missed(r, Slugs) BY <1>1, <1>3, <1>5
  <2>4. PICK v : Goes(r, n, v) /\ Forgets(v, watch[r], Slugs)
    BY <1>3, <2>2, <2>3, MissedGoes
  <2>5. /\ n \in Listing /\ n.at = "done" /\ n.kind = q.kind /\ n.scope = q.scope
        /\ n.found = q.found /\ n.out = q.out /\ n.authed = q.authed
    BY <1>2, <2>1 DEF Listing
  <2>6. v.steady = {} BY <1>1, <1>2, <2>4 DEF Watch, Forgets
  <2>7. Progress(n, v) BY <1>1, <1>2, <1>3, <2>4, <2>5, <2>6 DEF Progress, Forgets
  <2> QED BY <1>1, <1>3, <2>4, <2>5, <2>6, <2>7, GoesOn DEF Forgets
<1> QED BY <1>1, <1>4, <1>5 DEF ListRooms

\* One room after the other is asked about.
LEMMA ParticipantsStep ==
  ASSUME LiveInv, NEW r \in Requests, NEW s \in Slugs,
         ListParticipants(r, s) \/ ParticipantsFail(r, s)
  PROVE  LiveInv'
<1>1. PICK q, w : q = listing[r] /\ w = watch[r] OBVIOUS
<1>2. /\ q \in Listing /\ w \in Watch /\ Seen(q, w) /\ Progress(q, w)
      /\ watch = [watch EXCEPT ![r] = w]
      /\ publishing \subseteq rooms /\ rooms \subseteq Slugs
  BY <1>1, ListingParts DEF Sound
<1>3. /\ q.at = "ask" /\ q.kind # "page" /\ s \in q.todo
      /\ Underway(q) /\ ListingStep
  BY <1>1 DEF ListParticipants, ParticipantsFail, Underway
<1>4. CASE ListParticipants(r, s)
  <2>1. PICK F : F = IF s \in publishing THEN q.found \cup {s} ELSE q.found OBVIOUS
  <2>2. PICK n : n = [q EXCEPT !.todo = @ \ {s}, !.found = F] OBVIOUS
  <2>3. listing' = [listing EXCEPT ![r] = n] BY <1>1, <1>4, <2>1, <2>2 DEF ListParticipants
  <2>4. Goes(r, n, w) BY <1>2, <1>3, <1>4, <2>3 DEF Goes, ListParticipants
  <2>5. F \in SUBSET Slugs /\ q.found \subseteq F /\ (s \in publishing => s \in F)
        /\ F \subseteq w.live
    BY <1>2, <1>3, <2>1 DEF Listing, Seen, Progress
  <2>6. /\ n.at = "ask" /\ n.kind = q.kind /\ n.scope = q.scope /\ n.todo = q.todo \ {s}
        /\ n.found = F /\ n.out = q.out /\ n.authed = q.authed /\ n \in Listing
    BY <1>2, <1>3, <2>2, <2>5 DEF Listing
  <2>7. w.steady \cap q.scope \subseteq (q.todo \ {s}) \cup F
    BY <1>2, <1>3, <2>5 DEF Seen, Progress
  <2>8. Progress(n, w) BY <1>2, <1>3, <2>5, <2>6, <2>7 DEF Progress
  <2> QED BY <1>1, <1>2, <1>3, <2>3, <2>4, <2>6, <2>8, GoesOn
<1>5. CASE ParticipantsFail(r, s)
  <2>1. PICK n : n = [q EXCEPT !.todo = @ \ {s}] OBVIOUS
  <2>2. listing' = [listing EXCEPT ![r] = n] BY <1>1, <1>5, <2>1 DEF ParticipantsFail
  <2>3. Missed(r, {s}) BY <1>1, <1>3, <1>5 DEF ParticipantsFail
  <2>4. PICK v : Goes(r, n, v) /\ Forgets(v, watch[r], {s})
    BY <1>3, <2>2, <2>3, MissedGoes
  <2>5. /\ n.at = q.at /\ n.kind = q.kind /\ n.scope = q.scope /\ n.todo = q.todo \ {s}
        /\ n.found = q.found /\ n.out = q.out /\ n.authed = q.authed /\ n \in Listing
    BY <1>2, <1>3, <2>1 DEF Listing
  <2>6. Progress(n, v) BY <1>1, <1>2, <1>3, <2>4, <2>5 DEF Progress, Forgets
  <2> QED BY <1>1, <1>3, <2>4, <2>5, <2>6, GoesOn DEF Forgets
<1> QED BY <1>4, <1>5

\* Of the streams that were found, those in scope are looked up.
LEMMA StreamsStep ==
  ASSUME LiveInv, NEW r \in Requests, Streams(r)
  PROVE  LiveInv'
<1>1. PICK q, w : q = listing[r] /\ w = watch[r] OBVIOUS
<1>2. /\ q \in Listing /\ w \in Watch /\ Seen(q, w) /\ Progress(q, w)
      /\ watch = [watch EXCEPT ![r] = w]
      /\ publishing \subseteq rooms /\ rooms \subseteq Slugs
  BY <1>1, ListingParts DEF Sound
<1>3. /\ q.at = "ask" /\ q.kind # "page" /\ q.todo = {}
      /\ Underway(q) /\ ListingStep
  BY <1>1 DEF Streams, Underway
<1>4. PICK n : n = [q EXCEPT !.at = "look", !.todo = q.found \cap q.scope, !.found = {}] OBVIOUS
<1>5. listing' = [listing EXCEPT ![r] = n] BY <1>1, <1>4 DEF Streams
<1>6. Goes(r, n, w) BY <1>2, <1>3, <1>5 DEF Goes, Streams
<1>7. /\ n.at = "look" /\ n.kind = q.kind /\ n.scope = q.scope /\ n.todo = q.found \cap q.scope
      /\ n.found = {} /\ n.out = q.out /\ n.authed = q.authed /\ n \in Listing
  BY <1>2, <1>4 DEF Listing
<1>8. Progress(n, w) BY <1>2, <1>3, <1>7 DEF Progress
<1> QED BY <1>1, <1>2, <1>3, <1>6, <1>7, <1>8, GoesOn

\* A stream's row is read: listed if its owner's setting allows it now.
LEMMA GetUserStep ==
  ASSUME LiveInv, NEW r \in Requests, NEW s \in Slugs, GetUser(r, s) \/ GetUserFails(r, s)
  PROVE  LiveInv'
<1>1. PICK q, w : q = listing[r] /\ w = watch[r] OBVIOUS
<1>2. /\ q \in Listing /\ w \in Watch /\ Seen(q, w) /\ Progress(q, w)
      /\ watch = [watch EXCEPT ![r] = w]
      /\ publishing \subseteq rooms /\ rooms \subseteq Slugs
  BY <1>1, ListingParts DEF Sound
<1>3. q.at = "look" /\ s \in q.todo /\ Underway(q) /\ ListingStep
  BY <1>1 DEF GetUser, GetUserFails, Underway
<1>4. CASE GetUser(r, s)
  <2>1. PICK S : S = IF Listable(q, s) THEN q.out \cup {s} ELSE q.out OBVIOUS
  <2>2. PICK n : n = [q EXCEPT !.todo = @ \ {s}, !.out = S] OBVIOUS
  <2>3. listing' = [listing EXCEPT ![r] = n] BY <1>1, <1>4, <2>1, <2>2 DEF GetUser
  <2>4. Goes(r, n, w) BY <1>2, <1>3, <1>4, <2>3 DEF Goes, GetUser
  <2>5. S \in SUBSET Slugs /\ q.out \subseteq S /\ (s \in w.steady => s \in S)
        /\ S \subseteq w.live \cap w.shown
    BY <1>2, <1>3, <2>1 DEF Listing, Seen, Progress
  <2>6. /\ n.at = "look" /\ n.kind = q.kind /\ n.scope = q.scope /\ n.todo = q.todo \ {s}
        /\ n.found = q.found /\ n.out = S /\ n.authed = q.authed /\ n \in Listing
    BY <1>2, <1>3, <2>2, <2>5 DEF Listing
  <2>7. q.kind = "cards" => S \cap w.hidden = {}
    <3>1. SUFFICES ASSUME q.kind = "cards", Listable(q, s), s \in w.hidden PROVE FALSE
      BY <1>2, <2>1 DEF Progress
    <3>2. Hides(s) /\ s \in Owners BY <1>2, <1>3, <3>1 DEF Seen, Watch
    <3>3. row[s]["discovery"] = form[s]["discovery"].save
      BY <3>2 DEF Hides, AtRest, LiveInv, FormInv, Agrees, Fields
    <3>4. row[s].discovery = "unlisted" BY <3>2, <3>3 DEF Hides
    <3> QED BY <3>1, <3>4 DEF Listable, shouldShowInDiscovery
  <2>8. w.steady \cap q.scope \subseteq (q.todo \ {s}) \cup S
    BY <1>2, <1>3, <2>5 DEF Progress
  <2>9. Progress(n, w) BY <1>2, <1>3, <2>5, <2>6, <2>7, <2>8 DEF Progress
  <2> QED BY <1>1, <1>2, <1>3, <2>3, <2>4, <2>6, <2>9, GoesOn
<1>5. CASE GetUserFails(r, s)
  <2>1. PICK n : n = [q EXCEPT !.todo = @ \ {s}] OBVIOUS
  <2>2. listing' = [listing EXCEPT ![r] = n] BY <1>1, <1>5, <2>1 DEF GetUserFails
  <2>3. Missed(r, {s}) BY <1>1, <1>3, <1>5 DEF GetUserFails
  <2>4. PICK v : Goes(r, n, v) /\ Forgets(v, watch[r], {s})
    BY <1>3, <2>2, <2>3, MissedGoes
  <2>5. /\ n.at = q.at /\ n.kind = q.kind /\ n.scope = q.scope /\ n.todo = q.todo \ {s}
        /\ n.found = q.found /\ n.out = q.out /\ n.authed = q.authed /\ n \in Listing
    BY <1>2, <1>3, <2>1 DEF Listing
  <2>6. Progress(n, v) BY <1>1, <1>2, <1>3, <2>4, <2>5 DEF Progress, Forgets
  <2> QED BY <1>1, <1>3, <2>4, <2>5, <2>6, GoesOn DEF Forgets
<1> QED BY <1>4, <1>5

\* The answer goes out, and the request is over.
LEMMA AnswerStep ==
  ASSUME LiveInv, NEW r \in Requests, Answer(r) \/ Over(r)
  PROVE  LiveInv'
<1>1. PICK q, w : q = listing[r] /\ w = watch[r] OBVIOUS
<1>2. /\ q \in Listing /\ w \in Watch /\ Seen(q, w) /\ Progress(q, w)
      /\ watch = [watch EXCEPT ![r] = w]
      /\ NoListing \in Listing /\ Unwatched \in Watch
  BY <1>1, ListingParts DEF Sound
<1>3. CASE Answer(r)
  <2>1. q.at = "look" /\ q.todo = {} /\ Underway(q) BY <1>1, <1>3 DEF Answer, Underway
  <2>2. PICK n : n = [q EXCEPT !.at = "done"] OBVIOUS
  <2>3. listing' = [listing EXCEPT ![r] = n] BY <1>1, <1>3, <2>2 DEF Answer
  <2>4. Goes(r, n, w) BY <1>2, <1>3, <2>3 DEF Answer, Goes
  <2>5. /\ n.at = "done" /\ n.kind = q.kind /\ n.scope = q.scope
        /\ n.found = q.found /\ n.out = q.out /\ n.authed = q.authed /\ n \in Listing
    BY <1>2, <2>2 DEF Listing
  <2>6. Progress(n, w) BY <1>2, <2>1, <2>5 DEF Progress
  <2> QED BY <1>1, <1>2, <2>1, <2>4, <2>5, <2>6, GoesOn
<1>4. CASE Over(r)
  <2>1. Goes(r, NoListing, Unwatched) BY <1>4 DEF Over, Goes
  <2>2. Sound(NoListing, Unwatched)
    BY DEF Sound, Seen, Progress, Underway, NoListing, Unwatched
  <2> QED BY <1>2, <2>1, <2>2, GoesStep
<1> QED BY <1>3, <1>4

\* A listing begins, goes on, fails or is over.
LEMMA ListStep ==
  ASSUME LiveInv, NEW r \in Requests, List(r)
  PROVE  LiveInv'
<1> DEFINE page(first, s) == Begins(r, first, "page", FALSE, {s})
<1>0. ASSUME NEW first \in {"own", "ask"}, NEW s \in Slugs, first = "ask" => s \in claimed,
             page(first, s)
      PROVE  LiveInv'
  <2>1. PICK S : S = {s} OBVIOUS
  <2>2. S \in SUBSET Slugs /\ (\A t, u \in S : t = u) /\ (first = "ask" => S \subseteq claimed)
    BY <1>0, <2>1
  <2>3. PICK k, a : k = "page" /\ a = FALSE OBVIOUS
  <2>4. Begins(r, first, k, a, S) BY <1>0, <2>1, <2>3
  <2>5. /\ k \in Kinds /\ a \in BOOLEAN /\ first \in {"own", "rooms", "ask"}
        /\ (first = "rooms") <=> (k # "page")
    BY <2>3 DEF Kinds
  <2> QED BY <2>2, <2>4, <2>5, BeginsStep
<1>1. CASE Index(r)
  BY <1>1, BeginsStep DEF Index, Kinds
<1>2. CASE APILiveStreams(r)
  BY <1>2, BeginsStep DEF APILiveStreams, Kinds
<1>3. CASE AdminStreams(r)
  BY <1>3, BeginsStep DEF AdminStreams, Kinds
<1>4. CASE CIndex(r)
  BY <1>4, BeginsStep DEF CIndex, Kinds
<1>5. CASE CView(r)
  BY <1>5, BeginsStep DEF CView, Kinds
<1>6. CASE Channel(r)
  BY <1>0, <1>6 DEF Channel
<1>7. CASE Profile(r)
  BY <1>0, <1>7 DEF Profile
<1>8. CASE DashboardLive(r)
  <2>1. PICK s \in claimed : Begins(r, "ask", "page", FALSE, {s}) BY <1>8 DEF DashboardLive
  <2>2. claimed \subseteq Slugs BY TypeParts DEF LiveInv, WorldOK
  <2> QED BY <1>0, <2>1, <2>2
<1>9. CASE GetOwner(r) BY <1>9, GetOwnerStep
<1>10. CASE IsLive(r) BY <1>10, IsLiveStep
<1>11. CASE ListRooms(r) BY <1>11, ListRoomsStep
<1>12. CASE Streams(r) BY <1>12, StreamsStep
<1>13. CASE Answer(r) \/ Over(r) BY <1>13, AnswerStep
<1>14. CASE \E s \in Slugs : ListParticipants(r, s) \/ ParticipantsFail(r, s)
  BY <1>14, ParticipantsStep
<1>15. CASE \E s \in Slugs : GetUser(r, s) \/ GetUserFails(r, s)
  BY <1>15, GetUserStep
<1> QED
  BY <1>1, <1>2, <1>3, <1>4, <1>5, <1>6, <1>7, <1>8, <1>9, <1>10, <1>11, <1>12, <1>13, <1>14,
     <1>15 DEF List
-----------------------------------------------------------------------------
(* Forms *)

\* A step of a form: only the forms are left to look at.
LEMMA FormStepStep ==
  ASSUME LiveInv, FormStep, FormsOK', FormInv'
  PROVE  LiveInv'
<1>1. LiveTypeOK /\ WorldOK /\ KickOK BY TypeParts DEF LiveInv
<1>2. /\ UNCHANGED <<rooms, publishing, claimed, listing, kick>> /\ Observe
      /\ publishing' \in SUBSET Slugs /\ claimed \subseteq claimed'
  BY <1>1 DEF FormStep, worldVars, WorldOK
<1>3. ListInv' /\ ListsOK' BY <1>1, <1>2, ObserveStep DEF LiveInv
<1>4. WorldOK' /\ KickOK' /\ KickInv' BY <1>1, <1>2 DEF WorldOK, KickOK, LiveInv, KickInv
<1> QED BY <1>3, <1>4, TypeParts DEF LiveInv

\* One form goes on with request n, draft d and column c.
LEMMA OneFormStep ==
  ASSUME LiveInv, FormStep, NEW o \in Owners, NEW f \in Fields,
         NEW n \in Form(f), NEW d \in Values(f), NEW c \in Accepted(f), NEW sure \in BOOLEAN,
         form' = [form EXCEPT ![o][f] = n] \/ (UNCHANGED form /\ n = form[o][f]),
         draft' = [draft EXCEPT ![o][f] = d] \/ (UNCHANGED draft /\ d = draft[o][f]),
         row' = [row EXCEPT ![o][f] = c] \/ (UNCHANGED row /\ c = row[o][f]),
         \A u \in late' : u[1] \in Owners /\ u[2] \in Fields /\ u[3] \in Accepted(u[2]),
         doubt' \in SUBSET (Owners \X Fields),
         \A p \in Owners, g \in Fields :
           <<p, g>> \notin doubt' => <<p, g>> \notin doubt \/ (p = o /\ g = f),
         <<o, f>> \notin doubt' => sure,
         Agrees(f, n, sure, d, c)
  PROVE  LiveInv'
<1>1. FormsOK /\ FormInv BY TypeParts DEF LiveInv
<1>2. o \in Slugs /\ Owners \subseteq Slugs BY DEF LiveAssumption
<1>3. DOMAIN form' = Owners /\ DOMAIN draft' = Owners /\ DOMAIN row' = Slugs
  BY <1>1 DEF FormsOK
<1>4. /\ \A p \in Owners : DOMAIN form'[p] = Fields /\ DOMAIN draft'[p] = Fields
      /\ \A p \in Slugs : DOMAIN row'[p] = Fields
  BY <1>1, <1>2 DEF FormsOK
<1>5. form'[o][f] = n /\ draft'[o][f] = d /\ row'[o][f] = c
  BY <1>1, <1>2 DEF FormsOK
<1>6. ASSUME NEW p \in Owners, NEW g \in Fields, ~(p = o /\ g = f)
      PROVE  form'[p][g] = form[p][g] /\ draft'[p][g] = draft[p][g]
  BY <1>1, <1>6 DEF FormsOK
<1>7. ASSUME NEW p \in Slugs, NEW g \in Fields, ~(p = o /\ g = f)
      PROVE  row'[p][g] = row[p][g]
  BY <1>1, <1>2, <1>7 DEF FormsOK
<1>8. FormsOK'
  <2>1. ASSUME NEW p \in Slugs, NEW g \in Fields PROVE row'[p][g] \in Accepted(g)
    BY <1>1, <1>5, <1>7 DEF FormsOK
  <2>2. ASSUME NEW p \in Owners, NEW g \in Fields
        PROVE  draft'[p][g] \in Values(g) /\ form'[p][g] \in Form(g)
    <3>1. CASE p = o /\ g = f BY <1>5, <3>1
    <3>2. CASE ~(p = o /\ g = f) BY <1>1, <1>6, <3>2 DEF FormsOK
    <3> QED BY <3>1, <3>2
  <2> QED BY <1>3, <1>4, <2>1, <2>2 DEF FormsOK
<1>9. FormInv'
  <2> SUFFICES ASSUME NEW p \in Owners, NEW g \in Fields
      PROVE  Agrees(g, form'[p][g], <<p, g>> \notin doubt', draft'[p][g], row'[p][g])
    BY DEF FormInv, Agrees
  <2>1. CASE p = o /\ g = f BY <1>5, <2>1 DEF Agrees
  <2>2. CASE ~(p = o /\ g = f)
    <3>1. /\ form'[p][g] = form[p][g] /\ draft'[p][g] = draft[p][g] /\ row'[p][g] = row[p][g]
          /\ <<p, g>> \notin doubt' => <<p, g>> \notin doubt
      BY <1>2, <1>6, <1>7, <2>2
    <3>2. Agrees(g, form[p][g], <<p, g>> \notin doubt, draft[p][g], row[p][g])
      BY <1>1 DEF FormInv
    <3> QED BY <3>1, <3>2 DEF Agrees
  <2> QED BY <2>1, <2>2
<1> QED BY <1>8, <1>9, FormStepStep

\* What a form, its draft, its column and its request hold.
LEMMA FormParts ==
  ASSUME LiveInv, NEW o \in Owners, NEW f \in Fields
  PROVE  /\ form[o][f] \in Form(f) /\ draft[o][f] \in Values(f) /\ row[o][f] \in Accepted(f)
         /\ Agrees(f, form[o][f], <<o, f>> \notin doubt, draft[o][f], row[o][f])
         /\ \A u \in late : u[1] \in Owners /\ u[2] \in Fields /\ u[3] \in Accepted(u[2])
         /\ doubt \in SUBSET (Owners \X Fields)
<1>1. FormsOK /\ FormInv BY TypeParts DEF LiveInv
<1>2. o \in Slugs BY DEF LiveAssumption
<1> QED BY <1>1, <1>2 DEF FormsOK, FormInv

\* The form is posted, or waits.
LEMMA SubmitsForm ==
  ASSUME LiveInv, NEW o \in Owners, NEW f \in Fields, NEW v \in Values(f), Submits(o, f, v),
         NEW c, NEW sure \in BOOLEAN, Agrees(f, form[o][f], sure, draft[o][f], c)
  PROVE  \E n \in Form(f) : form' = [form EXCEPT ![o][f] = n] /\ Agrees(f, n, sure, v, c)
<1>1. PICK x : x = form[o][f] OBVIOUS
<1>2. x \in Form(f) BY <1>1, FormParts
<1>3. FormsOK BY TypeParts DEF LiveInv
<1>4. CASE x.at = "rest"
  <2>1. PICK n : n = Posted(v) OBVIOUS
  <2>2. n \in Form(f) /\ Agrees(f, n, sure, v, c) BY <2>1 DEF Posted, Form, Agrees
  <2>3. form' = [form EXCEPT ![o][f] = n] BY <1>1, <1>3, <1>4, <2>1 DEF Submits, FormsOK
  <2> QED BY <2>2, <2>3
<1>5. CASE x.at # "rest"
  <2>1. PICK n : n = [x EXCEPT !.queued = TRUE] OBVIOUS
  <2>2. n \in Form(f) /\ n.queued /\ n.at = x.at /\ n.save = x.save BY <1>2, <2>1 DEF Form
  <2>3. Agrees(f, n, sure, v, c) BY <1>1, <1>5, <2>2 DEF Agrees
  <2>4. form' = [form EXCEPT ![o][f] = n] BY <1>1, <1>3, <1>5, <2>1 DEF Submits, FormsOK
  <2> QED BY <2>2, <2>3, <2>4
<1> QED BY <1>4, <1>5

\* The owner picks another radio button, types, or presses a form's button.
LEMMA ChangeStep ==
  ASSUME LiveInv, NEW o \in Owners,
         \/ \E v \in Setting : Change(o, v)
         \/ \E f \in Fields : Submit(o, f) \/ \E v \in Values(f) : Edit(o, f, v)
  PROVE  LiveInv'
<1>1. ASSUME NEW v \in Setting, Change(o, v) PROVE LiveInv'
  <2>2. PICK f : f \in Fields /\ f = "discovery" BY DEF Fields
  <2>3. PICK c, sure : c = row[o][f] /\ sure = (<<o, f>> \notin doubt) OBVIOUS
  <2>4. v \in Values(f) /\ sure \in BOOLEAN BY <2>2, <2>3 DEF Values
  <2>5. UNCHANGED <<row, late, doubt>> /\ FormStep /\ draft' = [draft EXCEPT ![o][f] = v]
        /\ Submits(o, f, v)
    BY <1>1, <2>2 DEF Change
  <2>6. /\ Agrees(f, form[o][f], sure, draft[o][f], c) /\ c \in Accepted(f)
        /\ \A u \in late : u[1] \in Owners /\ u[2] \in Fields /\ u[3] \in Accepted(u[2])
        /\ doubt \in SUBSET (Owners \X Fields)
    BY <2>2, <2>3, FormParts
  <2>7. f \in Fields BY <2>2
  <2>8. PICK n \in Form(f) : form' = [form EXCEPT ![o][f] = n] /\ Agrees(f, n, sure, v, c)
    BY ONLY <2>4, <2>5, <2>6, <2>7, SubmitsForm, LiveInv, o \in Owners
  <2> QED BY ONLY <2>3, <2>4, <2>5, <2>6, <2>7, <2>8, OneFormStep, LiveInv, o \in Owners
<1>2. ASSUME NEW f \in Fields, Submit(o, f) PROVE LiveInv'
  <2>1. PICK v, c, sure : v = draft[o][f] /\ c = row[o][f] /\ sure = (<<o, f>> \notin doubt)
    OBVIOUS
  <2>2. UNCHANGED <<row, draft, late, doubt>> /\ FormStep /\ Submits(o, f, v)
    BY <1>2, <2>1 DEF Submit
  <2>3. /\ Agrees(f, form[o][f], sure, v, c) /\ c \in Accepted(f) /\ v \in Values(f)
        /\ \A u \in late : u[1] \in Owners /\ u[2] \in Fields /\ u[3] \in Accepted(u[2])
        /\ doubt \in SUBSET (Owners \X Fields) /\ sure \in BOOLEAN
    BY <2>1, FormParts
  <2>4. PICK n \in Form(f) : form' = [form EXCEPT ![o][f] = n] /\ Agrees(f, n, sure, v, c)
    BY <2>1, <2>2, <2>3, SubmitsForm
  <2> QED BY <2>1, <2>2, <2>3, <2>4, OneFormStep
<1>3. ASSUME NEW f \in Fields, NEW v \in Values(f), Edit(o, f, v) PROVE LiveInv'
  <2>1. PICK n, c, sure : n = form[o][f] /\ c = row[o][f] /\ sure = (<<o, f>> \notin doubt)
    OBVIOUS
  <2>2. /\ UNCHANGED <<row, form, late, doubt>> /\ FormStep /\ f # "discovery"
        /\ draft' = [draft EXCEPT ![o][f] = v]
    BY <1>3 DEF Edit
  <2>3. /\ Agrees(f, n, sure, draft[o][f], c) /\ n \in Form(f) /\ c \in Accepted(f)
        /\ \A u \in late : u[1] \in Owners /\ u[2] \in Fields /\ u[3] \in Accepted(u[2])
        /\ doubt \in SUBSET (Owners \X Fields) /\ sure \in BOOLEAN
    BY <2>1, FormParts
  <2>4. Agrees(f, n, sure, v, c) BY <2>2, <2>3 DEF Agrees
  <2> QED BY <2>1, <2>2, <2>3, <2>4, OneFormStep
<1> QED BY <1>1, <1>2, <1>3

\* The request is turned away, refused, stored, or fails.
LEMMA SaveStep ==
  ASSUME LiveInv, NEW o \in Owners, NEW f \in Fields, Save(o, f)
  PROVE  LiveInv'
<1>1. PICK x, v, d, c, sure : /\ x = form[o][f] /\ v = x.save /\ d = draft[o][f] /\ c = row[o][f]
                              /\ sure = (<<o, f>> \notin doubt)
  OBVIOUS
<1>2. /\ x \in Form(f) /\ x.at = "posted" /\ v \in Values(f) /\ Agrees(f, x, sure, d, c)
      /\ d \in Values(f) /\ c \in Accepted(f) /\ sure \in BOOLEAN
      /\ \A u \in late : u[1] \in Owners /\ u[2] \in Fields /\ u[3] \in Accepted(u[2])
      /\ doubt \in SUBSET (Owners \X Fields)
  BY <1>1, FormParts DEF Save, Form
<1>3. FormsOK /\ FormStep /\ UNCHANGED draft BY TypeParts DEF LiveInv, Save
<1>4. ASSUME NEW h \in {"stored", "bounced", "failed"}, Ended(o, f, h),
             NEW c2, NEW sure2, h = "stored" => c2 = v
      PROVE  \E n \in Form(f) : form' = [form EXCEPT ![o][f] = n] /\ Agrees(f, n, sure2, d, c2)
  <2>1. PICK n : n = [x EXCEPT !.at = h] OBVIOUS
  <2>2. form' = [form EXCEPT ![o][f] = n] BY <1>1, <1>3, <1>4, <2>1 DEF Ended, FormsOK
  <2>3. n \in Form(f) /\ n.at = h /\ n.save = v /\ n.queued = x.queued
    BY <1>1, <1>2, <2>1 DEF Form
  <2>4. Agrees(f, n, sure2, d, c2) BY <1>1, <1>2, <1>4, <2>3 DEF Agrees
  <2> QED BY <2>2, <2>3, <2>4
<1>5. ASSUME NEW h \in {"bounced", "failed"}, Ended(o, f, h), UNCHANGED <<row, doubt>>,
             \A u \in late' : u[1] \in Owners /\ u[2] \in Fields /\ u[3] \in Accepted(u[2])
      PROVE  LiveInv'
  <2>1. PICK n \in Form(f) : form' = [form EXCEPT ![o][f] = n] /\ Agrees(f, n, sure, d, c)
    BY <1>4, <1>5
  <2> QED BY <1>1, <1>2, <1>3, <1>5, <2>1, OneFormStep
<1>6. CASE Bounced(o, f)
  BY <1>2, <1>5, <1>6 DEF Bounced
<1>7. CASE Ended(o, f, "failed") /\ UNCHANGED <<row, late, doubt>>
  BY <1>2, <1>5, <1>7
<1>8. CASE /\ v \in Accepted(f) /\ Ended(o, f, "failed") /\ UNCHANGED <<row, doubt>>
           /\ late' \in {late, late \cup {<<o, f, v>>}}
  <2>1. \A u \in late' : u[1] \in Owners /\ u[2] \in Fields /\ u[3] \in Accepted(u[2])
    BY <1>2, <1>8
  <2> QED BY <1>5, <1>8, <2>1
<1>9. CASE /\ v \in Accepted(f) /\ Ended(o, f, "stored") /\ row' = [row EXCEPT ![o][f] = v]
           /\ doubt' = doubt \ {<<o, f>>} /\ UNCHANGED late
  <2>1. PICK n \in Form(f) : form' = [form EXCEPT ![o][f] = n] /\ Agrees(f, n, TRUE, d, v)
    BY <1>4, <1>9
  <2>2. \A p \in Owners, g \in Fields :
          <<p, g>> \notin doubt' => <<p, g>> \notin doubt \/ (p = o /\ g = f)
    BY <1>9
  <2>3. doubt' \in SUBSET (Owners \X Fields) BY <1>2, <1>9
  <2>4. d = draft[o][f] /\ UNCHANGED draft BY <1>1, <1>3
  <2> QED BY <1>2, <1>3, <1>9, <2>1, <2>2, <2>3, <2>4, OneFormStep
<1> QED BY <1>1, <1>6, <1>7, <1>8, <1>9 DEF Save

\* The answer arrives or is lost; what waits is sent as the form is now.
LEMMA AnsweredStep ==
  ASSUME LiveInv, NEW o \in Owners, NEW f \in Fields, Answered(o, f)
  PROVE  LiveInv'
<1>1. PICK x, d, c, sure : /\ x = form[o][f] /\ d = draft[o][f] /\ c = row[o][f]
                           /\ sure = (<<o, f>> \notin doubt)
  OBVIOUS
<1>2. /\ x \in Form(f) /\ x.at \in {"stored", "bounced", "failed"} /\ Agrees(f, x, sure, d, c)
      /\ d \in Values(f) /\ c \in Accepted(f) /\ sure \in BOOLEAN
      /\ \A u \in late : u[1] \in Owners /\ u[2] \in Fields /\ u[3] \in Accepted(u[2])
      /\ doubt \in SUBSET (Owners \X Fields)
  BY <1>1, FormParts DEF Answered
<1>3. PICK a \in Answers(x.at) :
        form' = [form EXCEPT ![o][f] = IF x.queued THEN Posted(d)
                                       ELSE [x EXCEPT !.at = "rest", !.answer = a]]
  BY <1>1 DEF Answered
<1>4. a \in {"204", "login", "no"} /\ (a = "204" => x.at = "stored")
  BY <1>2 DEF Answers
<1>5. PICK n : n = IF x.queued THEN Posted(d) ELSE [x EXCEPT !.at = "rest", !.answer = a]
  OBVIOUS
<1>6. form' = [form EXCEPT ![o][f] = n] BY <1>3, <1>5
<1>7. n \in Form(f) /\ Agrees(f, n, sure, d, c)
  <2>1. CASE x.queued
    <3>1. n = Posted(d) BY <1>5, <2>1
    <3> QED BY <1>2, <3>1 DEF Posted, Form, Agrees
  <2>2. CASE ~x.queued
    <3>1. n = [x EXCEPT !.at = "rest", !.answer = a] BY <1>5, <2>2
    <3>2. n \in Form(f) /\ n.at = "rest" /\ n.answer = a /\ n.save = x.save /\ ~n.queued
      BY <1>2, <1>4, <2>2, <3>1 DEF Form
    <3> QED BY <1>2, <1>4, <2>2, <3>2 DEF Agrees
  <2> QED BY <2>1, <2>2
<1>8. UNCHANGED <<row, draft, late, doubt>> /\ FormStep BY DEF Answered
<1> QED BY <1>1, <1>2, <1>6, <1>7, <1>8, OneFormStep

\* An UPDATE that was given up lands, or never.
LEMMA LandStep ==
  ASSUME LiveInv, NEW o \in Owners, NEW f \in Fields, NEW v \in Values(f), Land(o, f, v)
  PROVE  LiveInv'
<1>1. PICK n, d, c, sure : /\ n = form[o][f] /\ d = draft[o][f] /\ c = row[o][f]
                           /\ sure = (<<o, f>> \notin doubt)
  OBVIOUS
<1>2. /\ n \in Form(f) /\ d \in Values(f) /\ c \in Accepted(f) /\ Agrees(f, n, sure, d, c)
      /\ doubt \in SUBSET (Owners \X Fields) /\ sure \in BOOLEAN
  BY <1>1, FormParts
<1>3. /\ \A u \in late' : u[1] \in Owners /\ u[2] \in Fields /\ u[3] \in Accepted(u[2])
      /\ v \in Accepted(f)
  BY FormParts DEF Land
<1>4. UNCHANGED <<draft, form>> /\ FormStep BY DEF Land
<1>5. CASE row' = [row EXCEPT ![o][f] = v] /\ doubt' = doubt \cup {<<o, f>>}
  <2>1. /\ doubt' \in SUBSET (Owners \X Fields) /\ <<o, f>> \in doubt'
        /\ \A p \in Owners, g \in Fields :
             <<p, g>> \notin doubt' => <<p, g>> \notin doubt \/ (p = o /\ g = f)
    BY <1>2, <1>5
  <2>2. row' = [row EXCEPT ![o][f] = v] BY <1>5
  <2>3. Agrees(f, n, FALSE, d, v) BY <1>2 DEF Agrees
  <2> QED BY <1>1, <1>2, <1>3, <1>4, <2>1, <2>2, <2>3, OneFormStep
<1>6. CASE UNCHANGED <<row, doubt>>
  BY <1>1, <1>2, <1>3, <1>4, <1>6, OneFormStep
<1> QED BY <1>5, <1>6 DEF Land

\* The page is loaded again.
LEMMA DashboardStep ==
  ASSUME LiveInv, NEW o \in Owners, Dashboard(o)
  PROVE  LiveInv'
<1>1. FormsOK /\ FormInv BY TypeParts DEF LiveInv
<1>2. o \in Slugs BY DEF LiveAssumption
<1>3. /\ draft' = [draft EXCEPT ![o] = row[o]]
      /\ form' = [form EXCEPT ![o] = [f \in Fields |-> Rest(row[o][f])]]
      /\ doubt' = {d \in doubt : d[1] # o} /\ UNCHANGED <<row, late>> /\ FormStep
  BY DEF Dashboard
<1>4. \A f \in Fields : row[o][f] \in Values(f) BY <1>1, <1>2, AcceptedValues DEF FormsOK
<1>5. \A f \in Fields : LET x == Rest(row[o][f]) IN
        x \in Form(f) /\ x.save = row[o][f] /\ x.at = "rest" /\ ~x.queued
  BY <1>4 DEF Rest, Form
<1>6. /\ draft'[o] = row[o]
      /\ \A f \in Fields : form'[o][f] = Rest(row[o][f])
      /\ DOMAIN form'[o] = Fields
      /\ \A p \in Owners \ {o} : draft'[p] = draft[p] /\ form'[p] = form[p]
  BY <1>1, <1>3 DEF FormsOK
<1>7. FormsOK'
  <2>1. DOMAIN row' = Slugs /\ DOMAIN draft' = Owners /\ DOMAIN form' = Owners
    BY <1>1, <1>3 DEF FormsOK
  <2>2. doubt' \in SUBSET (Owners \X Fields) BY <1>1, <1>3 DEF FormsOK
  <2>3. \A s \in Slugs : DOMAIN row'[s] = Fields /\ \A f \in Fields : row'[s][f] \in Accepted(f)
    BY <1>1, <1>3 DEF FormsOK
  <2>4. ASSUME NEW p \in Owners
        PROVE  /\ DOMAIN draft'[p] = Fields /\ DOMAIN form'[p] = Fields
               /\ \A f \in Fields : draft'[p][f] \in Values(f) /\ form'[p][f] \in Form(f)
    <3>1. CASE p = o BY <1>1, <1>2, <1>4, <1>5, <1>6, <3>1 DEF FormsOK
    <3>2. CASE p # o BY <1>1, <1>6, <3>2 DEF FormsOK
    <3> QED BY <3>1, <3>2
  <2>5. \A u \in late' : u[1] \in Owners /\ u[2] \in Fields /\ u[3] \in Accepted(u[2])
    BY <1>1, <1>3 DEF FormsOK
  <2> QED BY <2>1, <2>2, <2>3, <2>4, <2>5 DEF FormsOK
<1>8. FormInv'
  <2> SUFFICES ASSUME NEW p \in Owners, NEW g \in Fields
      PROVE  Agrees(g, form'[p][g], <<p, g>> \notin doubt', draft'[p][g], row'[p][g])
    BY DEF FormInv, Agrees
  <2>1. CASE p = o BY <1>3, <1>5, <1>6, <2>1 DEF Agrees
  <2>2. CASE p # o
    <3>1. <<p, g>> \notin doubt' => <<p, g>> \notin doubt BY <1>3, <2>2
    <3>2. form'[p] = form[p] /\ draft'[p] = draft[p] /\ row' = row BY <1>3, <1>6, <2>2
    <3>3. Agrees(g, form[p][g], <<p, g>> \notin doubt, draft[p][g], row[p][g])
      BY <1>1 DEF FormInv
    <3> QED BY <3>1, <3>2, <3>3 DEF Agrees
  <2> QED BY <2>1, <2>2
<1> QED BY <1>3, <1>7, <1>8, FormStepStep

\* Whatever an owner does.
LEMMA SettingsStep ==
  ASSUME LiveInv, NEW o \in Owners, Settings(o)
  PROVE  LiveInv'
<1>1. CASE DashboardSetDiscovery(o) \/ DashboardSetMetadata(o) \/ DashboardSetProfile(o)
  BY <1>1, SaveStep DEF DashboardSetDiscovery, DashboardSetMetadata, DashboardSetProfile, Fields
<1>2. CASE \E f \in Fields : Answered(o, f)
  BY <1>2, AnsweredStep
<1>3. CASE \/ \E v \in Setting : Change(o, v)
           \/ \E f \in Fields : Submit(o, f) \/ \E v \in Values(f) : Edit(o, f, v)
  BY <1>3, ChangeStep
<1>4. CASE \E f \in Fields : \E v \in Values(f) : Land(o, f, v)
  BY <1>4, LandStep
<1>5. CASE Dashboard(o)
  BY <1>5, DashboardStep
<1> QED BY <1>1, <1>2, <1>3, <1>4, <1>5 DEF Settings
-----------------------------------------------------------------------------
(* The kick *)

\* A step of the kick that leaves the rooms alone.
LEMMA QuietKickStep ==
  ASSUME LiveInv, KickStep, UNCHANGED <<rooms, publishing, watch>>, KickOK', KickInv'
  PROVE  LiveInv'
<1>1. LiveTypeOK /\ WorldOK /\ FormsOK /\ ListsOK BY TypeParts DEF LiveInv
<1>2. UNCHANGED <<rooms, publishing, watch, claimed, row, draft, form, late, doubt, listing>>
  BY DEF KickStep, formVars
<1>3. WorldOK' /\ FormsOK' /\ ListsOK' /\ FormInv'
  BY <1>1, <1>2 DEF WorldOK, FormsOK, ListsOK, LiveInv, FormInv, Agrees
<1>4. ListInv'
  <2>1. ASSUME NEW r \in Requests PROVE Sound(listing[r], watch[r])'
    <3>1. Sound(listing[r], watch[r]) BY DEF LiveInv, ListInv
    <3>2. /\ \A s : Listable(listing[r], s)' <=> Listable(listing[r], s)
          /\ \A p : Hides(p)' <=> Hides(p)
          /\ Underway(listing[r])' <=> Underway(listing[r])
      BY <1>2 DEF Listable, Hides, AtRest, Underway
    <3>3. Seen(listing[r], watch[r])' BY <1>2, <3>1, <3>2 DEF Sound, Seen
    <3>4. Progress(listing[r], watch[r])' BY <1>2, <3>1 DEF Sound, Progress
    <3> QED BY <3>3, <3>4 DEF Sound
  <2> QED BY <2>1 DEF ListInv
<1> QED BY <1>3, <1>4, TypeParts DEF LiveInv

\* DeleteRoom is answered.
LEMMA DeleteRoomStep ==
  ASSUME LiveInv, DeleteRoom
  PROVE  LiveInv'
<1>1. LiveTypeOK /\ WorldOK /\ FormsOK /\ KickOK /\ KickInv BY TypeParts DEF LiveInv
<1>2. UNCHANGED <<claimed, row, draft, form, late, doubt, listing>> /\ Observe /\ kick.at = "delete"
  BY DEF DeleteRoom, KickStep, formVars
<1>3. WorldOK'
  <2>1. CASE rooms' = rooms \ {kick.slug} /\ publishing' = publishing \ {kick.slug}
    BY <1>1, <1>2, <2>1 DEF WorldOK
  <2>2. CASE UNCHANGED <<rooms, publishing>>
    BY <1>1, <1>2, <2>2 DEF WorldOK
  <2> QED BY <2>1, <2>2 DEF DeleteRoom
<1>4. KickOK' /\ KickInv'
  <2>1. CASE kick' = [kick EXCEPT !.at = "log", !.cut = TRUE]
    BY <1>1, <1>2, <2>1 DEF KickOK, Kick, KickInv
  <2>2. CASE kick' = [kick EXCEPT !.at = "failed"]
    BY <1>1, <1>2, <2>2 DEF KickOK, Kick, KickInv
  <2> QED BY <2>1, <2>2 DEF DeleteRoom
<1>5. FormsOK' /\ FormInv' BY <1>1, <1>2 DEF FormsOK, LiveInv, FormInv, Agrees
<1>6. ListInv' /\ ListsOK'
  <2>1. publishing' \in SUBSET Slugs /\ claimed \subseteq claimed' BY <1>2, <1>3 DEF WorldOK
  <2> QED BY <1>1, <1>2, <2>1, ObserveStep DEF LiveInv
<1> QED BY <1>3, <1>4, <1>5, <1>6, TypeParts DEF LiveInv

\* The button is pressed; the deed is logged; the request is over.
LEMMA KickSteps ==
  ASSUME LiveInv, (\E s \in Slugs : PressKick(s)) \/ LogAdminAction \/ KickOver
  PROVE  LiveInv'
<1>1. KickOK /\ KickInv BY TypeParts DEF LiveInv
<1>2. CASE \E s \in Slugs : PressKick(s)
  <2>1. PICK s \in Slugs : PressKick(s) BY <1>2
  <2>2. kick' = [NoKick EXCEPT !.at = "delete", !.slug = s, !.cut = s \notin publishing]
        /\ KickStep /\ UNCHANGED <<rooms, publishing, watch>>
    BY <2>1 DEF PressKick
  <2>3. PICK c \in BOOLEAN : c = (s \notin publishing) OBVIOUS
  <2>4. kick' = [NoKick EXCEPT !.at = "delete", !.slug = s, !.cut = c] BY <2>2, <2>3
  <2>5. KickOK' /\ KickInv' BY <2>4 DEF KickOK, KickInv, Kick, NoKick
  <2> QED BY <2>2, <2>5, QuietKickStep
<1>3. CASE LogAdminAction
  <2>1. PICK l \in BOOLEAN : kick' = [kick EXCEPT !.at = "done", !.logged = l]
    BY <1>3 DEF LogAdminAction
  <2>2. kick.at = "log" BY <1>3 DEF LogAdminAction
  <2>3. KickOK' /\ KickInv' BY <1>1, <2>1, <2>2 DEF KickOK, KickInv, Kick
  <2> QED BY <1>3, <2>3, QuietKickStep DEF LogAdminAction
<1>4. CASE KickOver
  <2>1. KickOK' /\ KickInv' BY <1>4 DEF KickOver, KickOK, KickInv, Kick, NoKick
  <2> QED BY <1>4, <2>1, QuietKickStep DEF KickOver
<1> QED BY <1>2, <1>3, <1>4
-----------------------------------------------------------------------------

\* Rooms and owners come and go.
LEMMA WorldChanges ==
  ASSUME LiveInv, NEW s \in Slugs,
         Publish(s) \/ Enter(s) \/ Unpublish(s) \/ CloseRoom(s) \/ SetUserSlug(s)
  PROVE  LiveInv'
<1>1. WorldOK BY TypeParts DEF LiveInv
<1>2. WorldStep /\ claimed \subseteq claimed' /\ WorldOK'
  BY <1>1 DEF WorldOK, Publish, Enter, Unpublish, CloseRoom, SetUserSlug
<1> QED BY <1>2, WorldStepStep

\* The initial states.
LEMMA InitHolds == LiveInit => LiveInv
<1> SUFFICES ASSUME LiveInit PROVE LiveInv OBVIOUS
<1>1. WorldOK BY DEF LiveInit, WorldOK
<1>2. PICK t \in Texts \ TooLong, d \in [Slugs -> Setting] :
        row = [s \in Slugs |-> [f \in Fields |-> IF f = "discovery" THEN d[s] ELSE t]]
  BY DEF LiveInit
<1>3. \A s \in Slugs : DOMAIN row[s] = Fields /\ \A f \in Fields : row[s][f] \in Accepted(f)
  BY <1>2 DEF Accepted
<1>4. \A o \in Owners, f \in Fields : LET x == Rest(row[o][f]) IN
        /\ x \in Form(f) /\ x.save = row[o][f] /\ x.at = "rest" /\ ~x.queued
        /\ row[o][f] \in Values(f)
  BY <1>3, AcceptedValues DEF Rest, Form, LiveAssumption
<1>5. /\ draft = [o \in Owners |-> row[o]] /\ form = [o \in Owners |-> [f \in Fields |-> Rest(row[o][f])]]
      /\ late = {} /\ doubt = {} /\ kick = NoKick
      /\ listing = [r \in Requests |-> NoListing] /\ watch = [r \in Requests |-> Unwatched]
  BY DEF LiveInit
<1>6. FormsOK BY <1>2, <1>3, <1>4, <1>5 DEF FormsOK, LiveAssumption
<1>7. FormInv BY <1>4, <1>5 DEF FormInv, Agrees
<1>8. KickOK /\ KickInv BY <1>5 DEF KickOK, KickInv, Kick, NoKick
<1>9. NoListing \in Listing /\ Unwatched \in Watch
  BY DEF NoListing, Unwatched, Listing, Watch, Kinds
<1>10. Sound(NoListing, Unwatched)
  BY DEF Sound, Seen, Progress, Underway, NoListing, Unwatched
<1>11. ListsOK /\ ListInv BY <1>5, <1>9, <1>10 DEF ListsOK, ListInv
<1> QED BY <1>1, <1>6, <1>7, <1>8, <1>11, TypeParts DEF LiveInv

\* A step that changes nothing.
LEMMA StutterHolds ==
  ASSUME LiveInv, UNCHANGED liveVars
  PROVE  LiveInv'
<1>1. LiveTypeOK /\ WorldOK /\ FormsOK /\ ListsOK /\ KickOK BY TypeParts DEF LiveInv
<1>2. /\ KickStep /\ UNCHANGED <<rooms, publishing, watch, kick>>
  BY DEF KickStep, liveVars, worldVars, formVars
<1>3. KickOK' /\ KickInv' BY <1>1, <1>2 DEF LiveInv, KickOK, KickInv
<1> QED BY <1>2, <1>3, QuietKickStep

\* LiveInv is inductive.
LEMMA LiveInvStep == LiveInv /\ [LiveNext]_liveVars => LiveInv'
<1> SUFFICES ASSUME LiveInv, [LiveNext]_liveVars PROVE LiveInv' OBVIOUS
<1>1. CASE \E s \in Slugs : World(s)
  BY <1>1, WorldChanges, KickSteps DEF World
<1>2. CASE \E r \in Requests : List(r)
  BY <1>2, ListStep
<1>3. CASE \E o \in Owners : Settings(o)
  BY <1>3, SettingsStep
<1>4. CASE DeleteRoom
  BY <1>4, DeleteRoomStep
<1>5. CASE LogAdminAction \/ KickOver
  BY <1>5, KickSteps
<1>6. CASE UNCHANGED liveVars
  BY <1>6, StutterHolds
<1> QED BY <1>1, <1>2, <1>3, <1>4, <1>5, <1>6 DEF LiveNext

\* LiveInv holds in every behaviour, for any streams, owners, texts and requests.
THEOREM LiveInvariant == LiveSpec => []LiveInv
<1> QED BY InitHolds, LiveInvStep, PTL DEF LiveSpec

\* Every variable keeps its type.
THEOREM LiveTypes == LiveSpec => []LiveTypeOK
<1>1. LiveInv => LiveTypeOK BY DEF LiveInv
<1> QED BY <1>1, LiveInvariant, PTL

\* A listing (ListLive and the handlers that read owners' rows) names no stream
\* that was not live and to be shown to its reader at some time of the request.
THEOREM LiveListedWasLive == LiveSpec => []ListedWasLive
<1>1. LiveInv => ListedWasLive BY DEF LiveInv, ListInv, Sound, Progress, ListedWasLive
<1> QED BY <1>1, LiveInvariant, PTL

\* A listing misses no stream that was live and to be shown all along, unless a
\* call about that stream failed.
THEOREM LiveLiveIsListed == LiveSpec => []LiveIsListed
<1>1. LiveInv => LiveIsListed BY DEF LiveInv, ListInv, Sound, Progress, LiveIsListed
<1> QED BY <1>1, LiveInvariant, PTL

\* No card of an owner whose last change of the discovery form was to "unlisted" and
\* was answered 204.
THEOREM LiveHiddenStays == LiveSpec => []HiddenStays
<1>1. LiveInv => HiddenStays BY DEF LiveInv, ListInv, Sound, Progress, HiddenStays
<1> QED BY <1>1, LiveInvariant, PTL

\* After a 204 the row holds what was posted, and the discovery form shows it.
THEOREM LiveSavesHold == LiveSpec => []SavesHold
<1>1. LiveInv => SavesHold BY DEF LiveInv, FormInv, Agrees, AtRest, SavesHold
<1> QED BY <1>1, LiveInvariant, PTL

\* AdminStreamKick answers and logs only a kick that ended the stream.
THEOREM LiveKickHolds == LiveSpec => []KickHolds
<1>1. LiveInv => KickHolds BY DEF LiveInv, KickInv, KickHolds
<1> QED BY <1>1, LiveInvariant, PTL
-----------------------------------------------------------------------------
(* How long a listing takes *)

Stage(q) ==
  CASE q.at \in {"own", "rooms"} -> 1
    [] q.at = "ask" -> 2
    [] q.at = "look" -> 3
    [] OTHER -> 4

\* A listing under way goes to a later stage or takes one room, one stream off those it
\* has still to ask about; what it has found stays found, and nobody else's step, no
\* room or form, adds anything to what it has to do.
ListingAdvances ==
  \A r \in Requests : Underway(listing[r]) =>
    \/ listing'[r] = listing[r] /\ ~List(r)
    \/ /\ List(r)
       /\ listing[r].out \subseteq listing'[r].out
       /\ \/ Stage(listing'[r]) > Stage(listing[r])
          \/ /\ Stage(listing'[r]) = Stage(listing[r])
             /\ \E s \in listing[r].todo : listing'[r].todo = listing[r].todo \ {s}

\* What a call of a listing does to it.
LEMMA ListingCall ==
  ASSUME LiveInv, NEW r \in Requests, Underway(listing[r]), List(r)
  PROVE  /\ listing[r].out \subseteq listing'[r].out
         /\ \/ Stage(listing'[r]) > Stage(listing[r])
            \/ /\ Stage(listing'[r]) = Stage(listing[r])
               /\ \E s \in listing[r].todo : listing'[r].todo = listing[r].todo \ {s}
<1> DEFINE q == listing[r]
           n == listing'[r]
<1>1. listing \in [Requests -> Listing] /\ q \in Listing
  BY TypeParts DEF LiveInv, ListsOK
<1>2. q.at \in {"own", "rooms", "ask", "look"}
  BY <1>1 DEF Underway, Listing
<1>3. q.at # "look" => q.out = {}
  BY ListingParts, <1>2 DEF Sound, Progress
<1>4. ~(\E first, k, a, S : Begins(r, first, k, a, S)) /\ ~Over(r)
  BY <1>2 DEF Begins, Over
<1>5. CASE GetOwner(r)
  BY <1>1, <1>3, <1>5 DEF GetOwner, Stage, Listing
<1>6. CASE IsLive(r)
  BY <1>1, <1>3, <1>6 DEF IsLive, Stage, Listing
<1>7. CASE ListRooms(r)
  BY <1>1, <1>3, <1>7 DEF ListRooms, Stage, Listing
<1>8. CASE Streams(r)
  BY <1>1, <1>3, <1>8 DEF Streams, Stage, Listing
<1>9. CASE Answer(r)
  BY <1>1, <1>9 DEF Answer, Stage, Listing
<1>10. ASSUME NEW s \in Slugs, ListParticipants(r, s) \/ ParticipantsFail(r, s)
                               \/ GetUser(r, s) \/ GetUserFails(r, s)
       PROVE  /\ q.out \subseteq n.out
              /\ Stage(n) = Stage(q) /\ s \in q.todo /\ n.todo = q.todo \ {s}
  <2>1. s \in q.todo /\ n.todo = q.todo \ {s} /\ n.at = q.at /\ q.out \subseteq n.out
    BY <1>1, <1>10 DEF ListParticipants, ParticipantsFail, GetUser, GetUserFails, Listing
  <2>2. QED BY <2>1 DEF Stage
<1>11. QED
  BY <1>4, <1>5, <1>6, <1>7, <1>8, <1>9, <1>10 DEF List, Index, APILiveStreams, AdminStreams, CIndex,
     CView, Channel, Profile, DashboardLive

\* A listing ends after one call for the rooms, one for each room there was then, and one
\* query for each stream among them, however many rooms open meanwhile: what is left for
\* it to end is that its own calls return.
THEOREM LiveListingsAdvance == LiveSpec => [][ListingAdvances]_liveVars
<1>1. ASSUME LiveInv, LiveNext PROVE ListingAdvances
  <2> SUFFICES ASSUME NEW r \in Requests, Underway(listing[r]), ~List(r)
               PROVE  listing'[r] = listing[r]
    BY <1>1, ListingCall DEF ListingAdvances
  <2>1. listing \in [Requests -> Listing]
    BY <1>1, TypeParts DEF LiveInv, ListsOK
  <2>2. ASSUME NEW p \in Requests, List(p)
        PROVE  listing'[r] = listing[r]
    <3>1. p # r
      BY <2>2
    <3>2. ASSUME NEW first, NEW k, NEW a, NEW S, Begins(p, first, k, a, S)
          PROVE  listing'[r] = listing[r]
      BY <2>1, <3>1, <3>2 DEF Begins
    <3>3. CASE GetOwner(p) \/ IsLive(p) \/ ListRooms(p) \/ Streams(p) \/ Answer(p) \/ Over(p)
      BY <2>1, <3>1, <3>3 DEF GetOwner, IsLive, ListRooms, Streams, Answer, Over
    <3>4. ASSUME NEW s \in Slugs, ListParticipants(p, s) \/ ParticipantsFail(p, s)
                                   \/ GetUser(p, s) \/ GetUserFails(p, s)
          PROVE  listing'[r] = listing[r]
      BY <2>1, <3>1, <3>4 DEF ListParticipants, ParticipantsFail, GetUser, GetUserFails
    <3>5. QED
      BY <2>2, <3>2, <3>3, <3>4 DEF List, Index, APILiveStreams, AdminStreams, CIndex, CView, Channel,
         Profile, DashboardLive
  <2>3. ASSUME NEW s \in Slugs, World(s) PROVE listing' = listing
    <3>1. WorldStep \/ KickStep
      BY <2>3 DEF World, Publish, Enter, Unpublish, CloseRoom, SetUserSlug, PressKick
    <3>2. QED BY <3>1 DEF WorldStep, KickStep
  <2>4. ASSUME NEW o \in Owners, Settings(o) PROVE listing' = listing
    <3>1. FormStep
      BY <2>4 DEF Settings, DashboardSetDiscovery, DashboardSetMetadata, DashboardSetProfile, Save, Answered,
         Change, Edit, Submit, Land, Dashboard
    <3>2. QED BY <3>1 DEF FormStep
  <2>5. CASE DeleteRoom \/ LogAdminAction \/ KickOver
    BY <2>5 DEF DeleteRoom, LogAdminAction, KickOver, KickStep
  <2>6. QED BY <1>1, <2>2, <2>3, <2>4, <2>5 DEF LiveNext
<1>2. QED BY <1>1, LiveInvariant, PTL DEF LiveSpec
=============================================================================
