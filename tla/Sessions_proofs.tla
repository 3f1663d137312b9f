--------------------------- MODULE Sessions_proofs ---------------------------
(***************************************************************************)
(* The login sessions of one browser, for any number of requests, tokens,  *)
(* nonces and users.                                                       *)
(*                                                                         *)
(* SessionsInv, the inductive invariant, follows a request from its        *)
(* sending to its answer: what it holds at each stage (ShapeInv), what a   *)
(* request that runs alone knows of the browser's cookie (SoloInv), whom   *)
(* the rows and the requests that hold their tokens name (NamedInv), what  *)
(* is left of an ended session (EndedInv), and how the session and the     *)
(* answers agree (CalmInv).                                                *)
(***************************************************************************)
EXTENDS Sessions, TLAPS

\* The handlers of a request are at work on the session it has loaded.
Loaded(q) == req[q].at \in {"loaded", "handle", "discord", "upserted", "commit"}

\* What a request holds at its stages.
Shape(r) ==
  /\ r.set \in 0 .. tokens \cup {Keep}
  /\ r.at = "sent" => r.data = Empty /\ r.status = "clean" /\ ~r.whole /\ r.sure
  /\ r.at \notin {"idle", "reply"} => r.set = Keep
  /\ r.status # "modified" /\ r.at # "reply" => r.data = Empty
  /\ r.status # "modified" /\ r.at \notin {"sent", "reply"} => r.token = 0
  /\ r.at # "reply" => (r.status = "destroyed" => r.whole) /\ (r.status = "clean" => ~r.whole)
  /\ r.at \in {"discord", "upserted"} => r.data.nonce = 0 /\ r.state # Foreign
  /\ r.at = "upserted" => r.who \in Users

ShapeInv == \A q \in Requests : Shape(req[q])

\* A request that no other has overlapped is the only one, and knows the cookie.
SoloInv == \A q \in Requests : Active(q) /\ req[q].solo =>
  /\ Alone(q)
  /\ req[q].at = "sent" => req[q].token = cookie
  /\ Loaded(q) /\ ~req[q].whole => req[q].token = cookie \/ (req[q].token = 0 /\ ~HasRow(cookie))

\* Rows of a token, and requests that hold it, name one user.
NamedInv ==
  /\ \A t \in Tokens : t > tokens => named[t] = {}
  /\ \A t \in Tokens \ unrenewed :
       /\ \A u, v \in named[t] : u = v
       /\ HasRow(t) => table[t].user \in named[t]
       /\ \A q \in Requests : Loaded(q) /\ req[q].token = t =>
            /\ \A v \in named[t] : v = req[q].data.user
            /\ \A p \in Requests : Loaded(p) /\ req[p].token = t => req[p].data.user = req[q].data.user

\* Nobody holds the token of an ended session, nor will the request that ends it.
EndedInv ==
  /\ \A t \in ended \cap Tokens :
       table[t] = NoRow /\ \A q \in Requests : Loaded(q) => req[q].token # t
  /\ \A q \in Requests : Active(q) /\ req[q].solo /\ req[q].sure /\ req[q].whole =>
       /\ ~HasRow(cookie)
       /\ Loaded(q) => req[q].token = 0 \/ req[q].token # cookie

\* What a request that runs alone holds is the session as its handlers mean it.
CalmInv ==
  /\ calm /\ AllIdle => Row(cookie) = expect
  /\ \A q \in Requests : Active(q) /\ req[q].solo =>
       /\ req[q].at = "sent" => req[q].want = expect /\ (calm => Row(cookie) = expect)
       /\ req[q].sure /\ (calm \/ req[q].whole) =>
            /\ Loaded(q) => req[q].data = req[q].want
            /\ req[q].at = "reply" => Row(IF req[q].set = Keep THEN cookie ELSE req[q].set) = req[q].want

SessionsInv ==
  SessionsTypeOK /\ ShapeInv /\ SoloInv /\ ConfirmedOnly /\ NamedInv /\ EndedInv /\ CalmInv
-----------------------------------------------------------------------------
USE SessionsAssumption

\* What a request can be at.
Stages == {"idle", "sent", "loaded", "handle", "discord", "upserted", "commit", "reply"}

\* Requests, with the bounds of the counters in place of the counters.
Request ==
  [at : Stages, kind : Kinds, state : Nat, who : Users \cup {Nobody},
   token : 0 .. MaxTokens, data : Session,
   status : {"clean", "modified", "destroyed"}, set : 0 .. Keep, opens : 0 .. MaxNonces,
   want : Session, whole : BOOLEAN, solo : BOOLEAN, sure : BOOLEAN]

\* The type invariant, in these terms.
Typed ==
  /\ table \in [Tokens -> Session \cup {NoRow}]
  /\ cookie \in 0 .. tokens
  /\ tabs \in SUBSET (1 .. nonces)
  /\ banned \in SUBSET Users
  /\ req \in [Requests -> Request]
  /\ \A q \in Requests : req[q].token <= tokens /\ req[q].opens <= nonces
  /\ tokens \in 0 .. MaxTokens
  /\ nonces \in 0 .. MaxNonces
  /\ \A t \in Tokens : table[t] # NoRow => t <= tokens
  /\ confirmed \in SUBSET Users
  /\ expect \in Session
  /\ calm \in BOOLEAN
  /\ named \in [Tokens -> SUBSET (Users \cup {Nobody})]
  /\ unrenewed \in SUBSET Tokens
  /\ ended \in SUBSET (0 .. tokens)

\* Both say the same of a state.
LEMMA TypedOK == (SessionsTypeOK <=> Typed) /\ (SessionsTypeOK' <=> Typed')
<1>1. ASSUME NEW r, NEW i \in 0 .. MaxTokens, NEW n \in 0 .. MaxNonces
      PROVE  r \in [at : {"idle", "sent", "loaded", "handle", "discord", "upserted",
                          "commit", "reply"},
                    kind : Kinds, state : Nat, who : Users \cup {Nobody},
                    token : 0 .. i, data : Session,
                    status : {"clean", "modified", "destroyed"}, set : 0 .. Keep,
                    opens : 0 .. n, want : Session, whole : BOOLEAN,
                    solo : BOOLEAN, sure : BOOLEAN]
             <=> r \in Request /\ r.token <= i /\ r.opens <= n
  BY <1>1 DEF Request, Stages
<1>2. SessionsTypeOK <=> Typed BY <1>1 DEF SessionsTypeOK, Typed
<1>3. SessionsTypeOK' <=> Typed' BY <1>1 DEF SessionsTypeOK, Typed
<1> QED BY <1>2, <1>3

\* The empty session and the missing row.
LEMMA EmptyFacts ==
  /\ Empty \in Session /\ Empty.user = Nobody /\ Empty.nonce = 0
  /\ NoRow \notin Session
  /\ \A s \in Session : s.user \in Users \cup {Nobody} /\ s.nonce \in 0 .. MaxNonces
  /\ Idle \in Request /\ Idle.at = "idle" /\ Idle.data = Empty /\ Idle.status = "clean"
  /\ Idle.token = 0 /\ Idle.set = Keep /\ Idle.opens = 0 /\ Idle.whole = FALSE /\ Idle.sure = TRUE
  /\ Keep \notin 0 .. MaxTokens
BY DEF Empty, Session, NoRow, Foreign, Nonces, Idle, Request, Stages, Kinds, Keep

\* The row a token finds, or the empty session.
LEMMA RowFacts ==
  ASSUME Typed, NEW t
  PROVE  /\ HasRow(t) => t \in Tokens /\ Row(t) = table[t] /\ table[t] \in Session /\ t <= tokens /\ t # 0
         /\ ~HasRow(t) => Row(t) = Empty
         /\ Row(t) \in Session
BY EmptyFacts DEF Typed, HasRow, Row, Tokens

\* The initial state.
LEMMA InitSessions == SessionsInit => SessionsInv
<1> SUFFICES ASSUME SessionsInit PROVE SessionsInv
  OBVIOUS
<1>1. Typed BY EmptyFacts DEF SessionsInit, Typed
<1>2. /\ \A q \in Requests : req[q] = Idle /\ ~Active(q) /\ ~Loaded(q)
      /\ \A t : ~HasRow(t)
  BY EmptyFacts DEF SessionsInit, Active, Loaded, HasRow
<1>3. ShapeInv BY <1>2, EmptyFacts DEF ShapeInv, Shape, SessionsInit
<1>4. ConfirmedOnly BY <1>1, <1>2, EmptyFacts, RowFacts DEF ConfirmedOnly
<1>5. SoloInv /\ NamedInv /\ EndedInv BY <1>2 DEF SoloInv, NamedInv, EndedInv, SessionsInit
<1>6. CalmInv BY <1>1, <1>2, RowFacts DEF CalmInv, SessionsInit
<1> QED BY <1>1, <1>3, <1>4, <1>5, <1>6, TypedOK DEF SessionsInv
-----------------------------------------------------------------------------
(* Requests that come in between *)

\* p goes on as it was, but if it runs it no longer runs alone.
Overlapped(p) ==
  /\ req'[p].at = req[p].at /\ req'[p].kind = req[p].kind /\ req'[p].state = req[p].state
  /\ req'[p].who = req[p].who
  /\ req'[p].token = req[p].token /\ req'[p].data = req[p].data /\ req'[p].status = req[p].status
  /\ req'[p].set = req[p].set /\ req'[p].opens = req[p].opens /\ req'[p].want = req[p].want
  /\ req'[p].whole = req[p].whole /\ req'[p].sure = req[p].sure
  /\ req'[p] \in Request
  /\ Active(p) => ~req'[p].solo

\* Send: a request goes out.
LEMMA SendStep ==
  ASSUME SessionsInv, NEW q \in Requests, Send(q)
  PROVE  SessionsInv'
<1>1. Typed BY TypedOK DEF SessionsInv
<1>2. /\ ~Active(q) /\ UNCHANGED <<table, cookie, banned, tokens, nonces, ghosts>>
      /\ tabs' \subseteq tabs
  BY DEF Send
<1>3. PICK k \in Kinds, st \in tabs \cup {0, Foreign} :
        req' = [p \in Requests |->
            IF p = q THEN [Idle EXCEPT !.at = "sent", !.kind = k, !.state = st, !.token = cookie,
                                       !.want = expect, !.solo = Alone(q)]
            ELSE IF Active(p) THEN [req[p] EXCEPT !.solo = FALSE] ELSE req[p]]
  BY DEF Send
<1>4. st \in Nat /\ cookie \in 0 .. MaxTokens /\ Alone(q) \in BOOLEAN
  BY <1>1 DEF Typed, Foreign, Alone
<1>5. /\ req'[q].at = "sent" /\ req'[q].token = cookie /\ req'[q].want = expect
      /\ req'[q].solo = Alone(q) /\ req'[q].data = Empty /\ req'[q].status = "clean"
      /\ req'[q].set = Keep /\ req'[q].opens = 0 /\ req'[q].whole = FALSE /\ req'[q].sure = TRUE
      /\ req'[q] \in Request
  BY <1>1, <1>3, <1>4, EmptyFacts DEF Request, Stages, Typed
<1>6. ASSUME NEW p \in Requests, p # q PROVE Overlapped(p)
  <2>1. req[p] \in Request BY <1>1 DEF Typed
  <2>2. req'[p] = IF Active(p) THEN [req[p] EXCEPT !.solo = FALSE] ELSE req[p]
    BY <1>3, <1>6
  <2> QED BY <2>1, <2>2 DEF Overlapped, Request
<1>7. req' \in [Requests -> Request] BY <1>3, <1>5, <1>6 DEF Overlapped
<1> DEFINE Same == UNCHANGED <<table, cookie, tokens, confirmed, expect, calm, named, unrenewed, ended>>
<1>8. Same BY <1>2 DEF ghosts
<1>9. Typed'
  <2>1. \A p \in Requests : req'[p].token <= tokens /\ req'[p].opens <= nonces
    BY <1>1, <1>5, <1>6 DEF Overlapped, Typed
  <2>2. tabs' \in SUBSET (1 .. nonces) BY <1>1, <1>2 DEF Typed
  <2> QED BY <1>1, <1>2, <1>7, <1>8, <2>1, <2>2 DEF Typed
<1>10. /\ \A t : HasRow(t)' <=> HasRow(t)
       /\ \A t : Row(t)' = Row(t)
  BY <1>8 DEF HasRow, Row
<1>11. ShapeInv'
  BY <1>5, <1>6, <1>8 DEF SessionsInv, ShapeInv, Shape, Overlapped
<1>12. \A p \in Requests : Active(p)' /\ req'[p].solo => p = q
  BY <1>6 DEF Overlapped, Active
<1>13. Active(q)' /\ (req'[q].solo => AllIdle) /\ ~AllIdle'
  BY <1>2, <1>5 DEF Active, Alone, AllIdle
<1>14. SoloInv'
  <2>1. req'[q].solo => Alone(q)' BY <1>5, <1>6 DEF Alone, Active, Overlapped
  <2> QED BY <1>5, <1>8, <1>12, <2>1 DEF SoloInv, Loaded
<1>15. ConfirmedOnly'
  BY <1>5, <1>6, <1>8, <1>10, EmptyFacts DEF SessionsInv, ConfirmedOnly, Overlapped
<1>16. NamedInv'
  BY <1>5, <1>6, <1>8, <1>10 DEF SessionsInv, NamedInv, Overlapped, Loaded
<1>17. EndedInv'
  BY <1>5, <1>6, <1>8, <1>10, <1>12 DEF SessionsInv, EndedInv, Overlapped, Loaded
<1>18. CalmInv'
  BY <1>5, <1>8, <1>10, <1>12, <1>13 DEF SessionsInv, CalmInv, Loaded
<1> QED BY <1>9, <1>11, <1>14, <1>15, <1>16, <1>17, <1>18, TypedOK DEF SessionsInv

\* Expire: a row goes, and requests that run have been overlapped.
LEMMA ExpireStep ==
  ASSUME SessionsInv, NEW x \in Tokens, Expire(x)
  PROVE  SessionsInv'
<1>1. Typed BY TypedOK DEF SessionsInv
<1>2. /\ table' = [table EXCEPT ![x] = NoRow]
      /\ expect' = (IF x = cookie THEN Empty ELSE expect)
      /\ req' = [q \in Requests |-> IF Active(q) THEN [req[q] EXCEPT !.solo = FALSE] ELSE req[q]]
      /\ UNCHANGED <<cookie, tabs, banned, tokens, nonces, confirmed, calm, named, unrenewed, ended>>
  BY DEF Expire
<1>3. ASSUME NEW p \in Requests PROVE Overlapped(p)
  <2>1. req[p] \in Request BY <1>1 DEF Typed
  <2>2. req'[p] = IF Active(p) THEN [req[p] EXCEPT !.solo = FALSE] ELSE req[p]
    BY <1>2
  <2> QED BY <2>1, <2>2 DEF Overlapped, Request
<1>4. \A t : HasRow(t)' <=> HasRow(t) /\ t # x
  BY <1>1, <1>2 DEF HasRow, Typed
<1>5. \A t : Row(t)' = IF t = x THEN Empty ELSE Row(t)
  BY <1>1, <1>2, <1>4 DEF Row, HasRow, Typed
<1>6. Typed'
  <2>1. req' \in [Requests -> Request] BY <1>2, <1>3 DEF Overlapped
  <2>2. \A p \in Requests : req'[p].token <= tokens /\ req'[p].opens <= nonces
    BY <1>1, <1>3 DEF Overlapped, Typed
  <2>3. table' \in [Tokens -> Session \cup {NoRow}] /\ \A t \in Tokens : table'[t] # NoRow => t <= tokens
    BY <1>1, <1>2 DEF Typed
  <2>4. expect' \in Session BY <1>1, <1>2, EmptyFacts DEF Typed
  <2> QED BY <1>1, <1>2, <2>1, <2>2, <2>3, <2>4 DEF Typed
<1>7. ShapeInv'
  BY <1>2, <1>3 DEF SessionsInv, ShapeInv, Shape, Overlapped
<1>8. \A p \in Requests : Active(p) <=> Active(p)' BY <1>3 DEF Active, Overlapped
<1>9. \A p \in Requests : ~(Active(p)' /\ req'[p].solo)
  BY <1>3, <1>8 DEF Overlapped
<1>10. SoloInv' BY <1>9 DEF SoloInv
<1>11. ConfirmedOnly'
  BY <1>2, <1>3, <1>5, EmptyFacts DEF SessionsInv, ConfirmedOnly, Overlapped
<1>12. NamedInv'
  BY <1>1, <1>2, <1>3, <1>4 DEF SessionsInv, NamedInv, Overlapped, Loaded, Typed
<1>13. EndedInv'
  BY <1>1, <1>2, <1>3, <1>9 DEF SessionsInv, EndedInv, Overlapped, Loaded, Typed
<1>14. CalmInv'
  <2>1. AllIdle' => AllIdle BY <1>8 DEF AllIdle
  <2> QED BY <1>2, <1>5, <1>9, <2>1 DEF SessionsInv, CalmInv
<1> QED BY <1>6, <1>7, <1>10, <1>11, <1>12, <1>13, <1>14, TypedOK DEF SessionsInv

\* Ban, and steps that change nothing.
LEMMA BanStep ==
  ASSUME SessionsInv, UNCHANGED <<table, cookie, tabs, req, tokens, nonces, ghosts>>,
         banned' \in SUBSET Users
  PROVE  SessionsInv'
<1>1. Typed BY TypedOK DEF SessionsInv
<1>2. UNCHANGED <<table, cookie, tabs, req, tokens, nonces, confirmed, expect, calm, named,
                  unrenewed, ended>>
  BY DEF ghosts
<1>3. /\ \A t : (HasRow(t)' <=> HasRow(t)) /\ Row(t)' = Row(t)
      /\ \A q \in Requests : /\ (Active(q)' <=> Active(q)) /\ (Loaded(q)' <=> Loaded(q))
                             /\ (Alone(q)' <=> Alone(q))
      /\ AllIdle' <=> AllIdle
  BY <1>2 DEF HasRow, Row, Active, Loaded, Alone, AllIdle
<1>4. Typed' BY <1>1, <1>2 DEF Typed
<1>5. ShapeInv' BY <1>2 DEF SessionsInv, ShapeInv, Shape
<1>6. SoloInv' BY <1>2, <1>3 DEF SessionsInv, SoloInv
<1>7. ConfirmedOnly' BY <1>2, <1>3 DEF SessionsInv, ConfirmedOnly
<1>8. NamedInv' BY <1>2, <1>3 DEF SessionsInv, NamedInv
<1>9. EndedInv' BY <1>2, <1>3 DEF SessionsInv, EndedInv
<1>10. CalmInv' BY <1>2, <1>3 DEF SessionsInv, CalmInv
<1> QED BY <1>4, <1>5, <1>6, <1>7, <1>8, <1>9, <1>10, TypedOK DEF SessionsInv
-----------------------------------------------------------------------------
(* The steps of a request *)

\* The other requests stay as they are.
Elsewhere(q) == \A p \in Requests \ {q} : req'[p] = req[p]

\* Beside a request that runs, none runs alone.
LEMMA OthersOverlapped ==
  ASSUME SessionsInv, NEW q \in Requests, Active(q), Elsewhere(q)
  PROVE  /\ \A p \in Requests : Active(p)' /\ req'[p].solo => p = q
         /\ req[q].solo => Alone(q) /\ Alone(q)'
         /\ ~AllIdle
BY DEF SessionsInv, SoloInv, Active, Alone, Elsewhere, AllIdle

\* Load: the row named by the cookie, no row, or an error.
LEMMA LoadStep ==
  ASSUME SessionsInv, NEW q \in Requests, Load(q)
  PROVE  SessionsInv'
<1> DEFINE t == req[q].token
           r == req'[q]
<1>1. Typed BY TypedOK DEF SessionsInv
<1>2. /\ UNCHANGED <<table, cookie, tabs, banned, tokens, nonces, confirmed, expect, calm, named,
                     unrenewed, ended>>
      /\ req[q].at = "sent" /\ Active(q) /\ req[q] \in Request
  BY <1>1 DEF Load, ghosts, Active, Typed
<1>3. /\ req[q].data = Empty /\ req[q].status = "clean" /\ ~req[q].whole /\ req[q].sure
      /\ req[q].set = Keep /\ (req[q].solo => t = cookie /\ req[q].want = expect /\ (calm => Row(cookie) = expect))
  BY <1>2 DEF SessionsInv, ShapeInv, Shape, SoloInv, CalmInv
<1>4. /\ r \in Request /\ r.kind = req[q].kind /\ r.state = req[q].state /\ r.set = Keep
      /\ r.opens = req[q].opens /\ r.want = req[q].want /\ r.whole = FALSE
      /\ r.solo = req[q].solo /\ r.sure = TRUE
      /\ \/ HasRow(t) /\ r.at = "loaded" /\ r.data = table[t] /\ r.status = "modified" /\ r.token = t
         \/ ~HasRow(t) /\ r.at = "loaded" /\ r.data = Empty /\ r.status = "clean" /\ r.token = 0
         \/ r.at = "reply" /\ r.data = Empty /\ r.status = "clean" /\ r.token = t
  <2>1. CASE HasRow(t) /\ req' = [req EXCEPT ![q].at = "loaded", ![q].data = table[t], ![q].status = "modified"]
    <3>1. table[t] \in Session BY <1>1, <2>1, RowFacts
    <3> QED BY <1>1, <1>2, <1>3, <2>1, <3>1 DEF Request, Stages, Typed
  <2>2. CASE ~HasRow(t) /\ req' = [req EXCEPT ![q].at = "loaded", ![q].token = 0]
    <3>1. /\ r.at = "loaded" /\ r.token = 0 /\ r.data = req[q].data /\ r.status = req[q].status
          /\ r.kind = req[q].kind /\ r.state = req[q].state /\ r.set = req[q].set
          /\ r.opens = req[q].opens /\ r.want = req[q].want /\ r.solo = req[q].solo
          /\ r.whole = FALSE /\ r.sure = TRUE
      BY <1>1, <1>2, <1>3, <2>2 DEF Request, Typed
    <3>2. req \in [Requests -> Request] /\ 0 \in 0 .. MaxTokens BY <1>1 DEF Typed
    <3>3. req'[q] = [req[q] EXCEPT !.at = "loaded", !.token = 0] BY <2>2, <3>2
    <3>4. r \in Request BY <1>2, <3>2, <3>3 DEF Request, Stages
    <3> QED BY <1>3, <2>2, <3>1, <3>4
  <2>3. CASE req' = [req EXCEPT ![q].at = "reply"]
    BY <1>1, <1>2, <1>3, <2>3 DEF Request, Stages, Typed
  <2> QED BY <2>1, <2>2, <2>3 DEF Load
<1>5. Elsewhere(q) /\ req' \in [Requests -> Request]
  BY <1>1, <1>4 DEF Load, Elsewhere, Typed
<1> HIDE DEF r
<1>6. /\ \A p \in Requests : Active(p)' /\ req'[p].solo => p = q
      /\ r.solo => Alone(q)'
  BY <1>2, <1>4, <1>5, OthersOverlapped DEF r
<1>7. \A x : (HasRow(x)' <=> HasRow(x)) /\ Row(x)' = Row(x) BY <1>2 DEF HasRow, Row
<1>8. Typed'
  <2>1. \A p \in Requests : req'[p].token <= tokens /\ req'[p].opens <= nonces
    BY <1>1, <1>4, <1>5 DEF Typed, Elsewhere, r
  <2> QED BY <1>1, <1>2, <1>5, <2>1 DEF Typed
<1>9. ShapeInv'
  BY <1>2, <1>4, <1>5, EmptyFacts DEF SessionsInv, ShapeInv, Shape, Elsewhere, r
<1>10. SoloInv'
  BY <1>2, <1>3, <1>4, <1>6, <1>7 DEF SoloInv, Loaded, r
<1>11. ConfirmedOnly'
  <2>1. HasRow(t) => table[t].user \in confirmed \cup {Nobody}
    BY <1>1, RowFacts DEF SessionsInv, ConfirmedOnly
  <2>2. r.data.user \in confirmed \cup {Nobody} BY <1>4, <2>1, EmptyFacts
  <2> QED BY <1>2, <1>5, <1>7, <2>2 DEF SessionsInv, ConfirmedOnly, Elsewhere, r
<1>12. NamedInv'
  <2>1. NamedInv BY DEF SessionsInv
  <2>2. \A p \in Requests : p # q => (Loaded(p)' <=> Loaded(p)) /\ req'[p] = req[p]
    BY <1>5 DEF Loaded, Elsewhere
  <2>3. \A x \in Tokens : Loaded(q)' /\ r.token = x => HasRow(x) /\ r.data = table[x]
    BY <1>4 DEF Loaded, Tokens, r
  <2> QED BY <1>2, <1>7, <2>1, <2>2, <2>3 DEF NamedInv, r
<1>13. EndedInv'
  <2>1. ASSUME NEW x \in ended \cap Tokens, Loaded(q)' PROVE r.token # x
    <3>1. table[x] = NoRow BY DEF SessionsInv, EndedInv
    <3>2. r.token = 0 \/ HasRow(r.token) BY <1>4, <2>1 DEF Loaded, r
    <3> QED BY <3>1, <3>2 DEF HasRow, Tokens
  <2> QED BY <1>2, <1>4, <1>5, <1>6, <2>1 DEF SessionsInv, EndedInv, Loaded, Elsewhere, r
<1>14. CalmInv'
  <2>1. ~AllIdle' BY <1>4 DEF AllIdle, Active, r
  <2>2. ASSUME r.solo, calm PROVE Loaded(q)' => r.data = r.want
    <3>1. HasRow(cookie) => Row(cookie) = table[cookie] BY <1>1, RowFacts
    <3>2. ~HasRow(cookie) => Row(cookie) = Empty BY <1>1, RowFacts
    <3> QED BY <1>3, <1>4, <2>2, <3>1, <3>2 DEF Loaded, r
  <2>3. ASSUME r.solo, calm PROVE r.at = "reply" => Row(cookie) = r.want /\ r.set = Keep
    BY <1>3, <1>4, <2>3
  <2> QED BY <1>2, <1>4, <1>6, <1>7, <2>1, <2>2, <2>3 DEF CalmInv, r
<1> QED BY <1>8, <1>9, <1>10, <1>11, <1>12, <1>13, <1>14, TypedOK DEF SessionsInv

\* What the handlers do that leave the user of the session alone.
Works(q) ==
  /\ UNCHANGED <<table, cookie, tabs, banned, tokens, confirmed, expect, calm, named, unrenewed, ended>>
  /\ nonces' \in nonces .. MaxNonces
  /\ Elsewhere(q) /\ req' \in [Requests -> Request]
  /\ Loaded(q) /\ req'[q].at \in {"handle", "discord", "upserted", "commit"}
  /\ req'[q].token = req[q].token /\ req'[q].set = req[q].set /\ req'[q].solo = req[q].solo
  /\ req'[q].whole = req[q].whole /\ req'[q].data.user = req[q].data.user
  /\ req'[q].sure => req[q].sure
  /\ req'[q].opens <= nonces'
  /\ req[q].data = req[q].want => req'[q].data = req'[q].want
  /\ req'[q].status # "modified" => req'[q].status = req[q].status /\ req'[q].data = req[q].data
  /\ req'[q].at \in {"discord", "upserted"} => req'[q].data.nonce = 0 /\ req'[q].state # Foreign
  /\ req'[q].at = "upserted" => req'[q].who \in Users

\* A nonce that is taken out.
LEMMA RemoveNonceFacts ==
  ASSUME NEW s \in Session
  PROVE  /\ RemoveNonce(s) \in Session /\ RemoveNonce(s).user = s.user /\ RemoveNonce(s).nonce = 0
         /\ s.nonce = 0 => RemoveNonce(s) = s
BY DEF RemoveNonce, Session

\* The handlers that do so.
LEMMA WorksOf ==
  ASSUME SessionsInv, NEW q \in Requests,
         \/ Page(q) \/ Start(q) \/ Callback(q) \/ Refuse(q) \/ \E u \in Users : UpsertUser(q, u)
         \/ /\ req[q].at = "loaded"
            /\ req' = [req EXCEPT ![q].at = "handle", ![q].sure = FALSE]
            /\ UNCHANGED <<table, cookie, tabs, banned, tokens, nonces, ghosts>>
  PROVE  Works(q)
<1>1. Typed BY TypedOK DEF SessionsInv
<1>2. /\ req \in [Requests -> Request] /\ req[q] \in Request /\ req[q].data \in Session
      /\ req[q].want \in Session /\ nonces \in 0 .. MaxNonces
      /\ req[q].opens <= nonces
  BY <1>1 DEF Typed, Request
<1>3. CASE Page(q)
  BY <1>2, <1>3 DEF Page, Works, Elsewhere, Enters, Loaded, Request, Stages, ghosts
<1>4. CASE Start(q)
  <2>1. /\ nonces' = nonces + 1 /\ nonces' \in 0 .. MaxNonces /\ nonces' \in Nonces
        /\ UNCHANGED <<table, cookie, tabs, banned, tokens, ghosts>>
        /\ req' = [req EXCEPT ![q].at = "commit", ![q].data.nonce = nonces', ![q].status = "modified",
                              ![q].want.nonce = nonces', ![q].opens = nonces']
        /\ Loaded(q)
    BY <1>2, <1>4 DEF Start, Enters, Loaded, Nonces
  <2>2. /\ req'[q].at = "commit" /\ req'[q].status = "modified"
        /\ req'[q].data = [req[q].data EXCEPT !.nonce = nonces']
        /\ req'[q].want = [req[q].want EXCEPT !.nonce = nonces']
        /\ req'[q].opens = nonces' /\ req'[q].kind = req[q].kind
        /\ req'[q].token = req[q].token /\ req'[q].set = req[q].set /\ req'[q].solo = req[q].solo
        /\ req'[q].whole = req[q].whole /\ req'[q].sure = req[q].sure
    BY <1>2, <2>1 DEF Request
  <2>3. /\ req'[q].data \in Session /\ req'[q].want \in Session
        /\ req'[q].data.user = req[q].data.user
    BY <1>2, <2>1, <2>2 DEF Session
  <2>4. req' \in [Requests -> Request] /\ Elsewhere(q)
    BY <1>2, <2>1, <2>2, <2>3 DEF Request, Stages, Elsewhere
  <2> QED BY <1>2, <2>1, <2>2, <2>3, <2>4 DEF Works, ghosts
<1>5. CASE Callback(q)
  <2>1. /\ UNCHANGED <<table, cookie, tabs, banned, tokens, nonces, ghosts>>
        /\ req' = [req EXCEPT ![q].at = IF StateMatches(q) THEN "discord" ELSE "commit",
                              ![q].data = RemoveNonce(@), ![q].want.nonce = 0,
                              ![q].status = IF req[q].data.nonce = 0 THEN @ ELSE "modified"]
        /\ Loaded(q)
    BY <1>5 DEF Callback, Enters, Loaded
  <2>2. /\ req'[q].at = (IF StateMatches(q) THEN "discord" ELSE "commit")
        /\ req'[q].status = (IF req[q].data.nonce = 0 THEN req[q].status ELSE "modified")
        /\ req'[q].data = RemoveNonce(req[q].data)
        /\ req'[q].want = RemoveNonce(req[q].want)
        /\ req'[q].opens = req[q].opens /\ req'[q].kind = req[q].kind /\ req'[q].state = req[q].state
        /\ req'[q].token = req[q].token /\ req'[q].set = req[q].set /\ req'[q].solo = req[q].solo
        /\ req'[q].whole = req[q].whole /\ req'[q].sure = req[q].sure
    BY <1>2, <2>1 DEF Request, RemoveNonce
  <2>3. /\ req'[q].data \in Session /\ req'[q].want \in Session
        /\ req'[q].data.user = req[q].data.user /\ req'[q].data.nonce = 0
        /\ req[q].data.nonce = 0 => req'[q].data = req[q].data
    BY <1>2, <2>2, RemoveNonceFacts
  <2>4. req' \in [Requests -> Request] /\ Elsewhere(q)
    BY <1>2, <2>1, <2>2, <2>3 DEF Request, Stages, Elsewhere
  <2>5. StateMatches(q) => req[q].state # Foreign
    BY <1>2, EmptyFacts DEF StateMatches, Foreign
  <2> QED BY <1>2, <2>1, <2>2, <2>3, <2>4, <2>5 DEF Works, ghosts
<1>6. CASE Refuse(q)
  BY <1>2, <1>6 DEF Refuse, Works, Elsewhere, Loaded, Request, Stages, ghosts
<1>7. CASE /\ req[q].at = "loaded"
           /\ req' = [req EXCEPT ![q].at = "handle", ![q].sure = FALSE]
           /\ UNCHANGED <<table, cookie, tabs, banned, tokens, nonces, ghosts>>
  <2>1. /\ req'[q].at = "handle" /\ req'[q].sure = FALSE /\ req'[q].status = req[q].status
        /\ req'[q].data = req[q].data /\ req'[q].want = req[q].want /\ req'[q].opens = req[q].opens
        /\ req'[q].token = req[q].token /\ req'[q].set = req[q].set /\ req'[q].solo = req[q].solo
        /\ req'[q].whole = req[q].whole
    BY <1>2, <1>7 DEF Request
  <2>2. req' \in [Requests -> Request] /\ Elsewhere(q)
    BY <1>2, <1>7 DEF Request, Stages, Elsewhere
  <2> QED BY <1>2, <1>7, <2>1, <2>2 DEF Works, Loaded, ghosts
<1>8. CASE \E u \in Users : UpsertUser(q, u)
  <2>1. PICK u \in Users : UpsertUser(q, u) BY <1>8
  <2>2. /\ req[q].data.nonce = 0 /\ req[q].state # Foreign /\ req[q].at = "discord"
    BY <2>1 DEF UpsertUser, SessionsInv, ShapeInv, Shape
  <2>3. req' = [req EXCEPT ![q].at = "upserted", ![q].who = u]
    BY <2>1 DEF UpsertUser
  <2>4. /\ req'[q].at = "upserted" /\ req'[q].who = u /\ req'[q].status = req[q].status
        /\ req'[q].data = req[q].data /\ req'[q].want = req[q].want /\ req'[q].opens = req[q].opens
        /\ req'[q].token = req[q].token /\ req'[q].set = req[q].set /\ req'[q].solo = req[q].solo
        /\ req'[q].whole = req[q].whole /\ req'[q].sure = req[q].sure
        /\ req'[q].state = req[q].state
    BY <1>2, <2>3 DEF Request
  <2>5. req' \in [Requests -> Request] /\ Elsewhere(q)
    BY <1>2, <2>3 DEF Request, Stages, Elsewhere
  <2>6. UNCHANGED <<table, cookie, tabs, banned, tokens, nonces, ghosts>> /\ Loaded(q)
    BY <2>1, <2>2 DEF UpsertUser, Loaded
  <2>7. nonces' \in nonces .. MaxNonces /\ req'[q].opens <= nonces'
    BY <1>2, <2>4, <2>6
  <2> QED BY <2>2, <2>4, <2>5, <2>6, <2>7 DEF Works, ghosts
<1> QED BY <1>3, <1>4, <1>5, <1>6, <1>7, <1>8

\* They keep the invariant.
LEMMA WorksStep ==
  ASSUME SessionsInv, NEW q \in Requests, Works(q)
  PROVE  SessionsInv'
<1>1. Typed BY TypedOK DEF SessionsInv
<1>2. /\ UNCHANGED <<table, cookie, tabs, banned, tokens, confirmed, expect, calm, named, unrenewed, ended>>
      /\ nonces \in Nat /\ nonces' \in nonces .. MaxNonces
      /\ Elsewhere(q) /\ req' \in [Requests -> Request]
      /\ Active(q) /\ Loaded(q) /\ Loaded(q)' /\ req'[q].at # "reply" /\ req'[q].at # "sent"
      /\ req'[q].at # "idle" /\ req[q].at # "idle" /\ req[q].at # "reply" /\ req[q].at # "sent"
  BY <1>1 DEF Works, Loaded, Active, Typed
<1>3. /\ req'[q].token = req[q].token /\ req'[q].set = req[q].set /\ req'[q].solo = req[q].solo
      /\ req'[q].whole = req[q].whole /\ req'[q].data.user = req[q].data.user
      /\ req'[q].sure => req[q].sure
      /\ req'[q].opens <= nonces'
      /\ req[q].data = req[q].want => req'[q].data = req'[q].want
      /\ req'[q].status # "modified" => req'[q].status = req[q].status /\ req'[q].data = req[q].data
      /\ req'[q].at \in {"discord", "upserted"} => req'[q].data.nonce = 0 /\ req'[q].state # Foreign
      /\ req'[q].at = "upserted" => req'[q].who \in Users
  BY DEF Works
<1>4. /\ \A p \in Requests : Active(p)' /\ req'[p].solo => p = q
      /\ req[q].solo => Alone(q)'
  BY <1>2, OthersOverlapped
<1>5. \A x : (HasRow(x)' <=> HasRow(x)) /\ Row(x)' = Row(x) BY <1>2 DEF HasRow, Row
<1>6. Typed'
  <2>1. \A p \in Requests : req'[p].token <= tokens /\ req'[p].opens <= nonces'
    <3>1. req'[q].token <= tokens BY <1>1, <1>3 DEF Typed
    <3>2. ASSUME NEW p \in Requests, p # q PROVE req'[p].token <= tokens /\ req'[p].opens <= nonces'
      <4>1. req'[p] = req[p] /\ req[p].opens \in Nat BY <1>1, <1>2, <3>2 DEF Elsewhere, Typed, Request
      <4> QED BY <1>1, <1>2, <4>1 DEF Typed
    <3> QED BY <1>3, <3>1, <3>2
  <2>2. tabs \in SUBSET (1 .. nonces') /\ nonces' \in 0 .. MaxNonces BY <1>1, <1>2 DEF Typed
  <2> QED BY <1>1, <1>2, <2>1, <2>2 DEF Typed
<1>7. ShapeInv'
  BY <1>2, <1>3 DEF SessionsInv, ShapeInv, Shape, Elsewhere
<1>8. SoloInv'
  BY <1>2, <1>3, <1>4, <1>5 DEF SessionsInv, SoloInv
<1>9. ConfirmedOnly'
  BY <1>2, <1>3, <1>5 DEF SessionsInv, ConfirmedOnly, Elsewhere
<1>10. NamedInv'
  <2>1. \A p \in Requests : /\ Loaded(p)' <=> Loaded(p)
                            /\ req'[p].token = req[p].token /\ req'[p].data.user = req[p].data.user
    BY <1>2, <1>3 DEF Elsewhere, Loaded
  <2> QED BY <1>2, <1>5, <2>1 DEF SessionsInv, NamedInv
<1>11. EndedInv'
  <2>1. \A p \in Requests : (Loaded(p)' <=> Loaded(p)) /\ req'[p].token = req[p].token
    BY <1>2, <1>3 DEF Elsewhere, Loaded
  <2> QED BY <1>2, <1>3, <1>4, <1>5, <2>1 DEF SessionsInv, EndedInv
<1>12. CalmInv'
  <2>1. ~AllIdle' BY <1>2 DEF AllIdle, Active
  <2> QED BY <1>2, <1>3, <1>4, <2>1 DEF SessionsInv, CalmInv
<1> QED BY <1>6, <1>7, <1>8, <1>9, <1>10, <1>11, <1>12, TypedOK DEF SessionsInv

\* Rows that go take nothing with them that the invariant needs.
LEMMA FewerRows ==
  ASSUME Typed, NEW o \in 0 .. MaxTokens,
         table' \in {table, IF o = 0 THEN table ELSE [table EXCEPT ![o] = NoRow]}
  PROVE  /\ table' \in [Tokens -> Session \cup {NoRow}]
         /\ \A x \in Tokens : table'[x] # NoRow => table'[x] = table[x] /\ table[x] # NoRow
         /\ \A x : HasRow(x)' => HasRow(x)
         /\ \A x : Row(x)' = Row(x) \/ Row(x)' = Empty
         /\ table' = (IF o = 0 THEN table ELSE [table EXCEPT ![o] = NoRow]) =>
              (o \in Tokens => table'[o] = NoRow)
<1>1. /\ table \in [Tokens -> Session \cup {NoRow}] /\ (o = 0 \/ o \in Tokens)
  BY DEF Typed, Tokens
<1>2. /\ table' \in [Tokens -> Session \cup {NoRow}]
      /\ \A x \in Tokens : table'[x] # NoRow => table'[x] = table[x] /\ table[x] # NoRow
  BY <1>1
<1>3. table' = (IF o = 0 THEN table ELSE [table EXCEPT ![o] = NoRow]) =>
        (o \in Tokens => table'[o] = NoRow)
  BY <1>1 DEF Tokens
<1> QED BY <1>2, <1>3 DEF HasRow, Row

\* Destroy, by LoadUser for a banned user or by Logout.
LEMMA DestroyStep ==
  ASSUME SessionsInv, NEW q \in Requests, Loaded(q), NEW next \in {"handle", "commit"},
         Destroy(q, next), UNCHANGED <<cookie, tabs, banned, tokens, nonces, ghosts>>
  PROVE  SessionsInv'
<1> DEFINE o == req[q]
           r == req'[q]
           gone == IF o.token = 0 THEN table ELSE [table EXCEPT ![o.token] = NoRow]
<1>1. Typed BY TypedOK DEF SessionsInv
<1>2. /\ UNCHANGED <<cookie, tabs, banned, tokens, nonces, confirmed, expect, calm, named,
                     unrenewed, ended>>
      /\ Active(q) /\ o \in Request /\ o.token \in 0 .. MaxTokens
      /\ req \in [Requests -> Request] /\ o.at \notin {"idle", "sent", "reply"}
  BY <1>1 DEF ghosts, Active, Loaded, Typed, Request
<1>3. table' \in {table, gone} BY DEF Destroy
<1>4. /\ r \in Request /\ r.at = next /\ r.state = o.state /\ r.set = o.set
      /\ r.opens = o.opens /\ r.solo = o.solo
      /\ \/ /\ r.token = 0 /\ r.data = Empty /\ r.status = "destroyed" /\ r.want = Empty
            /\ r.whole = TRUE /\ r.sure = o.sure /\ table' = gone
         \/ /\ r.token = o.token /\ r.data = o.data /\ r.status = o.status /\ r.want = o.want
            /\ r.whole = o.whole /\ r.sure = FALSE
  <2>1. CASE /\ table' = gone
             /\ req' = [req EXCEPT ![q].at = next, ![q].token = 0, ![q].data = Empty,
                                   ![q].status = "destroyed", ![q].want = Empty, ![q].whole = TRUE]
    <3>1. req'[q] = [o EXCEPT !.at = next, !.token = 0, !.data = Empty,
                              !.status = "destroyed", !.want = Empty, !.whole = TRUE]
      BY <1>2, <2>1
    <3>2. 0 \in 0 .. MaxTokens OBVIOUS
    <3>3. r \in Request BY <1>2, <3>1, <3>2, EmptyFacts DEF Request, Stages
    <3> QED BY <1>2, <2>1, <3>1, <3>3 DEF Request
  <2>2. CASE req' = [req EXCEPT ![q].at = next, ![q].sure = FALSE]
    <3>1. req'[q] = [o EXCEPT !.at = next, !.sure = FALSE]
      BY <1>2, <2>2
    <3>2. r \in Request BY <1>2, <3>1 DEF Request, Stages
    <3> QED BY <1>2, <2>2, <3>1, <3>2 DEF Request
  <2> QED BY <2>1, <2>2 DEF Destroy
<1>5. Elsewhere(q) /\ req' \in [Requests -> Request]
  BY <1>2, <1>4 DEF Destroy, Elsewhere
<1> HIDE DEF r, o, gone
<1>6. /\ \A p \in Requests : Active(p)' /\ req'[p].solo => p = q
      /\ r.solo => Alone(q)'
  BY <1>2, <1>4, <1>5, OthersOverlapped DEF r, o
<1>7. /\ table' \in [Tokens -> Session \cup {NoRow}]
      /\ \A x \in Tokens : table'[x] # NoRow => table'[x] = table[x] /\ table[x] # NoRow
      /\ \A x : HasRow(x)' => HasRow(x)
      /\ \A x : Row(x)' = Row(x) \/ Row(x)' = Empty
      /\ table' = gone => (o.token \in Tokens => table'[o.token] = NoRow)
  BY <1>1, <1>2, <1>3, FewerRows DEF gone
<1>8. Typed'
  <2>1. \A p \in Requests : req'[p].token <= tokens /\ req'[p].opens <= nonces
    BY <1>1, <1>4, <1>5 DEF Typed, Elsewhere, r, o
  <2> QED BY <1>1, <1>2, <1>5, <1>7, <2>1 DEF Typed
<1>9. ShapeInv'
  <2>1. Shape(o) /\ o.set = Keep BY <1>2 DEF SessionsInv, ShapeInv, Shape, o
  <2>2. Shape(r)
    BY <1>2, <1>4, <2>1 DEF Shape
  <2> QED BY <1>2, <1>5, <2>2 DEF SessionsInv, ShapeInv, Shape, Elsewhere, r
<1>10. SoloInv'
  <2>1. o.solo /\ ~o.whole => o.token = cookie \/ (o.token = 0 /\ ~HasRow(cookie))
    BY <1>2 DEF SessionsInv, SoloInv, o
  <2> QED BY <1>2, <1>4, <1>6, <1>7, <2>1 DEF SoloInv, r
<1>11. ConfirmedOnly'
  <2>1. r.data.user \in confirmed \cup {Nobody}
    BY <1>4, EmptyFacts DEF SessionsInv, ConfirmedOnly, o
  <2> QED BY <1>2, <1>5, <1>7, <2>1, EmptyFacts DEF SessionsInv, ConfirmedOnly, Elsewhere, r
<1>12. NamedInv'
  <2>1. NamedInv BY DEF SessionsInv
  <2>2. \A x \in Tokens : HasRow(x)' => HasRow(x) /\ table'[x] = table[x]
    BY <1>7 DEF HasRow
  <2>3. ASSUME NEW p \in Requests, Loaded(p)', NEW x \in Tokens, req'[p].token = x
        PROVE  Loaded(p) /\ req[p].token = x /\ req'[p].data.user = req[p].data.user
    <3>1. CASE p = q BY <1>4, <2>3, <3>1 DEF Tokens, r, o
    <3>2. CASE p # q BY <1>5, <2>3, <3>2 DEF Elsewhere, Loaded
    <3> QED BY <3>1, <3>2
  <2> QED BY <1>2, <2>1, <2>2, <2>3 DEF NamedInv
<1>13. EndedInv'
  <2>1. ASSUME NEW x \in ended \cap Tokens
        PROVE  table'[x] = NoRow /\ \A p \in Requests : Loaded(p)' => req'[p].token # x
    <3>1. table[x] = NoRow /\ \A p \in Requests : Loaded(p) => req[p].token # x
      BY DEF SessionsInv, EndedInv
    <3>2. \A p \in Requests : Loaded(p)' => req'[p].token # x
      BY <1>4, <1>5, <2>1, <3>1 DEF Elsewhere, Loaded, Tokens, r, o
    <3> QED BY <1>7, <3>1, <3>2
  <2>2. ASSUME r.solo, r.sure
        PROVE  ~HasRow(cookie)' /\ r.token = 0
    <3>1. /\ r.token = 0 /\ o.solo /\ o.sure /\ (o.token \in Tokens => table'[o.token] = NoRow)
      BY <1>4, <1>7, <2>2
    <3>2. ~o.whole => o.token = cookie \/ ~HasRow(cookie)
      BY <1>2, <3>1 DEF SessionsInv, SoloInv, o
    <3>3. o.whole => ~HasRow(cookie)
      BY <1>2, <3>1 DEF SessionsInv, EndedInv, o
    <3>4. ~HasRow(cookie) => ~HasRow(cookie)' BY <1>2, <1>7
    <3>5. o.token = cookie => ~HasRow(cookie)' BY <1>2, <3>1 DEF HasRow
    <3> QED BY <3>1, <3>2, <3>3, <3>4, <3>5
  <2> QED BY <1>2, <1>6, <2>1, <2>2 DEF EndedInv, r
<1>14. CalmInv'
  <2>1. ~AllIdle' BY <1>4 DEF AllIdle, Active, r
  <2>2. r.sure => r.data = r.want BY <1>4
  <2> QED BY <1>4, <1>6, <2>1, <2>2 DEF CalmInv, r
<1> QED BY <1>8, <1>9, <1>10, <1>11, <1>12, <1>13, <1>14, TypedOK DEF SessionsInv

\* SignIn: the session moves to a new token and names u, or keeps the old token.
LEMMA SignInStep ==
  ASSUME SessionsInv, NEW q \in Requests, SignIn(q)
  PROVE  SessionsInv'
<1>0. PICK u \in Users : u = req[q].who
  BY DEF SignIn, SessionsInv, ShapeInv, Shape
<1> DEFINE o == req[q]
           r == req'[q]
           gone == IF o.token = 0 THEN table ELSE [table EXCEPT ![o.token] = NoRow]
<1>1. Typed BY TypedOK DEF SessionsInv
<1>2. /\ UNCHANGED <<cookie, tabs, banned, nonces, expect, calm, named, ended>>
      /\ o.at = "upserted" /\ Active(q) /\ Loaded(q)
      /\ req \in [Requests -> Request] /\ o \in Request /\ o.token \in 0 .. tokens
      /\ tokens \in 0 .. MaxTokens /\ cookie \in 0 .. tokens
  BY <1>1 DEF SignIn, Typed, Active, Loaded, Request
<1>3. PICK t \in Tokens :
        /\ RenewToken(q, t)
        /\ req' = [req EXCEPT ![q].at = "commit", ![q].token = t, ![q].status = "modified",
                              ![q].who = Nobody, ![q].data.user = u,
                              ![q].want = [user |-> u, nonce |-> 0],
                              ![q].whole = TRUE, ![q].sure = @ /\ t # req[q].token]
  BY <1>0 DEF SignIn
<1>4. o.data \in Session /\ o.data.nonce = 0 /\ o.state # Foreign /\ o.set = Keep
  BY <1>2 DEF SessionsInv, ShapeInv, Shape, Request
<1>5. [o.data EXCEPT !.user = u] = [user |-> u, nonce |-> 0] /\ [user |-> u, nonce |-> 0] \in Session
  BY <1>4 DEF Session
<1>6. /\ r.at = "commit" /\ r.token = t /\ r.status = "modified"
      /\ r.data = [user |-> u, nonce |-> 0] /\ r.want = [user |-> u, nonce |-> 0]
      /\ r.whole = TRUE /\ (r.sure => o.sure /\ t # o.token)
      /\ r.solo = o.solo /\ r.set = Keep /\ r.opens = o.opens
      /\ r \in Request
  <2> DEFINE moves == o.sure /\ t # o.token
  <2>1. req'[q] = [o EXCEPT !.at = "commit", !.token = t, !.status = "modified",
                            !.who = Nobody, !.data.user = u, !.want = [user |-> u, nonce |-> 0],
                            !.whole = TRUE, !.sure = moves]
    BY <1>2, <1>3
  <2>2. t \in 0 .. MaxTokens BY DEF Tokens
  <2>3. moves \in BOOLEAN /\ (moves => o.sure /\ t # o.token) OBVIOUS
  <2> HIDE DEF moves
  <2>4. /\ r.at = "commit" /\ r.token = t /\ r.status = "modified"
        /\ r.data = [o.data EXCEPT !.user = u] /\ r.want = [user |-> u, nonce |-> 0]
        /\ r.whole = TRUE /\ r.solo = o.solo /\ r.set = o.set /\ r.opens = o.opens
        /\ r.sure = moves
    BY <1>2, <2>1 DEF Request
  <2>5. r \in Request
    <3> DEFINE d == [user |-> u, nonce |-> 0]
    <3>1. req'[q] = [o EXCEPT !.at = "commit", !.token = t, !.status = "modified",
                              !.who = Nobody, !.data = d, !.want = d, !.whole = TRUE, !.sure = moves]
      BY <1>2, <1>5, <2>1 DEF Request
    <3>2. d \in Session BY <1>5
    <3> HIDE DEF d
    <3> QED BY <1>2, <2>2, <2>3, <3>1, <3>2 DEF Request, Stages
  <2> QED BY <1>4, <1>5, <2>3, <2>4, <2>5
<1>7. Elsewhere(q) /\ req' \in [Requests -> Request]
  BY <1>2, <1>3, <1>6 DEF Elsewhere
<1>8. \/ t = tokens + 1 /\ tokens' = t /\ table' = gone /\ unrenewed' = unrenewed
      \/ /\ t = o.token /\ o.token # 0 /\ table' \in {table, gone} /\ tokens' = tokens
         /\ unrenewed' = unrenewed \cup {o.token}
  BY <1>3 DEF RenewToken
<1>9. confirmed' = confirmed \cup {u}
  BY <1>0, <1>4 DEF SignIn
<1> HIDE DEF r, o, gone
<1>10. /\ \A p \in Requests : Active(p)' /\ req'[p].solo => p = q
       /\ r.solo => Alone(q)'
  BY <1>2, <1>6, <1>7, OthersOverlapped DEF r, o
<1>11. o.token \in 0 .. MaxTokens /\ table' \in {table, gone} BY <1>2, <1>8
<1>12. /\ table' \in [Tokens -> Session \cup {NoRow}]
       /\ \A x \in Tokens : table'[x] # NoRow => table'[x] = table[x] /\ table[x] # NoRow
       /\ \A x : HasRow(x)' => HasRow(x)
       /\ \A x : Row(x)' = Row(x) \/ Row(x)' = Empty
       /\ table' = gone => (o.token \in Tokens => table'[o.token] = NoRow)
  BY <1>1, <1>11, FewerRows DEF gone
<1>13. tokens' \in 0 .. MaxTokens /\ tokens <= tokens' /\ t <= tokens'
  BY <1>2, <1>8 DEF Tokens
<1>14. ASSUME NEW p \in Requests, p # q
       PROVE  req'[p] = req[p] /\ req[p].token \in Nat /\ req[p].token <= tokens
  BY <1>1, <1>7, <1>14 DEF Elsewhere, Typed, Request
<1>15. Typed'
  <2>1. \A p \in Requests : req'[p].token <= tokens' /\ req'[p].opens <= nonces
    <3>1. req'[q].token <= tokens' /\ req'[q].opens <= nonces BY <1>1, <1>6, <1>13 DEF Typed, r, o
    <3> QED BY <1>1, <1>2, <1>13, <1>14, <3>1 DEF Typed
  <2>2. \A x \in Tokens : table'[x] # NoRow => x <= tokens'
    BY <1>1, <1>2, <1>12, <1>13 DEF Typed, Tokens
  <2>3. cookie \in 0 .. tokens' /\ ended \in SUBSET (0 .. tokens')
    BY <1>1, <1>2, <1>13 DEF Typed
  <2>4. unrenewed' \in SUBSET Tokens /\ confirmed' \in SUBSET Users
    BY <1>1, <1>2, <1>8, <1>9 DEF Typed, Tokens
  <2> QED BY <1>1, <1>2, <1>7, <1>12, <1>13, <2>1, <2>2, <2>3, <2>4 DEF Typed
<1>16. ShapeInv'
  BY <1>2, <1>6, <1>13, <1>14 DEF SessionsInv, ShapeInv, Shape, r
<1>17. SoloInv'
  BY <1>6, <1>10 DEF SoloInv, r, Loaded
<1>18. ConfirmedOnly'
  BY <1>6, <1>9, <1>12, <1>14, EmptyFacts DEF SessionsInv, ConfirmedOnly, r
<1>19. NamedInv'
  <2>1. NamedInv BY DEF SessionsInv
  <2>2. \A x \in Tokens : x > tokens' => x > tokens BY <1>2, <1>13 DEF Tokens
  <2>3. \A x \in Tokens : HasRow(x)' => HasRow(x) /\ table'[x] = table[x]
    BY <1>12 DEF HasRow
  <2>4. \A p \in Requests \ {q} : Loaded(p)' <=> Loaded(p)
    BY <1>14 DEF Loaded
  <2>5. ASSUME NEW x \in Tokens \ unrenewed', x = t
        PROVE  named[x] = {} /\ \A p \in Requests \ {q} : req'[p].token # x
    <3>1. x = tokens + 1 /\ x > tokens BY <1>2, <1>8, <2>5
    <3> QED BY <1>2, <1>14, <2>1, <3>1 DEF NamedInv
  <2>6. ASSUME NEW x \in Tokens \ unrenewed', x # t
        PROVE  /\ \A v, w \in named[x] : v = w
               /\ HasRow(x)' => table'[x].user \in named[x]
               /\ req'[q].token # x
               /\ \A p \in Requests \ {q} : Loaded(p)' /\ req'[p].token = x =>
                    /\ \A v \in named[x] : v = req'[p].data.user
                    /\ \A k \in Requests \ {q} : Loaded(k)' /\ req'[k].token = x => req'[k].data.user = req'[p].data.user
    <3>1. x \in Tokens \ unrenewed BY <1>8
    <3> QED BY <1>6, <1>14, <2>1, <2>3, <2>4, <2>6, <3>1 DEF NamedInv, r
  <2>7. ASSUME NEW x \in Tokens \ unrenewed', x = t PROVE ~HasRow(x)'
    <3>1. x > tokens BY <1>2, <1>8, <2>7
    <3> QED BY <1>1, <1>12, <3>1 DEF Typed, HasRow, Tokens
  <2> QED BY <1>2, <2>1, <2>2, <2>5, <2>6, <2>7 DEF NamedInv
<1>20. EndedInv'
  <2>1. ASSUME NEW x \in ended \cap Tokens
        PROVE  table'[x] = NoRow /\ \A p \in Requests : Loaded(p)' => req'[p].token # x
    <3>1. table[x] = NoRow /\ (\A p \in Requests : Loaded(p) => req[p].token # x) /\ x <= tokens /\ x \in Nat
      BY <1>1 DEF SessionsInv, EndedInv, Typed, Tokens
    <3>2. t # x
      BY <1>2, <1>8, <3>1 DEF o
    <3> QED BY <1>6, <1>12, <1>14, <3>1, <3>2 DEF Loaded, r
  <2>2. ASSUME r.solo, r.sure
        PROVE  ~HasRow(cookie)' /\ t # cookie
    <3>1. /\ o.solo /\ o.sure /\ t = tokens + 1 /\ (o.token \in Tokens => table'[o.token] = NoRow)
      BY <1>6, <1>8, <1>12, <2>2
    <3>2. ~o.whole => o.token = cookie \/ ~HasRow(cookie)
      BY <1>2, <3>1 DEF SessionsInv, SoloInv, o
    <3>3. o.whole => ~HasRow(cookie)
      BY <1>2, <3>1 DEF SessionsInv, EndedInv, o
    <3>4. ~HasRow(cookie) => ~HasRow(cookie)' BY <1>2, <1>12
    <3>5. o.token = cookie => ~HasRow(cookie)' BY <1>2, <3>1 DEF HasRow
    <3> QED BY <1>2, <3>1, <3>2, <3>3, <3>4, <3>5
  <2> QED BY <1>2, <1>6, <1>10, <2>1, <2>2 DEF EndedInv, r
<1>21. CalmInv'
  <2>1. ~AllIdle' BY <1>6 DEF AllIdle, Active, r
  <2> QED BY <1>6, <1>10, <2>1 DEF CalmInv, r
<1> QED BY <1>15, <1>16, <1>17, <1>18, <1>19, <1>20, <1>21, TypedOK DEF SessionsInv

\* Commit: the row is written as the request holds it, or the cookie is cleared.
LEMMA CommitStep ==
  ASSUME SessionsInv, NEW q \in Requests, Commit(q)
  PROVE  SessionsInv'
<1> DEFINE o == req[q]
           r == req'[q]
           T == IF o.token = 0 THEN tokens + 1 ELSE o.token
<1>1. Typed BY TypedOK DEF SessionsInv
<1>2. /\ UNCHANGED <<cookie, tabs, banned, nonces, confirmed, expect, calm, unrenewed, ended>>
      /\ o.at = "commit" /\ Active(q) /\ Loaded(q)
      /\ req \in [Requests -> Request] /\ o \in Request /\ o.token \in 0 .. tokens
      /\ o.data \in Session /\ o.opens \in 0 .. nonces
      /\ tokens \in 0 .. MaxTokens /\ cookie \in 0 .. tokens
      /\ table \in [Tokens -> Session \cup {NoRow}]
      /\ named \in [Tokens -> SUBSET (Users \cup {Nobody})]
  BY <1>1 DEF Commit, Typed, Active, Loaded, Request
<1>3. /\ o.set = Keep /\ (o.status # "modified" => o.data = Empty /\ o.token = 0)
      /\ (o.status = "clean" => ~o.whole)
  BY <1>2 DEF SessionsInv, ShapeInv, Shape
<1>4. /\ r \in Request /\ r.at = "reply" /\ r.solo = o.solo /\ r.whole = o.whole /\ r.want = o.want
      /\ r.opens \in 0 .. nonces /\ r.data = o.data
      /\ \/ /\ o.status = "modified" /\ T \in Tokens /\ r.token = T
            /\ tokens' = (IF o.token = 0 THEN T ELSE tokens)
            /\ \/ /\ table' = [table EXCEPT ![T] = o.data]
                  /\ named' = [named EXCEPT ![T] = @ \cup {o.data.user}]
                  /\ r.set = T /\ r.sure = o.sure
               \/ /\ table' = [table EXCEPT ![T] = o.data]
                  /\ named' = [named EXCEPT ![T] = @ \cup {o.data.user}]
                  /\ r.set = Keep /\ r.sure = FALSE
               \/ /\ table' = table /\ named' = named
                  /\ r.set = Keep /\ r.sure = FALSE
         \/ /\ o.status # "modified" /\ table' = table /\ named' = named /\ tokens' = tokens
            /\ r.token = o.token /\ r.sure = o.sure
            /\ r.set = IF o.status = "destroyed" THEN 0 ELSE Keep
  <2>0. Keep = MaxTokens + 1 /\ 0 \in 0 .. Keep /\ 0 \in 0 .. MaxNonces /\ Keep \in 0 .. Keep BY DEF Keep
  <2>1. CASE /\ o.status = "modified" /\ T \in Tokens
             /\ table' = [table EXCEPT ![T] = o.data]
             /\ named' = [named EXCEPT ![T] = @ \cup {o.data.user}]
             /\ tokens' = (IF o.token = 0 THEN T ELSE tokens)
             /\ req' = [req EXCEPT ![q].at = "reply", ![q].token = T, ![q].set = T]
    <3>1. req'[q] = [o EXCEPT !.at = "reply", !.token = T, !.set = T] BY <1>2, <2>1
    <3>2. T \in 0 .. MaxTokens /\ T \in 0 .. Keep BY <2>0, <2>1 DEF Tokens
    <3>3. r \in Request BY <1>2, <3>1, <3>2 DEF Request, Stages
    <3>4. /\ r.at = "reply" /\ r.token = T /\ r.set = T /\ r.solo = o.solo /\ r.whole = o.whole
          /\ r.want = o.want /\ r.opens = o.opens /\ r.data = o.data /\ r.sure = o.sure
      BY <1>2, <3>1 DEF Request
    <3> HIDE DEF T, r, o
    <3> QED BY <1>2, <2>1, <3>3, <3>4
  <2>2. CASE /\ o.status = "modified" /\ T \in Tokens
             /\ \/ /\ table' = [table EXCEPT ![T] = o.data]
                   /\ named' = [named EXCEPT ![T] = @ \cup {o.data.user}]
                \/ table' = table /\ named' = named
             /\ tokens' = (IF o.token = 0 THEN T ELSE tokens)
             /\ req' = [req EXCEPT ![q].at = "reply", ![q].token = T, ![q].opens = 0, ![q].sure = FALSE]
    <3>1. req'[q] = [o EXCEPT !.at = "reply", !.token = T, !.opens = 0, !.sure = FALSE] BY <1>2, <2>2
    <3>2. T \in 0 .. MaxTokens BY <2>2 DEF Tokens
    <3>3. r \in Request BY <1>2, <2>0, <3>1, <3>2 DEF Request, Stages
    <3>4. /\ r.at = "reply" /\ r.token = T /\ r.set = o.set /\ r.solo = o.solo /\ r.whole = o.whole
          /\ r.want = o.want /\ r.opens = 0 /\ r.data = o.data /\ r.sure = FALSE
      BY <1>2, <3>1 DEF Request
    <3>5. 0 \in 0 .. nonces BY <1>1 DEF Typed
    <3> HIDE DEF T, r, o
    <3> QED BY <1>3, <2>2, <3>3, <3>4, <3>5
  <2>3. CASE /\ o.status = "destroyed"
             /\ req' = [req EXCEPT ![q].at = "reply", ![q].set = 0]
             /\ UNCHANGED <<table, named, tokens>>
    <3>1. req'[q] = [o EXCEPT !.at = "reply", !.set = 0] BY <1>2, <2>3
    <3>2. r \in Request BY <1>2, <2>0, <3>1 DEF Request, Stages
    <3>3. /\ r.at = "reply" /\ r.token = o.token /\ r.set = 0 /\ r.solo = o.solo /\ r.whole = o.whole
          /\ r.want = o.want /\ r.opens = o.opens /\ r.data = o.data /\ r.sure = o.sure
      BY <1>2, <3>1 DEF Request
    <3> HIDE DEF T, r, o
    <3> QED BY <1>2, <2>3, <3>2, <3>3
  <2>4. CASE /\ o.status = "clean"
             /\ req' = [req EXCEPT ![q].at = "reply"]
             /\ UNCHANGED <<table, named, tokens>>
    <3>1. req'[q] = [o EXCEPT !.at = "reply"] BY <1>2, <2>4
    <3>2. r \in Request BY <1>2, <3>1 DEF Request, Stages
    <3>3. /\ r.at = "reply" /\ r.token = o.token /\ r.set = o.set /\ r.solo = o.solo /\ r.whole = o.whole
          /\ r.want = o.want /\ r.opens = o.opens /\ r.data = o.data /\ r.sure = o.sure
      BY <1>2, <3>1 DEF Request
    <3> HIDE DEF T, r, o
    <3> QED BY <1>2, <1>3, <2>4, <3>2, <3>3
  <2> QED BY <2>1, <2>2, <2>3, <2>4 DEF Commit
<1>5. Elsewhere(q) /\ req' \in [Requests -> Request]
  <2>1. \A p \in Requests \ {q} : req'[p] = req[p] BY <1>2 DEF Commit
  <2>2. DOMAIN req' = Requests /\ req' = [p \in Requests |-> req'[p]] BY <1>2 DEF Commit
  <2> QED BY <1>2, <1>4, <2>1, <2>2 DEF Elsewhere
<1>6. T \in Nat /\ (o.token = 0 => T = tokens + 1) /\ (o.token # 0 => T = o.token)
  BY <1>2
<1> HIDE DEF r, o, T
<1>7. /\ \A p \in Requests : Active(p)' /\ req'[p].solo => p = q
      /\ r.solo => Alone(q)'
  BY <1>2, <1>4, <1>5, OthersOverlapped DEF r, o
<1>8. /\ tokens' \in 0 .. MaxTokens /\ tokens <= tokens' /\ r.token <= tokens'
      /\ r.set \in 0 .. tokens' \cup {Keep}
  BY <1>2, <1>4, <1>6 DEF Tokens
<1>9. ASSUME NEW p \in Requests, p # q
      PROVE  /\ req'[p] = req[p] /\ req[p].token \in Nat /\ req[p].token <= tokens
             /\ req[p].opens <= nonces
  BY <1>1, <1>5, <1>9 DEF Elsewhere, Typed, Request
<1>10. /\ \A x \in Tokens : x # T => table'[x] = table[x] /\ named'[x] = named[x]
       /\ \/ T \in Tokens /\ table'[T] = o.data /\ named'[T] = named[T] \cup {o.data.user}
          \/ table' = table /\ named' = named
       /\ table' \in [Tokens -> Session \cup {NoRow}]
       /\ named' \in [Tokens -> SUBSET (Users \cup {Nobody})]
       /\ table' # table \/ named' # named => T \in Tokens /\ T <= tokens'
  <2>1. o.data.user \in Users \cup {Nobody} BY <1>2, EmptyFacts
  <2> QED BY <1>2, <1>4, <1>6, <2>1
<1>11. Typed'
  <2>1. \A p \in Requests : req'[p].token <= tokens' /\ req'[p].opens <= nonces
    <3>1. req'[q].token <= tokens' /\ req'[q].opens <= nonces BY <1>1, <1>4, <1>8 DEF Typed, r
    <3> QED BY <1>1, <1>2, <1>8, <1>9, <3>1 DEF Typed
  <2>2. \A x \in Tokens : table'[x] # NoRow => x <= tokens'
    BY <1>1, <1>2, <1>8, <1>10 DEF Typed, Tokens
  <2>3. cookie \in 0 .. tokens' /\ ended \in SUBSET (0 .. tokens')
    BY <1>1, <1>2, <1>8 DEF Typed
  <2> QED BY <1>1, <1>2, <1>5, <1>8, <1>10, <2>1, <2>2, <2>3 DEF Typed
<1>12. ShapeInv'
  BY <1>2, <1>4, <1>8, <1>9 DEF SessionsInv, ShapeInv, Shape, r
<1>13. SoloInv'
  BY <1>4, <1>7 DEF SoloInv, r, Loaded
<1>14. ConfirmedOnly'
  <2>1. /\ \A x \in Tokens : Row(x).user \in confirmed \cup {Nobody}
        /\ \A p \in Requests : req[p].data.user \in confirmed \cup {Nobody}
    BY DEF SessionsInv, ConfirmedOnly
  <2>2. o.data.user \in confirmed \cup {Nobody} /\ r.data.user \in confirmed \cup {Nobody}
    BY <1>4, <2>1 DEF o
  <2>3. \A x \in Tokens : Row(x)' = Row(x) \/ Row(x)' = o.data
    BY <1>2, <1>10, EmptyFacts DEF Row, HasRow
  <2>4. \A p \in Requests : req'[p].data.user \in confirmed \cup {Nobody}
    BY <1>9, <2>1, <2>2 DEF r
  <2>5. \A x \in Tokens : (Row(x).user)' \in confirmed \cup {Nobody}
    BY <2>1, <2>2, <2>3
  <2> QED BY <1>2, <2>4, <2>5 DEF ConfirmedOnly
<1>15. NamedInv'
  <2>1. NamedInv BY DEF SessionsInv
  <2>2. \A x \in Tokens : x > tokens' => x > tokens /\ named'[x] = named[x]
    BY <1>2, <1>8, <1>10 DEF Tokens
  <2>3. /\ ~Loaded(q)'
        /\ \A p \in Requests : Loaded(p)' => p # q /\ Loaded(p) /\ req'[p] = req[p]
    BY <1>4, <1>9 DEF Loaded, r
  <2>4. ASSUME NEW x \in Tokens \ unrenewed, table'[x] = table[x], named'[x] = named[x]
        PROVE  /\ \A v, w \in named'[x] : v = w
               /\ HasRow(x)' => table'[x].user \in named'[x]
               /\ \A p \in Requests : Loaded(p)' /\ req'[p].token = x =>
                    /\ \A v \in named'[x] : v = req'[p].data.user
                    /\ \A k \in Requests : Loaded(k)' /\ req'[k].token = x => req'[k].data.user = req'[p].data.user
    BY <2>1, <2>3, <2>4 DEF NamedInv, HasRow
  <2>5. ASSUME NEW x \in Tokens \ unrenewed, x = T,
               table'[x] = o.data, named'[x] = named[x] \cup {o.data.user}
        PROVE  /\ \A v, w \in named'[x] : v = w
               /\ HasRow(x)' => table'[x].user \in named'[x]
               /\ \A p \in Requests : Loaded(p)' /\ req'[p].token = x =>
                    /\ \A v \in named'[x] : v = req'[p].data.user
                    /\ \A k \in Requests : Loaded(k)' /\ req'[k].token = x => req'[k].data.user = req'[p].data.user
    <3>1. CASE o.token = 0
      <4>1. x > tokens BY <1>2, <1>6, <2>5, <3>1 DEF Tokens
      <4>2. named[x] = {} BY <2>1, <4>1 DEF NamedInv
      <4>3. \A p \in Requests : ~(Loaded(p)' /\ req'[p].token = x)
        BY <1>2, <1>9, <2>3, <4>1
      <4> QED BY <2>5, <4>2, <4>3
    <3>2. CASE o.token # 0
      <4>1. req[q].token = x /\ Loaded(q) BY <1>2, <1>6, <2>5, <3>2 DEF o
      <4>2. \A v \in named[x] : v = o.data.user BY <2>1, <4>1 DEF NamedInv, o
      <4>3. \A p \in Requests : Loaded(p) /\ req[p].token = x => req[p].data.user = o.data.user
        BY <2>1, <4>1 DEF NamedInv, o
      <4> QED BY <2>3, <2>5, <4>2, <4>3
    <3> QED BY <3>1, <3>2
  <2>6. ASSUME NEW x \in Tokens
        PROVE  \/ table'[x] = table[x] /\ named'[x] = named[x]
               \/ x = T /\ table'[x] = o.data /\ named'[x] = named[x] \cup {o.data.user}
    <3>1. CASE x # T BY <1>10, <3>1
    <3>2. CASE x = T BY <1>10, <3>2, Zenon
    <3> QED BY <3>1, <3>2
  <2>7. \A x \in Tokens \ unrenewed :
               /\ \A v, w \in named'[x] : v = w
               /\ HasRow(x)' => table'[x].user \in named'[x]
               /\ \A p \in Requests : Loaded(p)' /\ req'[p].token = x =>
                    /\ \A v \in named'[x] : v = req'[p].data.user
                    /\ \A k \in Requests : Loaded(k)' /\ req'[k].token = x => req'[k].data.user = req'[p].data.user
    BY <2>4, <2>5, <2>6
  <2>8. \A x \in Tokens : x > tokens' => named'[x] = {} BY <2>1, <2>2 DEF NamedInv
  <2> QED BY <1>2, <2>7, <2>8 DEF NamedInv
<1>16. EndedInv'
  <2>1. ASSUME NEW x \in ended \cap Tokens
        PROVE  table'[x] = NoRow /\ \A p \in Requests : Loaded(p)' => req'[p].token # x
    <3>1. table[x] = NoRow /\ (\A p \in Requests : Loaded(p) => req[p].token # x) /\ x <= tokens /\ x \in Nat
      BY <1>1 DEF SessionsInv, EndedInv, Typed, Tokens
    <3>2. T # x
      BY <1>2, <1>6, <3>1 DEF o
    <3>3. \A p \in Requests : Loaded(p)' => req'[p].token # x
      BY <1>4, <1>9, <3>1 DEF Loaded, r
    <3> QED BY <1>10, <3>1, <3>2, <3>3
  <2>2. ASSUME r.solo, r.sure, r.whole
        PROVE  ~HasRow(cookie)'
    <3>1. o.solo /\ o.sure /\ o.whole BY <1>4, <2>2
    <3>2. ~HasRow(cookie) /\ (o.token = 0 \/ o.token # cookie)
      BY <1>2, <3>1 DEF SessionsInv, EndedInv, o
    <3>3. T # cookie BY <1>2, <1>6, <3>2
    <3> QED BY <1>2, <1>10, <3>2, <3>3 DEF HasRow
  <2>3. ~Loaded(q)' BY <1>4 DEF Loaded, r
  <2> QED BY <1>2, <1>4, <1>7, <2>1, <2>2, <2>3 DEF EndedInv, r
<1>17. CalmInv'
  <2>1. ~AllIdle' /\ ~Loaded(q)' /\ req'[q].at = "reply" BY <1>4 DEF AllIdle, Active, Loaded, r
  <2>2. ASSUME r.solo, r.sure, calm \/ r.whole
        PROVE  /\ r.set = Keep => Row(cookie)' = r.want
               /\ r.set # Keep => r.set \in 0 .. MaxTokens /\
                    \A x : x = r.set => Row(x)' = r.want
    <3>1. o.solo /\ o.sure /\ (calm \/ o.whole) BY <1>4, <2>2
    <3>2. o.data = o.want BY <1>2, <3>1 DEF SessionsInv, CalmInv, o
    <3>3. CASE o.status = "modified"
      <4>1. r.set = T /\ T \in Tokens /\ table'[T] = o.data /\ T # Keep
        BY <1>2, <1>4, <2>2, <3>3, EmptyFacts DEF Tokens
      <4>2. o.data # NoRow BY <1>2, EmptyFacts
      <4>3. \A x : x = T => Row(x)' = o.data BY <4>1, <4>2 DEF Row, HasRow
      <4> QED BY <1>4, <3>2, <4>1, <4>3 DEF Tokens
    <3>4. CASE o.status # "modified"
      <4>1. /\ o.data = Empty /\ o.token = 0 /\ table' = table /\ r.want = Empty
            /\ (r.set = 0 \/ (r.set = Keep /\ o.status # "destroyed"))
        BY <1>3, <1>4, <3>2, <3>4
      <4>2. \A x : x = 0 => Row(x)' = Empty BY DEF Row, HasRow, Tokens
      <4>3. CASE r.set = 0 BY <4>1, <4>2, <4>3, EmptyFacts
      <4>4. CASE r.set = Keep /\ o.status # "destroyed"
        <5>1. o.status = "clean" BY <1>2, <3>4, <4>4 DEF Request
        <5>2. ~o.whole BY <1>3, <5>1
        <5>3. o.token = cookie \/ ~HasRow(cookie)
          BY <1>2, <3>1, <5>2 DEF SessionsInv, SoloInv, o
        <5>4. ~HasRow(cookie)' BY <1>2, <4>1, <5>3 DEF HasRow, Tokens
        <5>5. Row(cookie)' = Empty BY <5>4 DEF Row
        <5> QED BY <4>1, <4>4, <5>5
      <4> QED BY <4>1, <4>3, <4>4
    <3> QED BY <3>3, <3>4
  <2>3. ASSUME r.solo, r.sure, calm \/ r.whole
        PROVE  Row(IF req[q].set = Keep THEN cookie ELSE req[q].set)' = req'[q].want
    <3>1. CASE r.set = Keep BY <2>2, <2>3, <3>1 DEF r
    <3>2. CASE r.set # Keep
      <4>1. \A x : x = r.set => Row(x)' = r.want BY <2>2, <2>3, <3>2
      <4> QED BY <3>2, <4>1 DEF Row, HasRow, r
    <3> QED BY <3>1, <3>2
  <2> QED BY <1>2, <1>7, <2>1, <2>3 DEF CalmInv, r
<1> QED BY <1>11, <1>12, <1>13, <1>14, <1>15, <1>16, <1>17, TypedOK DEF SessionsInv

\* Reply: the cookie of the answer, or none of it, reaches the browser.
LEMMA ReplyStep ==
  ASSUME SessionsInv, NEW q \in Requests, Reply(q)
  PROVE  SessionsInv'
<1> DEFINE o == req[q]
<1>1. Typed BY TypedOK DEF SessionsInv
<1>2. /\ UNCHANGED <<table, banned, tokens, nonces, confirmed, named, unrenewed>>
      /\ o.at = "reply" /\ Active(q) /\ ~Loaded(q)
      /\ req \in [Requests -> Request] /\ o \in Request /\ o.opens \in 0 .. nonces
      /\ tokens \in 0 .. MaxTokens /\ cookie \in 0 .. tokens /\ calm \in BOOLEAN
      /\ o.set \in 0 .. tokens \cup {Keep}
      /\ req' = [req EXCEPT ![q] = Idle]
      /\ expect' = (IF calm' THEN o.want ELSE Empty)
      /\ ended' = (IF o.whole /\ o.solo /\ o.sure THEN ended \cup {cookie} ELSE ended)
  BY <1>1 DEF Reply, Typed, Active, Loaded, Request, SessionsInv, ShapeInv, Shape
<1>3. \/ /\ cookie' = (IF o.set = Keep THEN cookie ELSE o.set)
         /\ tabs' = (IF o.opens = 0 THEN tabs ELSE tabs \cup {o.opens})
         /\ calm' = (o.solo /\ o.sure /\ (calm \/ o.whole))
      \/ /\ calm' = (calm /\ o.solo /\ o.sure /\ o.want = expect /\ o.set \in {Keep, cookie})
         /\ cookie' = cookie /\ tabs' = tabs
  BY DEF Reply
<1>4. /\ Elsewhere(q) /\ req' \in [Requests -> Request] /\ req'[q] = Idle
      /\ ~Active(q)' /\ ~Loaded(q)'
  BY <1>2, EmptyFacts DEF Elsewhere, Active, Loaded
<1>5. /\ \A p \in Requests : ~(Active(p)' /\ req'[p].solo)
      /\ o.solo => Alone(q)
  BY <1>2, <1>4, OthersOverlapped
<1>6. \A x : (HasRow(x)' <=> x \in Tokens /\ table[x] # NoRow)
  BY <1>2 DEF HasRow
<1>7. Typed'
  <2>1. cookie' \in 0 .. tokens BY <1>2, <1>3
  <2>2. tabs' \in SUBSET (1 .. nonces)
    <3>1. tabs \in SUBSET (1 .. nonces) /\ nonces \in Nat BY <1>1 DEF Typed
    <3>2. o.opens = 0 \/ o.opens \in 1 .. nonces BY <1>2, <3>1
    <3>3. tabs' = tabs \/ (o.opens # 0 /\ tabs' = tabs \cup {o.opens}) BY <1>3
    <3> HIDE DEF o
    <3> QED BY <3>1, <3>2, <3>3
  <2>3. calm' \in BOOLEAN
    <3>1. (o.solo /\ o.sure /\ (calm \/ o.whole)) \in BOOLEAN OBVIOUS
    <3>2. (calm /\ o.solo /\ o.sure /\ o.want = expect /\ o.set \in {Keep, cookie}) \in BOOLEAN OBVIOUS
    <3> QED BY <1>3, <3>1, <3>2
  <2>4. expect' \in Session BY <1>2, EmptyFacts DEF Request
  <2>5. ended' \in SUBSET (0 .. tokens) BY <1>1, <1>2 DEF Typed
  <2>6. \A p \in Requests : req'[p].token <= tokens /\ req'[p].opens <= nonces
    BY <1>1, <1>4, EmptyFacts DEF Typed, Elsewhere
  <2> QED BY <1>1, <1>2, <1>4, <2>1, <2>2, <2>3, <2>4, <2>5, <2>6 DEF Typed
<1>8. ShapeInv'
  BY <1>2, <1>4, EmptyFacts DEF SessionsInv, ShapeInv, Shape, Elsewhere
<1>9. SoloInv' BY <1>5 DEF SoloInv
<1>10. ConfirmedOnly'
  <2>1. \A x : Row(x)' = Row(x) BY <1>2 DEF Row, HasRow
  <2> QED BY <1>2, <1>4, <2>1, EmptyFacts DEF SessionsInv, ConfirmedOnly, Elsewhere
<1>11. NamedInv'
  <2>1. \A p \in Requests : Loaded(p)' => Loaded(p) /\ req'[p] = req[p]
    BY <1>4 DEF Elsewhere, Loaded
  <2> QED BY <1>2, <2>1 DEF SessionsInv, NamedInv, HasRow
<1>12. EndedInv'
  <2>1. \A p \in Requests : Loaded(p)' => Loaded(p) /\ p # q /\ req'[p] = req[p]
    BY <1>4 DEF Elsewhere, Loaded
  <2>2. ASSUME o.whole, o.solo, o.sure, cookie \in Tokens
        PROVE  table[cookie] = NoRow /\ \A p \in Requests : ~Loaded(p)'
    <3>1. ~HasRow(cookie) BY <1>2, <2>2 DEF SessionsInv, EndedInv
    <3>2. \A p \in Requests \ {q} : ~Loaded(p) BY <1>5, <2>2 DEF Alone, Active, Loaded
    <3> QED BY <2>1, <2>2, <3>1, <3>2 DEF HasRow
  <2>3. ASSUME NEW x \in ended' \cap Tokens
        PROVE  table[x] = NoRow /\ \A p \in Requests : Loaded(p)' => req'[p].token # x
    <3>1. CASE x \in ended BY <2>1, <3>1 DEF SessionsInv, EndedInv
    <3>2. CASE x \notin ended
      <4>1. x = cookie /\ o.whole /\ o.solo /\ o.sure BY <1>2, <2>3, <3>2
      <4> QED BY <2>2, <4>1
    <3> QED BY <3>1, <3>2
  <2> QED BY <1>2, <1>5, <2>3 DEF EndedInv
<1>13. CalmInv'
  <2>1. ASSUME calm' PROVE Row(cookie)' = expect'
    <3>1. o.solo /\ o.sure /\ (calm \/ o.whole) BY <1>3, <2>1
    <3>2. Row(IF o.set = Keep THEN cookie ELSE o.set) = o.want
      BY <1>2, <3>1 DEF SessionsInv, CalmInv
    <3>3. cookie' = IF o.set = Keep THEN cookie ELSE o.set BY <1>3, <2>1
    <3>4. Row(cookie)' = Row(IF o.set = Keep THEN cookie ELSE o.set)
      BY <1>2, <3>3 DEF Row, HasRow
    <3> QED BY <1>2, <2>1, <3>2, <3>4
  <2> QED BY <1>5, <2>1 DEF CalmInv
<1> QED BY <1>7, <1>8, <1>9, <1>10, <1>11, <1>12, <1>13, TypedOK DEF SessionsInv
-----------------------------------------------------------------------------
(* The theorems *)

\* Every step keeps the invariant.
LEMMA SessionsStep == SessionsInv /\ [SessionsNext]_sessionVars => SessionsInv'
<1> SUFFICES ASSUME SessionsInv, [SessionsNext]_sessionVars PROVE SessionsInv'
  OBVIOUS
<1>1. ASSUME NEW q \in Requests, LoadUser(q) PROVE SessionsInv'
  <2>1. CASE Destroy(q, "handle")
    BY <1>1, <2>1, DestroyStep DEF LoadUser, Loaded
  <2>2. CASE req' = [req EXCEPT ![q].at = "handle", ![q].sure = FALSE] /\ UNCHANGED table
    <3>1. /\ req[q].at = "loaded"
          /\ UNCHANGED <<table, cookie, tabs, banned, tokens, nonces, ghosts>>
      BY <1>1, <2>2 DEF LoadUser
    <3>2. Works(q) BY <2>2, <3>1, WorksOf
    <3> QED BY <3>2, WorksStep
  <2> QED BY <1>1, <2>1, <2>2 DEF LoadUser
<1>2. ASSUME NEW q \in Requests, \/ Page(q) \/ Start(q) \/ Callback(q) \/ Refuse(q)
                              \/ \E u \in Users : UpsertUser(q, u)
      PROVE SessionsInv'
  <2>1. Works(q) BY <1>2, WorksOf
  <2> QED BY <2>1, WorksStep
<1>3. ASSUME NEW q \in Requests, Logout(q) PROVE SessionsInv'
  BY <1>3, DestroyStep DEF Logout, Enters, Loaded
<1>4. ASSUME NEW q \in Requests, Send(q) \/ Load(q) \/ Commit(q) \/ Reply(q) PROVE SessionsInv'
  BY <1>4, SendStep, LoadStep, CommitStep, ReplyStep
<1>5. ASSUME NEW q \in Requests, SignIn(q) PROVE SessionsInv'
  BY <1>5, SignInStep
<1>6. ASSUME NEW t \in Tokens, Expire(t) PROVE SessionsInv'
  BY <1>6, ExpireStep
<1>7. ASSUME NEW u \in Users, Ban(u) PROVE SessionsInv'
  <2>1. banned' \in SUBSET Users BY <1>7 DEF Ban, SessionsInv, SessionsTypeOK
  <2> QED BY <1>7, <2>1, BanStep DEF Ban
<1>8. CASE UNCHANGED sessionVars
  <2>1. banned' \in SUBSET Users BY <1>8 DEF sessionVars, SessionsInv, SessionsTypeOK
  <2> QED BY <1>8, <2>1, BanStep DEF sessionVars
<1> QED BY <1>1, <1>2, <1>3, <1>4, <1>5, <1>6, <1>7, <1>8 DEF SessionsNext

\* The inductive invariant holds however requests overlap and statements fail.
THEOREM SessionsInvariant == SessionsSpec => []SessionsInv
BY InitSessions, SessionsStep, PTL DEF SessionsSpec

\* Rows, cookie, requests and counters have their types.
THEOREM SessionsTypes == SessionsSpec => []SessionsTypeOK
<1>1. SessionsInv => SessionsTypeOK BY DEF SessionsInv
<1> QED BY <1>1, SessionsInvariant, PTL

\* A session names only users who came back from Discord with a nonce that Start
\* gave to this browser (auth.go: Callback's comparison of the state).
THEOREM SessionsConfirmedOnly == SessionsSpec => []ConfirmedOnly
<1>1. SessionsInv => ConfirmedOnly BY DEF SessionsInv
<1> QED BY <1>1, SessionsInvariant, PTL

\* A login or logout that ran alone takes effect and lasts until requests overlap
\* again, through lost answers, expiry and bans.
THEOREM SessionsAsAnswered == SessionsSpec => []AsLastAnswered
<1>1. SessionsInv => AsLastAnswered BY DEF SessionsInv, CalmInv, AsLastAnswered
<1> QED BY <1>1, SessionsInvariant, PTL

\* No late write-back gives a token that named one user, or nobody, to another:
\* RenewToken gives a session a new token when it becomes somebody's.
THEOREM SessionsTokenNamesOne == SessionsSpec => []TokenNamesOne
<1>1. SessionsInv => TokenNamesOne BY DEF SessionsInv, NamedInv, TokenNamesOne
<1> QED BY <1>1, SessionsInvariant, PTL

\* A session that was ended while no other request ran never comes back.
THEOREM SessionsEndedForGood == SessionsSpec => []EndedForGood
<1>1. SessionsInv => EndedForGood BY DEF SessionsInv, EndedInv, EndedForGood
<1> QED BY <1>1, SessionsInvariant, PTL
=============================================================================
