------------------------------ MODULE Sessions ------------------------------
(***************************************************************************)
(* Login sessions of one browser: the cookie, the sessions table, the      *)
(* OAuth round trip with its state nonce, LoadUser, and logout.            *)
(*                                                                         *)
(* The session manager (scs) reads the row named by the cookie when a      *)
(* request begins and, because an idle timeout is configured, writes the   *)
(* whole row back when the request is answered, whatever the handler did.  *)
(* Requests of one browser overlap: pages poll, tabs log in and out.  A    *)
(* login or logout that ran alone must take effect and last until requests *)
(* overlap again; some promises hold even then.                            *)
(***************************************************************************)
EXTENDS Naturals

CONSTANTS
  Users,     \* accounts of the guild's members
  Nobody,    \* the session has no user_id
  Requests,  \* requests of the browser under way
  MaxTokens, \* bound: session tokens handed out
  MaxNonces  \* bound: logins started

ASSUME SessionsAssumption ==
  /\ Nobody \notin Users
  /\ MaxTokens \in Nat /\ MaxNonces \in Nat

Tokens == 1 .. MaxTokens       \* 0: no token
Nonces == 1 .. MaxNonces       \* 0: no nonce
Foreign == MaxNonces + 1       \* a state parameter this browser was never given

Session == [user : Users \cup {Nobody}, nonce : Nonces \cup {0}]
Empty == [user |-> Nobody, nonce |-> 0]
NoRow == [user |-> Nobody, nonce |-> Foreign]

VARIABLES
  table,    \* table[t]: the sessions table
  cookie,   \* the browser's cookie
  tabs,     \* nonces the browser's tabs took to Discord
  banned,   \* users.banned
  req,      \* req[q]: a request, from its sending to its answer
  tokens,   \* tokens handed out so far
  nonces,   \* logins started so far
  \* history variables, read by the properties and by no action
  confirmed,\* who came back from Discord with a nonce of this browser
  expect,   \* the session as the answered requests left it
  calm,     \* since a login, logout or the beginning, requests ran one by one
  named,    \* named[t]: whom the rows of token t have named
  unrenewed,\* tokens that RenewToken could not replace
  ended     \* tokens whose session ended while nothing else ran

ghosts == <<confirmed, expect, calm, named, unrenewed, ended>>
sessionVars == <<table, cookie, tabs, banned, req, tokens, nonces, ghosts>>

\* who: the user whose row the callback holds; set: the Set-Cookie of the answer
\* (Keep: none); want: the session as the
\* handlers meant it to be; whole: the handlers replaced the session; solo, sure:
\* no other request overlapped, no statement failed.
Keep == MaxTokens + 1
Idle == [at |-> "idle", kind |-> "page", state |-> 0, who |-> Nobody, token |-> 0, data |-> Empty,
         status |-> "clean", set |-> Keep, opens |-> 0,
         want |-> Empty, whole |-> FALSE, solo |-> TRUE, sure |-> TRUE]

Kinds == {"page", "start", "callback", "logout"}
Active(q) == req[q].at # "idle"
Alone(q) == \A p \in Requests \ {q} : ~Active(p)
AllIdle == \A q \in Requests : ~Active(q)
HasRow(t) == t \in Tokens /\ table[t] # NoRow
Row(t) == IF HasRow(t) THEN table[t] ELSE Empty

SessionsTypeOK ==
  /\ table \in [Tokens -> Session \cup {NoRow}]
  /\ cookie \in 0 .. tokens
  /\ tabs \in SUBSET (1 .. nonces)
  /\ banned \in SUBSET Users
  /\ req \in [Requests -> [at : {"idle", "sent", "loaded", "handle", "discord", "upserted",
                                 "commit", "reply"},
                           kind : Kinds, state : Nat, who : Users \cup {Nobody},
                           token : 0 .. tokens, data : Session,
                           status : {"clean", "modified", "destroyed"}, set : 0 .. Keep,
                           opens : 0 .. nonces, want : Session, whole : BOOLEAN,
                           solo : BOOLEAN, sure : BOOLEAN]]
  /\ tokens \in 0 .. MaxTokens
  /\ nonces \in 0 .. MaxNonces
  /\ \A t \in Tokens : table[t] # NoRow => t <= tokens
  /\ confirmed \in SUBSET Users
  /\ expect \in Session
  /\ calm \in BOOLEAN
  /\ named \in [Tokens -> SUBSET (Users \cup {Nobody})]
  /\ unrenewed \in SUBSET Tokens
  /\ ended \in SUBSET (0 .. tokens)

SessionsInit ==
  /\ table = [t \in Tokens |-> NoRow]
  /\ cookie = 0 /\ tabs = {} /\ banned = {}
  /\ req = [q \in Requests |-> Idle]
  /\ tokens = 0 /\ nonces = 0
  /\ confirmed = {} /\ expect = Empty /\ calm = TRUE
  /\ named = [t \in Tokens |-> {}]
  /\ unrenewed = {} /\ ended = {}

-----------------------------------------------------------------------------
(* What the session manager does.                                          *)

\* A request goes out with the cookie the browser has now.  A code of Discord is
\* good for one callback; one sent again is as good as a foreign one.
Send(q) ==
  /\ ~Active(q)
  /\ \E k \in Kinds, st \in tabs \cup {0, Foreign} :
       /\ k = "callback" <=> st # 0
       /\ req' = [p \in Requests |->
            IF p = q THEN [Idle EXCEPT !.at = "sent", !.kind = k, !.state = st, !.token = cookie,
                                       !.want = expect, !.solo = Alone(q)]
            ELSE IF Active(p) THEN [req[p] EXCEPT !.solo = FALSE] ELSE req[p]]
       /\ tabs' = tabs \ {st}
  /\ UNCHANGED <<table, cookie, banned, tokens, nonces, ghosts>>

\* Mutant: a session without a row keeps the token of the cookie.
LoadKeepsToken(q) ==
  LET t == req[q].token IN
  /\ req[q].at = "sent"
  /\ req' = [req EXCEPT ![q].at = "loaded", ![q].data = Row(t),
                        ![q].status = IF HasRow(t) THEN "modified" ELSE "clean"]
  /\ UNCHANGED <<table, cookie, tabs, banned, tokens, nonces, ghosts>>

\* LoadAndSave, Load.  A row that was found is marked modified for the idle
\* timeout's sake; no row, or an expired one, is a new session without a token.
Load(q) ==
  LET t == req[q].token IN
  /\ req[q].at = "sent"
  /\ \/ /\ HasRow(t)
        /\ req' = [req EXCEPT ![q].at = "loaded", ![q].data = table[t], ![q].status = "modified"]
     \/ /\ ~HasRow(t)
        /\ req' = [req EXCEPT ![q].at = "loaded", ![q].token = 0]
     \/ req' = [req EXCEPT ![q].at = "reply"]     \* the SELECT fails: 500
  /\ UNCHANGED <<table, cookie, tabs, banned, tokens, nonces, ghosts>>

\* Destroy: the row goes and the values are cleared; a failing DELETE (which may
\* have been carried out) leaves the session as it was, its caller only logs.
Destroy(q, next) ==
  LET t == req[q].token
      gone == IF t = 0 THEN table ELSE [table EXCEPT ![t] = NoRow]
  IN \/ /\ table' = gone
        /\ req' = [req EXCEPT ![q].at = next, ![q].token = 0, ![q].data = Empty,
                              ![q].status = "destroyed", ![q].want = Empty, ![q].whole = TRUE]
     \/ /\ table' \in {table, gone}
        /\ req' = [req EXCEPT ![q].at = next, ![q].sure = FALSE]

\* Mutant: the session keeps its token when it becomes somebody's.
KeepToken(q, t) == t = req[q].token /\ t # 0 /\ UNCHANGED <<table, tokens, unrenewed>>

\* RenewToken: the old row goes, the session moves to a new token; when the
\* DELETE fails it keeps its token.
RenewToken(q, t) ==
  LET old == req[q].token
      gone == IF old = 0 THEN table ELSE [table EXCEPT ![old] = NoRow]
  IN \/ t = tokens + 1 /\ tokens' = t /\ table' = gone /\ UNCHANGED unrenewed
     \/ /\ t = old /\ old # 0 /\ table' \in {table, gone}
        /\ unrenewed' = unrenewed \cup {old} /\ UNCHANGED tokens

\* commitAndWriteSessionCookie, at the first byte of the answer.
Commit(q) ==
  LET r == req[q]
      Store(t) == table' = [table EXCEPT ![t] = r.data]
      Named(t) == named' = [named EXCEPT ![t] = @ \cup {r.data.user}]
      Token == IF r.token = 0 THEN tokens + 1 ELSE r.token
  IN
  /\ r.at = "commit"
  /\ \/ /\ r.status = "modified" /\ Token \in Tokens
        /\ Store(Token) /\ Named(Token)
        /\ tokens' = IF r.token = 0 THEN Token ELSE tokens
        /\ req' = [req EXCEPT ![q].at = "reply", ![q].token = Token, ![q].set = Token]
     \/ /\ r.status = "modified" /\ Token \in Tokens      \* the upsert fails: 500
        /\ \/ Store(Token) /\ Named(Token)
           \/ UNCHANGED <<table, named>>
        /\ tokens' = IF r.token = 0 THEN Token ELSE tokens
        /\ req' = [req EXCEPT ![q].at = "reply", ![q].token = Token, ![q].opens = 0,
                              ![q].sure = FALSE]
     \/ /\ r.status = "destroyed"
        /\ req' = [req EXCEPT ![q].at = "reply", ![q].set = 0]
        /\ UNCHANGED <<table, named, tokens>>
     \/ /\ r.status = "clean"
        /\ req' = [req EXCEPT ![q].at = "reply"]
        /\ UNCHANGED <<table, named, tokens>>
  /\ UNCHANGED <<cookie, tabs, banned, nonces, confirmed, expect, calm, unrenewed, ended>>

\* The browser takes the Set-Cookie and follows the redirect, or the answer is lost.
Reply(q) ==
  LET r == req[q] IN
  /\ r.at = "reply"
  /\ \/ /\ cookie' = IF r.set = Keep THEN cookie ELSE r.set
        /\ tabs' = IF r.opens = 0 THEN tabs ELSE tabs \cup {r.opens}
        /\ calm' = (r.solo /\ r.sure /\ (calm \/ r.whole))
     \/ /\ calm' = (calm /\ r.solo /\ r.sure /\ r.want = expect /\ r.set \in {Keep, cookie})
        /\ UNCHANGED <<cookie, tabs>>
  /\ expect' = IF calm' THEN r.want ELSE Empty
  /\ ended' = IF r.whole /\ r.solo /\ r.sure THEN ended \cup {cookie} ELSE ended
  /\ req' = [req EXCEPT ![q] = Idle]
  /\ UNCHANGED <<table, banned, tokens, nonces, confirmed, named, unrenewed>>

\* A session expires (7 days idle, 30 days in all): one that is still in use; no
\* request reads the others again.
Expire(t) ==
  /\ HasRow(t)
  /\ t = cookie \/ \E q \in Requests : Active(q) /\ req[q].token = t
  /\ table' = [table EXCEPT ![t] = NoRow]
  /\ expect' = IF t = cookie THEN Empty ELSE expect
  /\ req' = [q \in Requests |-> IF Active(q) THEN [req[q] EXCEPT !.solo = FALSE] ELSE req[q]]
  /\ UNCHANGED <<cookie, tabs, banned, tokens, nonces, confirmed, calm, named, unrenewed, ended>>

-----------------------------------------------------------------------------
(* The middleware and the handlers.                                        *)

\* LoadUser: a banned user's session is destroyed and the request goes on without
\* it.  When the row of the user cannot be read it goes on with the session as it is.
LoadUser(q) ==
  /\ req[q].at = "loaded" /\ req[q].data.user \in banned
  /\ \/ Destroy(q, "handle")
     \/ req' = [req EXCEPT ![q].at = "handle", ![q].sure = FALSE] /\ UNCHANGED table
  /\ UNCHANGED <<cookie, tabs, banned, tokens, nonces, ghosts>>

\* LoadUser changed nothing, or is done: the handler runs.
Enters(q, k) ==
  /\ req[q].kind = k
  /\ req[q].at = "handle" \/ (req[q].at = "loaded" /\ req[q].data.user \notin banned)

\* Any page, poll or static file.
Page(q) ==
  /\ Enters(q, "page")
  /\ req' = [req EXCEPT ![q].at = "commit"]
  /\ UNCHANGED <<table, cookie, tabs, banned, tokens, nonces, ghosts>>

\* Start: a fresh nonce into the session, the tab goes to Discord.
Start(q) ==
  /\ Enters(q, "start")
  /\ nonces < MaxNonces
  /\ nonces' = nonces + 1
  /\ req' = [req EXCEPT ![q].at = "commit", ![q].data.nonce = nonces', ![q].status = "modified",
                        ![q].want.nonce = nonces', ![q].opens = nonces']
  /\ UNCHANGED <<table, cookie, tabs, banned, tokens, ghosts>>

\* Mutant: the state parameter is not compared.
AnyState(q) == TRUE

StateMatches(q) == req[q].data.nonce # 0 /\ req[q].state = req[q].data.nonce

\* Mutant: the nonce stays in the session.
KeepNonce(s) == s

RemoveNonce(s) == [s EXCEPT !.nonce = 0]

\* Mutant: the state that came back is kept, so that the page can be loaded again.
CallbackKeepsState(q) ==
  /\ Enters(q, "callback")
  /\ req' = [req EXCEPT ![q].at = IF StateMatches(q) THEN "discord" ELSE "commit",
                        ![q].data.nonce = req[q].state, ![q].want.nonce = 0,
                        ![q].status = "modified"]
  /\ UNCHANGED <<table, cookie, tabs, banned, tokens, nonces, ghosts>>

\* Callback: the nonce is taken out of the session before it is compared.
Callback(q) ==
  LET r == req[q] IN
  /\ Enters(q, "callback")
  /\ req' = [req EXCEPT ![q].at = IF StateMatches(q) THEN "discord" ELSE "commit",
                        ![q].data = RemoveNonce(@), ![q].want.nonce = 0,
                        ![q].status = IF r.data.nonce = 0 THEN @ ELSE "modified"]
  /\ UNCHANGED <<table, cookie, tabs, banned, tokens, nonces, ghosts>>

\* Denied, no code, no guild, an error of Discord or of UpsertUser, a ban: the
\* answer is an error page.
Refuse(q) ==
  /\ req[q].at = "discord"
  /\ req' = [req EXCEPT ![q].at = "commit"]
  /\ UNCHANGED <<table, cookie, tabs, banned, tokens, nonces, ghosts>>

\* Discord vouches for u, whose row as it is now says no ban.
UpsertUser(q, u) ==
  /\ req[q].at = "discord" /\ u \notin banned
  /\ req' = [req EXCEPT ![q].at = "upserted", ![q].who = u]
  /\ UNCHANGED <<table, cookie, tabs, banned, tokens, nonces, ghosts>>

\* The session becomes that user's; a ban in between is found by the next LoadUser.
SignIn(q) ==
  LET r == req[q]
      u == r.who
  IN
  /\ r.at = "upserted"
  /\ \E t \in Tokens :
       /\ RenewToken(q, t)
       /\ req' = [req EXCEPT ![q].at = "commit", ![q].token = t, ![q].status = "modified",
                             ![q].who = Nobody, ![q].data.user = u, ![q].want = [user |-> u, nonce |-> 0],
                             ![q].whole = TRUE, ![q].sure = @ /\ t # r.token]
  /\ confirmed' = IF r.state = Foreign THEN confirmed ELSE confirmed \cup {u}
  /\ UNCHANGED <<cookie, tabs, banned, nonces, expect, calm, named, ended>>

Logout(q) ==
  /\ Enters(q, "logout")
  /\ Destroy(q, "commit")
  /\ UNCHANGED <<cookie, tabs, banned, tokens, nonces, ghosts>>

\* An admin, in another browser.
Ban(u) ==
  /\ banned' = IF u \in banned THEN banned \ {u} ELSE banned \cup {u}
  /\ UNCHANGED <<table, cookie, tabs, req, tokens, nonces, ghosts>>

SessionsNext ==
  \/ \E q \in Requests :
       \/ Send(q) \/ Load(q) \/ LoadUser(q) \/ Page(q) \/ Start(q) \/ Callback(q)
       \/ Refuse(q) \/ (\E u \in Users : UpsertUser(q, u)) \/ SignIn(q)
       \/ Logout(q) \/ Commit(q) \/ Reply(q)
  \/ \E t \in Tokens : Expire(t)
  \/ \E u \in Users : Ban(u)

SessionsSpec == SessionsInit /\ [][SessionsNext]_sessionVars

-----------------------------------------------------------------------------

\* However requests overlap and statements fail: a session names only users who
\* came back from Discord with a nonce that Start gave to this browser.
ConfirmedOnly ==
  /\ \A t \in Tokens : Row(t).user \in confirmed \cup {Nobody}
  /\ \A q \in Requests : req[q].data.user \in confirmed \cup {Nobody}

\* Once a login or logout ran alone (or from the beginning), and as long as
\* requests run one by one and no statement fails, the browser's session is what
\* the answers said: who is signed in, and which login is open.  A callback's
\* nonce is gone, an unfinished login is not forgotten, a banned user is out.
AsLastAnswered == calm /\ AllIdle => Row(cookie) = expect

\* A token that named one user, or nobody, never comes to name another, however
\* requests overlap and whichever row is written back late; only a token whose
\* replacement failed does.
TokenNamesOne ==
  \A t \in Tokens \ unrenewed : \A u, v \in named[t] : u = v

\* The token of a session that was ended (by logout, ban or a new login) while no
\* other request ran never has a row again.
EndedForGood == \A t \in ended \cap Tokens : table[t] = NoRow
=============================================================================
