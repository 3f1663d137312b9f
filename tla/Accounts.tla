------------------------------ MODULE Accounts ------------------------------
(***************************************************************************)
(* Accounts: the OAuth callback, the slug picker of onboarding, the four   *)
(* moderation handlers of /admin with their audit log, and the columns of  *)
(* the users table they share.                                             *)
(*                                                                         *)
(* LoadUser reads the caller's row once, when a request begins; its gates  *)
(* (RequireSession, RequireAdmin) and the checks of the handlers use that  *)
(* copy while other requests change the table.  Each SQL statement is one  *)
(* step, no transaction spans two.  A statement whose context is cancelled *)
(* returns an error and may still be carried out later.                    *)
(***************************************************************************)
EXTENDS Naturals, Sequences, FiniteSets, Functions

CONSTANTS
  Users,     \* Discord members who may sign in
  Slugs,     \* valid, unreserved slugs, lower case
  Reqs,      \* requests
  AdminIDs,  \* ADMIN_DISCORD_IDS
  NoSlug,    \* NULL in users.slug
  Nobody     \* NULL in users.banned_by_id

ASSUME AccountsAssumption ==
  /\ AdminIDs \subseteq Users
  /\ NoSlug \notin Slugs
  /\ Nobody \notin Users

VARIABLES
  registered, \* users with a row
  admin,      \* is_admin
  bannedBy,   \* banned_by_id; banned is TRUE where it is not NULL
  slug,       \* slug[u]: users.slug
  signedIn,   \* users whose browser has a session
  audit,      \* admin_actions: the requests, in the order they were logged
  job,        \* job[q]: who asks for what
  step,       \* step[q]: where the handler of q is, or how it ended
  late,       \* <<request, statement>>: given up, may still take effect
  \* history variables, read by the properties and by no action
  crowded,    \* moderation requests have overlapped
  blurred     \* targets of moderation that overlapped, or failed half way

tableVars == <<registered, admin, bannedBy, slug>>
ghostVars == <<crowded, blurred>>
accountVars == <<tableVars, signedIn, audit, job, step, late, ghostVars>>

Verbs == {"ban", "unban", "promote", "demote"}
Jobs == [by : Users, verb : Verbs \cup {"login"}, on : Users]
          \cup [by : Users, verb : {"claim"}, on : Slugs]
NoJob == [verb |-> "none"]
Statements == {"upsert", "autopromote", "write", "log"}

AccountsTypeOK ==
  /\ registered \in SUBSET Users
  /\ admin \in SUBSET registered
  /\ bannedBy \in [Users -> Users \cup {Nobody}]
  /\ slug \in [Users -> Slugs \cup {NoSlug}]
  /\ signedIn \in SUBSET registered
  /\ audit \in Seq(Reqs)
  /\ job \in [Reqs -> Jobs \cup {NoJob}]
  /\ step \in [Reqs -> Statements \cup {"none", "check", "session", "ok", "already", "failed"}]
  /\ late \in SUBSET (Reqs \X Statements)
  /\ crowded \in BOOLEAN
  /\ blurred \in SUBSET Users

\* A table as an earlier deployment may have left it.
AccountsInit ==
  /\ registered \in SUBSET Users
  /\ admin \in SUBSET registered
  /\ signedIn \in SUBSET registered
  /\ bannedBy = [u \in Users |-> Nobody]
  /\ slug = [u \in Users |-> NoSlug]
  /\ audit = <<>>
  /\ job = [q \in Reqs |-> NoJob]
  /\ step = [q \in Reqs |-> "none"]
  /\ late = {}
  /\ crowded = FALSE
  /\ blurred = {}

Banned(u) == bannedBy[u] # Nobody
Running(q) == step[q] \in Statements \cup {"check", "session"}
Moderates(q) == job[q].verb \in Verbs
\* Moderation that runs or may still take effect.
Pending(q) == Moderates(q) /\ (Running(q) \/ \E s \in Statements : <<q, s>> \in late)
-----------------------------------------------------------------------------
(* Requests begin: session, LoadUser and the gates *)

Begin(q, j, s) ==
  /\ step[q] = "none"
  /\ job' = [job EXCEPT ![q] = j]
  /\ step' = [step EXCEPT ![q] = s]

\* The callback of an OAuth round that Discord answered with a guild member.
Callback(q, u) ==
  /\ Begin(q, [by |-> u, verb |-> "login", on |-> u], "upsert")
  /\ UNCHANGED <<tableVars, signedIn, audit, late, ghostVars>>

\* OnboardingPost, past RequireSession and the checks of the form.  Who has a slug
\* already is redirected to the dashboard at once, whatever slug he asks for.
OnboardingPost(q, u, s) ==
  /\ u \in signedIn
  /\ ~Banned(u)
  /\ Begin(q, [by |-> u, verb |-> "claim", on |-> s],
           IF slug[u] = NoSlug THEN "check" ELSE "already")
  /\ UNCHANGED <<tableVars, signedIn, audit, late, ghostVars>>

\* Mutant: an admin may demote or ban anybody.
MaySelf(u, verb, t) == TRUE

\* "you can't ban yourself", "you can't demote yourself"
MayModerate(u, verb, t) == verb \in {"ban", "demote"} => t # u

AdminAction(q, u, verb, t) ==
  /\ u \in signedIn
  /\ ~Banned(u)
  /\ u \in admin
  /\ MayModerate(u, verb, t)
  /\ Begin(q, [by |-> u, verb |-> verb, on |-> t], "check")
  /\ crowded' = (crowded \/ \E r \in Reqs : Pending(r))
  /\ blurred' = IF \E r \in Reqs : Pending(r) /\ job[r].on = t
                THEN blurred \cup {t} ELSE blurred
  /\ UNCHANGED <<tableVars, signedIn, audit, late>>

\* LoadUser destroys the session of a banned user; Logout destroys any.
DropSession(u) ==
  /\ u \in signedIn
  /\ signedIn' = signedIn \ {u}
  /\ UNCHANGED <<tableVars, audit, job, step, late, ghostVars>>
-----------------------------------------------------------------------------
(* What the statements do *)

\* Mutant: the callback only updates users it knows.
UpdateUser(q) == UNCHANGED tableVars

\* INSERT ... ON CONFLICT DO UPDATE, of columns that are not modelled.
UpsertUser(q) ==
  /\ registered' = registered \cup {job[q].by}
  /\ UNCHANGED <<admin, bannedBy, slug>>

\* Mutant: UPDATE without "AND slug IS NULL".
ClaimableTwice(u, s) == \A v \in Users : slug[v] # s

\* The row that UPDATE ... WHERE slug IS NULL finds, and the unique index.
Claimable(u, s) == slug[u] = NoSlug /\ \A v \in Users : slug[v] # s

SetUserSlug(u, s) ==
  /\ slug' = IF Claimable(u, s) THEN [slug EXCEPT ![u] = s] ELSE slug
  /\ UNCHANGED <<registered, admin, bannedBy>>

BanUser(t, u) ==
  /\ bannedBy' = [bannedBy EXCEPT ![t] = u]
  /\ UNCHANGED <<registered, admin, slug>>

UnbanUser(t) ==
  /\ bannedBy' = [bannedBy EXCEPT ![t] = Nobody]
  /\ UNCHANGED <<registered, admin, slug>>

PromoteAdmin(t) ==
  /\ admin' = admin \cup (registered \cap {t})
  /\ UNCHANGED <<registered, bannedBy, slug>>

DemoteAdmin(t) ==
  /\ admin' = admin \ {t}
  /\ UNCHANGED <<registered, bannedBy, slug>>

Write(j) ==
  \/ j.verb = "claim"   /\ SetUserSlug(j.by, j.on)
  \/ j.verb = "ban"     /\ BanUser(j.on, j.by)
  \/ j.verb = "unban"   /\ UnbanUser(j.on)
  \/ j.verb = "promote" /\ PromoteAdmin(j.on)
  \/ j.verb = "demote"  /\ DemoteAdmin(j.on)

\* Mutant: lifting a ban is not logged.
LogOthers(q) ==
  /\ audit' = IF job[q].verb = "unban" THEN audit ELSE Append(audit, q)
  /\ UNCHANGED tableVars

LogAdminAction(q) == audit' = Append(audit, q) /\ UNCHANGED tableVars

Effect(q, s) ==
  \/ s = "upsert"      /\ UpsertUser(q) /\ UNCHANGED audit
  \/ s = "autopromote" /\ PromoteAdmin(job[q].by) /\ UNCHANGED audit
  \/ s = "write"       /\ Write(job[q]) /\ UNCHANGED audit
  \/ s = "log"         /\ LogAdminAction(q)
-----------------------------------------------------------------------------
(* The handlers go on *)

GoOn(q, s) == step' = [step EXCEPT ![q] = s]

\* Early returns before the first change: SlugTaken, no such user, an error.
Refuse(q) ==
  /\ step[q] \in {"check", "session"}
  /\ GoOn(q, "failed")
  /\ UNCHANGED <<tableVars, signedIn, audit, job, late, ghostVars>>

\* SlugTaken says no; GetUserByID finds the target.
Check(q) ==
  /\ step[q] = "check"
  /\ IF Moderates(q) THEN job[q].on \in registered
                     ELSE \A v \in Users : slug[v] # job[q].on
  /\ GoOn(q, "write")
  /\ UNCHANGED <<tableVars, signedIn, audit, job, late, ghostVars>>

\* Where the callback goes from what UpsertUser returned.
AfterUpsert(u) ==
  IF Banned(u) THEN "failed"
  ELSE IF u \in AdminIDs /\ u \notin admin THEN "autopromote" ELSE "session"

\* Mutant: zero affected rows are no error.
AfterWriteAny(q) == IF Moderates(q) THEN "log" ELSE "ok"

\* Zero affected rows, or the unique index, fail a claim.
AfterWrite(q) ==
  IF Moderates(q) THEN "log"
  ELSE IF Claimable(job[q].by, job[q].on) THEN "ok" ELSE "failed"

Following(q) ==
  CASE step[q] = "upsert" -> AfterUpsert(job[q].by)
    [] step[q] = "autopromote" -> "session"
    [] step[q] = "write" -> AfterWrite(q)
    [] OTHER -> "ok"

Execute(q) ==
  /\ step[q] \in Statements
  /\ Effect(q, step[q])
  /\ GoOn(q, Following(q))
  /\ UNCHANGED <<signedIn, job, late, ghostVars>>

\* Auto-promotion is best effort, and the error of LogAdminAction is dropped.
OnError(s) ==
  CASE s = "autopromote" -> "session"
    [] s = "log" -> "ok"
    [] OTHER -> "failed"

\* Targets whose moderation stops at one of the two statements that matter.
Blurs(Q) == {job[q].on : q \in {r \in Q : Moderates(r) /\ step[r] \in Statements}}

Fail(q) ==
  /\ step[q] \in Statements
  /\ late' = late \cup {<<q, step[q]>>}
  /\ GoOn(q, OnError(step[q]))
  /\ blurred' = blurred \cup Blurs({q})
  /\ UNCHANGED <<tableVars, signedIn, audit, job, crowded>>

\* The callback renews the session and puts the user into it.
PutSession(q) ==
  /\ step[q] = "session"
  /\ signedIn' = signedIn \cup {job[q].by}
  /\ GoOn(q, "ok")
  /\ UNCHANGED <<tableVars, audit, job, late, ghostVars>>

\* A statement that was given up is carried out after all.
Land(q, s) ==
  /\ <<q, s>> \in late
  /\ late' = late \ {<<q, s>>}
  /\ Effect(q, s)
  /\ UNCHANGED <<signedIn, job, step, ghostVars>>

\* The server process ends; sessions are in the database.
AccountsCrash ==
  /\ \E q \in Reqs : Running(q)
  /\ step' = [q \in Reqs |-> IF Running(q) THEN "failed" ELSE step[q]]
  /\ late' = late \cup {<<q, step[q]>> : q \in {r \in Reqs : step[r] \in Statements}}
  /\ blurred' = blurred \cup Blurs(Reqs)
  /\ UNCHANGED <<tableVars, signedIn, audit, job, crowded>>

AccountsNext ==
  \/ \E q \in Reqs, u \in Users :
       \/ Callback(q, u)
       \/ \E s \in Slugs : OnboardingPost(q, u, s)
       \/ \E verb \in Verbs, t \in Users : AdminAction(q, u, verb, t)
  \/ \E q \in Reqs :
       \/ Refuse(q) \/ Check(q) \/ Execute(q) \/ Fail(q) \/ PutSession(q)
       \/ \E s \in Statements : Land(q, s)
  \/ \E u \in Users : DropSession(u)
  \/ AccountsCrash

AccountsSpec == AccountsInit /\ [][AccountsNext]_accountVars
-----------------------------------------------------------------------------
(* Properties *)

\* A slug is given once and for ever, to a user who asked for it and to no
\* second one, however requests of one user or of several race.
SlugsOnlyClaimed ==
  [][\A u \in Users : slug'[u] # slug[u] =>
       /\ slug[u] = NoSlug
       /\ \A v \in Users : slug[v] # slug'[u]
       /\ \E q \in Reqs : job[q] = [by |-> u, verb |-> "claim", on |-> slug'[u]]
    ]_accountVars

\* Who is redirected to the dashboard has a slug, and the one he asked for unless
\* he had one when he asked: a request that passed the check and lost the race to
\* one of another tab, or to a late one, is not redirected.
ClaimHolds ==
  \A q \in Reqs : job[q].verb = "claim" =>
    /\ step[q] = "ok" => slug[job[q].by] = job[q].on
    /\ step[q] = "already" => slug[job[q].by] # NoSlug

\* Users who can use /admin.
Ruling == {u \in admin : ~Banned(u)}

\* Moderation requests that do not overlap never leave the site without an
\* admin: who demotes or bans somebody remains.
AdminRemains == [][Ruling # {} /\ ~crowded' => Ruling' # {}]_accountVars

\* Position i of the log is the last ban or unban of t.
LastEntry(t, i) ==
  /\ job[audit[i]].on = t /\ job[audit[i]].verb \in {"ban", "unban"}
  /\ \A k \in DOMAIN audit :
       job[audit[k]].on = t /\ job[audit[k]].verb \in {"ban", "unban"} => k <= i

\* An entry of the log stands there once, for a request that is over and whose
\* change was made before, whatever overlaps, fails or is carried out late: neither
\* is still to come.
LogHonest ==
  /\ IsInjective(audit)
  /\ \A q \in Range(audit) :
       /\ step[q] \in {"ok", "failed"}
       /\ <<q, "write">> \notin late
       /\ <<q, "log">> \notin late

\* The log is honest, and it tells who is banned and by whom, unless moderation of
\* that user overlapped or failed half way: a change may then stay without an entry,
\* and the entries may stand in another order than the changes were made.
AuditTellsBans ==
  /\ LogHonest
  /\ \A t \in Users \ blurred :
       (\A q \in Reqs : Moderates(q) /\ Running(q) => job[q].on # t) =>
         IF Banned(t)
         THEN \E i \in DOMAIN audit : LastEntry(t, i) /\ job[audit[i]].verb = "ban"
                                                     /\ job[audit[i]].by = bannedBy[t]
         ELSE \A i \in DOMAIN audit : LastEntry(t, i) => job[audit[i]].verb = "unban"
=============================================================================
