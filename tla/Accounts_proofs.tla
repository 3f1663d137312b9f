-------------------------- MODULE Accounts_proofs --------------------------
(***************************************************************************)
(* Accounts for any number of users, slugs and requests.                   *)
(*                                                                         *)
(* AccountsInv, the inductive invariant, says which statements the handler *)
(* of a job can be at, or can have given up (JobInv), and adds to the two  *)
(* properties about moderation what is true while it is under way.         *)
(***************************************************************************)
EXTENDS Accounts, SequenceTheorems, TLAPS

\* A request that has begun has a job, and is where the handler of that job can
\* be; what it gave up are statements of that handler.
JobInv ==
  \A q \in Reqs :
    /\ step[q] = "none" => job[q] = NoJob
    /\ step[q] # "none" => job[q] \in Jobs
    /\ step[q] \in {"upsert", "autopromote", "session"} => job[q].verb = "login"
    /\ step[q] \in {"autopromote", "session"} => job[q].by \in registered
    /\ step[q] \in {"check", "write"} => job[q].verb # "login"
    /\ step[q] = "log" => Moderates(q)
    /\ \A s \in Statements : <<q, s>> \in late =>
         /\ step[q] # "none"
         /\ s \in {"upsert", "autopromote"} => job[q].verb = "login"
         /\ s = "write" => job[q].verb # "login"
         /\ s = "log" => Moderates(q)

\* As long as moderation has not overlapped, one request is under way, and who
\* takes somebody's rights away keeps his own.
RulingInv ==
  ~crowded =>
    /\ \A q, r \in Reqs : Pending(q) /\ Pending(r) => q = r
    /\ \A q \in Reqs : Pending(q) /\ job[q].verb \in {"ban", "demote"} =>
         job[q].by \in Ruling /\ job[q].by # job[q].on

\* The log is right about t.
Told(t) ==
  IF Banned(t)
  THEN \E i \in DOMAIN audit : LastEntry(t, i) /\ job[audit[i]].verb = "ban"
                                              /\ job[audit[i]].by = bannedBy[t]
  ELSE \A i \in DOMAIN audit : LastEntry(t, i) => job[audit[i]].verb = "unban"

\* A ban or unban of t that is carried out and not yet logged.
ToLog(q, t) == step[q] = "log" /\ job[q].verb \in {"ban", "unban"} /\ job[q].on = t

\* The log of a user whose moderation never overlapped or failed half way is
\* right, or one entry behind, which is about to be written.
AuditInv ==
  /\ \A i \in DOMAIN audit : Moderates(audit[i])
  /\ \A t \in Users \ blurred :
       /\ \A q, r \in Reqs : Pending(q) /\ Pending(r) /\ job[q].on = t /\ job[r].on = t => q = r
       /\ \A q \in Reqs, s \in Statements : <<q, s>> \in late /\ Moderates(q) => job[q].on # t
       /\ \A q \in Reqs : ToLog(q, t) =>
            bannedBy[t] = IF job[q].verb = "ban" THEN job[q].by ELSE Nobody
       /\ (\A q \in Reqs : ~ToLog(q, t)) => Told(t)

AccountsInv == AccountsTypeOK /\ JobInv /\ ClaimHolds /\ RulingInv /\ AuditInv
-----------------------------------------------------------------------------
USE AccountsAssumption DEF Statements, Verbs

\* It holds of every table an earlier deployment may have left.
LEMMA AccountsInitInv == AccountsInit => AccountsInv
<1> SUFFICES ASSUME AccountsInit PROVE AccountsInv
  OBVIOUS
<1> USE DEF AccountsInit
<1>1. AccountsTypeOK BY EmptySeq DEF AccountsTypeOK
<1>2. JobInv BY DEF JobInv
<1>3. ClaimHolds BY DEF ClaimHolds
<1>4. \A q \in Reqs : ~Pending(q) BY DEF Pending, Running
<1>5. RulingInv BY <1>4 DEF RulingInv
<1>6. AuditInv BY <1>4 DEF AuditInv, Told, Banned, ToLog
<1> QED BY <1>1, <1>2, <1>3, <1>5, <1>6 DEF AccountsInv
-----------------------------------------------------------------------------
(* What a statement does to the tables, in a handler or late *)

Doing(q, s) == step[q] = s \/ <<q, s>> \in late

\* A statement is one that the job of its request has.
LEMMA DoingFacts ==
  ASSUME AccountsTypeOK, JobInv, NEW q \in Reqs, NEW s \in Statements, Doing(q, s)
  PROVE  /\ job[q] \in Jobs
         /\ s \in {"upsert", "autopromote"} => job[q].verb = "login"
         /\ s = "write" => job[q].verb \in Verbs \cup {"claim"}
         /\ s = "log" => Moderates(q)
BY DEF JobInv, Doing, Jobs, Moderates

\* Users' rows come and stay, the tables keep their types.
LEMMA EffectTypes ==
  ASSUME AccountsTypeOK, JobInv, NEW q \in Reqs, NEW s \in Statements, Doing(q, s), Effect(q, s)
  PROVE  /\ registered' \in SUBSET Users /\ registered \subseteq registered'
         /\ admin' \in SUBSET registered'
         /\ bannedBy' \in [Users -> Users \cup {Nobody}]
         /\ slug' \in [Users -> Slugs \cup {NoSlug}]
         /\ audit' \in Seq(Reqs)
<1>0. job[q] \in Jobs BY DoingFacts
<1>1. CASE s = "upsert"
  BY <1>0, <1>1, DoingFacts DEF Effect, UpsertUser, AccountsTypeOK, Jobs
<1>2. CASE s = "autopromote"
  BY <1>0, <1>2, DoingFacts DEF Effect, PromoteAdmin, AccountsTypeOK, Jobs
<1>3. CASE s = "write"
  <2>1. Write(job[q]) /\ UNCHANGED audit BY <1>3 DEF Effect
  <2>2. CASE job[q].verb = "claim"
    <3>1. job[q].on \in Slugs BY <1>0, <2>2 DEF Jobs
    <3>2. SetUserSlug(job[q].by, job[q].on) BY <2>1, <2>2 DEF Write
    <3>3. slug' \in [Users -> Slugs \cup {NoSlug}] BY <3>1, <3>2 DEF SetUserSlug, AccountsTypeOK
    <3> QED BY <2>1, <3>2, <3>3 DEF SetUserSlug, AccountsTypeOK
  <2>3. CASE job[q].verb \in {"ban", "unban"}
    <3>1. job[q].on \in Users /\ job[q].by \in Users BY <1>0, <2>3 DEF Jobs
    <3> QED BY <2>1, <2>3, <3>1 DEF Write, BanUser, UnbanUser, AccountsTypeOK
  <2>4. CASE job[q].verb \in {"promote", "demote"}
    BY <2>1, <2>4 DEF Write, PromoteAdmin, DemoteAdmin, AccountsTypeOK
  <2> QED BY <1>3, <2>2, <2>3, <2>4, DoingFacts
<1>4. CASE s = "log"
  <2>1. audit' = Append(audit, q) /\ UNCHANGED tableVars BY <1>4 DEF Effect, LogAdminAction
  <2>2. audit \in Seq(Reqs) BY DEF AccountsTypeOK
  <2>3. audit' \in Seq(Reqs) BY <2>1, <2>2, AppendProperties
  <2> QED BY <2>1, <2>3 DEF AccountsTypeOK, tableVars
<1> QED BY <1>1, <1>2, <1>3, <1>4

\* A slug is set only where there is none, to one that nobody has.
LEMMA EffectSlugs ==
  ASSUME AccountsTypeOK, JobInv, NEW q \in Reqs, NEW s \in Statements, Doing(q, s), Effect(q, s),
         NEW u \in Users, slug'[u] # slug[u]
  PROVE  /\ s = "write" /\ job[q] = [by |-> u, verb |-> "claim", on |-> slug'[u]]
         /\ slug[u] = NoSlug
         /\ \A v \in Users : slug[v] # slug'[u]
<1>0. job[q] \in Jobs BY DoingFacts
<1>1. s = "write" /\ job[q].verb = "claim"
  BY DoingFacts DEF Effect, UpsertUser, PromoteAdmin, DemoteAdmin, Write, BanUser, UnbanUser,
                    LogAdminAction, tableVars
<1>2. SetUserSlug(job[q].by, job[q].on)
  BY <1>1 DEF Effect, Write
<1>3. job[q] \in [by : Users, verb : {"claim"}, on : Slugs]
  BY <1>0, <1>1 DEF Jobs
<1> QED BY <1>1, <1>2, <1>3 DEF SetUserSlug, Claimable, AccountsTypeOK

\* Who is banned changes with a ban or unban of that user, as it says.
LEMMA EffectBans ==
  ASSUME AccountsTypeOK, JobInv, NEW q \in Reqs, NEW s \in Statements, Doing(q, s), Effect(q, s)
  PROVE  /\ \A t \in Users : bannedBy'[t] # bannedBy[t] =>
              s = "write" /\ job[q].verb \in {"ban", "unban"} /\ job[q].on = t
         /\ s = "write" /\ job[q].verb = "ban" => bannedBy'[job[q].on] = job[q].by
         /\ s = "write" /\ job[q].verb = "unban" => bannedBy'[job[q].on] = Nobody
<1>0. job[q] \in Jobs BY DoingFacts
<1>1. CASE s = "write" /\ job[q].verb \in {"ban", "unban"}
  <2>1. job[q].on \in Users BY <1>0, <1>1 DEF Jobs
  <2> QED BY <1>1, <2>1 DEF Effect, Write, BanUser, UnbanUser, AccountsTypeOK
<1>2. CASE ~(s = "write" /\ job[q].verb \in {"ban", "unban"})
  BY <1>2, DoingFacts DEF Effect, UpsertUser, PromoteAdmin, DemoteAdmin, Write, SetUserSlug,
                          LogAdminAction, tableVars
<1> QED BY <1>1, <1>2

\* Only a ban or a demotion takes an admin's rights away, from its target.
LEMMA EffectRuling ==
  ASSUME AccountsTypeOK, JobInv, NEW q \in Reqs, NEW s \in Statements, Doing(q, s), Effect(q, s),
         NEW u \in Ruling, u \notin Ruling'
  PROVE  s = "write" /\ job[q].verb \in {"ban", "demote"} /\ job[q].on = u
<1>1. u \in Users /\ bannedBy[u] = Nobody /\ u \in admin
  BY DEF Ruling, Banned, AccountsTypeOK
<1>2. CASE bannedBy'[u] # bannedBy[u]
  BY <1>1, <1>2, EffectBans DEF Ruling, Banned
<1>3. CASE u \notin admin'
  BY <1>1, <1>3, DoingFacts DEF Effect, UpsertUser, PromoteAdmin, DemoteAdmin, Write, SetUserSlug,
                          BanUser, UnbanUser, LogAdminAction, tableVars
<1> QED BY <1>1, <1>2, <1>3 DEF Ruling, Banned

\* The log grows by the log statement only.
LEMMA EffectAudit ==
  ASSUME AccountsTypeOK, NEW q \in Reqs, NEW s \in Statements, Effect(q, s)
  PROVE  audit' = IF s = "log" THEN Append(audit, q) ELSE audit
BY DEF Effect, LogAdminAction
-----------------------------------------------------------------------------
(* What a step may do *)

\* Tables and log change by the statements of requests only.
LEMMA StepEffects ==
  ASSUME AccountsNext
  PROVE  \/ UNCHANGED <<tableVars, audit>>
         \/ \E q \in Reqs, s \in Statements :
              /\ Doing(q, s) /\ Effect(q, s)
              /\ (Execute(q) /\ s = step[q]) \/ Land(q, s)
<1>1. CASE \E q \in Reqs : Execute(q)
  BY <1>1 DEF Execute, Doing
<1>2. CASE \E q \in Reqs, s \in Statements : Land(q, s)
  BY <1>2 DEF Land, Doing
<1>3. CASE ~(\E q \in Reqs : Execute(q)) /\ ~(\E q \in Reqs, s \in Statements : Land(q, s))
  BY <1>3 DEF AccountsNext, Callback, OnboardingPost, AdminAction, Refuse, Check, Fail, PutSession,
              DropSession, AccountsCrash
<1> QED BY <1>1, <1>2, <1>3

\* A request keeps its job, and does not begin again.
LEMMA JobsStay ==
  ASSUME AccountsTypeOK, JobInv, AccountsNext, NEW q \in Reqs, step[q] # "none"
  PROVE  job'[q] = job[q] /\ step'[q] # "none"
<1>1. ASSUME NEW r \in Reqs, NEW j, NEW s, Begin(r, j, s)
      PROVE  job'[q] = job[q] /\ step'[q] # "none"
  BY <1>1 DEF Begin, AccountsTypeOK
<1>2. CASE AccountsCrash
  BY <1>2 DEF AccountsCrash
<1>3. CASE \E u \in Users : DropSession(u)
  BY <1>3 DEF DropSession
<1>4. ASSUME NEW r \in Reqs, NEW s, s # "none", GoOn(r, s), UNCHANGED job
      PROVE  job'[q] = job[q] /\ step'[q] # "none"
  BY <1>4 DEF GoOn, AccountsTypeOK
<1>5. ASSUME NEW r \in Reqs, Refuse(r) \/ Check(r) \/ Execute(r) \/ Fail(r) \/ PutSession(r)
      PROVE  job'[q] = job[q] /\ step'[q] # "none"
  <2>1. Following(r) # "none" \/ step[r] \notin Statements
    BY DEF Following, AfterUpsert, AfterWrite
  <2>2. OnError(step[r]) # "none"
    BY DEF OnError
  <2> QED BY <1>4, <1>5, <2>1, <2>2 DEF Refuse, Check, Execute, Fail, PutSession
<1>6. CASE \E r \in Reqs, s \in Statements : Land(r, s)
  BY <1>6 DEF Land
<1> QED BY <1>1, <1>2, <1>3, <1>5, <1>6 DEF AccountsNext, Callback, OnboardingPost, AdminAction

\* Where the handlers go from each statement.
LEMMA FollowingFacts ==
  ASSUME NEW q \in Reqs
  PROVE  /\ step[q] = "upsert" => Following(q) = AfterUpsert(job[q].by)
         /\ step[q] = "autopromote" => Following(q) = "session"
         /\ step[q] = "write" => Following(q) = AfterWrite(q)
         /\ step[q] = "log" => Following(q) = "ok"
<1>1. step[q] = "upsert" => Following(q) = AfterUpsert(job[q].by)
  BY DEF Following
<1>2. step[q] = "autopromote" => Following(q) = "session"
  BY DEF Following
<1>3. step[q] = "write" => Following(q) = AfterWrite(q)
  BY DEF Following
<1>4. step[q] = "log" => Following(q) = "ok"
  BY DEF Following
<1> QED BY <1>1, <1>2, <1>3, <1>4

\* Where they go when it fails.
LEMMA OnErrorFacts ==
  /\ OnError("upsert") = "failed"
  /\ OnError("autopromote") = "session"
  /\ OnError("write") = "failed"
  /\ OnError("log") = "ok"
<1>1. OnError("upsert") = "failed" BY DEF OnError
<1>2. OnError("autopromote") = "session" BY DEF OnError
<1>3. OnError("write") = "failed" BY DEF OnError
<1>4. OnError("log") = "ok" BY DEF OnError
<1> QED BY <1>1, <1>2, <1>3, <1>4

\* Moderation is pending from AdminAction on, with the job it came with.
LEMMA StepPending ==
  ASSUME AccountsTypeOK, JobInv, AccountsNext,
         NEW r \in Reqs, Pending(r)',
         ~ \E u \in Users, verb \in Verbs, t \in Users : AdminAction(r, u, verb, t)
  PROVE  Pending(r) /\ job'[r] = job[r]
<1>1. ASSUME NEW q \in Reqs, NEW s, s \in Statements \cup {"check", "session", "ok", "failed"},
             step[q] \in Statements \cup {"check", "session"}, GoOn(q, s), UNCHANGED job,
             late' \subseteq late \cup {<<q, step[q]>>}
      PROVE  Pending(r)
  BY <1>1 DEF GoOn, AccountsTypeOK, Pending, Running, Moderates
<1>2. ASSUME NEW q \in Reqs, NEW j, NEW s, q # r \/ j.verb \notin Verbs, Begin(q, j, s), UNCHANGED late
      PROVE  Pending(r) /\ job'[r] = job[r]
  BY <1>2 DEF Begin, AccountsTypeOK, Pending, Running, Moderates
<1>3. ASSUME NEW q \in Reqs, Refuse(q) \/ Check(q) \/ Execute(q) \/ Fail(q) \/ PutSession(q)
      PROVE  Pending(r)
  <2>1. step[q] \in Statements => Following(q) \in Statements \cup {"session", "ok", "failed"}
    BY FollowingFacts DEF AfterUpsert, AfterWrite
  <2>2. step[q] \in Statements => OnError(step[q]) \in {"session", "ok", "failed"}
    BY OnErrorFacts
  <2> QED BY <1>1, <1>3, <2>1, <2>2 DEF Refuse, Check, Execute, Fail, PutSession
<1>4. CASE \E q \in Reqs, s \in Statements : Land(q, s)
  BY <1>4 DEF Land, Pending, Running, Moderates
<1>5. CASE AccountsCrash
  BY <1>5 DEF AccountsCrash, Pending, Running, Moderates
<1>6. CASE \E u \in Users : DropSession(u)
  BY <1>6 DEF DropSession, Pending, Running, Moderates
<1>7. ASSUME NEW q \in Reqs, NEW u \in Users, NEW verb \in Verbs, NEW t \in Users,
             AdminAction(q, u, verb, t)
      PROVE  Pending(r) /\ job'[r] = job[r]
  BY <1>2, <1>7 DEF AdminAction
<1>8. ASSUME NEW q \in Reqs, NEW u \in Users,
             Callback(q, u) \/ \E s \in Slugs : OnboardingPost(q, u, s)
      PROVE  Pending(r) /\ job'[r] = job[r]
  BY <1>2, <1>8 DEF Callback, OnboardingPost
<1>9. Pending(r)
  BY <1>3, <1>4, <1>5, <1>6, <1>7, <1>8 DEF AccountsNext
<1>10. step[r] # "none"
  BY <1>9 DEF Pending, Running, JobInv
<1> QED BY <1>9, <1>10, JobsStay
-----------------------------------------------------------------------------
(* AccountsInv is inductive *)

\* Tables by their statements, the rest by the handlers.
LEMMA TypesStep ==
  ASSUME AccountsTypeOK, JobInv, AccountsNext
  PROVE  AccountsTypeOK'
<1>1. /\ registered' \in SUBSET Users /\ registered \subseteq registered'
      /\ admin' \in SUBSET registered'
      /\ bannedBy' \in [Users -> Users \cup {Nobody}]
      /\ slug' \in [Users -> Slugs \cup {NoSlug}]
      /\ audit' \in Seq(Reqs)
  <2>1. CASE UNCHANGED <<tableVars, audit>>
    BY <2>1 DEF AccountsTypeOK, tableVars
  <2>2. CASE \E q \in Reqs, s \in Statements : Doing(q, s) /\ Effect(q, s)
    BY <2>2, EffectTypes
  <2> QED BY <2>1, <2>2, StepEffects
<1>2. signedIn' \in SUBSET registered'
  <2>1. ASSUME NEW q \in Reqs, PutSession(q) PROVE job[q].by \in registered
    BY <2>1 DEF PutSession, JobInv
  <2>2. signedIn' \subseteq signedIn \/ \E q \in Reqs : PutSession(q)
    BY DEF AccountsNext, Callback, OnboardingPost, AdminAction, Refuse, Check, Execute, Fail, Land,
           DropSession, AccountsCrash
  <2> QED BY <1>1, <2>1, <2>2 DEF PutSession, AccountsTypeOK
<1>3. job' \in [Reqs -> Jobs \cup {NoJob}]
  <2>1. ASSUME NEW q \in Reqs, NEW j \in Jobs, NEW s, Begin(q, j, s)
        PROVE  job' \in [Reqs -> Jobs \cup {NoJob}]
    BY <2>1 DEF Begin, AccountsTypeOK
  <2>2. ASSUME NEW q \in Reqs, NEW u \in Users, Callback(q, u)
        PROVE  \E j \in Jobs, s \in {"upsert"} : Begin(q, j, s)
    BY <2>2 DEF Callback, Jobs
  <2>3. ASSUME NEW q \in Reqs, NEW u \in Users, NEW s \in Slugs, OnboardingPost(q, u, s)
        PROVE  \E j \in Jobs, t \in {"check", "already"} : Begin(q, j, t)
    BY <2>3 DEF OnboardingPost, Jobs
  <2>4. ASSUME NEW q \in Reqs, NEW u \in Users, NEW verb \in Verbs, NEW t \in Users,
               AdminAction(q, u, verb, t)
        PROVE  \E j \in Jobs, s \in {"check"} : Begin(q, j, s)
    BY <2>4 DEF AdminAction, Jobs
  <2>5. UNCHANGED job \/ \E q \in Reqs, j \in Jobs, s \in {"upsert", "check", "already"} : Begin(q, j, s)
    BY <2>2, <2>3, <2>4 DEF AccountsNext, Refuse, Check, Execute, Fail, PutSession, Land,
         DropSession, AccountsCrash
  <2> QED BY <2>1, <2>5 DEF AccountsTypeOK
<1>4. /\ step' \in [Reqs -> Statements \cup {"none", "check", "session", "ok", "already", "failed"}]
      /\ late' \in SUBSET (Reqs \X Statements)
  <2>1. ASSUME NEW q \in Reqs, step[q] \in Statements
        PROVE  /\ Following(q) \in Statements \cup {"session", "ok", "failed"}
               /\ OnError(step[q]) \in {"session", "ok", "failed"}
    BY <2>1, FollowingFacts, OnErrorFacts DEF AfterUpsert, AfterWrite
  <2>2. CASE \E q \in Reqs : Execute(q) \/ Fail(q)
    BY <2>1, <2>2 DEF Execute, Fail, GoOn, AccountsTypeOK
  <2>3. CASE AccountsCrash
    BY <2>3 DEF AccountsCrash, AccountsTypeOK
  <2>4. CASE ~AccountsCrash /\ ~ \E q \in Reqs : Execute(q) \/ Fail(q)
    BY <2>4 DEF AccountsTypeOK, AccountsNext, Callback, OnboardingPost, AdminAction, Begin, GoOn,
                Refuse, Check, PutSession, Land, DropSession
  <2> QED BY <2>2, <2>3, <2>4
<1>5. crowded' \in BOOLEAN
  BY DEF AccountsTypeOK, AccountsNext, Callback, OnboardingPost, AdminAction, Refuse, Check,
         Execute, Fail, PutSession, Land, DropSession, AccountsCrash, ghostVars
<1>6. blurred' \in SUBSET Users
  <2>1. ASSUME NEW q \in Reqs, Moderates(q) PROVE job[q].on \in Users
    BY <2>1 DEF AccountsTypeOK, Moderates, Jobs, NoJob
  <2>2. \A Q \in SUBSET Reqs : Blurs(Q) \subseteq Users
    BY <2>1 DEF Blurs
  <2>3. CASE \E q \in Reqs, u \in Users, verb \in Verbs, t \in Users : AdminAction(q, u, verb, t)
    BY <2>3 DEF AdminAction, AccountsTypeOK
  <2>4. CASE \E q \in Reqs : Fail(q)
    BY <2>2, <2>4 DEF Fail, AccountsTypeOK
  <2>5. CASE AccountsCrash
    BY <2>2, <2>5 DEF AccountsCrash, AccountsTypeOK
  <2>6. UNCHANGED blurred \/ AccountsCrash \/ (\E q \in Reqs : Fail(q))
          \/ \E q \in Reqs, u \in Users, verb \in Verbs, t \in Users : AdminAction(q, u, verb, t)
    BY DEF AccountsNext, Callback, OnboardingPost, Refuse, Check, Execute, PutSession, Land,
           DropSession, ghostVars
  <2> QED BY <2>3, <2>4, <2>5, <2>6 DEF AccountsTypeOK
<1> QED BY <1>1, <1>2, <1>3, <1>4, <1>5, <1>6 DEF AccountsTypeOK

\* A new request is nowhere but at its first step.
LEMMA BeginJob ==
  ASSUME AccountsTypeOK, JobInv, NEW q \in Reqs, NEW j \in Jobs, NEW s,
         Begin(q, j, s), UNCHANGED <<late, registered>>,
         \/ s = "upsert" /\ j.verb = "login"
         \/ s \in {"check", "already"} /\ j.verb # "login"
  PROVE  JobInv'
BY DEF JobInv, Begin, AccountsTypeOK, Moderates

\* A request goes on in its handler, and gives up at most where it was.
LEMMA GoOnJob ==
  ASSUME AccountsTypeOK, JobInv, NEW q \in Reqs, NEW s, GoOn(q, s), UNCHANGED job,
         step[q] # "none", registered \subseteq registered',
         late' \subseteq late \cup ({<<q, step[q]>>} \cap (Reqs \X Statements)),
         \/ s \in {"ok", "failed"}
         \/ s = "write" /\ job[q].verb # "login"
         \/ s = "log" /\ Moderates(q)
         \/ s \in {"autopromote", "session"} /\ job[q].verb = "login" /\ job[q].by \in registered'
  PROVE  JobInv'
BY DEF JobInv, GoOn, AccountsTypeOK, Moderates, Jobs

\* One step per action: a request begins, goes on, or gives up.
LEMMA JobStep ==
  ASSUME AccountsTypeOK, JobInv, AccountsNext
  PROVE  JobInv'
<1> USE AccountsTypeOK, JobInv
<1>0. registered \subseteq registered'
  BY StepEffects, EffectTypes DEF tableVars
<1>1. ASSUME NEW q \in Reqs, NEW u \in Users, Callback(q, u) PROVE JobInv'
  <2> DEFINE j == [by |-> u, verb |-> "login", on |-> u]
  <2>1. j \in Jobs /\ j.verb = "login" BY DEF Jobs
  <2>2. Begin(q, j, "upsert") /\ UNCHANGED <<late, registered>> BY <1>1 DEF Callback, tableVars
  <2> QED BY <2>1, <2>2, BeginJob
<1>2. ASSUME NEW q \in Reqs, NEW u \in Users, NEW s \in Slugs, OnboardingPost(q, u, s) PROVE JobInv'
  <2> DEFINE j == [by |-> u, verb |-> "claim", on |-> s]
  <2>1. j \in Jobs /\ j.verb # "login" BY DEF Jobs
  <2>2. PICK c \in {"check", "already"} : Begin(q, j, c) /\ UNCHANGED <<late, registered>>
    BY <1>2 DEF OnboardingPost, tableVars
  <2> QED BY <2>1, <2>2, BeginJob
<1>3. ASSUME NEW q \in Reqs, NEW u \in Users, NEW verb \in Verbs, NEW t \in Users,
             AdminAction(q, u, verb, t)
      PROVE  JobInv'
  <2> DEFINE j == [by |-> u, verb |-> verb, on |-> t]
  <2>1. j \in Jobs /\ j.verb # "login" BY DEF Jobs
  <2>2. Begin(q, j, "check") /\ UNCHANGED <<late, registered>> BY <1>3 DEF AdminAction, tableVars
  <2> QED BY <2>1, <2>2, BeginJob
<1>4. ASSUME NEW q \in Reqs, Refuse(q) PROVE JobInv'
  BY <1>0, <1>4, GoOnJob DEF Refuse
<1>5. ASSUME NEW q \in Reqs, Check(q) PROVE JobInv'
  <2>1. job[q].verb # "login" BY <1>5 DEF Check, JobInv
  <2> QED BY <1>0, <1>5, <2>1, GoOnJob DEF Check
<1>6. ASSUME NEW q \in Reqs, Execute(q) PROVE JobInv'
  <2>1. step[q] \in Statements /\ GoOn(q, Following(q)) /\ UNCHANGED <<job, late>>
    BY <1>6 DEF Execute
  <2>2. Doing(q, step[q]) BY DEF Doing
  <2>3. CASE step[q] = "upsert"
    <3>1. job[q].verb = "login" BY <2>3 DEF JobInv
    <3>2. job[q].by \in registered'
      BY <1>6, <2>3 DEF Execute, Effect, UpsertUser
    <3>3. Following(q) \in {"failed", "autopromote", "session"}
      BY <2>3, FollowingFacts DEF AfterUpsert
    <3> QED BY <1>0, <2>1, <2>3, <3>1, <3>2, <3>3, GoOnJob
  <2>4. CASE step[q] = "autopromote"
    <3>1. job[q].verb = "login" /\ job[q].by \in registered BY <2>4 DEF JobInv
    <3> QED BY <1>0, <2>1, <2>4, <3>1, FollowingFacts, GoOnJob
  <2>5. CASE step[q] = "write"
    <3>0. Following(q) = AfterWrite(q) BY <2>5, FollowingFacts
    <3>1. Following(q) \in {"ok", "failed"} \/ (Following(q) = "log" /\ Moderates(q))
      BY <3>0 DEF AfterWrite, Moderates, Claimable
    <3> QED BY <1>0, <2>1, <2>5, <3>1, GoOnJob
  <2>6. CASE step[q] = "log"
    BY <1>0, <2>1, <2>6, FollowingFacts, GoOnJob
  <2> QED BY <2>1, <2>3, <2>4, <2>5, <2>6
<1>7. ASSUME NEW q \in Reqs, Fail(q) PROVE JobInv'
  <2>1. /\ step[q] \in Statements /\ GoOn(q, OnError(step[q])) /\ UNCHANGED job
        /\ late' \subseteq late \cup ({<<q, step[q]>>} \cap (Reqs \X Statements))
    BY <1>7 DEF Fail
  <2>2. CASE step[q] = "autopromote"
    <3>1. job[q].verb = "login" /\ job[q].by \in registered BY <2>2 DEF JobInv
    <3> QED BY <1>0, <2>1, <2>2, <3>1, OnErrorFacts, GoOnJob
  <2>3. CASE step[q] # "autopromote"
    <3>1. OnError(step[q]) \in {"ok", "failed"} BY <2>1, <2>3, OnErrorFacts
    <3> QED BY <1>0, <2>1, <3>1, GoOnJob
  <2> QED BY <2>2, <2>3
<1>8. ASSUME NEW q \in Reqs, PutSession(q) PROVE JobInv'
  BY <1>0, <1>8, GoOnJob DEF PutSession
<1>9. ASSUME NEW q \in Reqs, NEW s \in Statements, Land(q, s) PROVE JobInv'
  BY <1>0, <1>9 DEF Land, JobInv, Moderates
<1>10. CASE \E u \in Users : DropSession(u)
  <2>1. UNCHANGED <<registered, job, step, late>>
    BY <1>10 DEF DropSession, tableVars
  <2> QED BY <2>1 DEF JobInv, Moderates
<1>11. CASE AccountsCrash
  BY <1>11 DEF AccountsCrash, JobInv, Moderates, Running, tableVars, AccountsTypeOK
<1> QED BY <1>1, <1>2, <1>3, <1>4, <1>5, <1>6, <1>7, <1>8, <1>9, <1>10, <1>11 DEF AccountsNext

\* A slug that is given is not taken back.
LEMMA SlugStays ==
  ASSUME AccountsTypeOK, JobInv, AccountsNext, NEW u \in Users, slug[u] # NoSlug
  PROVE  slug'[u] = slug[u]
<1>1. CASE UNCHANGED <<tableVars, audit>> BY <1>1 DEF tableVars
<1>2. CASE \E q \in Reqs, s \in Statements : Doing(q, s) /\ Effect(q, s)
  BY <1>2, EffectSlugs
<1> QED BY <1>1, <1>2, StepEffects

\* A claim ends well only in the step that set the slug, which then stays.
LEMMA ClaimsStep ==
  ASSUME AccountsTypeOK, JobInv, ClaimHolds, AccountsNext
  PROVE  ClaimHolds'
<1>3. ASSUME NEW r \in Reqs, step'[r] = "already", job'[r].verb = "claim"
      PROVE  slug'[job'[r].by] # NoSlug
  <2>1. CASE step[r] = "already"
    <3>1. job'[r] = job[r] BY <2>1, JobsStay
    <3>2. job[r] \in [by : Users, verb : {"claim"}, on : Slugs] /\ slug[job[r].by] # NoSlug
      BY <1>3, <2>1, <3>1 DEF AccountsTypeOK, JobInv, Jobs, ClaimHolds
    <3> QED BY <3>1, <3>2, SlugStays
  <2>2. CASE step[r] # "already"
    <3>1. ASSUME NEW q \in Reqs, NEW s, s # "already", GoOn(q, s) PROVE FALSE
      BY <1>3, <2>2, <3>1 DEF GoOn, AccountsTypeOK
    <3>2. ASSUME NEW q \in Reqs, Refuse(q) \/ Check(q) \/ Execute(q) \/ Fail(q) \/ PutSession(q)
          PROVE  FALSE
      <4>1. step[q] \in Statements => Following(q) # "already" /\ OnError(step[q]) # "already"
        BY FollowingFacts, OnErrorFacts DEF AfterUpsert, AfterWrite
      <4> QED BY <3>1, <3>2, <4>1 DEF Refuse, Check, Execute, Fail, PutSession
    <3>3. ASSUME NEW q \in Reqs, NEW j, NEW s, s # "already", Begin(q, j, s) PROVE FALSE
      BY <1>3, <2>2, <3>3 DEF Begin, AccountsTypeOK
    <3>4. ~AccountsCrash
      BY <1>3, <2>2 DEF AccountsCrash
    <3>5. PICK q \in Reqs, u \in Users, s \in Slugs : OnboardingPost(q, u, s)
      BY <1>3, <2>2, <3>2, <3>3, <3>4 DEF AccountsNext, Callback, AdminAction, Land, DropSession
    <3>6. /\ q = r /\ job'[r] = [by |-> u, verb |-> "claim", on |-> s]
          /\ slug[u] # NoSlug /\ slug' = slug
      BY <1>3, <2>2, <3>3, <3>5 DEF OnboardingPost, Begin, AccountsTypeOK, tableVars
    <3> QED BY <3>6
  <2> QED BY <2>1, <2>2
<1> SUFFICES ASSUME NEW r \in Reqs, step'[r] = "ok", job'[r].verb = "claim"
             PROVE  slug'[job'[r].by] = job'[r].on
  BY <1>3 DEF ClaimHolds
<1>1. CASE step[r] = "ok"
  <2>1. job'[r] = job[r] BY <1>1, JobsStay
  <2>2. slug[job[r].by] = job[r].on BY <1>1, <2>1 DEF ClaimHolds
  <2>3. job[r] \in [by : Users, verb : {"claim"}, on : Slugs]
    BY <1>1, <2>1 DEF AccountsTypeOK, JobInv, Jobs
  <2>4. slug'[job[r].by] = slug[job[r].by]
    BY <2>2, <2>3, SlugStays
  <2> QED BY <2>1, <2>2, <2>4
<1>2. CASE step[r] # "ok"
  <2>1. step[r] # "none" /\ job[r] = job'[r]
    <3>1. CASE step[r] = "none"
      <4>1. ASSUME NEW q \in Reqs, NEW s, s # "none", GoOn(q, s), step[q] # "none" PROVE FALSE
        BY <1>2, <3>1, <4>1 DEF GoOn, AccountsTypeOK
      <4>2. ASSUME NEW q \in Reqs, Refuse(q) \/ Check(q) \/ Execute(q) \/ Fail(q) \/ PutSession(q)
            PROVE  FALSE
        BY <1>2, <3>1, <4>2 DEF Refuse, Check, Execute, Fail, PutSession, GoOn, AccountsTypeOK
      <4>3. ASSUME NEW q \in Reqs, NEW j, NEW s, s # "ok", Begin(q, j, s) PROVE FALSE
        BY <1>2, <3>1, <4>3 DEF Begin, AccountsTypeOK
      <4>4. CASE AccountsCrash
        BY <1>2, <3>1, <4>4 DEF AccountsCrash, Running
      <4> QED BY <1>2, <4>2, <4>3, <4>4 DEF AccountsNext, Callback, OnboardingPost, AdminAction,
                                          Land, DropSession
    <3> QED BY <3>1, JobsStay
  <2>2. job[r] \in [by : Users, verb : {"claim"}, on : Slugs]
    BY <2>1 DEF AccountsTypeOK, JobInv, Jobs
  <2>3. Execute(r) /\ step[r] = "write"
    <3>1. ~Moderates(r) /\ step[r] \in {"check", "write", "failed", "already"}
      BY <1>2, <2>1, <2>2 DEF JobInv, Moderates, AccountsTypeOK
    <3>2. ASSUME NEW q \in Reqs, Refuse(q) \/ Check(q) \/ Fail(q) \/ PutSession(q) PROVE FALSE
      BY <1>2, <3>1, <3>2, OnErrorFacts DEF Refuse, Check, Fail, PutSession, GoOn, AccountsTypeOK
    <3>3. ASSUME NEW q \in Reqs, NEW j, NEW s, Begin(q, j, s) PROVE FALSE
      BY <1>2, <2>1, <3>3 DEF Begin, AccountsTypeOK
    <3>4. CASE AccountsCrash
      BY <1>2, <3>4 DEF AccountsCrash
    <3>5. ASSUME NEW q \in Reqs, Execute(q) PROVE q = r /\ step[r] = "write"
      BY <1>2, <3>1, <3>5 DEF Execute, GoOn, AccountsTypeOK
    <3> QED BY <1>2, <3>2, <3>3, <3>4, <3>5 DEF AccountsNext, Callback, OnboardingPost, AdminAction,
                                          Land, DropSession
  <2>4. AfterWrite(r) = "ok"
    BY <2>3, FollowingFacts DEF Execute, GoOn, AccountsTypeOK
  <2>5. Claimable(job[r].by, job[r].on)
    BY <2>2, <2>4 DEF AfterWrite, Moderates, Claimable
  <2>6. SetUserSlug(job[r].by, job[r].on)
    BY <2>2, <2>3 DEF Execute, Effect, Write
  <2> QED BY <2>1, <2>2, <2>5, <2>6 DEF SetUserSlug, AccountsTypeOK
<1> QED BY <1>1, <1>2

\* Who moderates was an admin when he began, and the only moderation under way
\* is his own, on somebody else.
LEMMA RulingStep ==
  ASSUME AccountsTypeOK, JobInv, RulingInv, AccountsNext
  PROVE  RulingInv'
<1> SUFFICES ASSUME ~crowded'
             PROVE  /\ \A q, r \in Reqs : Pending(q)' /\ Pending(r)' => q = r
                    /\ \A q \in Reqs : Pending(q)' /\ job'[q].verb \in {"ban", "demote"} =>
                         job'[q].by \in Ruling' /\ job'[q].by # job'[q].on
  BY DEF RulingInv
<1>1. CASE \E q \in Reqs, u \in Users, verb \in Verbs, t \in Users : AdminAction(q, u, verb, t)
  <2> PICK q \in Reqs, u \in Users, verb \in Verbs, t \in Users : AdminAction(q, u, verb, t)
    BY <1>1
  <2>1. \A r \in Reqs : ~Pending(r)
    BY DEF AdminAction
  <2>2. \A r \in Reqs : Pending(r)' => r = q
    BY <2>1 DEF AdminAction, Begin, AccountsTypeOK, Pending, Running, Moderates
  <2>3. job'[q] = [by |-> u, verb |-> verb, on |-> t]
    BY DEF AdminAction, Begin, AccountsTypeOK
  <2>4. u \in Ruling' /\ (verb \in {"ban", "demote"} => u # t)
    BY DEF AdminAction, Ruling, Banned, MayModerate, tableVars
  <2> QED BY <2>2, <2>3, <2>4
<1>2. CASE ~ \E q \in Reqs, u \in Users, verb \in Verbs, t \in Users : AdminAction(q, u, verb, t)
  <2>1. ~crowded
    BY <1>2 DEF AccountsNext, Callback, OnboardingPost, Refuse, Check, Execute, Fail, PutSession,
                Land, DropSession, AccountsCrash, ghostVars
  <2>2. \A r \in Reqs : Pending(r)' => Pending(r) /\ job'[r] = job[r]
    BY <1>2, StepPending
  <2>3. ASSUME NEW r \in Reqs, Pending(r)', job'[r].verb \in {"ban", "demote"}
        PROVE  job'[r].by \in Ruling' /\ job'[r].by # job'[r].on
    <3>1. Pending(r) /\ job'[r] = job[r] /\ job[r].by \in Ruling /\ job[r].by # job[r].on
      BY <2>1, <2>2, <2>3 DEF RulingInv
    <3>2. CASE UNCHANGED <<tableVars, audit>>
      BY <3>1, <3>2 DEF Ruling, Banned, tableVars
    <3>3. ASSUME NEW q \in Reqs, NEW s \in Statements, Doing(q, s), Effect(q, s),
                 job[r].by \notin Ruling'
          PROVE  FALSE
      <4>1. s = "write" /\ job[q].verb \in {"ban", "demote"} /\ job[q].on = job[r].by
        BY <3>1, <3>3, EffectRuling
      <4>2. Pending(q)
        BY <3>3, <4>1 DEF Doing, Pending, Running, Moderates
      <4> QED BY <2>1, <3>1, <4>1, <4>2 DEF RulingInv
    <3> QED BY <3>1, <3>2, <3>3, StepEffects
  <2> QED BY <2>1, <2>2, <2>3 DEF RulingInv
<1> QED BY <1>1, <1>2

\* Where the log grows, and that its entries keep their jobs.
LEMMA AuditGrows ==
  ASSUME AccountsTypeOK, JobInv, AuditInv, AccountsNext
  PROVE  /\ DOMAIN audit \subseteq DOMAIN audit'
         /\ DOMAIN audit \subseteq Nat
         /\ \A i \in DOMAIN audit : audit'[i] = audit[i] /\ audit[i] \in Reqs
                                      /\ job'[audit[i]] = job[audit[i]]
         /\ \/ audit' = audit
            \/ \E q \in Reqs : /\ Doing(q, "log")
                               /\ Execute(q) \/ Land(q, "log")
                               /\ audit' = Append(audit, q)
<1>1. audit \in Seq(Reqs) BY DEF AccountsTypeOK
<1>2. \/ audit' = audit
      \/ \E q \in Reqs : /\ Doing(q, "log")
                         /\ Execute(q) \/ Land(q, "log")
                         /\ audit' = Append(audit, q)
  BY StepEffects, EffectAudit
<1>3. \A i \in DOMAIN audit : audit[i] \in Reqs
  BY <1>1
<1>4. ASSUME NEW i \in DOMAIN audit PROVE job'[audit[i]] = job[audit[i]]
  <2>1. Moderates(audit[i]) BY DEF AuditInv
  <2>2. step[audit[i]] # "none"
    <3>1. NoJob.verb \notin Verbs BY DEF NoJob
    <3>2. job[audit[i]] # NoJob BY <2>1, <3>1 DEF Moderates
    <3> QED BY <1>3, <3>2 DEF JobInv
  <2> QED BY <1>3, <2>2, JobsStay
<1>5. CASE audit' = audit
  BY <1>1, <1>2, <1>3, <1>4, <1>5
<1>6. ASSUME NEW q \in Reqs, audit' = Append(audit, q)
      PROVE  /\ DOMAIN audit \subseteq DOMAIN audit'
             /\ \A i \in DOMAIN audit : audit'[i] = audit[i]
  BY <1>1, <1>6, AppendProperties, LenProperties
<1> QED BY <1>1, <1>2, <1>3, <1>4, <1>5, <1>6

\* The log is right, one entry behind, or the user is blurred.
LEMMA AuditStep ==
  ASSUME AccountsTypeOK, JobInv, AuditInv, AccountsNext
  PROVE  AuditInv'
<1>1. \A i \in DOMAIN audit' : job'[audit'[i]].verb \in Verbs
  <2>1. \A i \in DOMAIN audit : job'[audit'[i]].verb \in Verbs
    BY AuditGrows DEF AuditInv, Moderates
  <2>2. ASSUME NEW q \in Reqs, Doing(q, "log"), audit' = Append(audit, q)
        PROVE  \A i \in DOMAIN audit' : i \in DOMAIN audit \/ job'[audit'[i]].verb \in Verbs
    <3>1. job'[q].verb \in Verbs BY <2>2, DoingFacts, JobsStay DEF Doing, JobInv, Moderates
    <3>2. audit \in Seq(Reqs) BY DEF AccountsTypeOK
    <3> QED BY <2>2, <3>1, <3>2, AppendProperties, LenProperties
  <2> QED BY <2>1, <2>2, AuditGrows
<1> SUFFICES ASSUME NEW t \in Users, t \notin blurred'
    PROVE  /\ \A q, r \in Reqs : Pending(q)' /\ Pending(r)' /\ job'[q].on = t /\ job'[r].on = t => q = r
           /\ \A q \in Reqs, s \in Statements : <<q, s>> \in late' /\ Moderates(q)' => job'[q].on # t
           /\ \A q \in Reqs : ToLog(q, t)' =>
                bannedBy'[t] = IF job'[q].verb = "ban" THEN job'[q].by ELSE Nobody
           /\ (\A q \in Reqs : ~ToLog(q, t)') => Told(t)'
  BY <1>1 DEF AuditInv, Moderates
<1>0. t \notin blurred
  BY DEF AccountsNext, Callback, OnboardingPost, AdminAction, Refuse, Check, Execute, Fail, PutSession,
         Land, DropSession, AccountsCrash, ghostVars
<1>2. \A q \in Reqs : Moderates(q) /\ job[q].on = t =>
        /\ \A s \in Statements : <<q, s>> \notin late
        /\ ~Fail(q)
        /\ ~(AccountsCrash /\ step[q] \in Statements)
  BY <1>0 DEF AuditInv, Fail, AccountsCrash, Blurs
<1>3. ASSUME NEW q \in Reqs, NEW r \in Reqs, Pending(q)', Pending(r)', job'[q].on = t, job'[r].on = t
      PROVE  q = r
  <2>1. CASE ~ \E p \in Reqs, u \in Users, verb \in Verbs, w \in Users : AdminAction(p, u, verb, w)
    BY <1>0, <1>3, <2>1, StepPending DEF AuditInv
  <2>2. ASSUME NEW p \in Reqs, NEW u \in Users, NEW verb \in Verbs, NEW w \in Users,
               AdminAction(p, u, verb, w)
        PROVE  q = r
    <3>1. \A o \in Reqs : o # p /\ Pending(o)' => Pending(o) /\ job'[o] = job[o]
      BY <2>2 DEF AdminAction, Begin, AccountsTypeOK, Pending, Running, Moderates
    <3>2. job'[p].on = w BY <2>2 DEF AdminAction, Begin, AccountsTypeOK
    <3>3. w = t => \A o \in Reqs : Pending(o) => job[o].on # t
      BY <2>2 DEF AdminAction
    <3> QED BY <1>0, <1>3, <3>1, <3>2, <3>3 DEF AuditInv
  <2> QED BY <2>1, <2>2
<1>4. ASSUME NEW q \in Reqs, NEW s \in Statements, <<q, s>> \in late', Moderates(q)', job'[q].on = t
      PROVE  FALSE
  <2>1. \/ late' \subseteq late
        \/ \E r \in Reqs : Fail(r) /\ late' = late \cup {<<r, step[r]>>}
        \/ AccountsCrash /\ late' = late \cup {<<r, step[r]>> : r \in {p \in Reqs : step[p] \in Statements}}
    BY DEF AccountsNext, Callback, OnboardingPost, AdminAction, Refuse, Check, Execute, Fail,
           PutSession, Land, DropSession, AccountsCrash
  <2>2. <<q, s>> \in late \/ Fail(q) \/ (AccountsCrash /\ step[q] \in Statements)
    BY <1>4, <2>1
  <2>3. step[q] # "none" BY <2>2 DEF JobInv, Fail
  <2>4. job'[q] = job[q] BY <2>3, JobsStay
  <2> QED BY <1>2, <1>4, <2>2, <2>4 DEF Moderates
\* A statement about t is carried out by the handler it belongs to.
<1>5. ASSUME NEW q \in Reqs, NEW s \in Statements, Doing(q, s), Execute(q) \/ Land(q, s),
             Moderates(q), job[q].on = t
      PROVE  Execute(q) /\ step[q] = s
  BY <1>2, <1>5 DEF Doing, Land
\* Whether t is banned changes in the handler of a ban or unban, then to be logged.
<1>6. bannedBy'[t] # bannedBy[t] =>
        \E q \in Reqs : Execute(q) /\ step[q] = "write" /\ ToLog(q, t)'
  <2> SUFFICES ASSUME bannedBy'[t] # bannedBy[t]
               PROVE  \E q \in Reqs : Execute(q) /\ step[q] = "write" /\ ToLog(q, t)'
    OBVIOUS
  <2>1. PICK q \in Reqs, s \in Statements : Doing(q, s) /\ Effect(q, s) /\ (Execute(q) \/ Land(q, s))
    BY StepEffects DEF tableVars
  <2>2. s = "write" /\ job[q].verb \in {"ban", "unban"} /\ job[q].on = t
    BY <2>1, EffectBans
  <2>3. Execute(q) /\ step[q] = "write" BY <1>5, <2>1, <2>2 DEF Moderates
  <2>4. Following(q) = "log" BY <2>2, <2>3, FollowingFacts DEF AfterWrite, Moderates
  <2>5. step'[q] = "log" /\ job' = job BY <2>3, <2>4 DEF Execute, GoOn, AccountsTypeOK
  <2> QED BY <2>2, <2>3, <2>5 DEF ToLog
<1>7. ASSUME NEW q \in Reqs, ToLog(q, t)'
      PROVE  bannedBy'[t] = IF job'[q].verb = "ban" THEN job'[q].by ELSE Nobody
  <2>1. CASE step[q] = "log"
    <3>1. ToLog(q, t) /\ job'[q] = job[q] BY <1>7, <2>1, JobsStay DEF ToLog
    <3>2. Pending(q) /\ Pending(q)'
      BY <1>7, <3>1 DEF ToLog, Pending, Running, Moderates
    <3>3. bannedBy'[t] = bannedBy[t]
      <4>1. ASSUME NEW r \in Reqs, Execute(r), step[r] = "write", ToLog(r, t)' PROVE FALSE
        <5>1. Pending(r)' BY <4>1 DEF ToLog, Pending, Running, Moderates
        <5> QED BY <1>3, <1>7, <2>1, <3>2, <4>1, <5>1 DEF ToLog
      <4> QED BY <1>6, <4>1
    <3> QED BY <1>0, <3>1, <3>3 DEF AuditInv
  <2>2. CASE step[q] # "log"
    <3>1. Execute(q) /\ step[q] = "write"
      <4>1. ASSUME NEW r \in Reqs, Refuse(r) \/ Check(r) \/ Fail(r) \/ PutSession(r) PROVE FALSE
        BY <1>7, <2>2, <4>1, OnErrorFacts DEF ToLog, Refuse, Check, Fail, PutSession, GoOn, AccountsTypeOK
      <4>2. ASSUME NEW r \in Reqs, NEW j, NEW s \in {"upsert", "check", "already"}, Begin(r, j, s) PROVE FALSE
        BY <1>7, <2>2, <4>2 DEF ToLog, Begin, AccountsTypeOK
      <4>3. CASE AccountsCrash
        BY <1>7, <2>2, <4>3 DEF ToLog, AccountsCrash
      <4>4. ASSUME NEW r \in Reqs, Execute(r) PROVE r = q /\ step[q] = "write"
        <5>1. r = q /\ Following(r) = "log" BY <1>7, <2>2, <4>4 DEF ToLog, Execute, GoOn, AccountsTypeOK
        <5>2. step[q] \in Statements BY <4>4, <5>1 DEF Execute
        <5> QED BY <5>1, <5>2, FollowingFacts DEF AfterUpsert
      <4> QED BY <1>7, <2>2, <4>1, <4>2, <4>3, <4>4 DEF AccountsNext, Callback, OnboardingPost,
                 AdminAction, Land, DropSession, ToLog
    <3>2. Effect(q, "write") /\ Doing(q, "write") /\ job' = job
      BY <3>1 DEF Execute, Doing
    <3>3. job[q].verb \in {"ban", "unban"} /\ job[q].on = t
      BY <1>7, <3>2 DEF ToLog
    <3> QED BY <3>2, <3>3, EffectBans
  <2> QED BY <2>1, <2>2
<1>8. ASSUME \A q \in Reqs : ~ToLog(q, t)' PROVE Told(t)'
  <2>0. bannedBy'[t] = bannedBy[t] BY <1>6, <1>8
  <2>1. CASE \A q \in Reqs : ~ToLog(q, t)
    <3>1. Told(t) BY <1>0, <2>1 DEF AuditInv
    <3>2. \A i \in DOMAIN audit' : i \notin DOMAIN audit =>
            ~(job'[audit'[i]].on = t /\ job'[audit'[i]].verb \in {"ban", "unban"})
      <4>1. ASSUME NEW q \in Reqs, Doing(q, "log"), Execute(q) \/ Land(q, "log"),
                   audit' = Append(audit, q), NEW i \in DOMAIN audit', i \notin DOMAIN audit
            PROVE  ~(job'[audit'[i]].on = t /\ job'[audit'[i]].verb \in {"ban", "unban"})
        <5>1. audit'[i] = q
          BY <4>1, AppendProperties, LenProperties DEF AccountsTypeOK
        <5>2. job'[q] = job[q]
          BY <4>1 DEF Execute, Land
        <5>3. ~(job[q].on = t /\ job[q].verb \in {"ban", "unban"})
          BY <1>5, <2>1, <4>1 DEF ToLog, Moderates
        <5> QED BY <5>1, <5>2, <5>3
      <4> QED BY <4>1, AuditGrows
    <3>3. \A i \in DOMAIN audit : LastEntry(t, i)' <=> LastEntry(t, i)
      BY <3>2, AuditGrows DEF LastEntry
    <3>4. \A i \in DOMAIN audit' : LastEntry(t, i)' => i \in DOMAIN audit
      BY <3>2 DEF LastEntry
    <3> QED BY <2>0, <3>1, <3>3, <3>4, AuditGrows DEF Told, Banned
  <2>2. CASE \E q \in Reqs : ToLog(q, t)
    <3> PICK q \in Reqs : ToLog(q, t) BY <2>2
    <3>1. job'[q] = job[q] /\ Moderates(q) BY JobsStay DEF ToLog, Moderates
    <3>2. Execute(q)
      <4>1. step'[q] # "log" BY <1>8, <3>1 DEF ToLog
      <4>2. ASSUME NEW r \in Reqs, Refuse(r) \/ Check(r) \/ Fail(r) \/ PutSession(r) \/ Execute(r)
            PROVE  Fail(q) \/ Execute(q)
        BY <4>1, <4>2 DEF ToLog, Refuse, Check, Fail, PutSession, Execute, GoOn, AccountsTypeOK
      <4>3. ASSUME NEW r \in Reqs, NEW j, NEW s, Begin(r, j, s) PROVE FALSE
        BY <4>1, <4>3 DEF ToLog, Begin, AccountsTypeOK
      <4>4. ~Fail(q) /\ ~AccountsCrash
        BY <1>2, <3>1 DEF ToLog
      <4> QED BY <4>1, <4>2, <4>3, <4>4 DEF AccountsNext, Callback, OnboardingPost,
                 AdminAction, Land, DropSession, ToLog
    <3>3. audit' = Append(audit, q) BY <3>2 DEF Execute, Effect, LogAdminAction, ToLog
    <3>4. /\ Len(audit) \in Nat /\ DOMAIN audit' = 1 .. Len(audit) + 1
          /\ audit'[Len(audit) + 1] = q
      BY <3>3, AppendProperties, LenProperties DEF AccountsTypeOK
    <3>5. \A i \in DOMAIN audit' : LastEntry(t, i)' <=> i = Len(audit) + 1
      BY <3>1, <3>4 DEF LastEntry, ToLog
    <3>6. bannedBy[t] = IF job[q].verb = "ban" THEN job[q].by ELSE Nobody
      BY <1>0 DEF AuditInv
    <3>7. job[q].by # Nobody
      BY <3>1 DEF Moderates, AccountsTypeOK, Jobs, NoJob
    <3> QED BY <2>0, <3>1, <3>4, <3>5, <3>6, <3>7 DEF Told, Banned, ToLog
  <2> QED BY <2>1, <2>2
<1> QED BY <1>3, <1>4, <1>7, <1>8

\* The inductive step: each part by its lemma.
LEMMA AccountsInvStep == AccountsInv /\ [AccountsNext]_accountVars => AccountsInv'
<1>1. ASSUME AccountsInv, AccountsNext PROVE AccountsInv'
  <2>1. AccountsTypeOK /\ JobInv /\ ClaimHolds /\ RulingInv /\ AuditInv
    BY <1>1 DEF AccountsInv
  <2> QED BY <1>1, <2>1, TypesStep, JobStep, ClaimsStep, RulingStep, AuditStep DEF AccountsInv
<1>2. ASSUME AccountsInv, UNCHANGED accountVars PROVE AccountsInv'
  <2> USE <1>2 DEF accountVars, tableVars, ghostVars
  <2>1. AccountsTypeOK' BY DEF AccountsInv, AccountsTypeOK
  <2>2. JobInv' BY DEF AccountsInv, JobInv, Moderates
  <2>3. ClaimHolds' BY DEF AccountsInv, ClaimHolds
  <2>4. RulingInv' BY DEF AccountsInv, RulingInv, Pending, Running, Moderates, Ruling, Banned
  <2>5. AuditInv' BY DEF AccountsInv, AuditInv, Pending, Running, Moderates, Told, ToLog, Banned, LastEntry
  <2> QED BY <2>1, <2>2, <2>3, <2>4, <2>5 DEF AccountsInv
<1> QED BY <1>1, <1>2

\* What handlers are at, what was given up and what moderation is under way fit
\* together at all times.
THEOREM AccountsInvariant == AccountsSpec => []AccountsInv
BY AccountsInitInv, AccountsInvStep, PTL DEF AccountsSpec

\* Every step of the handlers keeps the types; admins and sessions have a row.
THEOREM AccountsTypes == AccountsSpec => []AccountsTypeOK
<1>1. AccountsInv => AccountsTypeOK BY DEF AccountsInv
<1> QED BY <1>1, AccountsInvariant, PTL

\* Whoever is sent to the dashboard after onboarding has the slug he asked for.
THEOREM ClaimsHold == AccountsSpec => []ClaimHolds
<1>1. AccountsInv => ClaimHolds BY DEF AccountsInv
<1> QED BY <1>1, AccountsInvariant, PTL

\* A slug is given once and for ever, to a user who asked for it.
THEOREM SlugsAreClaimed == AccountsSpec => SlugsOnlyClaimed
<1> DEFINE A == \A u \in Users : slug'[u] # slug[u] =>
                  /\ slug[u] = NoSlug
                  /\ \A v \in Users : slug[v] # slug'[u]
                  /\ \E q \in Reqs : job[q] = [by |-> u, verb |-> "claim", on |-> slug'[u]]
<1>1. ASSUME AccountsInv, AccountsNext PROVE A
  <2> SUFFICES ASSUME NEW u \in Users, slug'[u] # slug[u]
               PROVE  /\ slug[u] = NoSlug
                      /\ \A v \in Users : slug[v] # slug'[u]
                      /\ \E q \in Reqs : job[q] = [by |-> u, verb |-> "claim", on |-> slug'[u]]
    OBVIOUS
  <2>1. PICK q \in Reqs, s \in Statements : Doing(q, s) /\ Effect(q, s)
    BY <1>1, StepEffects DEF tableVars
  <2> QED BY <1>1, <2>1, EffectSlugs DEF AccountsInv
<1>2. AccountsInv /\ [AccountsNext]_accountVars => [A]_accountVars
  BY <1>1
<1> QED BY <1>2, AccountsInvariant, PTL DEF AccountsSpec, SlugsOnlyClaimed

\* Moderation that does not overlap never leaves the site without an admin:
\* whoever bans or demotes is one, cannot mean himself, and stays one.
THEOREM AnAdminRemains == AccountsSpec => AdminRemains
<1> DEFINE A == Ruling # {} /\ ~crowded' => Ruling' # {}
<1>1. ASSUME AccountsInv, AccountsNext, Ruling # {}, ~crowded' PROVE Ruling' # {}
  <2>1. CASE UNCHANGED <<tableVars, audit>>
    BY <1>1, <2>1 DEF Ruling, Banned, tableVars
  <2>2. CASE \E q \in Reqs, s \in Statements :
               Doing(q, s) /\ Effect(q, s) /\ ((Execute(q) /\ s = step[q]) \/ Land(q, s))
    <3> PICK q \in Reqs, s \in Statements :
               Doing(q, s) /\ Effect(q, s) /\ ((Execute(q) /\ s = step[q]) \/ Land(q, s))
      BY <2>2
    <3> PICK u \in Ruling : TRUE BY <1>1
    <3> SUFFICES ASSUME u \notin Ruling' PROVE Ruling' # {}
      OBVIOUS
    <3>1. s = "write" /\ job[q].verb \in {"ban", "demote"} /\ job[q].on = u
      BY <1>1, EffectRuling DEF AccountsInv
    <3>2. Pending(q)
      BY <3>1 DEF Doing, Pending, Running, Moderates
    <3>3. ~crowded
      BY <1>1 DEF Execute, Land, ghostVars
    <3>4. job[q].by \in Ruling /\ job[q].by # u
      BY <1>1, <3>1, <3>2, <3>3 DEF AccountsInv, RulingInv
    <3>5. job[q].by \in Ruling'
      BY <1>1, <3>1, <3>4, EffectRuling DEF AccountsInv
    <3> QED BY <3>5
  <2> QED BY <1>1, <2>1, <2>2, StepEffects
<1>2. AccountsInv /\ [AccountsNext]_accountVars => [A]_accountVars
  BY <1>1
<1> QED BY <1>2, AccountsInvariant, PTL DEF AccountsSpec, AdminRemains
-----------------------------------------------------------------------------
(* The log and what came of the requests in it *)

\* A change that was given up ended its request; a log entry that was given up is of a
\* request that is over and has made its change.
GivenUp ==
  \A q \in Reqs :
    /\ <<q, "log">> \in late => step[q] \in {"ok", "failed"} /\ <<q, "write">> \notin late
    /\ <<q, "write">> \in late => step[q] = "failed"

\* A sequence with an entry that it did not have.
LEMMA AppendEntry ==
  ASSUME NEW s \in Seq(Reqs), NEW q \in Reqs, q \notin Range(s), IsInjective(s)
  PROVE  Range(Append(s, q)) = Range(s) \cup {q} /\ IsInjective(Append(s, q))
<1> DEFINE t == Append(s, q)
<1>1. /\ Len(s) \in Nat /\ DOMAIN s = 1..Len(s) /\ DOMAIN t = 1..(Len(s) + 1)
      /\ t[Len(s) + 1] = q /\ \A i \in 1..Len(s) : t[i] = s[i]
  BY AppendProperties, LenProperties
<1> HIDE DEF t
<1>2. \A i \in DOMAIN t : i \in DOMAIN s \/ i = Len(s) + 1
  BY <1>1
<1>3. Range(t) = Range(s) \cup {q}
  BY <1>1, <1>2 DEF Range
<1>4. IsInjective(t)
  <2> SUFFICES ASSUME NEW i \in DOMAIN t, NEW j \in DOMAIN t, t[i] = t[j] PROVE i = j
    BY DEF IsInjective
  <2>1. \A k \in DOMAIN s : t[k] = s[k] /\ s[k] # q
    BY <1>1 DEF Range
  <2>2. QED BY <1>1, <1>2, <2>1 DEF IsInjective
<1> QED BY <1>3, <1>4 DEF t

\* No step repeats an entry or lets one come before its change.
LEMMA LogStep ==
  ASSUME AccountsInv, LogHonest, GivenUp, AccountsNext
  PROVE  LogHonest' /\ GivenUp'
<1> USE DEF AccountsInv
<1>1. /\ step \in [Reqs -> Statements \cup {"none", "check", "session", "ok", "already", "failed"}]
      /\ late \in SUBSET (Reqs \X Statements)
      /\ audit \in Seq(Reqs)
  BY DEF AccountsTypeOK
<1>2. ASSUME UNCHANGED <<late, audit>>,
             \A q \in Reqs : step'[q] # step[q] => step[q] \notin {"ok", "failed"}
      PROVE  LogHonest' /\ GivenUp'
  BY <1>1, <1>2 DEF LogHonest, GivenUp, Range
<1>3. ASSUME NEW q \in Reqs, NEW j, NEW s, Begin(q, j, s), UNCHANGED <<late, audit>>
      PROVE  LogHonest' /\ GivenUp'
  BY <1>1, <1>2, <1>3 DEF Begin
<1>4. ASSUME NEW q \in Reqs, Refuse(q) \/ Check(q) \/ PutSession(q)
      PROVE  LogHonest' /\ GivenUp'
  BY <1>1, <1>2, <1>4 DEF Refuse, Check, PutSession, GoOn
<1>5. ASSUME NEW u \in Users, DropSession(u)
      PROVE  LogHonest' /\ GivenUp'
  BY <1>1, <1>2, <1>5 DEF DropSession
<1>6. ASSUME NEW q \in Reqs, Execute(q)
      PROVE  LogHonest' /\ GivenUp'
  <2>1. /\ step[q] \in Statements /\ step' = [step EXCEPT ![q] = Following(q)] /\ late' = late
        /\ audit' = IF step[q] = "log" THEN Append(audit, q) ELSE audit
    BY <1>6, EffectAudit DEF Execute, GoOn
  <2>2. CASE step[q] # "log"
    BY <1>1, <1>2, <2>1, <2>2
  <2>3. CASE step[q] = "log"
    <3>1. step'[q] = "ok" /\ \A r \in Reqs : r # q => step'[r] = step[r]
      BY <1>1, <2>1, <2>3, FollowingFacts
    <3>2. q \notin Range(audit) /\ <<q, "log">> \notin late /\ <<q, "write">> \notin late
      BY <2>3 DEF LogHonest, GivenUp
    <3>3. audit' = Append(audit, q)
      BY <2>1, <2>3
    <3>4. Range(audit') = Range(audit) \cup {q} /\ IsInjective(audit')
      BY <1>1, <3>2, <3>3, AppendEntry DEF LogHonest
    <3>5. GivenUp'
      BY <2>1, <3>1, <3>2 DEF GivenUp
    <3>6. \A r \in Range(audit) : r \in Reqs
      BY <1>1 DEF Range
    <3>7. QED BY <2>1, <3>1, <3>2, <3>4, <3>5, <3>6 DEF LogHonest
  <2>4. QED BY <2>2, <2>3
<1>7. ASSUME NEW q \in Reqs, Fail(q)
      PROVE  LogHonest' /\ GivenUp'
  <2>1. /\ step[q] \in Statements /\ step' = [step EXCEPT ![q] = OnError(step[q])]
        /\ late' = late \cup {<<q, step[q]>>} /\ audit' = audit
    BY <1>7 DEF Fail, GoOn
  <2>2. q \notin Range(audit) /\ <<q, "log">> \notin late /\ <<q, "write">> \notin late
    BY <2>1 DEF LogHonest, GivenUp
  <2>3. \A r \in Reqs : r # q => step'[r] = step[r]
    BY <1>1, <2>1
  <2>4. /\ step[q] = "write" => step'[q] = "failed"
        /\ step[q] = "log" => step'[q] = "ok"
    BY <1>1, <2>1, OnErrorFacts
  <2>5. \A r \in Reqs, s \in {"write", "log"} : <<r, s>> \in late' <=> <<r, s>> \in late \/ (r = q /\ s = step[q])
    BY <2>1
  <2>6. \A r \in Range(audit) : r \in Reqs /\ r # q
    BY <1>1, <2>2 DEF Range
  <2>7. GivenUp'
    BY <2>2, <2>3, <2>4, <2>5 DEF GivenUp
  <2>8. QED BY <2>1, <2>3, <2>5, <2>6, <2>7 DEF LogHonest
<1>8. ASSUME NEW q \in Reqs, NEW s \in Statements, Land(q, s)
      PROVE  LogHonest' /\ GivenUp'
  <2>1. /\ <<q, s>> \in late /\ late' = late \ {<<q, s>>} /\ step' = step
        /\ audit' = IF s = "log" THEN Append(audit, q) ELSE audit
    BY <1>8, EffectAudit DEF Land
  <2>2. GivenUp'
    BY <2>1 DEF GivenUp
  <2>3. CASE s # "log"
    BY <2>1, <2>2, <2>3 DEF LogHonest
  <2>4. CASE s = "log"
    <3>1. q \notin Range(audit) /\ <<q, "write">> \notin late /\ step[q] \in {"ok", "failed"}
      BY <2>1, <2>4 DEF LogHonest, GivenUp
    <3>2. Range(audit') = Range(audit) \cup {q} /\ IsInjective(audit')
      BY <1>1, <2>1, <2>4, <3>1, AppendEntry DEF LogHonest
    <3>3. QED BY <2>1, <2>2, <2>4, <3>1, <3>2 DEF LogHonest
  <2>5. QED BY <2>3, <2>4
<1>9. CASE AccountsCrash
  <2>1. /\ step' = [q \in Reqs |-> IF Running(q) THEN "failed" ELSE step[q]]
        /\ late' = late \cup {<<q, step[q]>> : q \in {r \in Reqs : step[r] \in Statements}}
        /\ audit' = audit
    BY <1>9 DEF AccountsCrash
  <2>2. \A r \in Reqs, s \in {"write", "log"} : <<r, s>> \in late' <=> <<r, s>> \in late \/ s = step[r]
    BY <2>1
  <2>3. \A r \in Reqs : step[r] \in {"ok", "failed"} => step'[r] = step[r]
    BY <2>1 DEF Running
  <2>4. \A r \in Reqs : step[r] \in {"write", "log"} => step'[r] = "failed"
    BY <2>1 DEF Running
  <2>5. \A r \in Range(audit) : r \in Reqs
    BY <1>1 DEF Range
  <2>6. GivenUp'
    BY <2>2, <2>3, <2>4 DEF GivenUp
  <2>7. QED BY <2>1, <2>2, <2>3, <2>5, <2>6 DEF LogHonest
<1>10. QED
  BY <1>3, <1>4, <1>5, <1>6, <1>7, <1>8, <1>9 DEF AccountsNext, Callback, OnboardingPost, AdminAction

\* Crashes and statements that land late included, the log says of nothing that it was
\* done which is still to be done, and says nothing twice.
THEOREM AuditIsHonest == AccountsSpec => []LogHonest
<1>1. AccountsInit => LogHonest /\ GivenUp
  BY DEF AccountsInit, LogHonest, GivenUp, Range, IsInjective
<1>2. LogHonest /\ GivenUp /\ UNCHANGED accountVars => LogHonest' /\ GivenUp'
  BY DEF LogHonest, GivenUp, accountVars, Range
<1>3. AccountsInv /\ LogHonest /\ GivenUp /\ [AccountsNext]_accountVars => LogHonest' /\ GivenUp'
  BY <1>2, LogStep
<1>4. QED BY <1>1, <1>3, AccountsInvariant, PTL DEF AccountsSpec

\* The log is honest, and once the moderation of a user is over, its last ban or unban
\* is what the users table says of him, unless it overlapped or failed half way.
THEOREM AuditTells == AccountsSpec => []AuditTellsBans
<1>1. ASSUME AccountsInv, NEW t \in Users \ blurred,
             \A q \in Reqs : Moderates(q) /\ Running(q) => job[q].on # t
      PROVE  Told(t)
  <2>1. \A q \in Reqs : ~ToLog(q, t)
    BY <1>1 DEF ToLog, Moderates, Running
  <2> QED BY <1>1, <2>1 DEF AccountsInv, AuditInv
<1>2. AccountsInv /\ LogHonest => AuditTellsBans
  BY <1>1 DEF AuditTellsBans, Told
<1> QED BY <1>2, AccountsInvariant, AuditIsHonest, PTL
=============================================================================
