----------------------------- MODULE StreamKeys -----------------------------
(***************************************************************************)
(* The stream keys of the dashboard: DashboardSetupStream and              *)
(* DashboardRotateStream create and delete LiveKit ingresses and keep the  *)
(* id of the current one in the user's row.  Neither LiveKit nor the row   *)
(* is locked across the calls of a handler, and no transaction spans them. *)
(*                                                                         *)
(* A request q is one click.  It creates one ingress at most, and that     *)
(* ingress is named q as well.  A call whose context is cancelled while it *)
(* is under way returns an error although it may still take effect, now,   *)
(* later or never; one that begins with a cancelled context is never sent. *)
(***************************************************************************)
EXTENDS Naturals, FiniteSets

CONSTANTS
  Users,
  Reqs,      \* the clicks on "set up" and "rotate", and their ingresses
  Owner,     \* Owner[q]: the user who clicks
  NoIngress  \* the NULL of users.ingress_id

ASSUME KeysAssumption ==
  /\ Owner \in [Reqs -> Users]
  /\ NoIngress \notin Reqs

VARIABLES
  row,     \* row[u]: users.ingress_id of u
  alive,   \* the ingresses LiveKit has
  step,    \* step[q]: the call the handler of q is in, or how it ended
  old,     \* old[q]: the ingress of the user that LoadUser read for q
  sent,    \* sent[q]: the context was live when that call began
  gone,    \* the requests whose context is cancelled
  late,    \* calls that were given up and may still take effect
  \* history variables, read by the properties and by no action
  faults,  \* faults[u]: the calls of u's requests that failed, and "crash"
  overlap  \* the users with a request begun while another of theirs ran

keyVars == <<row, alive, step, old, sent, gone, late, faults, overlap>>

Calls == {"delete", "clear", "create", "persist", "cleanup"}

\* "kept" and "done" are redirects to the dashboard, "failed" is all else.
KeysTypeOK ==
  /\ row \in [Users -> Reqs \cup {NoIngress}]
  /\ alive \in SUBSET Reqs
  /\ step \in [Reqs -> Calls \cup {"none", "kept", "done", "failed"}]
  /\ old \in [Reqs -> Reqs \cup {NoIngress}]
  /\ sent \in [Reqs -> BOOLEAN]
  /\ gone \in SUBSET Reqs
  /\ late \in SUBSET (Reqs \X Calls)
  /\ faults \in [Users -> SUBSET (Calls \cup {"crash"})]
  /\ overlap \in SUBSET Users

KeysInit ==
  /\ row = [u \in Users |-> NoIngress]
  /\ alive = {}
  /\ step = [q \in Reqs |-> "none"]
  /\ old = [q \in Reqs |-> NoIngress]
  /\ sent = [q \in Reqs |-> FALSE]
  /\ gone = {}
  /\ late = {}
  /\ faults = [u \in Users |-> {}]
  /\ overlap = {}

Running(q) == step[q] \in Calls
Mine(u) == {q \in Reqs : Owner[q] = u}
-----------------------------------------------------------------------------
(* What the calls do at LiveKit and in the users table *)

\* Mutant: rotate deletes whatever the row names by then.
DeleteCurrent(q) == alive' = alive \ {row[Owner[q]]} /\ UNCHANGED row

\* DeleteIngress of the snapshot's ingress; one that is gone is no error.
DeleteOld(q) == alive' = alive \ {old[q]} /\ UNCHANGED row

\* The new ingress is deleted again: nobody was given its key.
DeleteNew(q) == alive' = alive \ {q} /\ UNCHANGED row

CreateWHIPIngress(q) == alive' = alive \cup {q} /\ UNCHANGED row

\* Mutant: the credentials are emptied instead of set to NULL.
ClearToEmpty(q) == row' = [row EXCEPT ![Owner[q]] = ""] /\ UNCHANGED alive

ClearStreamCredentials(q) ==
  row' = [row EXCEPT ![Owner[q]] = NoIngress] /\ UNCHANGED alive

SetStreamCredentials(q) == row' = [row EXCEPT ![Owner[q]] = q] /\ UNCHANGED alive

Effect(q, c) ==
  \/ c = "delete"  /\ DeleteOld(q)
  \/ c = "clear"   /\ ClearStreamCredentials(q)
  \/ c = "create"  /\ CreateWHIPIngress(q)
  \/ c = "persist" /\ SetStreamCredentials(q)
  \/ c = "cleanup" /\ DeleteNew(q)
-----------------------------------------------------------------------------
(* The handlers *)

\* The handler of q goes on to s, a call with its request's context or an end.
GoOn(q, s) ==
  /\ step' = [step EXCEPT ![q] = s]
  /\ sent' = [sent EXCEPT ![q] = q \notin gone]

\* LoadUser reads the row; all that follows uses this copy of it.
Begin(q, s) ==
  /\ step[q] = "none"
  /\ old' = [old EXCEPT ![q] = row[Owner[q]]]
  /\ overlap' = IF \E r \in Mine(Owner[q]) : Running(r)
                THEN overlap \cup {Owner[q]} ELSE overlap
  /\ GoOn(q, s)
  /\ UNCHANGED <<row, alive, gone, late, faults>>

DashboardSetupStream(q) ==
  Begin(q, IF row[Owner[q]] = NoIngress THEN "create" ELSE "kept")

\* Mutant: rotate only replaces the row.
RotateRowOnly(q) == Begin(q, "clear")

DashboardRotateStream(q) ==
  Begin(q, IF row[Owner[q]] = NoIngress THEN "clear" ELSE "delete")

Succeed(q, c, s) ==
  /\ step[q] = c
  /\ sent[q]
  /\ Effect(q, c)
  /\ GoOn(q, s)
  /\ UNCHANGED <<old, gone, late, faults, overlap>>

Fail(q, c, s) ==
  /\ step[q] = c
  /\ late' = IF sent[q] THEN late \cup {<<q, c>>} ELSE late
  /\ faults' = [faults EXCEPT ![Owner[q]] = @ \cup {c}]
  /\ GoOn(q, s)
  /\ UNCHANGED <<row, alive, old, gone, overlap>>

\* Mutant: the row is not cleared before the new ingress is made.
DeleteThenCreate(q) == Succeed(q, "delete", "create") \/ Fail(q, "delete", "create")

\* A failure to delete the old ingress is only logged.
DeleteStep(q) == Succeed(q, "delete", "clear") \/ Fail(q, "delete", "clear")

ClearStep(q) == Succeed(q, "clear", "create") \/ Fail(q, "clear", "failed")

CreateStep(q) == Succeed(q, "create", "persist") \/ Fail(q, "create", "failed")

PersistStep(q) == Succeed(q, "persist", "done") \/ Fail(q, "persist", "cleanup")

CleanupStep(q) == Succeed(q, "cleanup", "failed") \/ Fail(q, "cleanup", "failed")

HandlerStep(q) ==
  DeleteStep(q) \/ ClearStep(q) \/ CreateStep(q) \/ PersistStep(q) \/ CleanupStep(q)

\* The client goes away, or the handler has run for 30 s.
Cancel(q) ==
  /\ Running(q)
  /\ gone' = gone \cup {q}
  /\ UNCHANGED <<row, alive, step, old, sent, late, faults, overlap>>

\* A call that was given up is carried out after all.
Land(q, c) ==
  /\ <<q, c>> \in late
  /\ late' = late \ {<<q, c>>}
  /\ Effect(q, c)
  /\ UNCHANGED <<step, old, sent, gone, faults, overlap>>

\* The server process ends in the middle of what its handlers do.
KeysCrash ==
  /\ \E q \in Reqs : Running(q)
  /\ step' = [q \in Reqs |-> IF Running(q) THEN "failed" ELSE step[q]]
  /\ late' = late \cup {<<q, step[q]>> : q \in {r \in Reqs : Running(r) /\ sent[r]}}
  /\ faults' = [u \in Users |->
                  IF \E q \in Mine(u) : Running(q) THEN faults[u] \cup {"crash"} ELSE faults[u]]
  /\ UNCHANGED <<row, alive, old, sent, gone, overlap>>

KeysNext ==
  \/ \E q \in Reqs :
       \/ DashboardSetupStream(q) \/ DashboardRotateStream(q)
       \/ HandlerStep(q) \/ Cancel(q)
       \/ \E c \in Calls : Land(q, c)
  \/ KeysCrash

KeysSpec == KeysInit /\ [][KeysNext]_keyVars
-----------------------------------------------------------------------------
(* Properties *)

Idle(u) == \A q \in Mine(u) : ~Running(q)

\* However the clicks of a user overlap, once they are over the dashboard
\* shows a key that LiveKit knows.  It takes a failed update of the row, or a
\* crash, to leave a dead key, and a failed creation to leave none.
KeyWorks ==
  \A u \in Users :
    Idle(u) /\ faults[u] \cap {"clear", "persist", "crash"} = {} =>
      \/ row[u] \in alive
      \/ row[u] = NoIngress /\ ( \/ "create" \in faults[u]
                                 \/ \A q \in Mine(u) : step[q] = "none" )

\* A key whose request was answered with success keeps working until a
\* rotation that saw it in the row: no clean-up, retry or late call ends it.
OnlyRotationKills ==
  \A q \in Reqs : step[q] = "done" /\ q \notin alive =>
    \E r \in Reqs : old[r] = q /\ step[r] # "kept"

\* Clicks one after the other, with no call failing, leave no ingress behind
\* but the one in the row.
NoOrphan ==
  \A u \in Users :
    Idle(u) /\ faults[u] = {} /\ u \notin overlap => alive \cap Mine(u) \subseteq {row[u]}

\* "One ingress per user" (002_stream_credentials.sql:1) even when no call
\* ever fails.
OneIngress ==
  \A u \in Users : Idle(u) /\ faults[u] = {} => Cardinality(alive \cap Mine(u)) <= 1
=============================================================================
