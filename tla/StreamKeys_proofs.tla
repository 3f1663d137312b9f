-------------------------- MODULE StreamKeys_proofs --------------------------
(***************************************************************************)
(* The stream keys for any number of users and clicks.                     *)
(*                                                                         *)
(* KeysInv, the inductive invariant, follows an ingress from the click that*)
(* makes it to the snapshots that name it, and adds to KeyWorks what is    *)
(* true while handlers run: a row that names a dead ingress is about to be *)
(* cleared, and an empty row is about to be filled.                        *)
(***************************************************************************)
EXTENDS StreamKeys, TLAPS

Past == {"create", "persist", "cleanup", "done", "failed"}

\* Rows and snapshots name ingresses of their own user that were persisted.
Named ==
  /\ \A u \in Users : row[u] # NoIngress =>
       Owner[row[u]] = u /\ step[row[u]] \in {"done", "cleanup", "failed"}
  /\ \A r \in Reqs : old[r] # NoIngress =>
       /\ Owner[old[r]] = Owner[r]
       /\ step[old[r]] \in {"done", "cleanup", "failed"}
       /\ step[r] # "none"

\* An ingress exists from its creation on, or comes late to a failed click.
Made ==
  \A q \in Reqs :
    /\ step[q] = "persist" => q \in alive
    /\ step[q] \in {"none", "kept", "delete", "clear", "create"} => q \notin alive
    /\ step[q] = "cleanup" => "persist" \in faults[Owner[q]]

\* A late call was given up before, and its failure is on record.
LateInv ==
  \A q \in Reqs, c \in Calls : <<q, c>> \in late =>
    /\ c \in faults[Owner[q]] \/ "crash" \in faults[Owner[q]]
    /\ step[q] \notin {"none", "kept", "delete"}
    /\ c # "delete" => step[q] \in {"cleanup", "failed"}
    /\ c = "cleanup" =>
         step[q] = "failed" /\ faults[Owner[q]] \cap {"persist", "crash"} # {}

RowSafe(u) == faults[u] \cap {"clear", "persist", "crash"} = {}

\* What the row names is alive, or somebody is about to see to it.
RowInv ==
  \A u \in Users : RowSafe(u) =>
    /\ \/ row[u] \in alive
       \/ \E r \in Mine(u) : step[r] = "clear"
       \/ /\ row[u] = NoIngress
          /\ \/ "create" \in faults[u]
             \/ \A q \in Mine(u) : step[q] = "none"
             \/ \E r \in Mine(u) : step[r] \in {"create", "persist"}
    \* what a handler has cleared away is not in the row again
    /\ \A q \in Mine(u) : step[q] \in Past /\ old[q] # NoIngress => row[u] # old[q]

Calm(u) == faults[u] = {} /\ u \notin overlap

\* One click at a time, each leaving things as the next expects them.
CalmInv ==
  \A u \in Users : Calm(u) =>
    /\ \A q, r \in Mine(u) : Running(q) /\ Running(r) => q = r
    /\ \A i \in alive \cap Mine(u) : i = row[u] \/ step[i] = "persist"
    /\ \A q \in Mine(u) :
         /\ step[q] = "delete" => row[u] = old[q]
         /\ step[q] = "clear" => row[u] \notin alive
         /\ step[q] \in {"create", "persist"} => row[u] = NoIngress

KeysInv ==
  KeysTypeOK /\ Named /\ Made /\ LateInv /\ OnlyRotationKills /\ RowInv /\ CalmInv
-----------------------------------------------------------------------------
USE KeysAssumption DEF Calls, Running, Mine

LEMMA KeysInitInv == KeysInit => KeysInv
BY DEF KeysInit, KeysInv, KeysTypeOK, Named, Made, LateInv, OnlyRotationKills,
       RowInv, CalmInv, RowSafe, Calm, Past

\* A click that finds no ingress, or keeps the one it finds.
LEMMA SetupInv ==
  ASSUME KeysInv, NEW q \in Reqs, DashboardSetupStream(q)
  PROVE  KeysInv'
<1> USE DEF KeysInv, DashboardSetupStream, Begin, GoOn
<1>1. KeysTypeOK' BY DEF KeysTypeOK
<1>2. Named' BY DEF Named, KeysTypeOK
<1>3. Made' BY DEF Made
<1>4. LateInv' BY DEF LateInv, KeysTypeOK
<1>5. OnlyRotationKills' BY DEF OnlyRotationKills, Named
<1>6. RowInv' BY DEF RowInv, RowSafe, Past
<1>7. CalmInv' BY DEF CalmInv, Calm
<1> QED BY <1>1, <1>2, <1>3, <1>4, <1>5, <1>6, <1>7

\* A rotation starts.
LEMMA RotateInv ==
  ASSUME KeysInv, NEW q \in Reqs, DashboardRotateStream(q)
  PROVE  KeysInv'
<1> USE DEF KeysInv, DashboardRotateStream, Begin, GoOn
<1>1. KeysTypeOK' BY DEF KeysTypeOK
<1>2. Named' BY DEF Named, KeysTypeOK
<1>3. Made' BY DEF Made
<1>4. LateInv' BY DEF LateInv, KeysTypeOK
<1>5. OnlyRotationKills' BY DEF OnlyRotationKills, Named
<1>6. RowInv' BY DEF RowInv, RowSafe, Past
<1>7. CalmInv' BY DEF CalmInv, Calm, KeysTypeOK
<1> QED BY <1>1, <1>2, <1>3, <1>4, <1>5, <1>6, <1>7

\* The call delete succeeds.
LEMMA DeleteOkInv ==
  ASSUME KeysInv, NEW q \in Reqs, Succeed(q, "delete", "clear")
  PROVE  KeysInv'
<1> USE DEF KeysInv, Succeed, Effect, GoOn, DeleteOld
<1>1. KeysTypeOK' BY DEF KeysTypeOK
<1>2. Named' BY DEF Named
<1>3. Made' BY DEF Made, Named
<1>4. LateInv' BY DEF LateInv, KeysTypeOK
<1>5. OnlyRotationKills' BY DEF OnlyRotationKills
<1>6. RowInv' BY DEF RowInv, RowSafe, Past, Named, KeysTypeOK
<1>7. CalmInv' BY DEF CalmInv, Calm
<1> QED BY <1>1, <1>2, <1>3, <1>4, <1>5, <1>6, <1>7

\* The call clear succeeds.
LEMMA ClearOkInv ==
  ASSUME KeysInv, NEW q \in Reqs, Succeed(q, "clear", "create")
  PROVE  KeysInv'
<1> USE DEF KeysInv, Succeed, Effect, GoOn, ClearStreamCredentials
<1>1. KeysTypeOK' BY DEF KeysTypeOK
<1>2. Named' BY DEF Named, KeysTypeOK
<1>3. Made' BY DEF Made
<1>4. LateInv' BY DEF LateInv, KeysTypeOK
<1>5. OnlyRotationKills' BY DEF OnlyRotationKills
<1>6. RowInv' BY DEF RowInv, RowSafe, KeysTypeOK
<1>7. CalmInv' BY DEF CalmInv, Calm, KeysTypeOK
<1> QED BY <1>1, <1>2, <1>3, <1>4, <1>5, <1>6, <1>7

\* The call create succeeds.
LEMMA CreateOkInv ==
  ASSUME KeysInv, NEW q \in Reqs, Succeed(q, "create", "persist")
  PROVE  KeysInv'
<1> USE DEF KeysInv, Succeed, Effect, GoOn, CreateWHIPIngress
<1>1. KeysTypeOK' BY DEF KeysTypeOK
<1>2. Named' BY DEF Named
<1>3. Made' BY DEF Made, KeysTypeOK
<1>4. LateInv' BY DEF LateInv, KeysTypeOK
<1>5. OnlyRotationKills' BY DEF OnlyRotationKills
<1>6. RowInv' BY DEF RowInv, RowSafe, Past
<1>7. CalmInv' BY DEF CalmInv, Calm, Named, KeysTypeOK
<1> QED BY <1>1, <1>2, <1>3, <1>4, <1>5, <1>6, <1>7

\* The call persist succeeds.
LEMMA PersistOkInv ==
  ASSUME KeysInv, NEW q \in Reqs, Succeed(q, "persist", "done")
  PROVE  KeysInv'
<1> USE DEF KeysInv, Succeed, Effect, GoOn, SetStreamCredentials
<1>1. KeysTypeOK' BY DEF KeysTypeOK
<1>2. Named' BY DEF Named, KeysTypeOK
<1>3. Made' BY DEF Made
<1>4. LateInv' BY DEF LateInv, KeysTypeOK
<1>5. OnlyRotationKills' BY DEF OnlyRotationKills, Made
<1>6. RowInv' BY DEF RowInv, RowSafe, Named, Made, KeysTypeOK
<1>7. CalmInv' BY DEF CalmInv, Calm, KeysTypeOK
<1> QED BY <1>1, <1>2, <1>3, <1>4, <1>5, <1>6, <1>7

\* The call cleanup succeeds.
LEMMA CleanupOkInv ==
  ASSUME KeysInv, NEW q \in Reqs, Succeed(q, "cleanup", "failed")
  PROVE  KeysInv'
<1> USE DEF KeysInv, Succeed, Effect, GoOn, DeleteNew
<1>1. KeysTypeOK' BY DEF KeysTypeOK
<1>2. Named' BY DEF Named
<1>3. Made' BY DEF Made
<1>4. LateInv' BY DEF LateInv, KeysTypeOK
<1>5. OnlyRotationKills' BY DEF OnlyRotationKills
<1>6. RowInv' BY DEF RowInv, RowSafe, Named, Made
<1>7. CalmInv' BY DEF CalmInv, Calm
<1> QED BY <1>1, <1>2, <1>3, <1>4, <1>5, <1>6, <1>7

\* The call delete fails.
LEMMA DeleteFailInv ==
  ASSUME KeysInv, NEW q \in Reqs, Fail(q, "delete", "clear")
  PROVE  KeysInv'
<1> USE DEF KeysInv, Fail, GoOn
<1>1. KeysTypeOK' BY DEF KeysTypeOK
<1>2. Named' BY DEF Named
<1>3. Made' BY DEF Made
<1>4. LateInv' BY DEF LateInv, KeysTypeOK
<1>5. OnlyRotationKills' BY DEF OnlyRotationKills
<1>6. RowInv' BY DEF RowInv, RowSafe, Past
<1>7. CalmInv' BY DEF CalmInv, Calm, Named, Made, LateInv, KeysTypeOK
<1> QED BY <1>1, <1>2, <1>3, <1>4, <1>5, <1>6, <1>7

\* The call clear fails.
LEMMA ClearFailInv ==
  ASSUME KeysInv, NEW q \in Reqs, Fail(q, "clear", "failed")
  PROVE  KeysInv'
<1> USE DEF KeysInv, Fail, GoOn
<1>0. \A u \in Users : RowSafe(u)' => RowSafe(u) /\ u # Owner[q]
  BY DEF RowSafe, KeysTypeOK
<1>1. KeysTypeOK' BY DEF KeysTypeOK
<1>2. Named' BY DEF Named
<1>3. Made' BY DEF Made
<1>4. LateInv' BY DEF LateInv, KeysTypeOK
<1>5. OnlyRotationKills' BY DEF OnlyRotationKills
<1>6. RowInv'
  <2> SUFFICES ASSUME NEW u \in Users, RowSafe(u)'
               PROVE  /\ \/ row[u] \in alive
                         \/ \E r \in Mine(u) : step'[r] = "clear"
                         \/ /\ row[u] = NoIngress
                            /\ \/ "create" \in faults'[u]
                               \/ \A r \in Mine(u) : step'[r] = "none"
                               \/ \E r \in Mine(u) : step'[r] \in {"create", "persist"}
                      /\ \A r \in Mine(u) : step'[r] \in Past /\ old[r] # NoIngress => row[u] # old[r]
    BY DEF RowInv
  <2>1. RowSafe(u) /\ u # Owner[q] BY <1>0
  <2>2. faults'[u] = faults[u] BY <2>1 DEF KeysTypeOK
  <2>3. \A r \in Mine(u) : step'[r] = step[r] BY <2>1 DEF KeysTypeOK
  <2> QED BY <2>1, <2>2, <2>3 DEF RowInv
<1>7. CalmInv' BY DEF CalmInv, Calm
<1> QED BY <1>1, <1>2, <1>3, <1>4, <1>5, <1>6, <1>7

\* The call create fails.
LEMMA CreateFailInv ==
  ASSUME KeysInv, NEW q \in Reqs, Fail(q, "create", "failed")
  PROVE  KeysInv'
<1> USE DEF KeysInv, Fail, GoOn
<1>1. KeysTypeOK' BY DEF KeysTypeOK
<1>2. Named' BY DEF Named
<1>3. Made' BY DEF Made
<1>4. LateInv' BY DEF LateInv, KeysTypeOK
<1>5. OnlyRotationKills' BY DEF OnlyRotationKills
<1>6. RowInv' BY DEF RowInv, RowSafe, Past, KeysTypeOK
<1>7. CalmInv' BY DEF CalmInv, Calm
<1> QED BY <1>1, <1>2, <1>3, <1>4, <1>5, <1>6, <1>7

\* The call persist fails.
LEMMA PersistFailInv ==
  ASSUME KeysInv, NEW q \in Reqs, Fail(q, "persist", "cleanup")
  PROVE  KeysInv'
<1> USE DEF KeysInv, Fail, GoOn
<1>0. \A u \in Users : RowSafe(u)' => RowSafe(u) /\ u # Owner[q]
  BY DEF RowSafe, KeysTypeOK
<1>1. KeysTypeOK' BY DEF KeysTypeOK
<1>2. Named' BY DEF Named
<1>3. Made' BY DEF Made, KeysTypeOK
<1>4. LateInv' BY DEF LateInv, KeysTypeOK
<1>5. OnlyRotationKills' BY DEF OnlyRotationKills
<1>6. RowInv' BY <1>0 DEF RowInv
<1>7. CalmInv' BY DEF CalmInv, Calm, Made, KeysTypeOK
<1> QED BY <1>1, <1>2, <1>3, <1>4, <1>5, <1>6, <1>7

\* The call cleanup fails.
LEMMA CleanupFailInv ==
  ASSUME KeysInv, NEW q \in Reqs, Fail(q, "cleanup", "failed")
  PROVE  KeysInv'
<1> USE DEF KeysInv, Fail, GoOn
<1>1. KeysTypeOK' BY DEF KeysTypeOK
<1>2. Named' BY DEF Named
<1>3. Made' BY DEF Made
<1>4. LateInv' BY DEF LateInv, Made, KeysTypeOK
<1>5. OnlyRotationKills' BY DEF OnlyRotationKills
<1>6. RowInv' BY DEF RowInv, RowSafe, Past
<1>7. CalmInv' BY DEF CalmInv, Calm
<1> QED BY <1>1, <1>2, <1>3, <1>4, <1>5, <1>6, <1>7

\* The call delete takes effect late.
LEMMA DeleteLandInv ==
  ASSUME KeysInv, NEW q \in Reqs, Land(q, "delete")
  PROVE  KeysInv'
<1> USE DEF KeysInv, Land, Effect, DeleteOld
<1>0. /\ faults[Owner[q]] \cap {"delete", "crash"} # {}
      /\ step[q] \notin {"none", "kept", "delete"}
  BY DEF LateInv
<1>1. KeysTypeOK' BY DEF KeysTypeOK
<1>2. Named' BY <1>0 DEF Named
<1>3. Made' BY <1>0 DEF Made, Named
<1>4. LateInv' BY DEF LateInv
<1>5. OnlyRotationKills' BY <1>0 DEF OnlyRotationKills
<1>6. RowInv' BY <1>0 DEF RowInv, RowSafe, Past, Named, KeysTypeOK
<1>7. CalmInv' BY <1>0 DEF CalmInv, Calm
<1> QED BY <1>1, <1>2, <1>3, <1>4, <1>5, <1>6, <1>7

\* The call clear takes effect late.
LEMMA ClearLandInv ==
  ASSUME KeysInv, NEW q \in Reqs, Land(q, "clear")
  PROVE  KeysInv'
<1> USE DEF KeysInv, Land, Effect, ClearStreamCredentials
<1>0. /\ faults[Owner[q]] \cap {"clear", "crash"} # {}
      /\ step[q] \in {"cleanup", "failed"}
  BY DEF LateInv
<1>1. KeysTypeOK' BY DEF KeysTypeOK
<1>2. Named' BY <1>0 DEF Named, KeysTypeOK
<1>3. Made' BY <1>0 DEF Made
<1>4. LateInv' BY DEF LateInv
<1>5. OnlyRotationKills' BY <1>0 DEF OnlyRotationKills
<1>6. RowInv' BY <1>0 DEF RowInv, RowSafe, KeysTypeOK
<1>7. CalmInv' BY <1>0 DEF CalmInv, Calm, KeysTypeOK
<1> QED BY <1>1, <1>2, <1>3, <1>4, <1>5, <1>6, <1>7

\* The call create takes effect late.
LEMMA CreateLandInv ==
  ASSUME KeysInv, NEW q \in Reqs, Land(q, "create")
  PROVE  KeysInv'
<1> USE DEF KeysInv, Land, Effect, CreateWHIPIngress
<1>0. /\ faults[Owner[q]] \cap {"create", "crash"} # {}
      /\ step[q] \in {"cleanup", "failed"}
  BY DEF LateInv
<1>1. KeysTypeOK' BY DEF KeysTypeOK
<1>2. Named' BY <1>0 DEF Named
<1>3. Made' BY <1>0 DEF Made
<1>4. LateInv' BY DEF LateInv
<1>5. OnlyRotationKills' BY <1>0 DEF OnlyRotationKills
<1>6. RowInv' BY <1>0 DEF RowInv, RowSafe
<1>7. CalmInv' BY <1>0 DEF CalmInv, Calm, Named
<1> QED BY <1>1, <1>2, <1>3, <1>4, <1>5, <1>6, <1>7

\* The call persist takes effect late.
LEMMA PersistLandInv ==
  ASSUME KeysInv, NEW q \in Reqs, Land(q, "persist")
  PROVE  KeysInv'
<1> USE DEF KeysInv, Land, Effect, SetStreamCredentials
<1>0. /\ faults[Owner[q]] \cap {"persist", "crash"} # {}
      /\ step[q] \in {"cleanup", "failed"}
  BY DEF LateInv
<1>1. KeysTypeOK' BY DEF KeysTypeOK
<1>2. Named' BY <1>0 DEF Named, KeysTypeOK
<1>3. Made' BY <1>0 DEF Made
<1>4. LateInv' BY DEF LateInv
<1>5. OnlyRotationKills' BY <1>0 DEF OnlyRotationKills
<1>6. RowInv' BY <1>0 DEF RowInv, RowSafe, KeysTypeOK
<1>7. CalmInv' BY <1>0 DEF CalmInv, Calm, KeysTypeOK
<1> QED BY <1>1, <1>2, <1>3, <1>4, <1>5, <1>6, <1>7

\* The call cleanup takes effect late.
LEMMA CleanupLandInv ==
  ASSUME KeysInv, NEW q \in Reqs, Land(q, "cleanup")
  PROVE  KeysInv'
<1> USE DEF KeysInv, Land, Effect, DeleteNew
<1>0. /\ faults[Owner[q]] \cap {"cleanup", "crash"} # {}
      /\ step[q] = "failed" /\ faults[Owner[q]] \cap {"persist", "crash"} # {}
  BY DEF LateInv
<1>1. KeysTypeOK' BY DEF KeysTypeOK
<1>2. Named' BY <1>0 DEF Named
<1>3. Made' BY <1>0 DEF Made
<1>4. LateInv' BY DEF LateInv
<1>5. OnlyRotationKills' BY <1>0 DEF OnlyRotationKills
<1>6. RowInv' BY <1>0 DEF RowInv, RowSafe, Named
<1>7. CalmInv' BY <1>0 DEF CalmInv, Calm
<1> QED BY <1>1, <1>2, <1>3, <1>4, <1>5, <1>6, <1>7

\* The process ends.
LEMMA CrashInv ==
  ASSUME KeysInv, KeysCrash
  PROVE  KeysInv'
<1> USE DEF KeysInv, KeysCrash
<1>1. KeysTypeOK' BY DEF KeysTypeOK
<1>2. Named' BY DEF Named, KeysTypeOK
<1>3. Made' BY DEF Made
<1>4. LateInv' BY DEF LateInv
<1>5. OnlyRotationKills' BY DEF OnlyRotationKills
<1>6. RowInv' BY DEF RowInv, RowSafe
<1>7. CalmInv' BY DEF CalmInv, Calm
<1> QED BY <1>1, <1>2, <1>3, <1>4, <1>5, <1>6, <1>7

\* A context is cancelled.
LEMMA CancelInv ==
  ASSUME KeysInv, NEW q \in Reqs, Cancel(q)
  PROVE  KeysInv'
<1> USE DEF KeysInv, Cancel
<1>1. KeysTypeOK' BY DEF KeysTypeOK
<1>2. Named' BY DEF Named
<1>3. Made' BY DEF Made
<1>4. LateInv' BY DEF LateInv
<1>5. OnlyRotationKills' BY DEF OnlyRotationKills
<1>6. RowInv' BY DEF RowInv, RowSafe
<1>7. CalmInv' BY DEF CalmInv, Calm
<1> QED BY <1>1, <1>2, <1>3, <1>4, <1>5, <1>6, <1>7

-----------------------------------------------------------------------------
LEMMA KeysNextInv == KeysInv /\ [KeysNext]_keyVars => KeysInv'
<1> SUFFICES ASSUME KeysInv, [KeysNext]_keyVars
             PROVE  KeysInv'
  OBVIOUS
<1>1. ASSUME NEW q \in Reqs, DashboardSetupStream(q) PROVE KeysInv' BY <1>1, SetupInv
<1>2. ASSUME NEW q \in Reqs, DashboardRotateStream(q) PROVE KeysInv' BY <1>2, RotateInv
<1>3. ASSUME NEW q \in Reqs, HandlerStep(q) PROVE KeysInv'
  <2>1. CASE DeleteStep(q) BY <2>1, DeleteOkInv, DeleteFailInv DEF DeleteStep
  <2>2. CASE ClearStep(q) BY <2>2, ClearOkInv, ClearFailInv DEF ClearStep
  <2>3. CASE CreateStep(q) BY <2>3, CreateOkInv, CreateFailInv DEF CreateStep
  <2>4. CASE PersistStep(q) BY <2>4, PersistOkInv, PersistFailInv DEF PersistStep
  <2>5. CASE CleanupStep(q) BY <2>5, CleanupOkInv, CleanupFailInv DEF CleanupStep
  <2> QED BY <1>3, <2>1, <2>2, <2>3, <2>4, <2>5 DEF HandlerStep
<1>4. ASSUME NEW q \in Reqs, Cancel(q) PROVE KeysInv' BY <1>4, CancelInv
<1>5. ASSUME NEW q \in Reqs, NEW c \in Calls, Land(q, c) PROVE KeysInv'
  <2>1. c \in {"delete", "clear", "create", "persist", "cleanup"} OBVIOUS
  <2> HIDE DEF Calls
  <2> QED BY <1>5, <2>1, DeleteLandInv, ClearLandInv, CreateLandInv, PersistLandInv, CleanupLandInv
<1>6. CASE KeysCrash BY <1>6, CrashInv
<1>7. CASE UNCHANGED keyVars
  <2> USE <1>7 DEF keyVars, KeysInv
  <2>1. KeysTypeOK' BY DEF KeysTypeOK
  <2>2. Named' BY DEF Named
  <2>3. Made' BY DEF Made
  <2>4. LateInv' BY DEF LateInv
  <2>5. OnlyRotationKills' BY DEF OnlyRotationKills
  <2>6. RowInv' BY DEF RowInv, RowSafe
  <2>7. CalmInv' BY DEF CalmInv, Calm
  <2> QED BY <2>1, <2>2, <2>3, <2>4, <2>5, <2>6, <2>7
<1> QED BY <1>1, <1>2, <1>3, <1>4, <1>5, <1>6, <1>7 DEF KeysNext

\* The bookkeeping of the stream keys is an invariant.
THEOREM KeysInvariant == KeysSpec => []KeysInv
<1> QED BY KeysInitInv, KeysNextInv, PTL DEF KeysSpec

\* Every step of the handlers keeps the types.
THEOREM KeysTypes == KeysSpec => []KeysTypeOK
<1>1. KeysInv => KeysTypeOK BY DEF KeysInv
<1> QED BY <1>1, KeysInvariant, PTL

\* With all clicks of a user over, the key on the dashboard works, unless an
\* update of the row failed or the server died: overlaps alone cannot break it.
THEOREM KeysWork == KeysSpec => []KeyWorks
<1>1. KeysInv => KeyWorks
  <2> SUFFICES ASSUME KeysInv, NEW u \in Users, Idle(u), RowSafe(u), row[u] \notin alive
               PROVE  row[u] = NoIngress /\ ( \/ "create" \in faults[u]
                                             \/ \A q \in Mine(u) : step[q] = "none" )
    BY DEF KeyWorks, RowSafe
  <2>1. \A r \in Mine(u) : step[r] \notin {"clear", "create", "persist"} BY DEF Idle
  <2> QED BY <2>1 DEF KeysInv, RowInv
<1> QED BY <1>1, KeysInvariant, PTL

\* A key that was answered with success dies only by a rotation that saw it.
THEOREM KeysDieByRotation == KeysSpec => []OnlyRotationKills
<1>1. KeysInv => OnlyRotationKills BY DEF KeysInv
<1> QED BY <1>1, KeysInvariant, PTL

\* Clicks one after the other leave no ingress behind if no call fails.
THEOREM KeysLeaveNoOrphan == KeysSpec => []NoOrphan
<1>1. KeysInv => NoOrphan
  BY DEF KeysInv, CalmInv, Calm, NoOrphan, Idle
<1> QED BY <1>1, KeysInvariant, PTL
=============================================================================
