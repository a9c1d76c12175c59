------------------------ MODULE GatewayReconcile_proof ------------------------
(***************************************************************************)
(* Proofs about GatewayReconcile, for every set of components, objects and *)
(* specs and every bound.                                                  *)
(***************************************************************************)
EXTENDS GatewayReconcile, TLAPS

-------------------------------------------------------------------------------
(* Types of the values the actions are built from. *)

LEMMA NoStatusType == NoStatus \in Status
  BY DEF NoStatus, Status, NoCondition, Condition, Reasons, NoComps, Unreported,
         Component

LEMMA NoGatewayType == NoGateway \in Gateway
  BY NoStatusType, SpecsAssumption DEF NoGateway, Gateway

LEMMA AbsentType == Absent \in Object
  BY NoGatewayType DEF Absent, Object, Gateway

LEMMA NewObjectType ==
  ASSUME NEW o \in Objects, NEW s \in Specs, NEW who \in {"gateway", "user"}
  PROVE  NewObject(o, s, who) \in Object
  BY AbsentType, SpecsAssumption DEF NewObject, Absent, Object

LEMMA AppliedType ==
  ASSUME TypeServer, NEW o \in Objects, NEW s \in Specs
  PROVE  Applied(o, s) \in Object
<1>1. objs[o] \in Object
  BY DEF TypeServer
<1>2. (IF o \in Components THEN ReplicasOf[s] ELSE 0) \in Nat
  BY SpecsAssumption
<1>3. NewObject(o, s, "gateway") \in Object
  BY NewObjectType
<1>4. [objs[o] EXCEPT !.owner = "gateway"] \in Object
  BY <1>1 DEF Object
<1>5. objs[o].generation + 1 \in Nat
  BY <1>1 DEF Object
<1>6. ASSUME NEW r \in Object, NEW g \in Nat, NEW n \in Nat
      PROVE  [r EXCEPT !.owner = "gateway", !.spec = s, !.generation = g,
                       !.desired = n] \in Object
  BY DEF Object
<1>7. [objs[o] EXCEPT !.owner = "gateway", !.spec = s,
                      !.generation = objs[o].generation + 1,
                      !.desired = IF o \in Components THEN ReplicasOf[s] ELSE 0]
        \in Object
  BY <1>1, <1>2, <1>5, <1>6
<1> QED
  BY <1>3, <1>4, <1>7 DEF Applied

LEMMA FailureStatusType ==
  ASSUME TypeRun, NEW all \in BOOLEAN,
         NEW reason \in {"ValidationFailed", "RenderFailed"} \cup SecretFailures
  PROVE  FailureStatus(reason, all) \in Status
<1>1. Failed(reason) \in Condition
  BY ReasonsAssumption DEF Failed, Condition, Reasons, TypeRun, Gateway
<1>2. held.status \in Status /\ held.generation \in Nat
  BY DEF TypeRun, Gateway
<1> QED
  BY <1>1, <1>2 DEF FailureStatus, Status

(***************************************************************************)
(* A reported count is all or nothing, so it is a natural number.          *)
(***************************************************************************)
LEMMA ReplicaStatusType ==
  ASSUME NEW d \in Object, NEW rolledOut \in BOOLEAN
  PROVE  reportedReadyReplicas(d.readyReplicas, d.desired, rolledOut) \in Nat
  BY DEF reportedReadyReplicas, Object

LEMMA ComponentOfType ==
  ASSUME TypeCaches, NEW c \in Components
  PROVE  ComponentOf(c) \in Component
<1>1. cachedObjs[c] \in Object
  BY DEF TypeCaches, Objects
<1>2. deploymentRolledOut(cachedObjs[c]) \in BOOLEAN
      /\ statefulSetRolledOut(cachedObjs[c]) \in BOOLEAN
  BY <1>1 DEF deploymentRolledOut, statefulSetRolledOut, Object
<1>3. ReplicaStatus(c).replicas \in Nat /\ ReplicaStatus(c).readyReplicas \in Nat
  <2>1. deploymentReplicaStatus(cachedObjs[c]).replicas \in Nat
        /\ deploymentReplicaStatus(cachedObjs[c]).readyReplicas \in Nat
    BY <1>1, <1>2, ReplicaStatusType DEF deploymentReplicaStatus, Object
  <2>2. statefulSetReplicaStatus(cachedObjs[c]).replicas \in Nat
        /\ statefulSetReplicaStatus(cachedObjs[c]).readyReplicas \in Nat
    BY <1>1, <1>2, ReplicaStatusType DEF statefulSetReplicaStatus, Object
  <2> QED
    BY <2>1, <2>2 DEF ReplicaStatus
<1> QED
  BY <1>3 DEF ComponentOf, Component, Unreported

LEMMA UpdatedStatusType ==
  ASSUME TypeRun PROVE UpdatedStatus \in Status
<1>1. held.status \in Status /\ held.generation \in Nat
  BY DEF TypeRun, Gateway
<1>2. ASSUME NEW ok \in BOOLEAN
      PROVE  /\ Verdict(ok, "AllComponentsReady", "ComponentsNotReady") \in Condition
             /\ Verdict(ok, "Available", "Unavailable") \in Condition
  BY <1>1 DEF Verdict, Condition, Reasons
<1>3. AllAvailable \in BOOLEAN
  BY DEF AllAvailable
<1>4. \A c \in Components : available(comps[c]) \in BOOLEAN
  BY DEF available
<1>5. [c \in Components |-> Verdict(available(comps[c]), "Available", "Unavailable")]
        \in [Components -> Condition]
  BY <1>2, <1>4
<1>6. [c \in Components |-> IF comps[c].set THEN comps[c]
                            ELSE held.status.components[c]]
        \in [Components -> Component]
  BY <1>1 DEF TypeRun, Status
<1> QED
  BY <1>1, <1>2, <1>3, <1>5, <1>6 DEF UpdatedStatus, Status

LEMMA NoCompsType == NoComps \in [Components -> Component]
  BY DEF NoComps, Unreported, Component

LEMMA ReturnType ==
  ASSUME TypeQueue, TypeRun, NEW err \in BOOLEAN, NEW requeue \in BOOLEAN,
         Return(err, requeue)
  PROVE  TypeQueue' /\ TypeRun'
<1>1. queued' \in BOOLEAN
  BY DEF Return, TypeQueue
<1>2. backoff' \in BOOLEAN /\ timer' \in BOOLEAN
  <2>1. backoff' = (backoff \/ err)
    BY DEF Return
  <2>2. timer' = (timer \/ (requeue /\ SyncPeriod > 0))
    BY DEF Return
  <2> QED
    BY <2>1, <2>2, Zenon
<1>3. TypeRun'
  <2>1. /\ pc' = "idle" /\ held' \in Gateway /\ todo' = {} /\ found' = {}
        /\ resolution' = "none" /\ kinds' = <<>> /\ errs' = FALSE
    BY NoGatewayType DEF Return
  <2>2. comps' \in [Components -> Component]
    BY NoCompsType DEF Return
  <2>3. kinds' \in Seq(STRING)
    BY <2>1
  <2> QED
    BY <2>1, <2>2, <2>3 DEF TypeRun
<1> QED
  BY <1>1, <1>2, <1>3 DEF TypeQueue

LEMMA SpendType ==
  ASSUME TypeHistory, NEW max,
         NEW what \in {"faults", "restarts", "outages", "drifts", "deletes"},
         Spend(what, max)
  PROVE  budget' \in [faults : Nat, restarts : Nat, outages : Nat,
                      drifts : Nat, deletes : Nat]
  BY DEF Spend, history, TypeHistory

LEMMA PatchStatusType ==
  ASSUME TypeOK, NEW st \in Status, NEW err \in BOOLEAN, NEW requeue \in BOOLEAN,
         PatchStatus(st, err, requeue)
  PROVE  /\ gw' \in Gateway /\ TypeQueue' /\ TypeRun'
         /\ budget' \in [faults : Nat, restarts : Nat, outages : Nat,
                         drifts : Nat, deletes : Nat]
<1> USE DEF TypeOK
<1>1. ASSUME WriteStatus(st) PROVE gw' \in Gateway
  <2>1. ASSUME NEW g \in Gateway, NEW v \in Nat
        PROVE  [g EXCEPT !.status = st, !.resourceVersion = v] \in Gateway
    BY DEF Gateway
  <2>2. gw \in Gateway /\ gw.resourceVersion + 1 \in Nat
    BY DEF TypeServer, Gateway
  <2> QED
    BY <1>1, <2>1, <2>2 DEF WriteStatus
<1>2. CASE VersionMatches /\ WriteStatus(st) /\ Return(err, requeue) /\ UNCHANGED budget
  BY <1>1, <1>2, ReturnType DEF history, TypeHistory
<1>3. CASE UNCHANGED gw /\ Return(TRUE, FALSE) /\ UNCHANGED budget
  BY <1>3, ReturnType DEF history, TypeHistory, TypeServer
<1>4. CASE /\ Spend("faults", MaxFaults)
           /\ UNCHANGED gw \/ (VersionMatches /\ WriteStatus(st))
           /\ Return(TRUE, FALSE)
  BY <1>1, <1>4, ReturnType, SpendType DEF TypeServer
<1> QED
  BY <1>2, <1>3, <1>4 DEF PatchStatus

LEMMA recordFailureType ==
  ASSUME TypeOK, NEW all \in BOOLEAN, NEW retry \in BOOLEAN,
         NEW reason \in {"ValidationFailed", "RenderFailed"} \cup SecretFailures,
         recordFailure(reason, all, retry)
  PROVE  TypeOK'
<1>1. FailureStatus(reason, all) \in Status
  BY FailureStatusType DEF TypeOK
<1>2. /\ gw' \in Gateway /\ TypeQueue' /\ TypeRun'
      /\ budget' \in [faults : Nat, restarts : Nat, outages : Nat,
                      drifts : Nat, deletes : Nat]
  BY <1>1, PatchStatusType DEF recordFailure
<1> QED
  BY <1>2 DEF recordFailure, TypeOK, TypeServer, TypeCaches, history, TypeHistory, caches
LEMMA TypeInit == Init => TypeOK
<1> SUFFICES ASSUME Init PROVE TypeOK
  OBVIOUS
<1> USE DEF Init
<1>1. gw \in Gateway
  <2>1. PICK s \in Specs : gw = [NoGateway EXCEPT !.alive = TRUE,
          !.generation = 1, !.resourceVersion = 1, !.spec = s]
    OBVIOUS
  <2> QED
    BY <2>1, NoGatewayType DEF Gateway
<1>2. objs \in [Objects -> Object]
  BY AbsentType
<1>3. TypeRun
  <2>1. kinds \in Seq(STRING)
    OBVIOUS
  <2> QED
    BY <2>1, NoGatewayType, NoCompsType DEF TypeRun
<1>4. TypeQueue /\ TypeHistory
  BY DEF TypeQueue, history, TypeHistory
<1> QED
  BY <1>1, <1>2, <1>3, <1>4 DEF TypeOK, TypeServer, TypeCaches

(***************************************************************************)
(* The actions of the running reconcile keep the types.                    *)
(***************************************************************************)
LEMMA TypeReconcile ==
  ASSUME TypeOK, Reconcile \/ Fault
  PROVE  TypeOK'
<1> USE DEF TypeOK
<1>1. CASE StartReconcile
  <2>1. TypeRun'
    BY <1>1 DEF StartReconcile, TypeRun, TypeCaches
  <2> QED
    BY <1>1, <2>1 DEF StartReconcile, server, caches, TypeServer, TypeCaches,
                      TypeQueue, history, TypeHistory
<1>2. CASE FailValidation
  BY <1>2, recordFailureType DEF FailValidation
<1>3. CASE ResolveSecret \/ FailSecret
  <2>1. CASE ResolveSecret
    <3>1. TypeRun'
      BY <2>1 DEF ResolveSecret, TypeRun, TypeServer
    <3> QED
      BY <2>1, <3>1 DEF ResolveSecret, server, caches, queue, TypeServer,
                        TypeCaches, TypeQueue, history, TypeHistory
  <2>2. CASE FailSecret
    BY <2>2, recordFailureType DEF FailSecret
  <2> QED
    BY <1>3, <2>1, <2>2
<1>4. CASE FailRender
  BY <1>4, recordFailureType DEF FailRender
<1>5. CASE Render
  <2>1. TypeRun'
    BY <1>5, SpecsAssumption DEF Render, TypeRun, Gateway
  <2> QED
    BY <1>5, <2>1 DEF Render, server, caches, queue, TypeServer, TypeCaches,
                      TypeQueue, history, TypeHistory
<1>6. ASSUME NEW o \in Objects, ApplyObject(o) PROVE TypeOK'
  <2>1. Applied(o, held.spec) \in Object
    BY AppliedType DEF TypeRun, Gateway
  <2>2. objs' \in [Objects -> Object]
    BY <1>6, <2>1 DEF ApplyObject, TypeServer
  <2>3. TypeRun' /\ drift' \subseteq Objects
    BY <1>6 DEF ApplyObject, TypeRun, history, TypeHistory
  <2> QED
    BY <1>6, <2>2, <2>3 DEF ApplyObject, caches, queue, TypeServer, TypeCaches,
                            TypeQueue, history, TypeHistory
<1>7. ASSUME NEW o \in Objects, DeleteOrphan(o) PROVE TypeOK'
  <2>1. objs' \in [Objects -> Object]
    BY <1>7, AbsentType DEF DeleteOrphan, TypeServer
  <2>2. TypeRun' /\ drift' \subseteq Objects
    BY <1>7 DEF DeleteOrphan, TypeRun, history, TypeHistory
  <2>3. budget' \in [faults : Nat, restarts : Nat, outages : Nat,
                     drifts : Nat, deletes : Nat]
    BY <1>7, SpendType DEF DeleteOrphan, history, TypeHistory
  <2> QED
    BY <1>7, <2>1, <2>2, <2>3 DEF DeleteOrphan, caches, queue, TypeServer,
                                  TypeCaches, TypeQueue, history, TypeHistory
<1>8. CASE ApplyDone
  <2>1. TypeRun'
    BY <1>8, ObjectsAssumption DEF ApplyDone, TypeRun
  <2> QED
    BY <1>8, <2>1 DEF ApplyDone, server, caches, queue, TypeServer, TypeCaches,
                      TypeQueue, history, TypeHistory
<1>9. CASE ListOrphans
  <2>1. kinds' \in Seq(STRING)
    BY <1>9 DEF ListOrphans, TypeRun
  <2>2. TypeRun'
    BY <1>9, <2>1 DEF ListOrphans, Orphans, TypeRun
  <2>3. budget' \in [faults : Nat, restarts : Nat, outages : Nat,
                     drifts : Nat, deletes : Nat]
    BY <1>9, SpendType DEF ListOrphans, history, TypeHistory
  <2> QED
    BY <1>9, <2>2, <2>3 DEF ListOrphans, server, caches, queue, TypeServer,
                            TypeCaches, TypeQueue, history, TypeHistory
<1>10. CASE OrphansDone
  <2>1. TypeQueue' /\ TypeRun'
    <3>1. CASE errs
      BY <1>10, <3>1, ReturnType DEF OrphansDone
    <3>2. CASE ~errs
      BY <1>10, <3>2 DEF OrphansDone, queue, TypeQueue, TypeRun
    <3> QED
      BY <3>1, <3>2
  <2> QED
    BY <1>10, <2>1 DEF OrphansDone, server, caches, TypeServer, TypeCaches,
                       history, TypeHistory
<1>11. ASSUME NEW here, NEW listed, NEW next \in {"statefulsets", "patch"},
              ListWorkloads(here, listed, next)
       PROVE  TypeOK'
  <2>1. comps' \in [Components -> Component]
    BY <1>11, ComponentOfType DEF ListWorkloads, TypeRun
  <2>2. TypeRun'
    BY <1>11, <2>1 DEF ListWorkloads, TypeRun
  <2> QED
    BY <1>11, <2>2 DEF ListWorkloads, server, caches, queue, TypeServer,
                       TypeCaches, TypeQueue, history, TypeHistory
<1>12. CASE ListDeployments \/ ListStatefulSets
  BY <1>11, <1>12 DEF ListDeployments, ListStatefulSets
<1>13. CASE updateStatus
  <2>1. UpdatedStatus \in Status
    BY UpdatedStatusType
  <2>2. /\ gw' \in Gateway /\ TypeQueue' /\ TypeRun'
        /\ budget' \in [faults : Nat, restarts : Nat, outages : Nat,
                        drifts : Nat, deletes : Nat]
    BY <1>13, <2>1, PatchStatusType DEF updateStatus
  <2> QED
    BY <1>13, <2>2 DEF updateStatus, caches, TypeServer, TypeCaches, history, TypeHistory
<1>14. CASE Fault
  BY <1>14, ReturnType, SpendType DEF Fault, server, caches, TypeServer,
                                      TypeCaches, history, TypeHistory
<1> QED
  BY <1>1, <1>2, <1>3, <1>4, <1>5, <1>6, <1>7, <1>8, <1>9, <1>10, <1>12, <1>13,
     <1>14 DEF Reconcile, ReconcileStep

(***************************************************************************)
(* The work queue, the informers, restarts and the outside world keep the  *)
(* types.                                                                  *)
(***************************************************************************)
LEMMA SetObjectType ==
  ASSUME TypeOK, NEW o \in Objects, NEW obj \in Object, SetObject(o, obj)
  PROVE  /\ TypeServer' /\ TypeCaches' /\ TypeQueue' /\ TypeRun'
         /\ UNCHANGED history
<1> USE DEF TypeOK, SetObject
<1>1. objs' \in [Objects -> Object]
  BY DEF TypeServer
<1> QED
  BY <1>1 DEF TypeServer, TypeCaches, TypeQueue, TypeRun, caches, queue, run

LEMMA TypeWorkload ==
  ASSUME TypeOK, NEW c \in Components, WorkloadStep(c) \/ LoseReplica(c)
  PROVE  TypeOK'
<1> USE DEF TypeOK
<1>1. c \in Objects /\ objs[c] \in Object
  BY DEF Objects, TypeServer
<1>2. CASE ObserveWorkload(c)
  <2>1. ASSUME NEW r \in Object, NEW g \in Nat
        PROVE  [r EXCEPT !.observedGeneration = g, !.updatedReplicas = 0,
                         !.revised = FALSE] \in Object
    BY DEF Object
  <2>2. objs[c].generation \in Nat
    BY <1>1 DEF Object
  <2> QED
    BY <1>1, <1>2, <2>1, <2>2, SetObjectType DEF ObserveWorkload, history, TypeHistory
<1>3. CASE RollOut(c)
  <2>1. ASSUME NEW r \in Object, NEW n \in Nat
        PROVE  [r EXCEPT !.updatedReplicas = n, !.replicas = n,
                         !.readyReplicas = n, !.revised = TRUE] \in Object
    BY DEF Object
  <2>2. objs[c].desired \in Nat
    BY <1>1 DEF Object
  <2> QED
    BY <1>1, <1>3, <2>1, <2>2, SetObjectType DEF RollOut, history, TypeHistory
<1>4. CASE LoseReplica(c)
  <2>1. ASSUME NEW r \in Object, NEW n \in Nat
        PROVE  [r EXCEPT !.readyReplicas = n] \in Object
    BY DEF Object
  <2>2. objs[c].readyReplicas - 1 \in Nat
    BY <1>1, <1>4 DEF LoseReplica, Object
  <2> QED
    BY <1>1, <1>4, <2>1, <2>2, SetObjectType, SpendType DEF LoseReplica, history, TypeHistory
<1> QED
  BY <1>2, <1>3, <1>4 DEF WorkloadStep

LEMMA TypeDrift ==
  ASSUME TypeOK, NEW o \in Objects, NEW obj \in Object, DriftObject(o, obj)
  PROVE  TypeOK'
<1> USE DEF TypeOK, DriftObject
<1>1. objs' \in [Objects -> Object]
  BY DEF TypeServer
<1>2. TypeHistory'
  BY SpendType DEF history, TypeHistory
<1> QED
  BY <1>1, <1>2 DEF TypeServer, TypeCaches, TypeQueue, TypeRun, caches, queue, run

LEMMA TypeOther ==
  ASSUME TypeOK, Runtime \/ Restart \/ Environment
  PROVE  TypeOK'
<1> USE DEF TypeOK
<1>1. CASE BackoffExpires \/ TimerFires \/ SyncGateway
  BY <1>1 DEF BackoffExpires, TimerFires, SyncGateway, server, caches, run,
              TypeServer, TypeCaches, TypeQueue, TypeRun, history, TypeHistory
<1>2. ASSUME NEW o \in Objects, SyncObject(o) PROVE TypeOK'
  <2>1. queued' \in BOOLEAN
    BY <1>2, Zenon DEF SyncObject
  <2>2. cachedObjs' \in [Objects -> Object]
    BY <1>2 DEF SyncObject, TypeServer, TypeCaches
  <2> QED
    BY <1>2, <2>1, <2>2 DEF SyncObject, server, run, TypeServer, TypeCaches,
                            TypeQueue, TypeRun, history, TypeHistory
<1>3. CASE Restart
  <2>1. TypeCaches'
    BY <1>3, AbsentType DEF Restart, Listed, TypeServer, TypeCaches
  <2>2. TypeRun'
    <3>1. kinds' \in Seq(STRING)
      BY <1>3 DEF Restart
    <3> QED
      BY <1>3, <3>1, NoGatewayType, NoCompsType DEF Restart, TypeRun
  <2>3. TypeHistory'
    BY <1>3, SpendType DEF Restart, history, TypeHistory
  <2> QED
    BY <1>3, <2>1, <2>2, <2>3 DEF Restart, server, TypeServer, TypeQueue
<1>4. ASSUME NEW s \in Specs, EditSpec(s) PROVE TypeOK'
  <2>1. ASSUME NEW g \in Gateway, NEW n \in Nat, NEW v \in Nat
        PROVE  [g EXCEPT !.spec = s, !.generation = n, !.resourceVersion = v]
                 \in Gateway
    BY DEF Gateway
  <2>2. gw.generation + 1 \in Nat /\ gw.resourceVersion + 1 \in Nat
    BY DEF TypeServer, Gateway
  <2>3. gw' \in Gateway
    BY <1>4, <2>1, <2>2 DEF EditSpec, TypeServer
  <2> QED
    BY <1>4, <2>3 DEF EditSpec, caches, queue, run, TypeServer, TypeCaches,
                      TypeQueue, TypeRun, history, TypeHistory
<1>5. CASE DeleteGateway
  <2>1. gw' \in Gateway
    BY <1>5 DEF DeleteGateway, TypeServer, Gateway
  <2>2. TypeHistory'
    BY <1>5, SpendType DEF DeleteGateway, history, TypeHistory
  <2> QED
    BY <1>5, <2>1, <2>2 DEF DeleteGateway, caches, queue, run, TypeServer,
                            TypeCaches, TypeQueue, TypeRun
<1>6. ASSUME NEW o \in Objects, CollectGarbage(o) PROVE TypeOK'
  <2>1. objs' \in [Objects -> Object]
    BY <1>6, AbsentType DEF CollectGarbage, TypeServer
  <2> QED
    BY <1>6, <2>1 DEF CollectGarbage, caches, queue, run, TypeServer,
                      TypeCaches, TypeQueue, TypeRun, history, TypeHistory
<1>7. ASSUME NEW f \in Outcomes, ChangeSecret(f)
      PROVE  TypeOK'
  <2>1. TypeHistory'
    BY <1>7, SpendType DEF ChangeSecret, history, TypeHistory
  <2> QED
    BY <1>7, <2>1 DEF ChangeSecret, caches, run, TypeServer, TypeCaches,
                      TypeQueue, TypeRun
<1>8. ASSUME NEW o \in Objects, DriftObject(o, Absent) PROVE TypeOK'
  BY <1>8, AbsentType, TypeDrift
<1>9. ASSUME NEW o \in Extras, NEW s \in Specs,
             DriftObject(o, NewObject(o, s, "user"))
      PROVE  TypeOK'
  <2>1. o \in Objects
    BY DEF Objects
  <2>2. NewObject(o, s, "user") \in Object
    BY <2>1, NewObjectType
  <2> QED
    BY <1>9, <2>1, <2>2, TypeDrift
<1> QED
  BY <1>1, <1>2, <1>3, <1>4, <1>5, <1>6, <1>7, <1>8, <1>9, TypeWorkload
     DEF Runtime, Environment

LEMMA TypeNext ==
  ASSUME TypeOK, [Next]_vars
  PROVE  TypeOK'
<1>1. CASE Next
  BY <1>1, TypeReconcile, TypeOther DEF Next
<1>2. CASE UNCHANGED vars
  BY <1>2 DEF vars, server, caches, queue, run, TypeOK, TypeServer, TypeCaches,
              TypeQueue, TypeRun, history, TypeHistory
<1> QED
  BY <1>1, <1>2

(***************************************************************************)
(* The variables keep their types, whatever the instance.                  *)
(***************************************************************************)
THEOREM TypeCorrect == Spec => []TypeOK
  BY TypeInit, TypeNext, PTL DEF Spec

-------------------------------------------------------------------------------
(* Versions. *)

LEMMA VersionsInit == Init => VersionsOrdered
<1> SUFFICES ASSUME Init PROVE VersionsOrdered
  OBVIOUS
<1>1. PICK s \in Specs : gw = [NoGateway EXCEPT !.alive = TRUE,
        !.generation = 1, !.resourceVersion = 1, !.spec = s]
  BY DEF Init
<1>2. gw.status.observedGeneration = 0 /\ gw.generation = 1 /\ gw.resourceVersion = 1
  BY <1>1 DEF NoGateway, NoStatus
<1> QED
  BY <1>2 DEF Init, VersionsOrdered, SameVersion, SameGeneration

LEMMA VersionTypes ==
  ASSUME TypeOK
  PROVE  /\ gw.generation \in Nat /\ gw.resourceVersion \in Nat
         /\ gw.status.observedGeneration \in Nat
         /\ cachedGw.generation \in Nat /\ cachedGw.resourceVersion \in Nat
         /\ held.generation \in Nat /\ held.resourceVersion \in Nat
  BY DEF TypeOK, TypeServer, TypeCaches, TypeRun, Gateway, Status

LEMMA EditEffect ==
  ASSUME TypeOK, NEW s \in Specs, EditSpec(s)
  PROVE  /\ gw'.generation = gw.generation + 1 /\ gw'.status = gw.status
         /\ gw'.resourceVersion = gw.resourceVersion + 1 /\ gw'.alive = gw.alive
<1>1. gw \in Gateway
  BY DEF TypeOK, TypeServer
<1> QED
  BY <1>1 DEF EditSpec, Gateway

\* Steps that leave the gateway and its cached copy alone.
LEMMA VersionsKept ==
  ASSUME VersionsOrdered, gw' = gw, cachedGw' = cachedGw,
         pc' = "idle" \/ (pc # "idle" /\ held' = held)
                      \/ (pc' = pc /\ held' = held)
  PROVE  VersionsOrdered'
  BY DEF VersionsOrdered, SameVersion, SameGeneration

\* What a status patch can do to the stored gateway.
LEMMA PatchEffect ==
  ASSUME TypeOK, VersionsOrdered, pc # "idle", NEW st, NEW err, NEW requeue,
         PatchStatus(st, err, requeue)
  PROVE  /\ pc' = "idle" /\ todo' = {} /\ found' = {}
         /\ gw'.alive = gw.alive /\ gw'.generation = gw.generation
         /\ gw'.spec = gw.spec
         /\ \/ gw' = gw
            \/ /\ gw.alive /\ gw'.status = st
               /\ gw'.resourceVersion = gw.resourceVersion + 1
               /\ held.generation = gw.generation /\ held.spec = gw.spec
<1>1. pc' = "idle" /\ todo' = {} /\ found' = {}
  BY DEF PatchStatus, Return
<1>2. gw' = gw \/ (VersionMatches /\ WriteStatus(st))
  BY DEF PatchStatus
<1>3. CASE gw' = gw
  BY <1>1, <1>3
<1>4. CASE VersionMatches /\ WriteStatus(st) /\ gw' # gw
  <2>1. gw' = [gw EXCEPT !.status = st,
                         !.resourceVersion = gw.resourceVersion + 1]
    BY <1>4 DEF WriteStatus
  <2>2. gw \in Gateway
    BY DEF TypeOK, TypeServer
  <2>3. /\ gw'.alive = gw.alive /\ gw'.generation = gw.generation
        /\ gw'.spec = gw.spec /\ gw'.status = st
        /\ gw'.resourceVersion = gw.resourceVersion + 1
    BY <2>1, <2>2 DEF Gateway
  <2>4. gw.alive /\ held.generation = gw.generation /\ held.spec = gw.spec
    BY <1>4 DEF VersionMatches, VersionsOrdered, SameVersion
  <2> QED
    BY <1>1, <2>3, <2>4
<1> QED
  BY <1>2, <1>3, <1>4

LEMMA PatchVersions ==
  ASSUME TypeOK, VersionsOrdered, pc # "idle", NEW st, NEW err, NEW requeue,
         PatchStatus(st, err, requeue), UNCHANGED cachedGw,
         st.observedGeneration = held.generation
  PROVE  VersionsOrdered'
<1>1. pc' = "idle" /\ gw'.generation = gw.generation /\ gw'.spec = gw.spec
  BY PatchEffect
<1>2. CASE gw' = gw
  BY <1>1, <1>2, VersionsKept
<1>3. CASE /\ gw'.status = st /\ gw'.resourceVersion = gw.resourceVersion + 1
           /\ held.generation = gw.generation
  <2>1. gw'.status.observedGeneration <= cachedGw.generation
    BY <1>3, VersionTypes DEF VersionsOrdered
  <2>2. cachedGw.resourceVersion <= gw'.resourceVersion
        /\ cachedGw.resourceVersion # gw'.resourceVersion
    BY <1>3, VersionTypes DEF VersionsOrdered
  <2> QED
    BY <1>1, <2>1, <2>2 DEF VersionsOrdered, SameVersion, SameGeneration
<1> QED
  BY <1>2, <1>3, PatchEffect

LEMMA VersionsNext ==
  ASSUME TypeOK, VersionsOrdered, [Next]_vars
  PROVE  VersionsOrdered'
<1>1. CASE StartReconcile
  BY <1>1, VersionTypes DEF StartReconcile, server, caches, VersionsOrdered,
                            SameVersion, SameGeneration
<1>2. ASSUME NEW reason, NEW all, NEW retry, pc # "idle",
             recordFailure(reason, all, retry)
      PROVE  VersionsOrdered'
  <2>1. held.status \in Status
    BY DEF TypeOK, TypeRun, Gateway
  <2>2. FailureStatus(reason, all).observedGeneration = held.generation
    BY <2>1 DEF FailureStatus, Status
  <2> QED
    BY <1>2, <2>2, PatchVersions DEF recordFailure, caches
<1>3. CASE FailValidation \/ FailSecret \/ FailRender
  BY <1>2, <1>3 DEF FailValidation, FailSecret, FailRender
<1>4. CASE updateStatus
  <2>1. UpdatedStatus.observedGeneration = held.generation
    BY DEF UpdatedStatus
  <2> QED
    BY <1>4, <2>1, PatchVersions DEF updateStatus, caches
<1>5. CASE \/ ResolveSecret \/ Render \/ ApplyDone \/ ListOrphans
           \/ ListDeployments \/ ListStatefulSets
           \/ \E o \in Objects : ApplyObject(o) \/ DeleteOrphan(o)
  BY <1>5, VersionsKept DEF ResolveSecret, Render, ApplyDone, ListOrphans, ListDeployments,
     ListStatefulSets, ListWorkloads, ApplyObject, DeleteOrphan, server, caches
<1>6. CASE OrphansDone \/ Fault
  BY <1>6, VersionsKept DEF OrphansDone, Fault, Return, server, caches
<1>7. CASE BackoffExpires \/ TimerFires \/ \E o \in Objects : SyncObject(o)
  BY <1>7, VersionsKept DEF BackoffExpires, TimerFires, SyncObject, server,
                            caches, run
<1>8. CASE SyncGateway
  BY <1>8, VersionTypes DEF SyncGateway, server, run, VersionsOrdered,
                            SameVersion, SameGeneration
<1>9. CASE Restart
  <2>1. gw' = gw /\ cachedGw' = gw /\ pc' = "idle"
    BY <1>9 DEF Restart, server
  <2> QED
    BY <2>1, VersionTypes DEF VersionsOrdered, SameVersion, SameGeneration
<1>10. ASSUME NEW s \in Specs, EditSpec(s) PROVE VersionsOrdered'
  <2>1. UNCHANGED <<cachedGw, pc, held>>
    BY <1>10 DEF EditSpec, caches, run
  <2>2. /\ gw'.generation = gw.generation + 1 /\ gw'.status = gw.status
        /\ gw'.resourceVersion = gw.resourceVersion + 1
    BY <1>10, EditEffect
  <2> QED
    BY <2>1, <2>2, VersionTypes DEF VersionsOrdered, SameVersion, SameGeneration
<1>11. CASE DeleteGateway
  <2>1. gw \in Gateway
    BY DEF TypeOK, TypeServer
  <2>2. /\ gw'.generation = gw.generation /\ gw'.status = gw.status
        /\ gw'.resourceVersion = gw.resourceVersion /\ gw'.spec = gw.spec
    BY <1>11, <2>1 DEF DeleteGateway, Gateway
  <2> QED
    BY <1>11, <2>2 DEF DeleteGateway, caches, run, VersionsOrdered,
                       SameVersion, SameGeneration
<1>12. CASE \/ \E o \in Objects : CollectGarbage(o) \/ DriftObject(o, Absent)
            \/ \E o \in Extras, s \in Specs :
                  DriftObject(o, NewObject(o, s, "user"))
            \/ \E f \in Outcomes : ChangeSecret(f)
            \/ \E c \in Components : WorkloadStep(c) \/ LoseReplica(c)
  BY <1>12, VersionsKept DEF CollectGarbage, DriftObject, ChangeSecret,
     WorkloadStep, ObserveWorkload, RollOut, LoseReplica, SetObject, caches, run
<1>13. CASE UNCHANGED vars
  BY <1>13, VersionsKept DEF vars, server, caches, run
<1> QED
  BY <1>1, <1>3, <1>4, <1>5, <1>6, <1>7, <1>8, <1>9, <1>10, <1>11, <1>12, <1>13
     DEF Next, Reconcile, ReconcileStep, Runtime, Environment

-------------------------------------------------------------------------------
(* Progress of the running reconcile, and what the status vouches for. *)

\* The part of the objects the two invariants speak of is as before.
SameObjects ==
  \A o \in Undisturbed' : /\ o \in Undisturbed
                          /\ Owned(o)' <=> Owned(o)
                          /\ objs'[o].spec = objs[o].spec

LEMMA SameObjectsUnchanged ==
  ASSUME UNCHANGED <<objs, drift>> PROVE SameObjects
  BY DEF SameObjects, Undisturbed, Owned

LEMMA ProgressKept ==
  ASSUME ProgressMade, SameObjects, UNCHANGED run, gw'.alive => gw.alive
  PROVE  ProgressMade'
  BY DEF ProgressMade, SameObjects, Settled, run, AfterApply, AfterOrphans

LEMMA ObservedKept ==
  ASSUME ObservedMeansApplied, SameObjects,
         gw'.alive /\ Reported(gw') =>
            gw.alive /\ Reported(gw) /\ gw'.spec = gw.spec
  PROVE  ObservedMeansApplied'
  BY DEF ObservedMeansApplied, SameObjects, Settled, Undisturbed

LEMMA ProgressIdle ==
  ASSUME pc' = "idle", todo' = {}, found' = {}
  PROVE  ProgressMade'
  BY DEF ProgressMade, AfterApply, AfterOrphans

Facts == TypeOK /\ VersionsOrdered /\ ProgressMade /\ ObservedMeansApplied

\* If the status vouches for the stored gateway, the running reconcile holds
\* that gateway's spec.
LEMMA HeldIsReported ==
  ASSUME TypeOK, VersionsOrdered, pc # "idle", Reported(gw)
  PROVE  held.spec = gw.spec
<1>1. held.generation = gw.generation
  BY VersionTypes DEF VersionsOrdered, Reported
<1> QED
  BY <1>1 DEF VersionsOrdered, SameGeneration

\* A reconcile step that settles one object for the spec it holds.
LEMMA SettlesOne ==
  ASSUME Facts, pc # "idle", NEW o \in Objects, gw' = gw,
         NEW obj, objs' = [objs EXCEPT ![o] = obj], drift' = drift \ {o},
         IF o \in Rendered[held.spec]
           THEN obj.exists /\ obj.owner = "gateway" /\ obj.spec = held.spec
           ELSE ~(obj.exists /\ obj.owner = "gateway")
  PROVE  ObservedMeansApplied'
<1> SUFFICES ASSUME gw.alive, Reported(gw), NEW p \in Objects,
                    p \notin drift', p \notin Missing
             PROVE  Settled(p, gw.spec)'
  BY DEF ObservedMeansApplied
<1>1. held.spec = gw.spec
  BY HeldIsReported DEF Facts
<1>2. CASE p = o
  <2>1. objs'[o] = obj
    BY DEF Facts, TypeOK, TypeServer
  <2> QED
    BY <1>1, <1>2, <2>1 DEF Settled, Owned
<1>3. CASE p # o
  <2>1. objs'[p] = objs[p]
    BY <1>3 DEF Facts, TypeOK, TypeServer
  <2>2. Settled(p, gw.spec)
    BY <1>3 DEF Facts, ObservedMeansApplied
  <2> QED
    BY <2>1, <2>2 DEF Settled, Owned
<1> QED
  BY <1>2, <1>3

\* What ServerSideApply leaves behind.
LEMMA AppliedSettles ==
  ASSUME TypeServer, NEW o \in Objects, NEW s \in Specs
  PROVE  /\ Applied(o, s).exists /\ Applied(o, s).owner = "gateway"
         /\ Applied(o, s).spec = s
<1>1. objs[o] \in Object
  BY DEF TypeServer
<1>2. /\ NewObject(o, s, "gateway").exists
      /\ NewObject(o, s, "gateway").owner = "gateway"
      /\ NewObject(o, s, "gateway").spec = s
  BY DEF NewObject, Absent
<1>3. ASSUME NEW r \in Object, NEW g, NEW n
      PROVE  LET e == [r EXCEPT !.owner = "gateway", !.spec = s,
                                !.generation = g, !.desired = n]
             IN  e.exists = r.exists /\ e.owner = "gateway" /\ e.spec = s
  BY DEF Object
<1>4. LET e == [objs[o] EXCEPT !.owner = "gateway"]
      IN  e.exists = objs[o].exists /\ e.owner = "gateway" /\ e.spec = objs[o].spec
  BY <1>1 DEF Object
<1> QED
  BY <1>1, <1>2, <1>3, <1>4 DEF Applied

LEMMA ProgressInit == Init => ProgressMade /\ ObservedMeansApplied
<1> SUFFICES ASSUME Init PROVE ProgressMade /\ ObservedMeansApplied
  OBVIOUS
<1>1. ProgressMade
  BY DEF Init, ProgressMade, AfterApply, AfterOrphans
<1>2. gw.status.ready.reason = ""
  <2>1. PICK s \in Specs : gw = [NoGateway EXCEPT !.alive = TRUE,
          !.generation = 1, !.resourceVersion = 1, !.spec = s]
    BY DEF Init
  <2> QED
    BY <2>1 DEF NoGateway, NoStatus, NoCondition
<1> QED
  BY <1>1, <1>2 DEF ObservedMeansApplied, Reported

LEMMA ApplyObjectKeeps ==
  ASSUME Facts, NEW o \in Objects, ApplyObject(o)
  PROVE  ProgressMade' /\ ObservedMeansApplied'
<1> USE DEF ApplyObject
<1>1. o \in Rendered[held.spec] /\ held.spec \in Specs
  BY DEF Facts, ProgressMade, TypeOK, TypeRun, Gateway
<1>2. CASE o \in Missing
  <2>1. SameObjects
    BY <1>2, SameObjectsUnchanged
  <2>2. ObservedMeansApplied'
    BY <2>1, ObservedKept DEF Facts
  <2>3. ProgressMade'
    BY <1>2, <2>1 DEF Facts, ProgressMade, SameObjects, Settled, AfterApply,
                      AfterOrphans, Undisturbed
  <2> QED
    BY <2>2, <2>3
<1>3. CASE o \notin Missing
  <2> DEFINE obj == Applied(o, held.spec)
  <2>1. obj.exists /\ obj.owner = "gateway" /\ obj.spec = held.spec
    BY <1>1, AppliedSettles DEF Facts, TypeOK
  <2>2. objs' = [objs EXCEPT ![o] = obj] /\ drift' = drift \ {o} /\ gw' = gw
    BY <1>3
  <2> HIDE DEF obj
  <2>3. ObservedMeansApplied'
    BY <1>1, <2>1, <2>2, SettlesOne
  <2>4. objs'[o] = obj /\ \A p \in Objects \ {o} : objs'[p] = objs[p]
    BY <2>2 DEF Facts, TypeOK, TypeServer
  <2>5. ASSUME gw.alive, NEW p \in Undisturbed', p \notin todo',
               p \in Rendered[held.spec]
        PROVE  Owned(p)' /\ objs'[p].spec = held.spec
    <3>1. CASE p = o
      BY <2>1, <2>4, <3>1 DEF Owned
    <3>2. CASE p # o
      <4>1. p \in Undisturbed \ todo
        BY <2>2, <2>5, <3>2 DEF Undisturbed
      <4>2. Settled(p, held.spec)
        BY <2>5, <4>1 DEF Facts, ProgressMade
      <4> QED
        BY <2>4, <2>5, <3>2, <4>1, <4>2 DEF Settled, Owned, Undisturbed
    <3> QED
      BY <3>1, <3>2
  <2>6. ProgressMade'
    BY <2>2, <2>5 DEF Facts, ProgressMade, AfterApply, AfterOrphans, Settled
  <2> QED
    BY <2>3, <2>6
<1> QED
  BY <1>2, <1>3

LEMMA ListOrphansKeeps ==
  ASSUME Facts, ListOrphans
  PROVE  ProgressMade' /\ ObservedMeansApplied'
<1> USE DEF ListOrphans, server, history
<1>1. SameObjects
  BY SameObjectsUnchanged
<1>2. ObservedMeansApplied'
  BY <1>1, ObservedKept DEF Facts
<1>3. kinds \in Seq(STRING) /\ kinds # <<>>
  BY DEF Facts, TypeOK, TypeRun
<1>4. found' \cap Rendered[held.spec] = {}
  BY DEF Orphans
<1>5. ASSUME gw.alive, ~errs', NEW o \in Undisturbed, o \notin Rendered[held.spec],
             o \notin found', Owned(o)
      PROVE  \E i \in 1..Len(kinds') : kinds'[i] = KindOf[o]
  <2>1. found' = Orphans(Head(kinds)) /\ ~errs
    BY <1>5
  <2>2. PICK i \in 1..Len(kinds) : kinds[i] = KindOf[o]
    BY <1>5, <2>1 DEF Facts, ProgressMade
  <2>3. KindOf[o] # Head(kinds)
    BY <1>5, <2>1 DEF Orphans, Undisturbed
  <2>4. i # 1
    BY <1>3, <2>2, <2>3
  <2>5. i - 1 \in 1..Len(Tail(kinds)) /\ Tail(kinds)[i - 1] = kinds[i]
    BY <1>3, <2>2, <2>4
  <2> QED
    BY <2>2, <2>5
<1>6. ProgressMade'
  <2>1. ASSUME gw.alive, NEW o \in Undisturbed, o \in Rendered[held.spec]
        PROVE  Settled(o, held.spec)'
    BY <2>1 DEF Facts, ProgressMade, Settled, Owned, AfterApply
  <2> QED
    BY <1>4, <1>5, <2>1 DEF Facts, ProgressMade, Owned, AfterApply, AfterOrphans,
                            Undisturbed
<1> QED
  BY <1>2, <1>6

LEMMA DeleteOrphanKeeps ==
  ASSUME Facts, NEW o \in Objects, DeleteOrphan(o)
  PROVE  ProgressMade' /\ ObservedMeansApplied'
<1> USE DEF DeleteOrphan
<1>1. o \notin Rendered[held.spec]
  BY DEF Facts, ProgressMade
<1>2. CASE UNCHANGED <<objs, drift>> /\ errs' = TRUE
  <2>1. SameObjects
    BY <1>2, SameObjectsUnchanged
  <2>2. ObservedMeansApplied'
    BY <2>1, ObservedKept DEF Facts
  <2>3. ProgressMade'
    BY <1>2, <2>1 DEF Facts, ProgressMade, SameObjects, Settled, AfterApply,
                      AfterOrphans
  <2> QED
    BY <2>2, <2>3
<1>3. CASE /\ objs' = [objs EXCEPT ![o] = Absent] /\ drift' = drift \ {o}
           /\ UNCHANGED errs
  <2>1. ~Absent.exists
    BY DEF Absent
  <2>2. ObservedMeansApplied'
    BY <1>1, <1>3, <2>1, SettlesOne
  <2>3. objs'[o] = Absent /\ \A p \in Objects \ {o} : objs'[p] = objs[p]
    BY <1>3 DEF Facts, TypeOK, TypeServer
  <2>4. ASSUME NEW p \in Undisturbed', p # o
        PROVE  /\ p \in Undisturbed /\ (Owned(p)' <=> Owned(p))
               /\ objs'[p].spec = objs[p].spec
    BY <1>3, <2>3, <2>4 DEF Undisturbed, Owned
  <2>5. ~Owned(o)'
    BY <2>1, <2>3 DEF Owned
  <2>6. ASSUME gw.alive, NEW p \in Undisturbed', p \in Rendered[held.spec]
        PROVE  Owned(p)' /\ objs'[p].spec = held.spec
    <3>1. p # o
      BY <1>1, <2>6
    <3>2. p \in Undisturbed \ todo
      BY <2>4, <3>1 DEF Facts, ProgressMade
    <3>3. Settled(p, held.spec)
      BY <2>6, <3>2 DEF Facts, ProgressMade, AfterApply
    <3> QED
      BY <2>4, <2>6, <3>1, <3>3 DEF Settled
  <2>7. ASSUME gw.alive, ~errs, NEW p \in Undisturbed', p \notin Rendered[held.spec],
               p \notin found', Owned(p)'
        PROVE  \E i \in 1..Len(kinds) : kinds[i] = KindOf[p]
    <3>1. p # o
      BY <2>5, <2>7
    <3>2. p \in Undisturbed /\ Owned(p)
      BY <2>4, <2>7, <3>1
    <3>3. p \notin found
      BY <2>7, <3>1
    <3> QED
      BY <2>7, <3>2, <3>3 DEF Facts, ProgressMade
  <2>8. ProgressMade'
    BY <1>3, <2>6, <2>7 DEF Facts, ProgressMade, AfterApply, AfterOrphans, Settled
  <2> QED
    BY <2>2, <2>8
<1> QED
  BY <1>2, <1>3

(***************************************************************************)
(* updateStatus vouches for the gateway only when the scan has ended       *)
(* without an error and the stored version is the one that was applied.    *)
(***************************************************************************)
LEMMA updateStatusKeeps ==
  ASSUME Facts, updateStatus
  PROVE  ProgressMade' /\ ObservedMeansApplied'
<1> USE DEF updateStatus, history
<1>1. /\ pc' = "idle" /\ todo' = {} /\ found' = {}
      /\ gw'.alive = gw.alive /\ gw'.generation = gw.generation
      /\ gw'.spec = gw.spec
      /\ gw' = gw \/ (gw.alive /\ held.spec = gw.spec)
  BY PatchEffect DEF Facts
<1>2. SameObjects
  BY SameObjectsUnchanged
<1>3. CASE gw' = gw
  BY <1>1, <1>2, <1>3, ProgressIdle, ObservedKept DEF Facts
<1>4. CASE gw.alive /\ held.spec = gw.spec
  <2>1. \A o \in Undisturbed : Settled(o, gw.spec)
    BY <1>4 DEF Facts, ProgressMade, AfterApply, AfterOrphans, Settled
  <2>2. ObservedMeansApplied'
    BY <1>1, <1>2, <2>1 DEF ObservedMeansApplied, SameObjects, Settled, Undisturbed
  <2> QED
    BY <1>1, <2>2, ProgressIdle
<1> QED
  BY <1>1, <1>3, <1>4

\* A recorded failure vouches for nothing.
LEMMA recordFailureKeeps ==
  ASSUME Facts, pc # "idle", NEW all, NEW retry,
         NEW reason \in {"ValidationFailed", "RenderFailed"} \cup SecretFailures,
         recordFailure(reason, all, retry)
  PROVE  ProgressMade' /\ ObservedMeansApplied'
<1> USE DEF recordFailure, history
<1> DEFINE st == FailureStatus(reason, all)
<1>1. /\ pc' = "idle" /\ todo' = {} /\ found' = {} /\ gw'.alive = gw.alive
      /\ gw'.spec = gw.spec /\ (gw' = gw \/ gw'.status = st)
  BY PatchEffect DEF Facts
<1>2. st.ready.reason = reason
  <2>1. held.status \in Status
    BY DEF Facts, TypeOK, TypeRun, Gateway
  <2> QED
    BY <2>1 DEF FailureStatus, Failed, Status
<1>3. gw' = gw \/ ~Reported(gw')
  BY <1>1, <1>2, ReasonsAssumption DEF Reported
<1>4. SameObjects
  BY SameObjectsUnchanged
<1> QED
  BY <1>1, <1>3, <1>4, ProgressIdle, ObservedKept DEF Facts

LEMMA ReconcileKeeps ==
  ASSUME Facts, Reconcile \/ Fault
  PROVE  ProgressMade' /\ ObservedMeansApplied'
<1>1. ASSUME UNCHANGED <<gw, objs, drift>> PROVE SameObjects /\ ObservedMeansApplied'
  BY <1>1, SameObjectsUnchanged, ObservedKept DEF Facts
<1>2. CASE StartReconcile
  <2>1. SameObjects /\ ObservedMeansApplied'
    BY <1>1, <1>2 DEF StartReconcile, server, history
  <2> QED
    BY <1>2, <2>1 DEF StartReconcile, Facts, ProgressMade, AfterApply, AfterOrphans
<1>3. CASE FailValidation \/ FailRender
  BY <1>3, recordFailureKeeps DEF FailValidation, FailRender
<1>4. CASE FailSecret
  BY <1>4, recordFailureKeeps DEF FailSecret
<1>5. CASE ResolveSecret \/ Render
  <2>1. SameObjects /\ ObservedMeansApplied'
    BY <1>1, <1>5 DEF ResolveSecret, Render, server, history
  <2> QED
    BY <1>5, <2>1 DEF ResolveSecret, Render, Facts, ProgressMade, AfterApply, AfterOrphans
<1>6. CASE ApplyDone
  <2>1. SameObjects /\ ObservedMeansApplied'
    BY <1>1, <1>6 DEF ApplyDone, server, history
  <2>2. \A o \in Objects : \E i \in 1..Len(kinds') : kinds'[i] = KindOf[o]
    BY <1>6, ObjectsAssumption DEF ApplyDone
  <2>3. Undisturbed' = Undisturbed /\ \A o \in Objects : Owned(o)' <=> Owned(o)
    BY <1>6 DEF ApplyDone, server, history, Undisturbed, Owned
  <2>4. ASSUME gw.alive, NEW o \in Undisturbed, o \in Rendered[held.spec]
        PROVE  Settled(o, held.spec)'
    BY <1>6, <2>4 DEF ApplyDone, server, history, Facts, ProgressMade, Settled, Owned
  <2>5. ProgressMade'
    BY <1>6, <2>2, <2>3, <2>4 DEF ApplyDone, server, history, Facts, ProgressMade,
          AfterApply, AfterOrphans, Undisturbed
  <2> QED
    BY <2>1, <2>5
<1>7. CASE OrphansDone
  <2>1. SameObjects /\ ObservedMeansApplied'
    BY <1>1, <1>7 DEF OrphansDone, server, history
  <2>2. CASE errs
    BY <1>7, <2>1, <2>2, ProgressIdle DEF OrphansDone, Return
  <2>3. CASE ~errs
    <3>1. ASSUME gw.alive, NEW o \in Undisturbed, o \notin Rendered[held.spec]
          PROVE  ~Owned(o)
      BY <1>7, <2>3, <3>1 DEF OrphansDone, Facts, ProgressMade
    <3> QED
      BY <1>7, <2>1, <2>3, <3>1 DEF OrphansDone, server, history, Facts, ProgressMade,
            AfterApply, AfterOrphans, SameObjects, Settled
  <2> QED
    BY <2>1, <2>2, <2>3
<1>8. CASE ListDeployments \/ ListStatefulSets
  <2>1. SameObjects /\ ObservedMeansApplied'
    BY <1>1, <1>8 DEF ListDeployments, ListStatefulSets, ListWorkloads, server,
                      history
  <2> QED
    BY <1>8, <2>1 DEF ListDeployments, ListStatefulSets, ListWorkloads, server,
          history, Facts, ProgressMade, AfterApply, AfterOrphans, SameObjects, Settled
<1>9. CASE Fault
  <2>1. SameObjects /\ ObservedMeansApplied'
    BY <1>1, <1>9 DEF Fault, server, history
  <2> QED
    BY <1>9, <2>1, ProgressIdle DEF Fault, Return
<1> QED
  BY <1>2, <1>3, <1>4, <1>5, <1>6, <1>7, <1>8, <1>9, ApplyObjectKeeps,
     DeleteOrphanKeeps, ListOrphansKeeps, updateStatusKeeps
     DEF Reconcile, ReconcileStep

LEMMA WorkloadKeeps ==
  ASSUME Facts, NEW c \in Components, WorkloadStep(c) \/ LoseReplica(c)
  PROVE  ProgressMade' /\ ObservedMeansApplied'
<1>1. c \in Objects /\ objs[c] \in Object
  BY DEF Facts, TypeOK, TypeServer, Objects
<1>2. PICK obj : /\ SetObject(c, obj) /\ obj.exists = objs[c].exists
                 /\ obj.owner = objs[c].owner /\ obj.spec = objs[c].spec
  <2>1. CASE ObserveWorkload(c)
    <3> DEFINE e == [objs[c] EXCEPT !.observedGeneration = objs[c].generation,
                                !.updatedReplicas = 0, !.revised = FALSE]
    <3>1. e.exists = objs[c].exists /\ e.owner = objs[c].owner
          /\ e.spec = objs[c].spec
      BY <1>1 DEF Object
    <3>2. SetObject(c, e)
      BY <2>1 DEF ObserveWorkload
    <3> HIDE DEF e
    <3> QED
      BY <3>1, <3>2, Zenon
  <2>2. CASE RollOut(c)
    <3> DEFINE e == [objs[c] EXCEPT !.updatedReplicas = objs[c].desired,
                                !.replicas = objs[c].desired,
                                !.readyReplicas = objs[c].desired,
                                !.revised = TRUE]
    <3>1. e.exists = objs[c].exists /\ e.owner = objs[c].owner
          /\ e.spec = objs[c].spec
      BY <1>1 DEF Object
    <3>2. SetObject(c, e)
      BY <2>2 DEF RollOut
    <3> HIDE DEF e
    <3> QED
      BY <3>1, <3>2, Zenon
  <2>3. CASE LoseReplica(c)
    <3> DEFINE e == [objs[c] EXCEPT !.readyReplicas = objs[c].readyReplicas - 1]
    <3>1. e.exists = objs[c].exists /\ e.owner = objs[c].owner
          /\ e.spec = objs[c].spec
      BY <1>1 DEF Object
    <3>2. SetObject(c, e)
      BY <2>3 DEF LoseReplica
    <3> HIDE DEF e
    <3> QED
      BY <3>1, <3>2, Zenon
  <2> QED
    BY <2>1, <2>2, <2>3 DEF WorkloadStep
<1>3. \A o \in Objects : /\ objs'[o].exists = objs[o].exists
                         /\ objs'[o].owner = objs[o].owner
                         /\ objs'[o].spec = objs[o].spec
  BY <1>2 DEF SetObject, Facts, TypeOK, TypeServer
<1>4. SameObjects
  BY <1>2, <1>3 DEF SetObject, history, SameObjects, Undisturbed, Owned
<1> QED
  BY <1>2, <1>4, ProgressKept, ObservedKept DEF SetObject, Facts

\* An object changed by others is excepted from then on.
LEMMA DriftKeeps ==
  ASSUME Facts, NEW o \in Objects, NEW obj, DriftObject(o, obj)
  PROVE  ProgressMade' /\ ObservedMeansApplied'
<1> USE DEF DriftObject
<1>1. SameObjects
  BY DEF SameObjects, Undisturbed, Owned, Facts, TypeOK, TypeServer
<1> QED
  BY <1>1, ProgressKept, ObservedKept DEF Facts

LEMMA OtherKeeps ==
  ASSUME Facts, Runtime \/ Restart \/ Environment \/ UNCHANGED vars
  PROVE  ProgressMade' /\ ObservedMeansApplied'
<1>1. ASSUME UNCHANGED <<gw, objs, drift, run>>
      PROVE  ProgressMade' /\ ObservedMeansApplied'
  BY <1>1, SameObjectsUnchanged, ProgressKept, ObservedKept DEF Facts
<1>2. CASE Runtime \/ UNCHANGED vars
  BY <1>1, <1>2 DEF Runtime, BackoffExpires, TimerFires, SyncGateway,
     SyncObject, vars, server, history
<1>3. CASE Restart
  BY <1>3, SameObjectsUnchanged, ProgressIdle, ObservedKept
     DEF Restart, server, history, Facts
<1>4. ASSUME NEW s \in Specs, EditSpec(s)
      PROVE  ProgressMade' /\ ObservedMeansApplied'
  <2>1. gw'.alive = gw.alive /\ ~Reported(gw')
    BY <1>4, EditEffect, VersionTypes DEF Facts, VersionsOrdered, Reported
  <2>2. SameObjects /\ UNCHANGED run
    BY <1>4, SameObjectsUnchanged DEF EditSpec, history
  <2> QED
    BY <2>1, <2>2, ProgressKept, ObservedKept DEF Facts
<1>5. CASE DeleteGateway
  <2>1. ~gw'.alive
    BY <1>5 DEF DeleteGateway, Facts, TypeOK, TypeServer, Gateway
  <2>2. SameObjects /\ UNCHANGED run
    BY <1>5, SameObjectsUnchanged DEF DeleteGateway, history
  <2> QED
    BY <2>1, <2>2, ProgressKept, ObservedKept DEF Facts
<1>6. ASSUME NEW o \in Objects, CollectGarbage(o)
      PROVE  ProgressMade' /\ ObservedMeansApplied'
  BY <1>6 DEF CollectGarbage, run, Facts, ProgressMade, ObservedMeansApplied
<1>7. CASE \E f \in Outcomes : ChangeSecret(f)
  BY <1>1, <1>7 DEF ChangeSecret
<1> QED
  BY <1>2, <1>3, <1>4, <1>5, <1>6, <1>7, WorkloadKeeps, DriftKeeps
     DEF Environment, Objects

LEMMA FactsInvariant == Spec => []Facts
<1>1. Init => Facts
  BY TypeInit, VersionsInit, ProgressInit DEF Facts
<1>2. Facts /\ [Next]_vars => Facts'
  BY TypeNext, VersionsNext, ReconcileKeeps, OtherKeeps DEF Facts, Next
<1> QED
  BY <1>1, <1>2, PTL DEF Spec

(***************************************************************************)
(* Whenever the status of the current generation is a report of            *)
(* updateStatus, the objects are those of that generation's spec, save     *)
(* what others changed since: for any number of objects, specs, edits,     *)
(* faults, restarts and any lag of the caches.                             *)
(***************************************************************************)
THEOREM ObservedIsApplied == Spec => []ObservedMeansApplied
  BY FactsInvariant, PTL DEF Facts

-------------------------------------------------------------------------------
(* The stored gateway: everything that can happen to it in one step. *)

Failures == {"ValidationFailed", "RenderFailed"} \cup SecretFailures

StatusWritten(st) ==
  /\ pc # "idle" /\ gw.alive /\ gw'.alive
  /\ gw'.generation = gw.generation /\ gw'.spec = gw.spec
  /\ held.generation = gw.generation /\ held.spec = gw.spec
  /\ gw'.status = st
  /\ UNCHANGED <<objs, drift>>

Reports == pc = "patch" /\ StatusWritten(UpdatedStatus)

RecordsFailure == \E reason \in Failures, all \in BOOLEAN :
                     StatusWritten(FailureStatus(reason, all))

Edited == /\ gw.alive /\ gw'.alive /\ gw'.status = gw.status
          /\ gw'.generation = gw.generation + 1

Deleted == /\ gw.alive /\ ~gw'.alive /\ gw'.status = gw.status
           /\ gw'.generation = gw.generation /\ gw'.spec = gw.spec
           /\ UNCHANGED <<objs, drift>>

(***************************************************************************)
(* A step leaves the gateway as it is, writes a status for the stored      *)
(* generation from a run that holds the stored spec, edits it or deletes   *)
(* it.                                                                     *)
(***************************************************************************)
LEMMA GatewayMoves ==
  ASSUME Facts, [Next]_vars
  PROVE  gw' = gw \/ Reports \/ RecordsFailure \/ Edited \/ Deleted
<1>1. ASSUME NEW st, NEW err, NEW requeue, PatchStatus(st, err, requeue),
             pc # "idle", UNCHANGED <<objs, drift>>
      PROVE  gw' = gw \/ StatusWritten(st)
  BY <1>1, PatchEffect DEF Facts, StatusWritten
<1>2. ASSUME NEW reason \in Failures, NEW all \in BOOLEAN, NEW retry,
             pc # "idle", recordFailure(reason, all, retry)
      PROVE  gw' = gw \/ RecordsFailure
  <2>1. PatchStatus(FailureStatus(reason, all), retry, FALSE)
        /\ UNCHANGED <<objs, drift>>
    BY <1>2 DEF recordFailure, history
  <2>2. gw' = gw \/ StatusWritten(FailureStatus(reason, all))
    BY <1>1, <1>2, <2>1
  <2> QED
    BY <2>2 DEF RecordsFailure
<1>3. CASE FailValidation \/ FailSecret \/ FailRender
  <2>1. CASE FailValidation \/ FailRender
    BY <1>2, <2>1 DEF FailValidation, FailRender, Failures
  <2>2. CASE FailSecret
    <3>1. resolution \in Failures
      BY <2>2 DEF FailSecret, Failures
    <3> QED
      BY <1>2, <2>2, <3>1 DEF FailSecret
  <2> QED
    BY <1>3, <2>1, <2>2
<1>4. CASE updateStatus
  BY <1>1, <1>4 DEF updateStatus, history, Reports
<1>5. ASSUME NEW s \in Specs, EditSpec(s) PROVE Edited
  <2>1. gw.alive /\ UNCHANGED <<objs, drift>>
    BY <1>5 DEF EditSpec, history
  <2> QED
    BY <1>5, <2>1, EditEffect DEF Facts, Edited
<1>6. CASE DeleteGateway
  BY <1>6 DEF DeleteGateway, Deleted, history, Facts, TypeOK, TypeServer, Gateway
<1>7. CASE \/ StartReconcile \/ ResolveSecret \/ Render \/ ApplyDone
           \/ ListOrphans \/ OrphansDone \/ ListDeployments
           \/ ListStatefulSets \/ Fault
           \/ \E o \in Objects : ApplyObject(o) \/ DeleteOrphan(o)
  BY <1>7 DEF StartReconcile, ResolveSecret, Render, ApplyDone, ListOrphans, OrphansDone,
     ListDeployments, ListStatefulSets, ListWorkloads, Fault, ApplyObject,
     DeleteOrphan, server
<1>8. CASE Runtime \/ Restart \/ UNCHANGED vars
  BY <1>8 DEF Runtime, BackoffExpires, TimerFires, SyncGateway, SyncObject,
     Restart, server, vars
<1>9. CASE \/ \E o \in Objects : CollectGarbage(o) \/ DriftObject(o, Absent)
           \/ \E o \in Extras, s \in Specs :
                 DriftObject(o, NewObject(o, s, "user"))
           \/ \E f \in Outcomes : ChangeSecret(f)
           \/ \E c \in Components : WorkloadStep(c) \/ LoseReplica(c)
  BY <1>9 DEF CollectGarbage, DriftObject, ChangeSecret, WorkloadStep,
     ObserveWorkload, RollOut, LoseReplica, SetObject
<1> QED
  BY <1>3, <1>4, <1>5, <1>6, <1>7, <1>8, <1>9
     DEF Next, Reconcile, ReconcileStep, Environment

(***************************************************************************)
(* No status write marks a generation other than the stored one.           *)
(***************************************************************************)
THEOREM StatusCurrent == Spec => StatusIsCurrent
<1>1. ASSUME Facts, [Next]_vars
      PROVE  [gw'.status # gw.status =>
                gw'.status.observedGeneration = gw'.generation]_vars
  <2> SUFFICES ASSUME gw'.status # gw.status
               PROVE  gw'.status.observedGeneration = gw'.generation
    OBVIOUS
  <2>1. Reports \/ RecordsFailure
    BY <1>1, GatewayMoves DEF Edited, Deleted
  <2>2. CASE Reports
    BY <2>2 DEF Reports, StatusWritten, UpdatedStatus
  <2>3. CASE RecordsFailure
    <3>1. PICK reason, all : StatusWritten(FailureStatus(reason, all))
      BY <2>3 DEF RecordsFailure
    <3>2. held.status \in Status
      BY <1>1 DEF Facts, TypeOK, TypeRun, Gateway
    <3>3. FailureStatus(reason, all).observedGeneration = held.generation
      BY <3>2 DEF FailureStatus, Status
    <3> QED
      BY <3>1, <3>3 DEF StatusWritten
  <2> QED
    BY <2>1, <2>2, <2>3
<1> QED
  BY <1>1, FactsInvariant, PTL DEF Spec, StatusIsCurrent

(***************************************************************************)
(* Nothing is deleted as an orphan before everything rendered is in place. *)
(***************************************************************************)
THEOREM OrphansLast == Spec => ReplacedBeforeDeleted
<1>1. ASSUME Facts, NEW o \in Objects, gw.alive, DeleteOrphan(o),
             NEW p \in Rendered[held.spec] \ (drift \cup Missing)
      PROVE  Owned(p) /\ objs[p].spec = held.spec
  <2>1. pc = "orphans" /\ todo = {}
    BY <1>1 DEF DeleteOrphan, Facts, ProgressMade
  <2>2. p \in Undisturbed
    BY SpecsAssumption, <1>1 DEF Facts, TypeOK, TypeRun, Gateway, Undisturbed
  <2>3. Settled(p, held.spec)
    BY <1>1, <2>1, <2>2 DEF Facts, ProgressMade, AfterApply
  <2> QED
    BY <1>1, <2>3 DEF Settled
<1>2. ASSUME Facts
      PROVE  [\A o \in Objects : gw.alive /\ DeleteOrphan(o) =>
                \A p \in Rendered[held.spec] \ (drift \cup Missing) :
                   Owned(p) /\ objs[p].spec = held.spec]_vars
  BY <1>1, <1>2
<1> QED
  BY <1>2, FactsInvariant, PTL DEF ReplacedBeforeDeleted

-------------------------------------------------------------------------------
(* Ready and the component conditions. *)

\* A component the reconcile found no workload for has the counts 0/0.
CountsListed == \A c \in Components : comps[c].set \/ comps[c] = Unreported

LEMMA CountsListedNext ==
  ASSUME TypeOK, CountsListed, [Next]_vars
  PROVE  CountsListed'
<1>1. ASSUME NEW here, NEW listed, NEW next, ListWorkloads(here, listed, next)
      PROVE  CountsListed'
  <2>1. \A c \in Components : ComponentOf(c).set \/ ComponentOf(c) = Unreported
    BY DEF ComponentOf
  <2> QED
    BY <1>1, <2>1 DEF ListWorkloads, CountsListed
<1>2. ASSUME comps' = comps \/ comps' = NoComps PROVE CountsListed'
  BY <1>2 DEF CountsListed, NoComps
<1>3. CASE ListDeployments \/ ListStatefulSets
  BY <1>1, <1>3 DEF ListDeployments, ListStatefulSets
<1>4. CASE FailValidation \/ FailSecret \/ FailRender \/ updateStatus
  BY <1>2, <1>4 DEF FailValidation, FailSecret, FailRender, updateStatus,
     recordFailure, PatchStatus, Return
<1>5. CASE \/ StartReconcile \/ ResolveSecret \/ Render \/ ApplyDone
           \/ ListOrphans \/ OrphansDone \/ Fault \/ Restart
           \/ \E o \in Objects : ApplyObject(o) \/ DeleteOrphan(o)
  BY <1>2, <1>5 DEF StartReconcile, ResolveSecret, Render, ApplyDone, ListOrphans, OrphansDone,
     Fault, Restart, ApplyObject, DeleteOrphan, Return
<1>6. CASE Runtime \/ UNCHANGED vars
  BY <1>2, <1>6 DEF Runtime, BackoffExpires, TimerFires, SyncGateway, SyncObject,
     run, vars
<1>7. CASE Environment
  BY <1>2, <1>7 DEF Environment, EditSpec, DeleteGateway, CollectGarbage,
     DriftObject, ChangeSecret, WorkloadStep, ObserveWorkload, RollOut,
     LoseReplica, SetObject, run
<1> QED
  BY <1>3, <1>4, <1>5, <1>6, <1>7 DEF Next, Reconcile, ReconcileStep

\* The condition of ReadyIsConjunction on one status.
LEMMA ReportIsConjunction ==
  ASSUME TypeOK, CountsListed, UpdatedStatus.ready.status = "True"
  PROVE  /\ UpdatedStatus.ready.generation = UpdatedStatus.observedGeneration
         /\ \A c \in Components :
              /\ UpdatedStatus.available[c].status = "True"
              /\ UpdatedStatus.available[c].generation
                   = UpdatedStatus.ready.generation
              /\ UpdatedStatus.components[c].set
              /\ available(UpdatedStatus.components[c])
<1>1. AllAvailable
  BY DEF UpdatedStatus, Verdict
<1>2. ASSUME NEW c \in Components PROVE available(comps[c]) /\ comps[c].set
  <2>1. ~available(Unreported)
    BY DEF available, Unreported
  <2> QED
    BY <1>1, <2>1 DEF AllAvailable, CountsListed
<1>3. UpdatedStatus.ready.generation = UpdatedStatus.observedGeneration
      /\ UpdatedStatus.ready.generation = held.generation
  BY DEF UpdatedStatus, Verdict
<1>4. ASSUME NEW c \in Components
      PROVE  /\ UpdatedStatus.available[c]
                  = Verdict(available(comps[c]), "Available", "Unavailable")
             /\ UpdatedStatus.components[c] = comps[c]
  BY <1>2 DEF UpdatedStatus
<1>5. ASSUME NEW c \in Components
      PROVE  /\ UpdatedStatus.available[c].status = "True"
             /\ UpdatedStatus.available[c].generation = held.generation
  <2>1. UpdatedStatus.available[c] = Verdict(TRUE, "Available", "Unavailable")
    <3>1. available(comps[c]) = TRUE
      BY <1>2, Zenon DEF available
    <3> QED
      BY <1>4, <3>1
  <2> QED
    BY <2>1 DEF Verdict
<1> QED
  BY <1>2, <1>3, <1>4, <1>5

ReadyFacts == Facts /\ CountsListed /\ ReadyIsConjunction

LEMMA ReadyInit == Init => CountsListed /\ ReadyIsConjunction
<1> SUFFICES ASSUME Init PROVE CountsListed /\ ReadyIsConjunction
  OBVIOUS
<1>1. CountsListed
  BY DEF Init, CountsListed, NoComps
<1>2. PICK s \in Specs : gw = [NoGateway EXCEPT !.alive = TRUE,
        !.generation = 1, !.resourceVersion = 1, !.spec = s]
  BY DEF Init
<1>3. gw.status.ready.status = "Unknown"
  BY <1>2 DEF NoGateway, NoStatus, NoCondition
<1> QED
  BY <1>1, <1>3 DEF ReadyIsConjunction

LEMMA ReadyNext ==
  ASSUME ReadyFacts, [Next]_vars
  PROVE  ReadyIsConjunction'
<1> USE DEF ReadyFacts
<1>1. CASE gw'.status = gw.status
  BY <1>1 DEF ReadyIsConjunction
<1>2. CASE Reports
  <2>1. gw'.status = UpdatedStatus
    BY <1>2 DEF Reports, StatusWritten
  <2> QED
    BY <2>1, ReportIsConjunction DEF Facts, ReadyIsConjunction
<1>3. CASE RecordsFailure
  <2>1. PICK reason, all : gw'.status = FailureStatus(reason, all)
    BY <1>3 DEF RecordsFailure, StatusWritten
  <2>2. held.status \in Status
    BY DEF Facts, TypeOK, TypeRun, Gateway
  <2>3. FailureStatus(reason, all).ready.status = "False"
    BY <2>2 DEF FailureStatus, Failed, Status
  <2> QED
    BY <2>1, <2>3 DEF ReadyIsConjunction
<1> QED
  BY <1>1, <1>2, <1>3, GatewayMoves DEF Edited, Deleted

(***************************************************************************)
(* A gateway that says Ready says so of one generation and of every        *)
(* component, for any number of components and whichever of the two status *)
(* writers came last.                                                      *)
(***************************************************************************)
THEOREM ReadyConjunction == Spec => []ReadyIsConjunction
<1>1. Init => CountsListed /\ ReadyIsConjunction
  BY ReadyInit
<1>2. ReadyFacts /\ [Next]_vars => (CountsListed /\ ReadyIsConjunction)'
  BY CountsListedNext, ReadyNext DEF ReadyFacts, Facts
<1> QED
  BY <1>1, <1>2, FactsInvariant, PTL DEF Spec, ReadyFacts

-------------------------------------------------------------------------------
(* The reconciler rests only on a status it would write again. *)

LEMMA ListingKept ==
  ASSUME cachedObjs' = cachedObjs, NEW c PROVE ComponentOf(c)' = ComponentOf(c)
  BY DEF ComponentOf, ReplicaStatus

\* An event that is not queued says nothing about the gateway's workloads.
LEMMA UnqueuedEvent ==
  ASSUME TypeOK, NEW o \in Objects, SyncObject(o), ~queued', NEW c \in Components
  PROVE  ComponentOf(c)' = ComponentOf(c)
<1>1. /\ cachedObjs' = [cachedObjs EXCEPT ![o] = objs[o]]
      /\ ~Owned(o) /\ ~(cachedObjs[o].exists /\ cachedObjs[o].owner = "gateway")
  BY DEF SyncObject
<1>2. cachedObjs \in [Objects -> Object]
  BY DEF TypeOK, TypeCaches
<1>3. CASE c = o
  BY <1>1, <1>2, <1>3 DEF ComponentOf, Owned
<1>4. CASE c # o
  <2>1. cachedObjs'[c] = cachedObjs[c]
    BY <1>1, <1>2, <1>4 DEF Objects
  <2> QED
    BY <2>1 DEF ComponentOf, ReplicaStatus
<1> QED
  BY <1>3, <1>4

\* The running reconcile, and what it has listed, are as before.
LEMMA UpToDateKept ==
  ASSUME RunUpToDate, UNCHANGED <<pc, held, resolution, comps>>,
         queued => queued',
         queued' \/ (/\ UNCHANGED <<secret, unnoticed>>
                     /\ \A c \in Components : ComponentOf(c)' = ComponentOf(c))
  PROVE  RunUpToDate'
  BY DEF RunUpToDate

LEMMA UpToDateNext ==
  ASSUME TypeOK, RunUpToDate, [Next]_vars
  PROVE  RunUpToDate'
<1>1. ASSUME pc' \in {"idle", "read"} PROVE RunUpToDate'
  BY <1>1 DEF RunUpToDate
<1>2. CASE \/ StartReconcile \/ FailValidation \/ FailSecret \/ FailRender
           \/ updateStatus \/ Fault \/ Restart
  <2>1. CASE StartReconcile
    BY <1>1, <2>1 DEF StartReconcile
  <2>2. CASE FailValidation \/ FailSecret \/ FailRender \/ updateStatus
    BY <1>1, <2>2 DEF FailValidation, FailSecret, FailRender, updateStatus,
       recordFailure, PatchStatus, Return
  <2>3. CASE Fault \/ Restart
    BY <1>1, <2>3 DEF Fault, Restart, Return
  <2> QED
    BY <1>2, <2>1, <2>2, <2>3
<1>3. CASE ResolveSecret \/ Render
  BY <1>3 DEF ResolveSecret, Render, server, queue, history, RunUpToDate
<1>4. CASE ApplyDone \/ \E o \in Objects : ApplyObject(o) \/ DeleteOrphan(o)
  BY <1>4 DEF ApplyDone, ApplyObject, DeleteOrphan, server, queue, history,
              RunUpToDate
<1>5. CASE ListOrphans
  BY <1>5 DEF ListOrphans, server, queue, history, RunUpToDate
<1>6. CASE OrphansDone
  <2>1. CASE errs
    BY <1>1, <1>6, <2>1 DEF OrphansDone, Return
  <2>2. CASE ~errs
    BY <1>6, <2>2 DEF OrphansDone, server, queue, history, RunUpToDate
  <2> QED
    BY <2>1, <2>2
<1>7. ASSUME NEW here, NEW listed, NEW next, ListWorkloads(here, listed, next)
      PROVE  /\ UNCHANGED <<held, resolution, secret, unnoticed, queued>>
             /\ pc = here /\ pc' = next
             /\ \A c \in Components : ComponentOf(c)' = ComponentOf(c)
             /\ \A c \in Components :
                  comps'[c] = IF c \in listed THEN ComponentOf(c) ELSE comps[c]
  BY <1>7, ListingKept DEF ListWorkloads, server, queue, caches, history
<1>8. CASE ListDeployments
  BY <1>7, <1>8 DEF ListDeployments, RunUpToDate
<1>9. CASE ListStatefulSets
  BY <1>7, <1>9 DEF ListStatefulSets, RunUpToDate
<1>10. CASE BackoffExpires \/ TimerFires \/ SyncGateway
  BY <1>10, UpToDateKept DEF BackoffExpires, TimerFires, SyncGateway, run
<1>11. ASSUME NEW o \in Objects, SyncObject(o) PROVE RunUpToDate'
  <2>1. /\ UNCHANGED <<pc, held, resolution, comps, secret, unnoticed>>
        /\ queued => queued'
    BY <1>11 DEF SyncObject, run, server, history
  <2> QED
    BY <1>11, <2>1, UnqueuedEvent, UpToDateKept
<1>12. ASSUME NEW f \in Outcomes, ChangeSecret(f) PROVE RunUpToDate'
  <2>1. /\ UNCHANGED <<pc, held, resolution, comps, cachedObjs>>
        /\ queued => queued'
    BY <1>12, Zenon DEF ChangeSecret, run, caches
  <2>2. queued' \/ unnoticed'
    BY <1>12, Zenon DEF ChangeSecret
  <2> QED
    BY <2>1, <2>2, ListingKept DEF RunUpToDate
<1>13. CASE \/ \E s \in Specs : EditSpec(s)
            \/ DeleteGateway
            \/ \E o \in Objects : CollectGarbage(o) \/ DriftObject(o, Absent)
            \/ \E o \in Extras, s \in Specs :
                  DriftObject(o, NewObject(o, s, "user"))
            \/ \E c \in Components : WorkloadStep(c) \/ LoseReplica(c)
            \/ UNCHANGED vars
  <2>1. UNCHANGED <<pc, held, resolution, comps, secret, unnoticed, queued,
                    cachedObjs>>
    BY <1>13 DEF EditSpec, DeleteGateway, CollectGarbage, DriftObject,
       WorkloadStep, ObserveWorkload, RollOut, LoseReplica, SetObject, caches,
       queue, run, vars, server, history
  <2> QED
    BY <2>1, ListingKept, UpToDateKept
<1> QED
  BY <1>2, <1>3, <1>4, <1>5, <1>6, <1>8, <1>9, <1>10, <1>11, <1>12, <1>13
     DEF Next, Reconcile, ReconcileStep, Runtime, Environment

\* A patch after which the reconciler rests succeeded and changed nothing: a
\* refused or failed one is retried, a written one comes back as an event.
LEMMA PatchRests ==
  ASSUME TypeOK, VersionsOrdered, pc # "idle", NEW st, NEW err, NEW requeue,
         PatchStatus(st, err, requeue), UNCHANGED cachedGw, Rests'
  PROVE  /\ ~err /\ ~queued /\ gw' = gw /\ gw.status = st
         /\ held.generation = gw.generation /\ held.spec = gw.spec
         /\ requeue /\ SyncPeriod > 0 => timer'
<1>1. ASSUME NEW e, NEW r, Return(e, r)
      PROVE  ~e /\ ~queued /\ (r /\ SyncPeriod > 0 => timer')
  <2>1. ~queued' /\ ~backoff'
    BY DEF Rests
  <2> QED
    BY <1>1, <2>1, Zenon DEF Return
<1>2. ~Return(TRUE, FALSE)
  BY <1>1
<1>3. VersionMatches /\ WriteStatus(st) /\ Return(err, requeue)
  BY <1>2 DEF PatchStatus
<1>4. ~err /\ ~queued /\ (requeue /\ SyncPeriod > 0 => timer')
  BY <1>1, <1>3
<1>5. st = gw.status
  <2> SUFFICES ASSUME st # gw.status PROVE FALSE
    OBVIOUS
  <2>1. gw' = [gw EXCEPT !.status = st,
                         !.resourceVersion = gw.resourceVersion + 1]
    BY <1>3 DEF WriteStatus
  <2>2. gw'.resourceVersion = gw.resourceVersion + 1
    BY <2>1 DEF TypeOK, TypeServer, Gateway
  <2>3. cachedGw.resourceVersion <= gw.resourceVersion
    BY DEF VersionsOrdered
  <2>4. cachedGw = gw'
    BY DEF Rests
  <2> QED
    BY <2>2, <2>3, <2>4, VersionTypes
<1>6. gw' = gw
  BY <1>3, <1>5 DEF WriteStatus
<1>7. held.generation = gw.generation /\ held.spec = gw.spec
  BY <1>3 DEF VersionMatches, VersionsOrdered, SameVersion
<1> QED
  BY <1>4, <1>5, <1>6, <1>7

LEMMA RestKept ==
  ASSUME NothingOverlooked,
         gw'.alive /\ Rests' => /\ UNCHANGED <<gw, timer>> /\ Rests
                                /\ UNCHANGED <<secret, unnoticed>> \/ unnoticed'
                                /\ \A c \in Components :
                                     ComponentOf(c)' = ComponentOf(c)
  PROVE  NothingOverlooked'
<1> SUFFICES ASSUME gw'.alive, Rests' PROVE NothingOverlooked'
  BY DEF NothingOverlooked
<1>1. ASSUME NEW f \in Outcomes, Answers(gw.status, f)
      PROVE  Answers(gw.status, f)'
  BY <1>1 DEF Answers, Reported, ReportsCaches
<1>2. PICK f \in Outcomes : (f = secret \/ unnoticed) /\ Answers(gw.status, f)
  BY DEF NothingOverlooked
<1>3. f = secret' \/ unnoticed'
  BY <1>2
<1> QED
  BY <1>1, <1>2, <1>3 DEF NothingOverlooked

LEMMA updateStatusRests ==
  ASSUME TypeOK, VersionsOrdered, RunUpToDate, updateStatus
  PROVE  NothingOverlooked'
<1> SUFFICES ASSUME Rests' PROVE NothingOverlooked'
  BY DEF NothingOverlooked
<1>1. /\ ~queued /\ gw' = gw /\ gw.status = UpdatedStatus
      /\ held.generation = gw.generation /\ held.spec = gw.spec
      /\ SyncPeriod > 0 => timer'
  BY PatchRests DEF updateStatus, caches
<1>2. /\ gw.spec \in Accepted \cap Renderable
      /\ "usable" = secret' \/ unnoticed'
      /\ \A c \in Components : comps[c] = ComponentOf(c)
  BY <1>1 DEF RunUpToDate, updateStatus, history
<1>3. \A c \in Components : ComponentOf(c)' = ComponentOf(c)
  BY ListingKept DEF updateStatus, caches
<1>4. /\ gw.status.observedGeneration = gw.generation
      /\ gw.status.ready.reason \in {"AllComponentsReady", "ComponentsNotReady"}
      /\ gw.status.ready.status = "True" <=> AllAvailable
      /\ \A c \in Components :
           gw.status.available[c].status = "True" <=> available(comps[c])
  BY <1>1 DEF UpdatedStatus, Verdict
<1>5. ReportsCaches(gw.status)'
  BY <1>1, <1>2, <1>3, <1>4 DEF ReportsCaches, AllAvailable
<1>6. Reported(gw)'
  BY <1>1, <1>4 DEF Reported
<1>7. Answers(gw.status, "usable")'
  BY <1>1, <1>2, <1>5, <1>6 DEF Answers
<1> QED
  BY <1>1, <1>2, <1>4, <1>7 DEF NothingOverlooked, Outcomes

LEMMA recordFailureRests ==
  ASSUME TypeOK, VersionsOrdered, RunUpToDate,
         FailValidation \/ FailSecret \/ FailRender
  PROVE  NothingOverlooked'
<1> SUFFICES ASSUME Rests' PROVE NothingOverlooked'
  BY DEF NothingOverlooked
<1>1. ASSUME NEW reason, NEW all, NEW retry, pc # "idle",
             recordFailure(reason, all, retry)
      PROVE  /\ ~retry /\ ~queued /\ gw' = gw
             /\ UNCHANGED <<secret, unnoticed>>
             /\ gw.status.observedGeneration = gw.generation
             /\ gw.status.ready.reason = reason
             /\ held.spec = gw.spec
  <2>1. PatchStatus(FailureStatus(reason, all), retry, FALSE)
        /\ UNCHANGED <<cachedGw, secret, unnoticed>>
    BY <1>1 DEF recordFailure, caches, history
  <2>2. /\ ~retry /\ ~queued /\ gw' = gw /\ gw.status = FailureStatus(reason, all)
        /\ held.generation = gw.generation /\ held.spec = gw.spec
    BY <1>1, <2>1, PatchRests
  <2>3. held.status \in Status
    BY DEF TypeOK, TypeRun, Gateway
  <2>4. /\ FailureStatus(reason, all).observedGeneration = held.generation
        /\ FailureStatus(reason, all).ready.reason = reason
    BY <2>3 DEF FailureStatus, Failed, Status
  <2> QED
    BY <2>1, <2>2, <2>4
<1>2. CASE FailValidation
  <2>1. secret' \in Outcomes /\ Answers(gw.status, secret)'
    BY <1>1, <1>2 DEF FailValidation, Answers, TypeOK, TypeServer
  <2> QED
    BY <1>1, <1>2, <2>1 DEF FailValidation, NothingOverlooked
<1>3. CASE FailSecret
  <2>1. /\ resolution \in Outcomes /\ resolution # "usable"
        /\ (resolution = secret \/ unnoticed) /\ held.spec \in Accepted
    BY <1>1, <1>3, ReasonsAssumption DEF FailSecret, RunUpToDate, Outcomes
  <2>2. /\ gw' = gw /\ UNCHANGED <<secret, unnoticed>>
        /\ gw.status.observedGeneration = gw.generation
        /\ gw.status.ready.reason = resolution /\ held.spec = gw.spec
    BY <1>1, <1>3 DEF FailSecret
  <2>3. PICK f \in Outcomes : f = resolution
    BY <2>1
  <2>4. Answers(gw.status, f)'
    BY <2>1, <2>2, <2>3 DEF Answers
  <2> QED
    BY <2>1, <2>2, <2>3, <2>4 DEF NothingOverlooked
<1>4. CASE FailRender
  BY <1>1, <1>4 DEF FailRender
<1> QED
  BY <1>2, <1>3, <1>4

LEMMA RestNext ==
  ASSUME TypeOK, VersionsOrdered, RunUpToDate, NothingOverlooked, [Next]_vars
  PROVE  NothingOverlooked'
<1>1. ASSUME ~Rests' \/ ~gw'.alive PROVE NothingOverlooked'
  BY <1>1 DEF NothingOverlooked
<1>2. CASE StartReconcile
  <2>1. CASE cachedGw.alive
    BY <1>1, <1>2, <2>1 DEF StartReconcile, Rests
  <2>2. CASE ~cachedGw.alive
    BY <1>1, <1>2, <2>2 DEF StartReconcile, Rests, server, caches
  <2> QED
    BY <2>1, <2>2
<1>3. CASE FailValidation \/ FailSecret \/ FailRender \/ updateStatus
  BY <1>3, recordFailureRests, updateStatusRests
<1>4. CASE \/ ResolveSecret \/ Render \/ ApplyDone \/ ListOrphans
           \/ ListDeployments \/ ListStatefulSets
           \/ \E o \in Objects : ApplyObject(o) \/ DeleteOrphan(o)
  <2>1. pc' # "idle"
    BY <1>4 DEF ResolveSecret, Render, ApplyDone, ListOrphans, ListDeployments,
       ListStatefulSets, ListWorkloads, ApplyObject, DeleteOrphan
  <2> QED
    BY <1>1, <2>1 DEF Rests
<1>5. CASE OrphansDone \/ Fault
  <2>1. pc' # "idle" \/ Return(TRUE, FALSE)
    BY <1>5 DEF OrphansDone, Fault
  <2>2. Return(TRUE, FALSE) => backoff'
    BY Zenon DEF Return
  <2> QED
    BY <1>1, <2>1, <2>2 DEF Rests
<1>6. CASE BackoffExpires \/ TimerFires \/ SyncGateway \/ Restart
  <2>1. queued'
    BY <1>6 DEF BackoffExpires, TimerFires, SyncGateway, Restart
  <2> QED
    BY <1>1, <2>1 DEF Rests
<1>7. ASSUME NEW o \in Objects, SyncObject(o) PROVE NothingOverlooked'
  <2>1. UNCHANGED <<gw, secret, unnoticed, timer, cachedGw, pc, backoff>>
        /\ (queued => queued')
    BY <1>7 DEF SyncObject, server, run, history
  <2>2. Rests' => Rests /\ ~queued'
    BY <2>1 DEF Rests
  <2> QED
    BY <1>7, <2>1, <2>2, UnqueuedEvent, RestKept
<1>8. ASSUME NEW s \in Specs, EditSpec(s) PROVE NothingOverlooked'
  <2>1. /\ gw'.resourceVersion = gw.resourceVersion + 1
        /\ cachedGw' = cachedGw
        /\ cachedGw.resourceVersion <= gw.resourceVersion
    BY <1>8, EditEffect DEF EditSpec, caches, VersionsOrdered
  <2>2. cachedGw' # gw'
    BY <2>1, VersionTypes
  <2> QED
    BY <1>1, <2>2 DEF Rests
<1>9. CASE DeleteGateway
  <2>1. ~gw'.alive
    BY <1>9 DEF DeleteGateway, TypeOK, TypeServer, Gateway
  <2> QED
    BY <1>1, <2>1
<1>10. CASE \/ \E o \in Objects : CollectGarbage(o) \/ DriftObject(o, Absent)
            \/ \E o \in Extras, s \in Specs :
                  DriftObject(o, NewObject(o, s, "user"))
            \/ \E c \in Components : WorkloadStep(c) \/ LoseReplica(c)
            \/ UNCHANGED vars
  <2>1. UNCHANGED <<gw, secret, unnoticed, timer, cachedGw, cachedObjs, pc,
                    backoff, queued>>
    BY <1>10 DEF CollectGarbage, DriftObject, WorkloadStep, ObserveWorkload,
       RollOut, LoseReplica, SetObject, caches, queue, run, vars, server, history
  <2>2. Rests' <=> Rests
    BY <2>1 DEF Rests
  <2> QED
    BY <2>1, <2>2, ListingKept, RestKept
<1>11. ASSUME NEW f \in Outcomes, ChangeSecret(f) PROVE NothingOverlooked'
  <2>1. UNCHANGED <<gw, timer, cachedGw, cachedObjs, pc, backoff>>
    BY <1>11 DEF ChangeSecret, caches, run
  <2>2. (queued => queued') /\ (queued' \/ unnoticed')
    BY <1>11, Zenon DEF ChangeSecret
  <2>3. Rests' => Rests /\ unnoticed'
    BY <2>1, <2>2 DEF Rests
  <2> QED
    BY <2>1, <2>3, ListingKept, RestKept
<1> QED
  BY <1>2, <1>3, <1>4, <1>5, <1>6, <1>7, <1>8, <1>9, <1>10, <1>11
     DEF Next, Reconcile, ReconcileStep, Runtime, Environment

(***************************************************************************)
(* A reconciler that waits for nothing but the periodic resync has left a  *)
(* status it would write again: the failure still stands, or the report    *)
(* still agrees with the caches.  So, for any number of components, edits, *)
(* faults and restarts, no event that comes in the middle of a run, no     *)
(* refused patch and no error is overlooked.  Of the Secret this is only   *)
(* claimed up to changes that are no event: such a change, after the last  *)
(* resolution, is all that can make the recorded answer an old one.        *)
(***************************************************************************)
THEOREM NothingIsOverlooked == Spec => []NothingOverlooked
<1>1. Init => RunUpToDate /\ NothingOverlooked
  BY DEF Init, RunUpToDate, NothingOverlooked, Rests
<1>2. Facts /\ RunUpToDate /\ NothingOverlooked /\ [Next]_vars
        => (RunUpToDate /\ NothingOverlooked)'
  BY UpToDateNext, RestNext DEF Facts
<1> QED
  BY <1>1, <1>2, FactsInvariant, PTL DEF Spec

-------------------------------------------------------------------------------
(* The reconciler implements the contract of its API. *)

LEMMA ContractInit == Init => Contract!Init
<1> SUFFICES ASSUME Init PROVE Contract!Init
  OBVIOUS
<1>1. PICK s \in Specs : gw = [NoGateway EXCEPT !.alive = TRUE,
        !.generation = 1, !.resourceVersion = 1, !.spec = s]
  BY DEF Init
<1>2. /\ gw.alive = TRUE /\ gw.generation = 1
      /\ gw.status.observedGeneration = 0 /\ gw.status.ready.reason = ""
  BY <1>1 DEF NoGateway, NoStatus, NoCondition
<1> QED
  BY <1>2 DEF Contract!Init, VerdictOf

\* What the status vouches for is Settled, in the contract's terms.
LEMMA VerdictProcessed ==
  ASSUME NEW st
  PROVE  VerdictOf(st) \in Contract!Processed <=>
           st.ready.reason \in {"AllComponentsReady", "ComponentsNotReady"}
  BY DEF VerdictOf, Contract!Processed

LEMMA ContractNext ==
  ASSUME Facts, Facts', [Next]_vars
  PROVE  [Contract!Next]_(Contract!vars)
<1> DEFINE done == \A o \in Undisturbed : Settled(o, gw.spec)
<1>1. done \in BOOLEAN /\ done' \in BOOLEAN
  OBVIOUS
<1>2. CASE gw' = gw
  <2>1. Contract!Bound => done'
    BY <1>2, VerdictProcessed DEF Contract!Bound, Facts, ObservedMeansApplied,
       Reported, Undisturbed
  <2> QED
    BY <1>1, <1>2, <2>1 DEF Contract!Next, Contract!Work
<1>3. ASSUME NEW st, StatusWritten(st), VerdictOf(st) \in Contract!Verdicts,
             st.observedGeneration = held.generation,
             VerdictOf(st) \in Contract!Processed => done
      PROVE  Contract!Judge(VerdictOf(st))
  <2>1. done' <=> done
    BY <1>3 DEF StatusWritten, Settled, Owned, Undisturbed
  <2> QED
    BY <1>1, <1>3, <2>1 DEF StatusWritten, Contract!Judge
<1>4. CASE Reports
  <2>1. VerdictOf(UpdatedStatus) \in Contract!Verdicts
    <3>1. UpdatedStatus.ready.reason \in {"AllComponentsReady", "ComponentsNotReady"}
      BY DEF UpdatedStatus, Verdict
    <3> QED
      BY <3>1, VerdictProcessed DEF Contract!Verdicts
  <2>2. done
    BY <1>4 DEF Reports, StatusWritten, Facts, ProgressMade, AfterApply,
                AfterOrphans, Settled
  <2>3. UpdatedStatus.observedGeneration = held.generation
    BY DEF UpdatedStatus
  <2> QED
    BY <1>3, <1>4, <2>1, <2>2, <2>3 DEF Reports, Contract!Next
<1>5. CASE RecordsFailure
  <2>1. PICK reason \in Failures, all \in BOOLEAN :
           StatusWritten(FailureStatus(reason, all))
    BY <1>5 DEF RecordsFailure
  <2>2. held.status \in Status
    BY DEF Facts, TypeOK, TypeRun, Gateway
  <2>3. /\ FailureStatus(reason, all).observedGeneration = held.generation
        /\ FailureStatus(reason, all).ready.reason = reason
    BY <2>2 DEF FailureStatus, Failed, Status
  <2>4. VerdictOf(FailureStatus(reason, all)) = "failed"
    BY <2>3, ReasonsAssumption DEF VerdictOf, Failures
  <2>5. "failed" \in Contract!Verdicts /\ "failed" \notin Contract!Processed
    BY DEF Contract!Verdicts, Contract!Processed
  <2>6. Contract!Judge("failed")
    BY <1>3, <2>1, <2>3, <2>4, <2>5
  <2> QED
    BY <2>5, <2>6 DEF Contract!Next
<1>6. CASE Edited
  BY <1>1, <1>6 DEF Edited, Contract!Next, Contract!Edit
<1>7. CASE Deleted
  <2>1. done' = done
    BY <1>7 DEF Deleted, Settled, Owned, Undisturbed
  <2>2. gw'.alive = FALSE
    BY <1>7 DEF Deleted, Facts, TypeOK, TypeServer, Gateway
  <2>3. VerdictOf(gw.status)' = VerdictOf(gw.status)
    BY <1>7 DEF Deleted, VerdictOf
  <2>4. Contract!Delete
    BY <1>7, <2>1, <2>2, <2>3 DEF Deleted, Contract!Delete
  <2> QED
    BY <2>4 DEF Contract!Next
<1> QED
  BY <1>2, <1>4, <1>5, <1>6, <1>7, GatewayMoves

(***************************************************************************)
(* Seen through generation and status, the reconciler's every behaviour is *)
(* one GatewayContract allows.                                             *)
(***************************************************************************)
THEOREM ContractImplemented == Spec => ImplementsContract
<1>1. Init => Contract!Init
  BY ContractInit
<1>2. Facts /\ Facts' /\ [Next]_vars => [Contract!Next]_(Contract!vars)
  BY ContractNext
<1> QED
  BY <1>1, <1>2, FactsInvariant, PTL DEF Spec, ImplementsContract, Contract!Spec
===============================================================================
