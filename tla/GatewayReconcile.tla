--------------------------- MODULE GatewayReconcile ---------------------------
(***************************************************************************)
(* The LLMBatchGateway reconciler: one LLMBatchGateway, the objects its    *)
(* charts render, the informer caches the reconciler reads from, the work  *)
(* queue that schedules it, and the outside world that edits, deletes and  *)
(* rolls things out meanwhile.                                             *)
(*                                                                         *)
(* One reconcile is a sequence of steps, one per call to the API server or *)
(* to a cache; every other actor may move between two of them.  The        *)
(* manager runs one reconcile at a time (MaxConcurrentReconciles is 1 and  *)
(* the replicas elect a leader), so its local variables are the module's.  *)
(***************************************************************************)
EXTENDS RolloutStatus, Sequences

CONSTANTS
  Components,     \* workloads with an Available condition of their own
  StatefulSets,   \* the components that are StatefulSets, not Deployments
  Extras,         \* the other objects a chart renders (Service, HTTPRoute..)
  managedGVKs,    \* the kinds scanned for orphans, in order
  KindOf,         \* the kind of each object
  Missing,        \* objects of a kind whose CRD is not installed
  Watched,        \* objects of a kind the controller Owns() (CRD at startup)
  Specs,          \* values of spec
  Accepted,       \* the specs validateSpec accepts
  Renderable,     \* the specs both charts render without an error
  Rendered,       \* the objects the charts render for a spec
  ReplicasOf,     \* the replica count a spec asks of every workload
  SecretFailures, \* permanent outcomes of resolveSecret
  GrantsWatched,  \* the ReferenceGrant CRD was installed at startup
  SyncPeriod,     \* --sync-period; 0 switches the periodic resync off
  MaxGeneration,  \* bound: edits of spec
  MaxFaults,      \* bound: API calls that fail or time out
  MaxRestarts,    \* bound: crashes of the operator
  MaxOutages,     \* bound: losses of a ready replica, changes of the Secret
  MaxDrifts,      \* bound: objects changed behind the operator's back
  MaxDeletes,     \* bound: deletions of the LLMBatchGateway (0 or 1)
  MaxDisruptions  \* bound: the last five together

Objects == Components \cup Extras

ASSUME ObjectsAssumption ==
  /\ StatefulSets \subseteq Components
  /\ Components \cap Extras = {}
  /\ managedGVKs \in Seq(STRING)
  /\ KindOf \in [Objects -> STRING]
  /\ \A o \in Objects : \E i \in 1..Len(managedGVKs) : managedGVKs[i] = KindOf[o]
  /\ Missing \subseteq Extras
  /\ Components \subseteq Watched /\ Watched \subseteq Objects

ASSUME SpecsAssumption ==
  /\ Specs # {}
  /\ Accepted \subseteq Specs
  /\ Renderable \subseteq Specs
  /\ Rendered \in [Specs -> SUBSET Objects]
  /\ ReplicasOf \in [Specs -> Nat]

ASSUME ReasonsAssumption ==
  /\ SecretFailures \subseteq {"ReferenceNotPermitted", "SecretRefImmutable"}
  /\ GrantsWatched \in BOOLEAN

ASSUME BoundsAssumption ==
  /\ SyncPeriod \in Nat /\ MaxGeneration \in Nat /\ MaxFaults \in Nat
  /\ MaxRestarts \in Nat /\ MaxOutages \in Nat /\ MaxDrifts \in Nat
  /\ MaxDeletes \in Nat /\ MaxDisruptions \in Nat

VARIABLES
  gw,         \* the LLMBatchGateway stored by the API server
  objs,       \* the objects stored by the API server
  secret,     \* what resolveSecret finds: "usable" or a permanent failure
  cachedGw,   \* the informer cache's LLMBatchGateway
  cachedObjs, \* the informer caches' objects
  queued,     \* the key is in the work queue (or dirty while in process)
  backoff,    \* a rate-limited requeue is pending
  timer,      \* a RequeueAfter(SyncPeriod) is pending
  pc,         \* where the running reconcile is, "idle" if none runs
  held,       \* the gateway the running reconcile read
  resolution, \* what resolveSecret has told it, "none" before
  todo,       \* rendered objects not yet applied
  kinds,      \* the kinds not yet scanned for orphans
  found,      \* orphans listed and not yet deleted
  errs,       \* deleteOrphanedResources has collected an error
  comps,      \* componentStatus under construction
  drift,      \* history: objects changed by others since last applied
  unnoticed,  \* history: secret has changed with no event since last resolved
  budget      \* how often each bounded outside event has happened

server    == <<gw, objs, secret>>
caches    == <<cachedGw, cachedObjs>>
queue     == <<queued, backoff, timer>>
run       == <<pc, held, resolution, todo, kinds, found, errs, comps>>
history   == <<drift, unnoticed>>
vars      == <<server, caches, queue, run, history, budget>>

Outcomes == {"usable"} \cup SecretFailures

(***************************************************************************)
(* Status of an LLMBatchGateway.                                           *)
(***************************************************************************)
NoCondition == [status |-> "Unknown", reason |-> "", generation |-> 0]
Unreported  == [set |-> FALSE, replicas |-> 0, readyReplicas |-> 0]
NoComps     == [c \in Components |-> Unreported]
NoStatus    == [observedGeneration |-> 0,
                ready     |-> NoCondition,
                available |-> [c \in Components |-> NoCondition],
                components |-> NoComps]
NoGateway   == [alive |-> FALSE, generation |-> 0, resourceVersion |-> 0,
                spec |-> CHOOSE s \in Specs : TRUE, status |-> NoStatus]

Reasons == {"", "AllComponentsReady", "ComponentsNotReady", "Available",
            "Unavailable", "ValidationFailed", "RenderFailed",
            "ReferenceNotPermitted", "SecretRefImmutable"}

Condition == [status : {"Unknown", "True", "False"}, reason : Reasons,
              generation : Nat]
Component == [set : BOOLEAN, replicas : Nat, readyReplicas : Nat]
Status    == [observedGeneration : Nat, ready : Condition,
              available : [Components -> Condition],
              components : [Components -> Component]]
Gateway   == [alive : BOOLEAN, generation : Nat, resourceVersion : Nat,
              spec : Specs, status : Status]

(***************************************************************************)
(* An object.  Of owner references only "controlled by the gateway" or not *)
(* matters; of its content, the spec it was rendered from.                 *)
(***************************************************************************)
Object == [exists : BOOLEAN, owner : {"gateway", "user"}, spec : Specs,
           generation : Nat, desired : Nat, observedGeneration : Nat,
           updatedReplicas : Nat, replicas : Nat, readyReplicas : Nat,
           revised : BOOLEAN]
Absent == [exists |-> FALSE, owner |-> "user", spec |-> NoGateway.spec,
           generation |-> 0, desired |-> 0, observedGeneration |-> 0,
           updatedReplicas |-> 0, replicas |-> 0, readyReplicas |-> 0,
           revised |-> TRUE]
NewObject(o, s, who) ==
  [Absent EXCEPT !.exists = TRUE, !.owner = who, !.spec = s, !.generation = 1,
                 !.desired = IF o \in Components THEN ReplicasOf[s] ELSE 0]

Owned(o) == objs[o].exists /\ objs[o].owner = "gateway"

(***************************************************************************)
(* utils.ServerSideApply with ForceOwnership: the object is created, or    *)
(* its content and controller reference are overwritten.  The generation   *)
(* moves only when the content does.                                       *)
(***************************************************************************)
\* Mutant: the rendered object gets no controller reference.
MutAppliedUnowned(o, s) ==
  IF objs[o].exists /\ objs[o].spec = s THEN objs[o]
                                        ELSE NewObject(o, s, "user")

Applied(o, s) ==
  IF ~objs[o].exists THEN NewObject(o, s, "gateway")
  ELSE IF objs[o].spec = s THEN [objs[o] EXCEPT !.owner = "gateway"]
  ELSE [objs[o] EXCEPT !.owner = "gateway", !.spec = s,
                       !.generation = objs[o].generation + 1,
                       !.desired = IF o \in Components THEN ReplicasOf[s]
                                                       ELSE 0]

(***************************************************************************)
(* The reconcile's exits.  An error is retried with backoff, a success     *)
(* comes back after SyncPeriod, a permanent failure does not come back.    *)
(***************************************************************************)
\* Mutant: RequeueAfter is not set.
MutReturnNoRequeue(err, requeue) ==
  /\ pc' = "idle" /\ held' = NoGateway /\ resolution' = "none" /\ todo' = {}
  /\ kinds' = <<>> /\ found' = {} /\ errs' = FALSE /\ comps' = NoComps
  /\ backoff' = (backoff \/ err)
  /\ UNCHANGED <<queued, timer>>

Return(err, requeue) ==
  /\ pc' = "idle" /\ held' = NoGateway /\ resolution' = "none" /\ todo' = {}
  /\ kinds' = <<>> /\ found' = {} /\ errs' = FALSE /\ comps' = NoComps
  /\ backoff' = (backoff \/ err)
  /\ timer' = (timer \/ (requeue /\ SyncPeriod > 0))
  /\ UNCHANGED queued

(***************************************************************************)
(* An outside event that happens a bounded number of times.                *)
(***************************************************************************)
Disruptions == budget.faults + budget.restarts + budget.outages
                 + budget.drifts + budget.deletes

Spend(what, max) == /\ budget[what] < max /\ Disruptions < MaxDisruptions
                    /\ budget' = [budget EXCEPT ![what] = budget[what] + 1]

(***************************************************************************)
(* StatusPatch.Apply: a merge patch that carries the resourceVersion the   *)
(* reconcile read.  The API server refuses it (409, or 404) unless that is *)
(* still the stored version; a patch that changes nothing writes nothing.  *)
(* The call may fail, before or after the server wrote the patch.          *)
(***************************************************************************)
\* Mutant: the patch without its resourceVersion.
MutVersionUnchecked == gw.alive

VersionMatches == gw.alive /\ gw.resourceVersion = held.resourceVersion

WriteStatus(st) ==
  gw' = IF st = gw.status THEN gw
        ELSE [gw EXCEPT !.status = st,
                        !.resourceVersion = gw.resourceVersion + 1]

PatchStatus(st, err, requeue) ==
  \/ /\ VersionMatches
     /\ WriteStatus(st)
     /\ Return(err, requeue) /\ UNCHANGED budget
  \/ /\ ~VersionMatches
     /\ UNCHANGED gw
     /\ Return(TRUE, FALSE) /\ UNCHANGED budget
  \/ /\ Spend("faults", MaxFaults)
     /\ UNCHANGED gw \/ (VersionMatches /\ WriteStatus(st))
     /\ Return(TRUE, FALSE)

(***************************************************************************)
(* recordFailure sets the given conditions False and observedGeneration;   *)
(* it leaves the other conditions and componentStatus as they are.         *)
(***************************************************************************)
Failed(reason) == [status |-> "False", reason |-> reason,
                   generation |-> held.generation]

\* Mutant: conditionReady is missing from the list of failed conditions.
MutFailureKeepsReady(reason, all) ==
  [held.status EXCEPT
     !.observedGeneration = held.generation,
     !.available = IF all THEN [c \in Components |-> Failed(reason)]
                          ELSE held.status.available]

FailureStatus(reason, all) ==
  [held.status EXCEPT
     !.observedGeneration = held.generation,
     !.ready = Failed(reason),
     !.available = IF all THEN [c \in Components |-> Failed(reason)]
                          ELSE held.status.available]

recordFailure(reason, all, retry) ==
  /\ PatchStatus(FailureStatus(reason, all), retry, FALSE)
  /\ UNCHANGED <<objs, secret, caches, history>>

(***************************************************************************)
(* reconcile: read the gateway from the cache.                             *)
(***************************************************************************)
StartReconcile ==
  /\ pc = "idle" /\ queued
  /\ queued' = FALSE
  /\ IF cachedGw.alive
       THEN pc' = "read" /\ held' = cachedGw
       ELSE UNCHANGED <<pc, held>>
  /\ UNCHANGED <<server, caches, backoff, timer, resolution, todo, kinds,
                 found, errs, comps, history, budget>>

FailValidation ==
  /\ pc = "read" /\ held.spec \notin Accepted
  /\ recordFailure("ValidationFailed", TRUE, FALSE)

ResolveSecret ==
  /\ pc = "read" /\ held.spec \in Accepted
  /\ pc' = "resolved" /\ resolution' = secret /\ unnoticed' = FALSE
  /\ UNCHANGED <<server, caches, queue, held, todo, kinds, found, errs, comps,
                 drift, budget>>

FailSecret ==
  /\ pc = "resolved" /\ resolution \in SecretFailures
  /\ recordFailure(resolution, FALSE, FALSE)

FailRender ==
  /\ pc = "resolved" /\ resolution = "usable"
  /\ held.spec \notin Renderable
  /\ recordFailure("RenderFailed", FALSE, TRUE)

Render ==
  /\ pc = "resolved" /\ resolution = "usable"
  /\ held.spec \in Renderable
  /\ pc' = "apply"
  /\ todo' = Rendered[held.spec]
  /\ UNCHANGED <<server, caches, queue, held, resolution, kinds, found, errs,
                 comps, history, budget>>

(***************************************************************************)
(* The apply loop, in the charts' map order (any order).  An object whose  *)
(* kind is not installed is skipped.                                       *)
(***************************************************************************)
ApplyObject(o) ==
  /\ pc = "apply" /\ o \in todo
  /\ todo' = todo \ {o}
  /\ IF o \in Missing
       THEN UNCHANGED <<objs, drift>>
       ELSE /\ objs' = [objs EXCEPT ![o] = Applied(o, held.spec)]
            /\ drift' = drift \ {o}
  /\ UNCHANGED <<gw, secret, caches, queue, pc, held, resolution, kinds, found,
                 errs, comps, unnoticed, budget>>

ApplyDone ==
  /\ pc = "apply" /\ todo = {}
  /\ pc' = "orphans" /\ kinds' = managedGVKs
  /\ UNCHANGED <<server, caches, queue, held, resolution, todo, found, errs,
                 comps, history, budget>>

(***************************************************************************)
(* deleteOrphanedResources: list a kind from the API server, keep what the *)
(* gateway controls and the charts did not render, delete it by name.  An  *)
(* error in either call is collected and the scan goes on.                 *)
(***************************************************************************)
Orphans(k) == {o \in Objects : /\ KindOf[o] = k /\ o \notin Missing
                               /\ Owned(o) /\ o \notin Rendered[held.spec]}

ListOrphans ==
  /\ pc = "orphans" /\ found = {} /\ kinds # <<>>
  /\ kinds' = Tail(kinds)
  /\ \/ found' = Orphans(Head(kinds)) /\ UNCHANGED <<errs, budget>>
     \/ /\ Spend("faults", MaxFaults)
        /\ errs' = TRUE /\ UNCHANGED found
  /\ UNCHANGED <<server, caches, queue, pc, held, resolution, todo, comps,
                 history>>

DeleteOrphan(o) ==
  /\ pc = "orphans" /\ o \in found
  /\ found' = found \ {o}
  /\ \/ /\ objs' = [objs EXCEPT ![o] = Absent]
        /\ drift' = drift \ {o}
        /\ UNCHANGED <<errs, budget>>
     \/ /\ Spend("faults", MaxFaults)
        /\ errs' = TRUE /\ UNCHANGED <<objs, drift>>
  /\ UNCHANGED <<gw, secret, caches, queue, pc, held, resolution, todo, kinds,
                 comps, unnoticed>>

\* Mutant: the collected errors are not returned.
MutOrphanErrorsDropped ==
  /\ pc = "orphans" /\ kinds = <<>> /\ found = {}
  /\ pc' = "deployments"
  /\ UNCHANGED <<server, caches, queue, held, resolution, todo, kinds, found,
                 errs, comps, history, budget>>

OrphansDone ==
  /\ pc = "orphans" /\ kinds = <<>> /\ found = {}
  /\ IF errs
       THEN Return(TRUE, FALSE)
       ELSE /\ pc' = "deployments"
            /\ UNCHANGED <<queue, held, resolution, todo, kinds, found, errs,
                           comps>>
  /\ UNCHANGED <<server, caches, history, budget>>

(***************************************************************************)
(* updateStatus: list the Deployments, then the StatefulSets, both from    *)
(* the cache, and derive the component status of those the gateway owns.   *)
(***************************************************************************)
ReplicaStatus(c) ==
  IF c \in StatefulSets THEN statefulSetReplicaStatus(cachedObjs[c])
                        ELSE deploymentReplicaStatus(cachedObjs[c])

ComponentOf(c) ==
  IF cachedObjs[c].exists /\ cachedObjs[c].owner = "gateway"
    THEN [set |-> TRUE, replicas |-> ReplicaStatus(c).replicas,
          readyReplicas |-> ReplicaStatus(c).readyReplicas]
    ELSE Unreported

ListWorkloads(here, listed, next) ==
  /\ pc = here
  /\ comps' = [c \in Components |-> IF c \in listed THEN ComponentOf(c)
                                                    ELSE comps[c]]
  /\ pc' = next
  /\ UNCHANGED <<server, caches, queue, held, resolution, todo, kinds, found,
                 errs, history, budget>>

ListDeployments  == ListWorkloads("deployments", Components \ StatefulSets,
                                  "statefulsets")
ListStatefulSets == ListWorkloads("statefulsets", StatefulSets, "patch")

AllAvailable == \A c \in Components : available(comps[c])

\* Mutant: the event reason ends up in the condition.
MutVerdictReason(ok, yes, no) == [status |-> IF ok THEN "True" ELSE "False",
                                  reason |-> IF ok THEN yes ELSE "ApplyFailed",
                                  generation |-> held.generation]

Verdict(ok, yes, no) == [status |-> IF ok THEN "True" ELSE "False",
                         reason |-> IF ok THEN yes ELSE no,
                         generation |-> held.generation]

\* The merge patch omits the fields of components without a workload, so the
\* server keeps what it had for them.
UpdatedStatus ==
  [ observedGeneration |-> held.generation,
    ready      |-> Verdict(AllAvailable, "AllComponentsReady",
                           "ComponentsNotReady"),
    available  |-> [c \in Components |-> Verdict(available(comps[c]),
                                            "Available", "Unavailable")],
    components |-> [c \in Components |-> IF comps[c].set THEN comps[c]
                                         ELSE held.status.components[c]] ]

\* Events, like the Ready transition's, are not modelled.
updateStatus ==
  /\ pc = "patch"
  /\ PatchStatus(UpdatedStatus, FALSE, TRUE)
  /\ UNCHANGED <<objs, secret, caches, history>>

(***************************************************************************)
(* A call of the running reconcile fails or the reconcile times out before *)
(* the call has an effect (resolving the Secret, applying, listing): the   *)
(* error is returned.                                                      *)
(***************************************************************************)
\* Mutant: a failed apply is logged and the loop goes on; other errors are
\* returned.
MutFaultContinues ==
  /\ pc \in {"read", "apply", "deployments", "statefulsets"}
  /\ Spend("faults", MaxFaults)
  /\ IF pc = "apply" /\ todo # {}
       THEN /\ \E o \in todo : todo' = todo \ {o}
            /\ UNCHANGED <<queue, pc, held, resolution, kinds, found, errs, comps>>
       ELSE Return(TRUE, FALSE)
  /\ UNCHANGED <<server, caches, history>>

\* Mutant: the error of a failed call is logged and not returned.
MutFaultSwallowed ==
  /\ pc \in {"read", "apply", "deployments", "statefulsets"}
  /\ Spend("faults", MaxFaults)
  /\ Return(FALSE, FALSE)
  /\ UNCHANGED <<server, caches, history>>

Fault ==
  /\ pc \in {"read", "apply", "deployments", "statefulsets"}
  /\ Spend("faults", MaxFaults)
  /\ Return(TRUE, FALSE)
  /\ UNCHANGED <<server, caches, history>>

(***************************************************************************)
(* Work queue and informers; a kind that is not watched has no informer.   *)
(* An event about the gateway, or about a watched object it owns before or *)
(* after the change, queues the key.                                       *)
(***************************************************************************)
BackoffExpires ==
  /\ backoff /\ backoff' = FALSE /\ queued' = TRUE
  /\ UNCHANGED <<server, caches, timer, run, history, budget>>

TimerFires ==
  /\ timer /\ timer' = FALSE /\ queued' = TRUE
  /\ UNCHANGED <<server, caches, backoff, run, history, budget>>

SyncGateway ==
  /\ cachedGw # gw
  /\ cachedGw' = gw /\ queued' = TRUE
  /\ UNCHANGED <<server, cachedObjs, backoff, timer, run, history, budget>>

\* Mutant: only the owner after the change is queued for an event.
MutSyncNewOwner(o) ==
  /\ o \in Watched /\ cachedObjs[o] # objs[o]
  /\ cachedObjs' = [cachedObjs EXCEPT ![o] = objs[o]]
  /\ queued' = (queued \/ Owned(o))
  /\ UNCHANGED <<server, cachedGw, backoff, timer, run, history, budget>>

SyncObject(o) ==
  /\ o \in Watched /\ cachedObjs[o] # objs[o]
  /\ cachedObjs' = [cachedObjs EXCEPT ![o] = objs[o]]
  /\ queued' = (queued \/ Owned(o) \/ /\ cachedObjs[o].exists
                                      /\ cachedObjs[o].owner = "gateway")
  /\ UNCHANGED <<server, cachedGw, backoff, timer, run, history, budget>>

\* What an initial list of the watched kinds puts into the caches.
Listed == [o \in Objects |-> IF o \in Watched THEN objs[o] ELSE Absent]

(***************************************************************************)
(* A restarted operator lists everything anew and forgets its timers.      *)
(***************************************************************************)
Restart ==
  /\ Spend("restarts", MaxRestarts)
  /\ pc' = "idle" /\ held' = NoGateway /\ resolution' = "none" /\ todo' = {}
  /\ kinds' = <<>> /\ found' = {} /\ errs' = FALSE /\ comps' = NoComps
  /\ cachedGw' = gw /\ cachedObjs' = Listed
  /\ queued' = TRUE /\ backoff' = FALSE /\ timer' = FALSE
  /\ UNCHANGED <<server, history>>

(***************************************************************************)
(* The outside world: users, the Secret and its grants, Kubernetes'        *)
(* workload controllers and garbage collector.                             *)
(***************************************************************************)
EditSpec(s) ==
  /\ gw.alive /\ gw.generation < MaxGeneration /\ s # gw.spec
  /\ gw' = [gw EXCEPT !.spec = s, !.generation = gw.generation + 1,
                      !.resourceVersion = gw.resourceVersion + 1]
  /\ UNCHANGED <<objs, secret, caches, queue, run, history, budget>>

DeleteGateway ==
  /\ gw.alive /\ Spend("deletes", MaxDeletes)
  /\ gw' = [gw EXCEPT !.alive = FALSE]
  /\ UNCHANGED <<objs, secret, caches, queue, run, history>>

CollectGarbage(o) ==
  /\ ~gw.alive /\ Owned(o)
  /\ objs' = [objs EXCEPT ![o] = Absent]
  /\ UNCHANGED <<gw, secret, caches, queue, run, history, budget>>

\* A grant that comes or goes is an event if grants are watched.  The managed
\* copy is not watched: that it makes secretRef immutable, or no longer does,
\* is no event.
Announced(f) == GrantsWatched /\ "SecretRefImmutable" \notin {secret, f}

ChangeSecret(f) ==
  /\ f # secret /\ Spend("outages", MaxOutages)
  /\ secret' = f
  /\ queued' = (queued \/ Announced(f))
  /\ unnoticed' = (unnoticed \/ ~Announced(f))
  /\ UNCHANGED <<gw, objs, caches, backoff, timer, run, drift>>

DriftObject(o, obj) ==
  /\ Spend("drifts", MaxDrifts) /\ o \notin Missing /\ objs[o] # obj
  /\ objs' = [objs EXCEPT ![o] = obj]
  /\ drift' = drift \cup {o}
  /\ UNCHANGED <<gw, secret, caches, queue, run, unnoticed>>

SetObject(o, obj) ==
  /\ objs' = [objs EXCEPT ![o] = obj]
  /\ UNCHANGED <<gw, secret, caches, queue, run, history>>

RolledOut(c) == IF c \in StatefulSets THEN statefulSetRolledOut(objs[c])
                                      ELSE deploymentRolledOut(objs[c])

ObserveWorkload(c) ==
  /\ objs[c].exists /\ objs[c].observedGeneration < objs[c].generation
  /\ SetObject(c, [objs[c] EXCEPT !.observedGeneration = objs[c].generation,
                                  !.updatedReplicas = 0, !.revised = FALSE])
  /\ UNCHANGED budget

RollOut(c) ==
  /\ objs[c].exists /\ objs[c].observedGeneration = objs[c].generation
  /\ ~RolledOut(c)
  /\ SetObject(c, [objs[c] EXCEPT !.updatedReplicas = objs[c].desired,
                                  !.replicas = objs[c].desired,
                                  !.readyReplicas = objs[c].desired,
                                  !.revised = TRUE])
  /\ UNCHANGED budget

LoseReplica(c) ==
  /\ objs[c].exists /\ objs[c].readyReplicas > 0
  /\ Spend("outages", MaxOutages)
  /\ SetObject(c, [objs[c] EXCEPT !.readyReplicas = objs[c].readyReplicas - 1])

-------------------------------------------------------------------------------
Init ==
  /\ \E s \in Specs :
       gw = [NoGateway EXCEPT !.alive = TRUE, !.generation = 1,
                              !.resourceVersion = 1, !.spec = s]
  /\ objs = [o \in Objects |-> Absent]
  /\ secret \in Outcomes
  /\ cachedGw = gw /\ cachedObjs = objs
  /\ queued = TRUE /\ backoff = FALSE /\ timer = FALSE
  /\ pc = "idle" /\ held = NoGateway /\ resolution = "none" /\ todo = {}
  /\ kinds = <<>> /\ found = {} /\ errs = FALSE /\ comps = NoComps
  /\ drift = {} /\ unnoticed = FALSE
  /\ budget = [faults |-> 0, restarts |-> 0, outages |-> 0, drifts |-> 0,
               deletes |-> 0]

ReconcileStep ==
  \/ FailValidation \/ ResolveSecret \/ FailSecret \/ FailRender \/ Render
  \/ \E o \in Objects : ApplyObject(o) \/ DeleteOrphan(o)
  \/ ApplyDone \/ ListOrphans \/ OrphansDone
  \/ ListDeployments \/ ListStatefulSets \/ updateStatus

Reconcile == StartReconcile \/ ReconcileStep

Runtime ==
  \/ BackoffExpires \/ TimerFires \/ SyncGateway
  \/ \E o \in Objects : SyncObject(o)

WorkloadStep(c) == ObserveWorkload(c) \/ RollOut(c)

Environment ==
  \/ \E s \in Specs : EditSpec(s)
  \/ DeleteGateway
  \/ \E o \in Objects : \/ CollectGarbage(o)
                        \/ DriftObject(o, Absent)
  \/ \E o \in Extras, s \in Specs : DriftObject(o, NewObject(o, s, "user"))
  \/ \E f \in Outcomes : ChangeSecret(f)
  \/ \E c \in Components : WorkloadStep(c) \/ LoseReplica(c)

Next == Reconcile \/ Fault \/ Runtime \/ Restart \/ Environment

Spec == Init /\ [][Next]_vars

(***************************************************************************)
(* Fairness: a worker goroutine keeps taking work, timers expire, watches  *)
(* deliver, Kubernetes' controllers make progress.  Nothing is assumed of  *)
(* users, faults and crashes.                                              *)
(***************************************************************************)
Fairness ==
  /\ WF_vars(StartReconcile) /\ WF_vars(ReconcileStep)
  /\ WF_vars(BackoffExpires) /\ WF_vars(TimerFires) /\ WF_vars(SyncGateway)
  /\ \A o \in Objects : WF_vars(SyncObject(o)) /\ WF_vars(CollectGarbage(o))
  /\ \A c \in Components : WF_vars(WorkloadStep(c))

FairSpec == Spec /\ Fairness
-------------------------------------------------------------------------------
TypeServer == /\ gw \in Gateway
              /\ objs \in [Objects -> Object]
              /\ secret \in Outcomes
TypeCaches == /\ cachedGw \in Gateway
              /\ cachedObjs \in [Objects -> Object]
TypeQueue  == queued \in BOOLEAN /\ backoff \in BOOLEAN /\ timer \in BOOLEAN
TypeRun    == /\ pc \in {"idle", "read", "resolved", "apply", "orphans",
                         "deployments", "statefulsets", "patch"}
              /\ held \in Gateway
              /\ resolution \in {"none"} \cup Outcomes
              /\ todo \subseteq Objects /\ found \subseteq Objects
              /\ kinds \in Seq(STRING)
              /\ errs \in BOOLEAN
              /\ comps \in [Components -> Component]
TypeHistory == /\ drift \subseteq Objects /\ unnoticed \in BOOLEAN
               /\ budget \in [faults : Nat, restarts : Nat, outages : Nat,
                              drifts : Nat, deletes : Nat]

(***************************************************************************)
(* The types of the variables.                                             *)
(***************************************************************************)
TypeOK == TypeServer /\ TypeCaches /\ TypeQueue /\ TypeRun /\ TypeHistory

(***************************************************************************)
(* A status is only ever written for the generation that is stored at that *)
(* moment: a reconcile that worked from a stale cache, or was overtaken by *)
(* an edit, never marks the newer generation as observed and never         *)
(* replaces a newer status by an older one.                                *)
(***************************************************************************)
StatusIsCurrent ==
  [][gw'.status # gw.status =>
        gw'.status.observedGeneration = gw'.generation]_vars

(***************************************************************************)
(* What "observedGeneration was processed" means: when updateStatus has    *)
(* reported on the current generation, every object its spec renders is    *)
(* stored as rendered from that spec and controlled by the gateway, and no *)
(* object of an earlier spec is left, except what others changed since.    *)
(***************************************************************************)
Settled(o, s) ==
  IF o \in Rendered[s] THEN Owned(o) /\ objs[o].spec = s ELSE ~Owned(o)

Reported(g) ==
  /\ g.status.observedGeneration = g.generation
  /\ g.status.ready.reason \in {"AllComponentsReady", "ComponentsNotReady"}

ObservedMeansApplied ==
  gw.alive /\ Reported(gw) =>
    \A o \in Objects \ (drift \cup Missing) : Settled(o, gw.spec)

(***************************************************************************)
(* Why it holds.  Versions only grow along status, running reconcile,      *)
(* cache and server, and the running reconcile has done what its position  *)
(* says for the spec it holds, again except what others changed since.     *)
(***************************************************************************)
SameVersion(g, h) ==
  g.resourceVersion = h.resourceVersion =>
    g.generation = h.generation /\ g.spec = h.spec
SameGeneration(g, h) == g.generation = h.generation => g.spec = h.spec

VersionsOrdered ==
  /\ gw.status.observedGeneration <= cachedGw.generation
  /\ cachedGw.generation <= gw.generation
  /\ cachedGw.resourceVersion <= gw.resourceVersion
  /\ SameVersion(cachedGw, gw) /\ SameGeneration(cachedGw, gw)
  /\ pc # "idle" =>
       /\ gw.status.observedGeneration <= held.generation
       /\ held.generation <= cachedGw.generation
       /\ held.resourceVersion <= gw.resourceVersion
       /\ SameVersion(held, gw) /\ SameGeneration(held, gw)

AfterApply   == {"orphans", "deployments", "statefulsets", "patch"}
AfterOrphans == {"deployments", "statefulsets", "patch"}
Undisturbed  == Objects \ (drift \cup Missing)

ProgressMade ==
  /\ pc = "apply" => todo \subseteq Rendered[held.spec]
  /\ pc # "apply" => todo = {}
  /\ pc = "orphans" \/ found = {}
  /\ pc = "orphans" => found \cap Rendered[held.spec] = {}
  /\ gw.alive /\ pc \in AfterApply \cup {"apply"} =>
       \A o \in Undisturbed \ todo :
          o \in Rendered[held.spec] => Settled(o, held.spec)
  /\ gw.alive /\ pc = "orphans" /\ ~errs =>
       \A o \in Undisturbed \ (Rendered[held.spec] \cup found) :
          Owned(o) => \E i \in 1..Len(kinds) : kinds[i] = KindOf[o]
  /\ gw.alive /\ pc \in AfterOrphans =>
       \A o \in Undisturbed \ Rendered[held.spec] : ~Owned(o)

(***************************************************************************)
(* An orphan is deleted only when everything the current run rendered is   *)
(* in place: a failed apply never costs the objects of the previous spec.  *)
(***************************************************************************)
ReplacedBeforeDeleted ==
  [][\A o \in Objects : gw.alive /\ DeleteOrphan(o) =>
       \A p \in Rendered[held.spec] \ (drift \cup Missing) :
          Owned(p) /\ objs[p].spec = held.spec]_vars

(***************************************************************************)
(* Ready is the conjunction of the Available conditions, whichever of the  *)
(* two status writers (updateStatus, recordFailure) came last: a gateway   *)
(* that says Ready says so of one generation, with every component         *)
(* Available for that generation and its counts in agreement.              *)
(***************************************************************************)
ReadyIsConjunction ==
  gw.status.ready.status = "True" =>
    /\ gw.status.ready.generation = gw.status.observedGeneration
    /\ \A c \in Components :
         /\ gw.status.available[c].status = "True"
         /\ gw.status.available[c].generation = gw.status.ready.generation
         /\ gw.status.components[c].set
         /\ available(gw.status.components[c])

(***************************************************************************)
(* The reconciler rests only on a status it would write again.  When it    *)
(* waits for nothing but the periodic resync, and its cache has caught up  *)
(* with the gateway, the status answers the stored generation: with the    *)
(* failure a new run would find, or with what the caches now say of every  *)
(* workload, and then the resync is on its way.  No event that arrived     *)
(* during a run, conflict, error or lost answer is overlooked.  What has   *)
(* no event (a copy collected, a grant while grants are not watched) may   *)
(* leave the answer to an earlier resolution of the Secret.                *)
(***************************************************************************)
Rests == pc = "idle" /\ ~queued /\ ~backoff /\ cachedGw = gw

ReportsCaches(st) ==
  /\ \A c \in Components :
       st.available[c].status = "True" <=> available(ComponentOf(c))
  /\ st.ready.status = "True" <=>
       \A c \in Components : available(ComponentOf(c))

Answers(st, f) ==
  \/ gw.spec \notin Accepted /\ st.ready.reason = "ValidationFailed"
  \/ gw.spec \in Accepted /\ f # "usable" /\ st.ready.reason = f
  \/ /\ gw.spec \in Accepted \cap Renderable /\ f = "usable"
     /\ SyncPeriod > 0 => timer
     /\ Reported(gw) /\ ReportsCaches(st)

NothingOverlooked ==
  gw.alive /\ Rests =>
    /\ gw.status.observedGeneration = gw.generation
    /\ \E f \in Outcomes : /\ f = secret \/ unnoticed
                          /\ Answers(gw.status, f)

(***************************************************************************)
(* Why it holds: the running reconcile has got where it is for a reason    *)
(* that is still true, and has listed what the caches still hold, unless   *)
(* the key is queued again or, of the Secret, the change was no event.     *)
(***************************************************************************)
RunUpToDate ==
  /\ pc \notin {"idle", "read"} =>
       /\ held.spec \in Accepted
       /\ resolution = secret \/ queued \/ unnoticed
  /\ pc \notin {"idle", "read", "resolved"} =>
       held.spec \in Renderable /\ resolution = "usable"
  /\ pc = "statefulsets" /\ ~queued =>
       \A c \in Components \ StatefulSets : comps[c] = ComponentOf(c)
  /\ pc = "patch" /\ ~queued =>
       \A c \in Components : comps[c] = ComponentOf(c)

(***************************************************************************)
(* Level-triggered convergence: once edits, faults, restarts and drift     *)
(* stop, the status says what is true of the stored gateway, its objects   *)
(* are exactly what its spec renders, and it stays so.  No interleaving of *)
(* stale caches, conflicts and aborted runs loses the last wake-up; a      *)
(* change of the Secret that is no event is found by the resync, except by *)
(* a gateway refused before, which has none.                               *)
(***************************************************************************)
Truthful ==
  /\ gw.status.observedGeneration = gw.generation
  /\ IF gw.spec \notin Accepted
       THEN gw.status.ready.reason = "ValidationFailed"
     ELSE IF secret # "usable"
       THEN gw.status.ready.reason = secret
     ELSE IF gw.spec \notin Renderable
       THEN gw.status.ready.reason = "RenderFailed"
     ELSE /\ \A o \in Objects \ Missing : Settled(o, gw.spec)
          /\ (gw.status.ready.status = "True") =
               (\A c \in Components : Owned(c) /\ RolledOut(c)
                                               /\ objs[c].desired > 0)

RefusedUnaware == unnoticed /\ gw.status.ready.reason \in SecretFailures

Convergence == <>[](gw.alive => Truthful \/ RefusedUnaware)

(***************************************************************************)
(* After the gateway is deleted nothing it applied stays, although a       *)
(* reconcile with a stale cache may apply its objects once more: they all  *)
(* carry its controller reference.                                         *)
(***************************************************************************)
DeletedIsCollected ==
  <>[](gw.alive \/ \A o \in Objects \ drift : ~objs[o].exists)

(***************************************************************************)
(* The reconciler implements the contract of its API: seen through status  *)
(* and generation alone, every interleaving of reconciles, edits, conflicts*)
(* and restarts is one of GatewayContract's behaviours.  reported is what  *)
(* the two status writers leave; deployed excepts what others changed.     *)
(***************************************************************************)
VerdictOf(st) ==
  CASE st.ready.reason = ""                   -> "none"
    [] st.ready.reason = "AllComponentsReady" -> "ready"
    [] st.ready.reason = "ComponentsNotReady" -> "waiting"
    [] OTHER                                  -> "failed"

Contract == INSTANCE GatewayContract WITH
  alive      <- gw.alive,
  generation <- gw.generation,
  reported   <- [generation |-> gw.status.observedGeneration,
                 verdict    |-> VerdictOf(gw.status)],
  deployed   <- \A o \in Undisturbed : Settled(o, gw.spec)

ImplementsContract == Contract!Spec

(***************************************************************************)
(* The contract's liveness: a generation that stays without a verdict long *)
(* enough gets one, be it ready, waiting or failed.  No conflict, lost     *)
(* patch or crash leaves the status silent about the stored generation.    *)
(***************************************************************************)
AnswersGenerations == Contract!Fairness

-------------------------------------------------------------------------------
(***************************************************************************)
(* Statements of the API documentation, of comments and of tests that the  *)
(* code does not live up to; each is refuted by a run of its own.          *)
(***************************************************************************)

(***************************************************************************)
(* "A non-zero value [of readyReplicas] therefore means the rollout        *)
(* finished": the counts reported for the current generation are those of  *)
(* a workload whose controller has rolled that generation out.             *)
(***************************************************************************)
NonZeroMeansRolledOut ==
  \A c \in Components \ drift :
    gw.alive /\ Reported(gw) /\ gw.status.components[c].readyReplicas > 0 =>
      /\ objs[c].observedGeneration = objs[c].generation
      /\ objs[c].updatedReplicas = objs[c].desired

(***************************************************************************)
(* "ComponentStatus reports the replica counts for each managed            *)
(* component": a component whose condition says unavailable is not         *)
(* reported with all its replicas ready.                                   *)
(***************************************************************************)
CountsAgreeWithCondition ==
  \A c \in Components : gw.status.available[c].reason = "Unavailable" =>
                          ~available(gw.status.components[c])

===============================================================================
