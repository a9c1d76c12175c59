# Formal model of the llm-d batch gateway operator

This directory holds TLA+ models of the operator's controllers, the TLC
configurations that check them on small instances, and TLAPS proofs of the
results that matter most. Paths of source files are relative to the repository;
`PROJECT.json` maps every definition to the lines it models.

## 1. The system

The operator watches `LLMBatchGateway` resources. For each one it validates the
spec, makes the credentials Secret available in the gateway's namespace, renders
two Helm charts (batch-gateway and llm-d-async), applies the objects with
server-side apply, deletes what an earlier spec rendered and this one does not,
and writes the status. A second, smaller controller keeps the operator's own
metrics resources in place.

| Component | State | Operations | Modelled in |
|---|---|---|---|
| LLMBatchGateway reconciler (`internal/controller/llmbatchgateway_controller.go`, `statuspatch.go`, `internal/utils/utils.go`) | nothing in memory but the work queue; stored: gateway, status, objects | `reconcile`, `recordFailure`, `deleteOrphanedResources`, `updateStatus`, watches | `GatewayReconcile`, `RolloutStatus`; its contract in `GatewayContract` |
| Secret resolution and watch filter (`secret_sync.go`, `secret_watch_filter.go`) | the filter's set of tracked Secrets; stored: the managed copy | `resolveSecret`, `checkReferenceGrant`, `syncSecretCopy`, `enqueueForSecret`, `enqueueForReferenceGrant` | `SecretSync`; the contract of the copy in `CopyContract` |
| Spec validation and queue derivation (`validateSpec` and below, `helm_async.go`, parts of `helm_batch.go`) | none (pure) | validation, the values of both charts | `AsyncDispatch` |
| Metrics controller (`internal/monitoring`) | work queue; stored: Service, ServiceMonitor, PrometheusRule | three applies, watches, bootstrap request | `MetricsController` |
| Chart rendering (`helm.go`, `helm_batch.go`, `helm_async.go`) | none (pure) | spec to Helm values to objects | `ChartValues`; queue names in `AsyncDispatch`, rendering errors in `GatewayReconcile` |
| TLS profile (`internal/tls/profile.go`) | the settings read at startup | `Resolve`, `ProfileValuesFromSpec`, `SetupWatcher` | `TLSProfile` |
| Process startup (`cmd`) | flags | wiring | its TLS part in `TLSProfile`; otherwise constants and assumptions of the modules |
| API types (`api/v1alpha1`) | - | CRD schema | the spec in `ChartValues`, the status in `GatewayReconcile` |

**How they interact.** The reconciler reads the gateway, the workloads, Secrets
and grants from informer caches, which lag behind the API server, and writes to
the API server. Orphans are listed directly (unstructured lists bypass the
cache). Watches, a rate-limited requeue after an error and a `RequeueAfter` after
success put the gateway's key into a work queue that a single worker empties.
Around it act users, the workload controllers, the garbage collector and other
owners of objects. Processor and dispatcher, which the charts deploy, never talk
to the operator; they meet each other in queues whose names both sides derive
from the same spec.

**What is hard.** A reconcile is not atomic: each of its calls sees a different
moment, some through caches, and each may fail or time out, the last one after
the server has stored its effect. The operator may be killed between any two
calls and persists nothing of its own. Permanent failures are deliberately not
retried, so only the right watch can end them. Watches exist only for kinds whose
CRD was installed at startup, and Secret events pass a filter that is filled late.
Two writers share the status. `PROJECT.json` lists these under `hazards`, each at
its line, with the properties that cover it.

**What makes each part correct.**

* Reconciler: a status never speaks for a generation it did not process; a
  processed generation is really applied; orphans go only after their
  replacements are in place; Ready is the conjunction of the components; from
  every interleaving the state converges once the outside is quiet; deletion
  leaves nothing behind.
* Secret resolution: nothing is copied without the consent of the source's
  namespace; a rotation arrives; a refused gateway is woken when the refusal no
  longer holds; the copy goes with its gateway.
* Validation and queues: every accepted spec makes processor and dispatcher meet,
  one queue for one, and every published request is answered if the worker pools its
  queues name are there.
* Chart rendering: every setting of the manifest reaches the workloads it is for
  and no other, an explicit zero or empty list is told apart from an unset one, and
  the rendered workloads run the platform's images and can be found again.
* Metrics controller: the three resources end up as wanted after any change.
* TLS profile: the process ends up running with the cluster's settings whatever
  failed while it started, and the charts get exactly the profile's usable suites.

## 2. Modules

Each component module declares its parameters as CONSTANTS with a named ASSUME,
its state, one action per call or handler, `Init`, `Next`, `Spec`, `FairSpec` and
its properties. The `MC` modules only define small constant values. The
`_proof` modules hold the proofs.

### RolloutStatus
`deploymentReplicaStatus`, `statefulSetReplicaStatus`, `reportedReadyReplicas` and
the verdict of `setComponentAvailableCondition`, as operators on a record with the
fields of the Kubernetes object that the code reads.

### GatewayReconcile
One gateway (`gw`), the stored objects (`objs`), the caches (`cachedGw`,
`cachedObjs`), the work queue (`queued`, `backoff`, `timer`) and the local
variables of the running reconcile (`pc`, `held`, `resolution`, `todo`, `kinds`,
`found`, `errs`, `comps`). Actions in the order of the code: `StartReconcile` (the
cached read), `FailValidation`, `ResolveSecret`, `FailSecret`, `FailRender` (the three
uses of `recordFailure`, the second with what `resolveSecret` found before), `Render`, `ApplyObject`, `ApplyDone`, `ListOrphans`,
`DeleteOrphan`, `OrphansDone`, `ListDeployments`, `ListStatefulSets`,
`updateStatus`; `Fault` for a call that fails or the reconcile's timeout;
`SyncGateway` and `SyncObject` for the watches, `Restart` for a crash; and the
outside: `EditSpec`, `DeleteGateway`, `CollectGarbage`, `ChangeSecret`,
`DriftObject`, `ObserveWorkload`, `RollOut`, `LoseReplica`.

* A spec is a model value; what matters of it is whether it is accepted, whether
  it renders, which objects it renders and how many replicas it asks for. An
  object remembers the spec it was rendered from.
* A status patch carries the resourceVersion of the gateway that was read; the
  server refuses any other version, a patch that changes nothing does not move the
  version, and a failing patch may or may not have been stored. The merge patch
  omits components without a workload, so the server keeps their old counts.
* A cache jumps to the current state of an object; the states it skipped would
  only add wake-ups. A restart lists the current state. Kinds that were not
  installed at startup have no informer.
* Rendered objects are applied in any order: the order of the chart's templates
  is not fixed by the operator.
* One worker: `MaxConcurrentReconciles` is 1 and replicas elect a leader.
* `secret` is what `resolveSecret` would find: a usable Secret or one of its permanent
  failures. `ChangeSecret` wakes the gateway only where a watch announces the change
  (`Announced`): a grant, if the ReferenceGrant CRD was there at startup
  (`GrantsWatched`). The managed copy is not watched, so `SecretRefImmutable` comes and
  goes without an event.
* Two history variables: `drift`, the objects that others changed since the operator
  last wrote them, and `unnoticed`, whether `secret` has changed without an event since
  it was last resolved. Statements about objects except the former; a status may be the
  answer to an earlier resolution while the latter holds.
* Events sent through the recorder are left out: nothing reads them.

### GatewayContract
The abstract specification of the above, for whoever sees only `metadata.generation`
and the status: `Edit`, `Delete`, `Judge(v)` (a verdict ready, waiting or failed on
the generation stored at that moment), `Work` (the cluster changes). A verdict that
the spec was processed requires the cluster to be as the spec says, and from then on
binds the operator until the next edit. Caches, queue, retries and the order of the
calls do not appear. `GatewayReconcile` instantiates it as `Contract`: `reported` is
`observedGeneration` and the class of the Ready condition's reason (`VerdictOf`),
`deployed` says that every object that others have not changed since the operator
wrote it is as the stored spec renders it. `ImplementsContract` is the refinement of
its safety part, `AnswersGenerations` the contract's fairness: a generation
without a verdict gets one.

### ChartValues
From manifest to workloads. `RootFields` to `ResourceFields` are the API types: the
fields of every section and, of each field, what decides its fate on the way (a
pointer or a plain value, a default, a minimum, required). `Decode` is what the API
server and the JSON decoder make of a manifest, `WellFormed` what its schema admits of
each field, `Admitted` the validation rules that relate sections and fields, one
definition for each rule. `specToBatchHelmValues` and `specToAsyncHelmValues`, split as the code
is commented, yield the chart values as a set of pairs of path and value; `setIfNotEmpty`,
`SetIfNotNil` and `SetAlways` are the three ways in which the code passes a field on.
Values are "zero" or "set", with a second value where one is needed to see a change.
`splitImage` works on the sequence of an image's words and separators. `renderChart`
drops notes and blank documents and applies the label that `RenderAsyncChart` adds.
The user edits one field, adds a section or drops one; `Render` renders what is stored.

Left out of the values: keys that do not depend on the spec, empty maps (Helm merges
them without effect), `dbClient.type` (the schema allows one value), and the queue and
pool names, which `AsyncDispatch` models. A list of structs has no entry or one: the
code treats all entries alike.

### SecretSync
`resolveSecret` call by call for one gateway that may be edited, deleted and
recreated (with a new uid): `ReadCopy` (whose error the code ignores),
`FailImmutable`, `CheckGrant`, `FailNotPermitted`, `ReadSource`, `FailNoSource`,
`syncSecretCopy`, `Track` (the filter's `add`), `Finish` (everything after it in
`reconcile`, `GatewayReconcile`'s subject; the reason "Resolved" stands for the
ones `updateStatus` writes). The copy has no watch. Grants are records with their
`from` and `to` entries; `CRDAtStart` says whether the ReferenceGrant CRD exists
when the operator starts, `InstallCRD` adds it later without a watch.
`secretWatchFilter.remove` has no caller in the program and is not an action.

### CopyContract
The abstract specification of the managed copy, for the workloads that mount it and
the owner of the source: `Write` (with consent, with a version the source had, for an
incarnation the gateway had, and never backwards: `Supersedes`), `Remove`, and the
outside (`Rotate`, `Consent`, `Reincarnate`). `SecretSync` instantiates it as
`CopyPromise`: `version` is the stored sources, `consented` the references some stored
grant has ever permitted, `incarnation` the gateway's uid. `ImplementsCopyContract` is
the refinement. Caches, watches, retries and restarts do not appear, and neither does
the reconcile: the reads of `resolveSecret` are stutters, its write is `Write`. The
contract promises no source for ever: an edit of `secretRef` that the immutability check
misses (run `CopySourceChange`) is a `Write` from another consented reference.

### AsyncDispatch
`validateSpec` with all its helpers, the queue names, `redisQueues`, `sqlQueues`,
`defaultAsyncQueues` and the part of both charts' values that configures queues.
On top of them the deployed programs as the operator's comments and field
documentation describe them (external): the processor publishes to the request
queue it derives and stamps the result queue, the dispatcher serves the
configured queues whose gates open, and polling a SQL result queue takes whatever
is there. Of validation only acceptance is kept: the order of the checks decides
nothing but the message. A derived queue name is a pair of a prefix and a pool, a
name the user wrote is any other sequence, so a user may also write the derived
name of another pool. The sorted list of models is kept as the set of its positions,
and the derived queues as a function on them: what the code does with the list depends
on which model comes first for a name, not on where it ends up. `Serves` says when a
queue of the dispatcher takes a request and lets it pass: its gate and that of its
worker pool open, and the pool is there (`PoolOf`; a queue that names none belongs to
"default", which needs no entry). `validateSpec` accepts a queue that names another pool
than the configured ones, although the field's comment says it "must match a
workerPools[].name entry"; requests of such a queue are not served in the model, and
`PoolsNamed` is the premise of the statements that every request is.

### MetricsController
The three applies in their order, each able to fail, the retry, the watches of
the kinds installed at startup, the bootstrap request and changes by others. The
content of a resource is "as applied" or not. The Prometheus operator's CRDs come
as one bundle.

### TLSProfile
The life of a process as far as TLS goes: `FetchProfile` and `FetchAdherence`
(the two reads of `Resolve`, each with its transient error as an action of its
own), `Start` and `StartFails` (the rest of `main`), `Fail` (any other error or a
crash), `WatcherReconcile` and `Restart` (external: the watcher library and the
kubelet), `ChangeAPIServer`. After a transient error the profile is the default
but counts as fetched (`Bridged`), so a watcher is set up, whose first event then
ends the process. The resource may also be created while the process starts or runs;
a process that read its absence sets up no watcher, and `absent` records that. `WalkStep` is the body of the loop in
`batchGatewayCipherSuiteNames`, `WalkCipher` one round of it, `walk` its local variables,
`Accepted` whether `ProfileValuesFromSpec` then returns no error; the two lists the
library returns are given by the positions they come from. A cipher suite is its name. `NextProtos` and the
TLS options of the operator's own servers follow from the profile and are left out.

## 3. What the runs check

Passing runs:

| Run | What happens in it | What it shows |
|---|---|---|
| `ReconcileEdits` | an edit between specs with and without an HTTPRoute, a refused one and one that cannot be rendered, which fails with backoff again and again, also after a processed generation; a failing call or a crash at any point, lagging caches | `ObservedMeansApplied`, `StatusIsCurrent`, `ReplacedBeforeDeleted`, `ReadyIsConjunction` with both status writers at work, `NothingOverlooked`, `Convergence` although permanent failures are not retried; `ImplementsContract` and `AnswersGenerations` |
| `Disruptions` | a StatefulSet, a watched route and an object whose CRD is missing, of a spec that can be rendered or not, and no edit; one disruption of any kind: a failing call, a crash, a Secret that becomes unusable or usable with or without an event, an object changed, replaced or deleted by others, the deletion of the gateway | `NothingOverlooked`: the reconciler rests only on a status it would write again; `Convergence` through events, backoff and the resync timer, `DeletedIsCollected` |
| `SecretSafety` | three references, four grants of different shapes, an early or late CRD, an edit, a failing call | `CopiedOnlyWithGrant`, `RefusalStillHolds`, `NobodyForgotten` |
| `SecretRotation` | rotation, a deleted copy, a recreated gateway, a failing call, a restart | `RotationArrives`, `CopyCollected`; `ImplementsCopyContract`: neither a lagging cache nor a retry takes the copy back |
| `AsyncQueues` | all combinations of models and queues, and of transports, gates, worker pools (one that is missing included) and URLs | `QueuesOneForOne`, `NoneStranded`, `RequestsAnswered` |
| `ChartDelivery` | four gateways, from one that writes only what is required to one that writes everything, with either storage and transport and images with tag, digest, both or neither; every one or two edits of a field or section, rendered between | `EditsArrive`, `NoNilPassed`, `KeysUnique`, `EndpointsInherited`, `WorkloadsIdentified` |
| `MetricsUpkeep` | CRDs early or late, a change of each resource, two failing calls, a restart | `RestsOnlyWhenDone`, `AlwaysPresent` |
| `TLSReload` | 287 profiles, with, without or with a late APIServer resource; two failing reads or crashes, two changes of profile or policy | `NoChangeMissed`, `SettingsInForce`, `ConversionExact` |

Runs that refute a statement of the repository (each is a finding in
`PROJECT.json`):

| Run | Statement | What TLC finds |
|---|---|---|
| `StaleReady` | "A non-zero value [of readyReplicas] therefore means the rollout finished" | `updateStatus` reads a workload from a cache that has not seen the apply of the same reconcile, and reports the previous rollout for the new generation |
| `KeptCounts` | "ComponentStatus reports the replica counts for each managed component" | a component whose workload is gone keeps its old counts beside a condition that says unavailable |
| `CopySourceChange` | "secretRef is immutable once a managed copy exists" | the comparison reads the copy from a cache that does not show it yet; an early edit replaces the copied credentials |
| `RecreatedStuck` | "delete and recreate the LLMBatchGateway to use a different Secret" | the old copy, not yet collected, makes the new gateway fail as immutable; when it is collected nothing wakes the gateway (until an unrelated event or the informers' own resync) |

One passing run contradicts the documentation as well. `docs/async-default-migration.md:252`
and the comments of the async sample say that without `queuesConfig` the dispatcher
consumes a single queue of its own and never sees the processor's requests. The code
derives one queue per published request queue instead (`redisQueues`,
`defaultAsyncQueues`, `helm_async_test.go:88`), `validateSpec` accepts such a spec, and
`QueuesOneForOne` holds of it in `AsyncQueues` and by theorem: the documents describe an
earlier state. This is a finding too.

Every property of a passing run has a mutant in `PROJECT.json`: a plausible
mistake in the modelled code (the `Mut...` definitions) under which TLC finds the
property violated.

**Bounds.** One gateway suffices: reconciles of different gateways share nothing
but the worker. One edit gives two generations, which is what stale reads, version
conflicts and orphans need; a second edit repeats the situation of the first. One
failing call can hit every position, and a patch both ways; one crash likewise.
One drift reaches every object and every position. `MaxDisruptions` bounds faults,
crashes, Secret changes, drifts and deletions together: each kind meets every state of
the reconcile and of the caches, two of them in one behaviour, or one of them and an
edit (in `Disruptions`), are left to the theorems, which for liveness means to
`NothingIsOverlooked`. `ReconcileEdits` has a Deployment, `Disruptions` a StatefulSet; several
components at once, which the conjunction of Ready is about, are covered by the theorem
`ReadyConjunction`. In `ChartDelivery` two edits are
what it takes to change a field and to change it back, or to edit it in a section
added or switched off before; the gateway that writes everything over SQL gets one
edit, as it has nothing to add. Two references, one of them not
granted, and grants that differ in one field each, tell the fields of
`referenceGrantPermits` apart. Two models are what a collision of queue names
needs. Three ciphers, two of them unknown to the library, are what it takes to get
out of step in the cipher loop. The theorems do not depend on these bounds.

**Fairness.** Weak fairness of the worker's steps, of expiring timers, of every
watch, of the garbage collector and of the workload controllers: a goroutine, a
timer and an informer of a running process make progress, and Kubernetes'
controllers are level-triggered loops. In `AsyncDispatch` the dispatcher and the
processor keep polling. In `TLSProfile` a started process goes on, its watch
delivers and the kubelet restarts it. Nothing is assumed of users, of failing calls, of
restarts or of the installation of CRDs; they are bounded instead, which is how
"once the outside is quiet" is expressed.

**Deadlock** is not checked where the system may really come to rest: a gateway
in a permanent failure, a deleted gateway, a rejected spec, metrics resources in
place, a Secret run with its budget used up, or a process that runs with the
cluster's TLS settings.

**Limits of the statements.** `RefusalStillHolds` is about an operator that found
the ReferenceGrant CRD at startup. Without it there is no watch: a gateway that
was refused for want of the CRD is not woken by the grant the user then creates.
`Convergence` and `NothingOverlooked` except a refusal whose end was announced by no
event (`RefusedUnaware`): that grant, and the collected copy of `RecreatedStuck`.
`AlwaysPresent` likewise leaves out resources whose kind was installed after the
last start and that others changed. The informers' own ten-hour resync is not
modelled; in both situations it is what ends the wait. A user who deletes the
managed copy after a `SecretRefImmutable` failure is in the situation of
`RecreatedStuck`. A revoked grant leaves an existing copy in place;
`CopiedOnlyWithGrant` speaks of grants of the past as well.
`EditsArrive` compares renderings of the same sections: adding or dropping one is
covered by the other properties of its run. It compares the values of a workload as a
whole and ends at what is passed to a chart: `asyncConfig.replicas` is passed on
(`helm_async.go:52`), and `docs/async-default-migration.md:184` says that the chart
ignores it. What a field is for (`Audience`) is taken
from the API documentation, but `imagePullSecrets`, documented for API server, processor
and gc, goes to the async processor as well, as `helm_async_test.go:426` asks; `dispatchMode` and `progressTTLSeconds` are documented as
ignored, and of resources only CPU and memory are passed on, as documented. The
documentation's "SecretRef is immutable after creation" is enforced only for a copied
Secret; an edit between Secrets of the gateway's own namespace is accepted.
`SettingsInForce` is about profiles the charts can use (with any other one the
process exits again and again, by design), about processes that did not find the
resource absent when they started (those keep the default until the next restart) and about policies that were read: after
a transient error of the second read the policy is neither read again nor watched,
whatever the log line at `internal/tls/profile.go:182` announces. Nothing but the
watcher uses the policy.

## 4. What is proved

TLAPS checks these for every value of the constants, from the named assumptions
only (`ObjectsAssumption`, `SpecsAssumption`, `ReasonsAssumption`,
`BoundsAssumption`; `SecretAssumption`; `MetricsAssumption`; `ProfileAssumption`;
`DispatchAssumption`; `ChartAssumption`, `FieldKinds`, `EndpointLists`,
`UntestedFields`). They say what
the constants are and what the schema guarantees of them; TLC evaluates each on its
instance. The last three are about no constant: they read facts off
the table of API fields, which is written with `:>` and `@@`, of which the prover knows
no definition. The table is the same in every instance, so TLC's evaluation settles them. Any number of components,
objects, specs, references, grants, models, queues, edits, faults, restarts and
deletions is covered.

| Module | Theorem | Statement |
|---|---|---|
| `GatewayReconcile_proof` | `TypeCorrect` | `Spec => []TypeOK` |
| | `ObservedIsApplied` | `Spec => []ObservedMeansApplied` |
| | `StatusCurrent` | `Spec => StatusIsCurrent` |
| | `OrphansLast` | `Spec => ReplacedBeforeDeleted` |
| | `ReadyConjunction` | `Spec => []ReadyIsConjunction` |
| | `NothingIsOverlooked` | `Spec => []NothingOverlooked` |
| | `ContractImplemented` | `Spec => ImplementsContract`: the reconciler refines `GatewayContract` |
| `SecretSync_proof` | `TypesKept` | `Spec => []TypeOK` |
| | `CopiesNeedConsent` | `Spec => []CopiedOnlyWithGrant` |
| | `RefusalsAreCurrent` | `Spec => []RefusalStillHolds` |
| | `NobodyIsForgotten` | `Spec => []NobodyForgotten` |
| | `CopyContractImplemented` | `Spec => ImplementsCopyContract`: the Secret resolution refines `CopyContract` |
| `MetricsController_proof` | `WorkIsDone` | `Spec => []RestsOnlyWhenDone` |
| `TLSProfile_proof` | `ChangesAreSeen` | `Spec => []NoChangeMissed` |
| | `ConversionIsExact` | `Spec => []ConversionExact` |
| `AsyncDispatch_proof` | `QueuesAgree` | `Spec => []QueuesOneForOne` |
| | `NothingStranded` | `Spec => []NoneStranded` |
| `ChartValues_proof` | `ImagesArrive` | `Spec => []WorkloadsIdentified` |
| | `ListsInherited` | `Spec => []EndpointsInherited` |
| | `NothingNilPassed` | `Spec => []NoNilPassed` |
| `ChartKeys_proof` | `NoKeyTwice` | `Spec => []KeysUnique` |

Five of them (`NothingIsOverlooked`, `NobodyIsForgotten`, `WorkIsDone`,
`ChangesAreSeen`, `NothingStranded`) are the safety half of the
liveness properties that only TLC can check. They say that a controller with nothing
to do has nothing left to do: whatever is not yet right, something is on its way that
will look at it again. What liveness adds is only that what is on its way arrives,
which is the fairness of section 3.

*GatewayReconcile.* `ObservedMeansApplied` is not inductive: why a reported
generation is applied depends on what the reporting reconcile did before it. The
inductive invariant `Facts` adds two parts. `VersionsOrdered`: generations and
resourceVersions only grow along status, running reconcile, cache and server, and
equal versions mean equal specs, so a patch that the server accepts was computed
from the stored spec. `ProgressMade`: at each position the running reconcile has
applied what it no longer has to do, every orphan is listed, still to be listed,
or an error was collected, and after the scan none is left; always except objects
that others changed since. There is one lemma per group of actions
(`ReconcileKeeps`, `WorkloadKeeps`, `DriftKeeps`, `OtherKeeps`), `FactsInvariant`
combines them, and the two action properties follow from it: `StatusIsCurrent`
because an accepted patch has the version that was read, `ReplacedBeforeDeleted`
because at "orphans" nothing is left to apply.

`ReadyIsConjunction` needs to know, besides types, that an entry of the counts
`updateStatus` has gathered is either one that was listed or the empty one
(`CountsListed`): an empty one is not available, so a status that says Ready replaces
every component's counts and keeps none of the old ones in the merge. The other
writer's status says not Ready.

`NothingOverlooked` needs `RunUpToDate`, the same statement for a reconcile that is
still running: unless the key has been queued again, the Secret is still what was
resolved (or has changed without an event) and
the workloads listed so far are what the cache still holds. It is not claimed that every
change of the Secret wakes the gateway; `unnoticed` records the ones that do not, and
resolving the Secret again resets it. An event that queues
nothing concerns an object that the gateway controls neither before nor after
(`UnqueuedEvent`). The reconciler then comes to rest only through a patch that
was accepted and changed nothing (`PatchRests`): a refused or failed one backs off,
and a written one moves the resourceVersion past the cache, whose event is due.

For `ContractImplemented`, `GatewayMoves` sorts the steps by what they do to
the stored gateway: nothing, an edit, a deletion, or an accepted status patch. An
accepted patch is a `Judge` step, because `Facts` says that its generation is the
stored one and, at "patch", that the cluster is settled; a step that leaves the
gateway alone is `Work` or a stutter, because no action disturbs a settled object
without entering it in `drift`.

*SecretSync.* The copy is written four steps after the grant was read. The
inductive invariant `ConsentInv` follows the consent: every cached grant has been
stored and has left its references in `everGranted`, and from "source" on the
held reference is one of them. `PermittedMeansConsent` connects the code's test
with the consent a grant states. `RefusalStillHolds` and `NobodyForgotten` share
`RestInv`: neither the cached nor the held gateway is newer than the stored one
(`NotNewer`, across recreations by uid, otherwise by resourceVersion), grants are
watched only with their CRD installed, and a live gateway for which no run, queued
key, retry, timer or gateway event is on its way is answered: for its last generation,
with a permanent failure or with a success that no resync follows, and a refusal for
want of a grant agrees with the cached grants. The grants enter through the cache
because the watch queues the key in the step that changes the cache.

For `CopyContractImplemented`, a write must not go back although the source was read
steps earlier and from a cache. `CopyInv` bounds the copy by everything a reconcile may
still have in its hands: no copy belongs to a later gateway than the cached one or has a
later version than the cached source (`CopyBehindCaches`), and the same holds of the
gateway a running reconcile holds and of the version it has read (`CopyBehindReconcile`).
Caches only move forward and one reconcile runs at a time, so both survive every step;
`ConsentInv` gives the consent. The reads are stutters of the contract.

*MetricsController.* `UpkeepInv`: every resource is in place (or unwatched and
changed by others), or is pending, in one of four ways: the key is queued, a retry
is due, its change has yet to be delivered, or the running reconcile still has it
ahead (`Ahead`). The position matters: a change of the first resource while the third is
applied is not ahead, and is saved by its event.

*TLSProfile.* `ReloadInv`: the watcher compares with what the process has read
(`WatcherHolds`), a process that did not find the resource absent has a watcher, and
one without a pending event runs with settings that do not differ from the stored ones
as far as the watcher compares them.

`ConversionIsExact` is about a loop that pairs the ciphers of a profile with two lists of
the library by counting. `RankOf` to `NthOfMore` say what the n-th position of a set of
positions is, without induction: the rank of a position is the number of members up to
it. `WalkInv` then says that before cipher i both positions are one more than the number
of known and unknown ciphers before i, that the names are the usable suites among those,
and that the rest is reported; `LibraryLists` reads off the library's lists which branch
the next cipher takes. `ConversionInv` keeps it with the profile the process has read.

*AsyncDispatch.* `defaultAsyncQueues` is shown to yield the published names, each
once, and the checks of `validateSpec` to say the same of configured queues
(`QueuesAgree`). `DispatchInv` keeps with every request, while the gateway runs, what it
was published with; over SQL a result queue belongs to one model (`OwnResults`), and
the checks on gates and URLs give every request a way to the dispatcher
(`NothingStranded`). That the pool of its queue is there is the premise `PoolsNamed`,
which derived queues meet (`PoolsThere`).

*ChartValues.* `SplitJoined`: for every sequence of words and separators, the two
parts of `splitImage` with a colon between them are the reference, or the reference
with "latest" when it has no tag; a colon before a slash belongs to a port.
`ListsInherited` needs that of all conversions one, each time the same, writes the key of
an endpoint list: there is a `Quiet` lemma for every conversion, which says that no key of
its values is one of the three (`QuietBut`: none but the one it is meant to write), and
`ListDecoded` that nil and empty stay apart through the decoder. `SettingsInv` ties the
last rendering to the manifest it came from. `NothingNilPassed` goes through the same
conversions: what `setIfNotEmpty` and `SetIfNotNil` pass is tested, and the fields that
`SetAlways` passes are plain, required or defaulted (`UntestedFields`), which the decoder
never leaves nil in a manifest that is well formed (`DecodedUntested`). Both rest on the
lemma `ManifestsStored`: every manifest that is stored or was read is well formed.

*ChartKeys.* The keys form a tree. A `Branch` at a path is a finite set of values without
a key written twice, whose keys go on from the path with one of some names; branches at one path
with different names join (`Join`), and a branch lies within the path above (`Within`).
Each conversion is a branch at the path it is given, so a key written twice would show as
two joined branches with a name in common. None has one, save the file client's type,
written for S3 and for a file system: `NoKeyTwice` needs the CRD's rule that a gateway has exactly one of
the two (`ManifestsStored`).

**Only model-checked:**

* liveness (`Convergence`, `DeletedIsCollected`, `RotationArrives`, `CopyCollected`,
  `RequestsAnswered`, `AlwaysPresent`, `SettingsInForce`, `AnswersGenerations`),
  which is out of the prover's reach;
* `EditsArrive`: what an edit changes in the values of each workload compares two
  renderings field by field and asks of each field where its value may show. It
  is a statement about the table of API fields as a whole, which the prover cannot
  evaluate. The table is the same in every instance, so the run covers it as it is.

* `TypeOK` of `ChartValues`: that every value lies under a key of one of the charts and
  no JSON literal is left a string is a statement about the same table.

Every other invariant and action property of the runs is proved.

## 5. What is not modelled

* The templates of the charts: they are not part of the operator. `ChartValues` assumes
  of them what the operator relies on (labels, the way images are printed).
* Formats and sizes of strings and numbers, in the schema and on the way to the charts.
* Schema validation by the API server, Helm, controller-runtime, informers and
  Kubernetes' controllers are external and modelled as the code relies on them.
* Generated deepcopy code, flag parsing, wiring, Prometheus counters, logging and
  events.
* What no document settles, so that there is nothing to state: the deletion by name of
  an orphan that somebody replaced in between, the copy that is left when a grant is
  revoked, the adherence policy that is not read again after a transient error.
* Manifests whose queues name a worker pool that does not exist are modelled, but nothing
  is stated about their requests: the API documentation forbids them and no code does.

## 6. Plan

Done: `RolloutStatus`, `GatewayReconcile` and `SecretSync` with their contracts,
`AsyncDispatch`, `ChartValues`, `MetricsController`, `TLSProfile`, each with proofs of
its safety properties as far as section 4 says.

Next, in this order:

1. The composition of `SecretSync` and `GatewayReconcile`: the refinement of
   `GatewayContract` for the secret part, with `ChangeSecret` and `Finish` as each
   other's counterparts.
2. Recreated gateways in `GatewayReconcile`, with owner UIDs as in `SecretSync`.
