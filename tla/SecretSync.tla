------------------------------ MODULE SecretSync ------------------------------
(***************************************************************************)
(* The credentials Secret of one LLMBatchGateway.  A secretRef into        *)
(* another namespace needs a permitting ReferenceGrant there; the operator *)
(* then keeps a managed copy of the Secret in the gateway's namespace.     *)
(* resolveSecret is taken step by step, against caches that lag, watches   *)
(* that are filtered, a garbage collector and users who edit, delete and   *)
(* recreate the gateway.  Everything the reconcile does after resolveSecret*)
(* is the single step Finish here and GatewayReconcile's subject.          *)
(***************************************************************************)
EXTENDS Integers, FiniteSets

CONSTANTS
  GatewayNamespace, \* the namespace of the gateway
  Refs,             \* values of spec.secretRef: records [ns, name]
  GrantPool,        \* ReferenceGrants that may come and go
  SyncPeriod,       \* --sync-period; 0 switches the periodic resync off
  CRDAtStart,       \* values "ReferenceGrant CRD is installed" may start with
  MaxEdits,         \* bound: edits of secretRef
  MaxRecreations,   \* bound: deletions and recreations of the gateway
  MaxRotations,     \* bound: versions of a source Secret
  MaxGrantChanges,  \* bound: grants created or deleted
  MaxCopyLosses,    \* bound: deletions of the managed copy by a user
  MaxFaults,        \* bound: API calls that fail or time out
  MaxRestarts       \* bound: crashes of the operator

(***************************************************************************)
(* A grant is [ns, from, to]: from a set of [group, kind, namespace], to a *)
(* set of [group, kind, name], where the name "*" stands for no name.      *)
(***************************************************************************)
ASSUME SecretAssumption ==
  /\ Refs \subseteq [ns : STRING, name : STRING]
  /\ \A g \in GrantPool :
       g.to \subseteq [group : STRING, kind : STRING, name : STRING]
  /\ SyncPeriod \in Nat
  /\ CRDAtStart \subseteq BOOLEAN
  /\ \A b \in {MaxEdits, MaxRecreations, MaxRotations, MaxGrantChanges,
               MaxCopyLosses, MaxFaults, MaxRestarts} : b \in Nat

VARIABLES
  gw,            \* the stored gateway
  copy,          \* the stored managed copy <gateway>-credentials
  sources,       \* version of each source Secret, 0 while it does not exist
  grants,        \* the stored ReferenceGrants
  crd,           \* the ReferenceGrant CRD is installed
  cachedGw, cachedCopy, cachedSources, cachedGrants,
  watched,       \* secretWatchFilter.watched
  grantWatch,    \* SetupWithManager registered the ReferenceGrant watch
  queued, backoff, timer,
  pc, held, src, \* the running reconcile: position, gateway, source read
  everGranted,   \* history: refs some stored grant has permitted
  budget         \* how often each bounded outside event has happened

server == <<gw, copy, sources, grants, crd>>
caches == <<cachedGw, cachedCopy, cachedSources, cachedGrants>>
filter == <<watched, grantWatch>>
queue  == <<queued, backoff, timer>>
run    == <<pc, held, src>>
vars   == <<server, caches, filter, queue, run, everGranted, budget>>

NoCopy == [exists |-> FALSE, from |-> [ns |-> "", name |-> ""], owner |-> 0,
           version |-> 0]

Gateway(uid, ref) ==
  [alive |-> TRUE, uid |-> uid, ref |-> ref, generation |-> 1,
   observedGeneration |-> 0, resourceVersion |-> 0, reason |-> ""]
NoGateway == [Gateway(0, CHOOSE r \in Refs : TRUE) EXCEPT !.alive = FALSE]

VersionMatches ==
  gw.alive /\ gw.uid = held.uid /\ gw.resourceVersion = held.resourceVersion

Spend(what, max) == /\ budget[what] < max
                    /\ budget' = [budget EXCEPT ![what] = budget[what] + 1]

(***************************************************************************)
(* resolveSecret's namespace rule: an empty namespace is the gateway's.    *)
(***************************************************************************)
CrossNamespace(ref) == ref.ns # "" /\ ref.ns # GatewayNamespace

(***************************************************************************)
(* referenceGrantPermits and the loop of checkReferenceGrant.  No grant is *)
(* found while the CRD is not installed.                                   *)
(***************************************************************************)
\* Mutant: a grant for any Secret of the namespace will do.
MutPermitsAnyName(grant, ref) ==
  /\ [group |-> "batch.llm-d.ai", kind |-> "LLMBatchGateway",
      namespace |-> GatewayNamespace] \in grant.from
  /\ \E t \in grant.to : t.group = "" /\ t.kind = "Secret"

referenceGrantPermits(grant, ref) ==
  /\ [group |-> "batch.llm-d.ai", kind |-> "LLMBatchGateway",
      namespace |-> GatewayNamespace] \in grant.from
  /\ \E t \in grant.to : /\ t.group = "" /\ t.kind = "Secret"
                         /\ t.name \in {"*", ref.name}

Permitted(gs, ref) ==
  crd /\ \E g \in gs : g.ns = ref.ns /\ referenceGrantPermits(g, ref)

(***************************************************************************)
(* The reconcile.                                                          *)
(***************************************************************************)
\* Mutant: RequeueAfter is not set.
MutReturnNoRequeue(err, requeue) ==
  /\ pc' = "idle" /\ held' = NoGateway /\ src' = 0
  /\ backoff' = (backoff \/ err)
  /\ UNCHANGED <<queued, timer>>

Return(err, requeue) ==
  /\ pc' = "idle" /\ held' = NoGateway /\ src' = 0
  /\ backoff' = (backoff \/ err)
  /\ timer' = (timer \/ (requeue /\ SyncPeriod > 0))
  /\ UNCHANGED queued

StartReconcile ==
  /\ pc = "idle" /\ queued /\ queued' = FALSE
  /\ IF cachedGw.alive THEN pc' = "copy" /\ held' = cachedGw
                       ELSE UNCHANGED <<pc, held>>
  /\ UNCHANGED <<server, caches, filter, backoff, timer, src, everGranted,
                 budget>>

\* A status patch under the resourceVersion that was read; one that changes
\* nothing leaves the resourceVersion alone.
WriteReason(reason) ==
  LET written == [gw EXCEPT !.reason = reason,
                            !.observedGeneration = held.generation]
  IN gw' = IF written = gw THEN gw
           ELSE [written EXCEPT !.resourceVersion = gw.resourceVersion + 1]

PatchReason(reason, requeue) ==
  \/ VersionMatches /\ WriteReason(reason) /\ Return(FALSE, requeue)
  \/ ~VersionMatches /\ UNCHANGED gw /\ Return(TRUE, FALSE)

FailPermanently(reason) ==
  /\ PatchReason(reason, FALSE)
  /\ UNCHANGED <<copy, sources, grants, crd, caches, filter, everGranted,
                 budget>>

Goto(next) ==
  /\ pc' = next
  /\ UNCHANGED <<server, caches, filter, queue, held, everGranted>>

\* A reference into the gateway's own namespace needs no copy.
ResolveLocal ==
  /\ pc = "copy" /\ ~CrossNamespace(held.ref)
  /\ Goto("finish") /\ UNCHANGED <<src, budget>>

\* The existing copy is read from the cache; an error of that read is ignored.
ReadCopy ==
  /\ pc = "copy" /\ CrossNamespace(held.ref)
  /\ \/ ~cachedCopy.exists \/ cachedCopy.from = held.ref
     \/ budget.faults < MaxFaults
  /\ Goto("grant") /\ UNCHANGED src
  /\ IF ~cachedCopy.exists \/ cachedCopy.from = held.ref
       THEN UNCHANGED budget
       ELSE Spend("faults", MaxFaults)

FailImmutable ==
  /\ pc = "copy" /\ CrossNamespace(held.ref)
  /\ cachedCopy.exists /\ cachedCopy.from # held.ref
  /\ FailPermanently("SecretRefImmutable")

CheckGrant ==
  /\ pc = "grant" /\ Permitted(cachedGrants, held.ref)
  /\ Goto("source") /\ UNCHANGED <<src, budget>>

FailNotPermitted ==
  /\ pc = "grant" /\ ~Permitted(cachedGrants, held.ref)
  /\ FailPermanently("ReferenceNotPermitted")

ReadSource ==
  /\ pc = "source" /\ cachedSources[held.ref] # 0
  /\ src' = cachedSources[held.ref]
  /\ Goto("sync") /\ UNCHANGED budget

FailNoSource ==
  /\ pc = "source" /\ cachedSources[held.ref] = 0
  /\ Return(TRUE, FALSE)
  /\ UNCHANGED <<server, caches, filter, everGranted, budget>>

\* Mutants: the annotation names the namespace of the copy instead of the
\* source's; the copy has no owner reference.
MutAnnotateOwnNamespace ==
  /\ pc = "sync" /\ pc' = "track"
  /\ copy' = [exists |-> TRUE, owner |-> held.uid, version |-> src,
              from |-> [ns |-> GatewayNamespace, name |-> held.ref.name]]
  /\ UNCHANGED <<gw, sources, grants, crd, caches, filter, queue, held, src,
                 everGranted, budget>>

MutCopyUnowned ==
  /\ pc = "sync" /\ pc' = "track"
  /\ copy' = [exists |-> TRUE, from |-> held.ref, owner |-> 0,
              version |-> src]
  /\ UNCHANGED <<gw, sources, grants, crd, caches, filter, queue, held, src,
                 everGranted, budget>>

\* Server-side apply: the one field manager's owner reference is replaced.
syncSecretCopy ==
  /\ pc = "sync"
  /\ copy' = [exists |-> TRUE, from |-> held.ref, owner |-> held.uid,
              version |-> src]
  /\ pc' = "track"
  /\ UNCHANGED <<gw, sources, grants, crd, caches, filter, queue, held, src,
                 everGranted, budget>>

\* secretFilter.add, after resolveSecret has returned.
Track ==
  /\ pc = "track"
  /\ watched' = watched \cup {held.ref}
  /\ pc' = "finish"
  /\ UNCHANGED <<server, caches, grantWatch, queue, held, src, everGranted,
                 budget>>

\* Render, apply, delete orphans and update the status.  "Resolved" stands for
\* the reasons updateStatus sets.
Finish ==
  /\ pc = "finish"
  /\ PatchReason("Resolved", TRUE)
  /\ UNCHANGED <<copy, sources, grants, crd, caches, filter, everGranted,
                 budget>>

Fault ==
  /\ pc \in {"grant", "source", "sync", "finish"}
  /\ Spend("faults", MaxFaults)
  /\ Return(TRUE, FALSE)
  /\ UNCHANGED <<server, caches, filter, everGranted>>

(***************************************************************************)
(* Work queue and watches.  The gateway has an unfiltered watch.  A Secret *)
(* event passes the filter only for a tracked Secret; the grant watch      *)
(* exists only if the CRD was installed at startup.  Both map to the       *)
(* gateways of the cache that refer there.  The copy has no watch.         *)
(***************************************************************************)
BackoffExpires ==
  /\ backoff /\ backoff' = FALSE /\ queued' = TRUE
  /\ UNCHANGED <<server, caches, filter, timer, run, everGranted, budget>>

TimerFires ==
  /\ timer /\ timer' = FALSE /\ queued' = TRUE
  /\ UNCHANGED <<server, caches, filter, backoff, run, everGranted, budget>>

SyncGateway ==
  /\ cachedGw # gw
  /\ cachedGw' = gw /\ queued' = TRUE
  /\ UNCHANGED <<server, cachedCopy, cachedSources, cachedGrants, filter,
                 backoff, timer, run, everGranted, budget>>

SyncCopyCache ==
  /\ cachedCopy # copy /\ cachedCopy' = copy
  /\ UNCHANGED <<server, cachedGw, cachedSources, cachedGrants, filter, queue,
                 run, everGranted, budget>>

enqueueForSecret(r) ==
  queued' = (queued \/ (r \in watched /\ cachedGw.alive /\ cachedGw.ref = r))

SyncSource(r) ==
  /\ cachedSources[r] # sources[r]
  /\ cachedSources' = [cachedSources EXCEPT ![r] = sources[r]]
  /\ enqueueForSecret(r)
  /\ UNCHANGED <<server, cachedGw, cachedCopy, cachedGrants, filter, backoff,
                 timer, run, everGranted, budget>>

\* Mutant: the namespace of the grant is compared with the gateway's own.
MutEnqueueWrongNamespace(ns) ==
  queued' = (queued \/ (grantWatch /\ cachedGw.alive /\ ns = GatewayNamespace))

enqueueForReferenceGrant(ns) ==
  queued' = (queued \/ (grantWatch /\ cachedGw.alive /\ cachedGw.ref.ns = ns))

SyncGrant(g) ==
  /\ (g \in grants) # (g \in cachedGrants)
  /\ cachedGrants' = IF g \in grants THEN cachedGrants \cup {g}
                                     ELSE cachedGrants \ {g}
  /\ enqueueForReferenceGrant(g.ns)
  /\ UNCHANGED <<server, cachedGw, cachedCopy, cachedSources, filter, backoff,
                 timer, run, everGranted, budget>>

\* A restart empties the filter, lists anew and looks for the CRD again.
Restart ==
  /\ Spend("restarts", MaxRestarts)
  /\ pc' = "idle" /\ held' = NoGateway /\ src' = 0
  /\ cachedGw' = gw /\ cachedCopy' = copy /\ cachedSources' = sources
  /\ cachedGrants' = grants
  /\ watched' = {} /\ grantWatch' = crd
  /\ queued' = TRUE /\ backoff' = FALSE /\ timer' = FALSE
  /\ UNCHANGED <<server, everGranted>>

(***************************************************************************)
(* The outside world.                                                      *)
(***************************************************************************)
EditRef(r) ==
  /\ gw.alive /\ r # gw.ref /\ Spend("edits", MaxEdits)
  /\ gw' = [gw EXCEPT !.ref = r, !.generation = gw.generation + 1,
                    !.resourceVersion = gw.resourceVersion + 1]
  /\ UNCHANGED <<copy, sources, grants, crd, caches, filter, queue, run,
                 everGranted>>

DeleteGateway ==
  /\ gw.alive /\ Spend("recreations", MaxRecreations)
  /\ gw' = [gw EXCEPT !.alive = FALSE]
  /\ UNCHANGED <<copy, sources, grants, crd, caches, filter, queue, run,
                 everGranted>>

RecreateGateway(r) ==
  /\ ~gw.alive
  /\ gw' = Gateway(gw.uid + 1, r)
  /\ UNCHANGED <<copy, sources, grants, crd, caches, filter, queue, run,
                 everGranted, budget>>

CollectGarbage ==
  /\ copy.exists /\ copy.owner # 0 /\ ~(gw.alive /\ copy.owner = gw.uid)
  /\ copy' = NoCopy
  /\ UNCHANGED <<gw, sources, grants, crd, caches, filter, queue, run,
                 everGranted, budget>>

LoseCopy ==
  /\ copy.exists /\ Spend("copyLosses", MaxCopyLosses)
  /\ copy' = NoCopy
  /\ UNCHANGED <<gw, sources, grants, crd, caches, filter, queue, run,
                 everGranted>>

RotateSource(r) ==
  /\ CrossNamespace(r) /\ sources[r] < MaxRotations
  /\ sources' = [sources EXCEPT ![r] = sources[r] + 1]
  /\ UNCHANGED <<gw, copy, grants, crd, caches, filter, queue, run,
                 everGranted, budget>>

\* The consent a grant states, as the Gateway API words it.
Consents(g, r) ==
  /\ g.ns = r.ns
  /\ [group |-> "batch.llm-d.ai", kind |-> "LLMBatchGateway",
      namespace |-> GatewayNamespace] \in g.from
  /\ {[group |-> "", kind |-> "Secret", name |-> n] : n \in {"*", r.name}}
       \cap g.to # {}

ChangeGrant(g) ==
  /\ crd /\ Spend("grants", MaxGrantChanges)
  /\ grants' = IF g \in grants THEN grants \ {g} ELSE grants \cup {g}
  /\ everGranted' = everGranted
       \cup {r \in Refs : \E h \in grants' : Consents(h, r)}
  /\ UNCHANGED <<gw, copy, sources, crd, caches, filter, queue, run>>

InstallCRD ==
  /\ ~crd /\ crd' = TRUE
  /\ UNCHANGED <<gw, copy, sources, grants, caches, filter, queue, run,
                 everGranted, budget>>

-------------------------------------------------------------------------------
Init ==
  /\ \E r \in Refs : gw = Gateway(1, r)
  /\ copy = NoCopy
  /\ sources \in [Refs -> {0, 1}]
  /\ \A r \in Refs : ~CrossNamespace(r) => sources[r] = 0
  /\ grants = {} /\ crd \in CRDAtStart
  /\ cachedGw = gw /\ cachedCopy = copy /\ cachedSources = sources
  /\ cachedGrants = grants
  /\ watched = {} /\ grantWatch = crd
  /\ queued = TRUE /\ backoff = FALSE /\ timer = FALSE
  /\ pc = "idle" /\ held = NoGateway /\ src = 0
  /\ everGranted = {}
  /\ budget = [edits |-> 0, recreations |-> 0, grants |-> 0, copyLosses |-> 0,
               faults |-> 0, restarts |-> 0]

ReconcileStep ==
  \/ ResolveLocal \/ ReadCopy \/ FailImmutable \/ CheckGrant
  \/ FailNotPermitted \/ ReadSource \/ FailNoSource \/ syncSecretCopy
  \/ Track \/ Finish

Runtime ==
  \/ BackoffExpires \/ TimerFires \/ SyncGateway \/ SyncCopyCache
  \/ \E r \in Refs : SyncSource(r)
  \/ \E g \in GrantPool : SyncGrant(g)

Environment ==
  \/ \E r \in Refs : EditRef(r) \/ RecreateGateway(r) \/ RotateSource(r)
  \/ \E g \in GrantPool : ChangeGrant(g)
  \/ DeleteGateway \/ CollectGarbage \/ LoseCopy \/ InstallCRD

Next == StartReconcile \/ ReconcileStep \/ Fault \/ Runtime \/ Restart
          \/ Environment

Spec == Init /\ [][Next]_vars

(***************************************************************************)
(* Fairness: the worker, the timers and the watches make progress, and the *)
(* garbage collector collects.                                             *)
(***************************************************************************)
Fairness ==
  /\ WF_vars(StartReconcile) /\ WF_vars(ReconcileStep)
  /\ WF_vars(BackoffExpires) /\ WF_vars(TimerFires)
  /\ WF_vars(SyncGateway) /\ WF_vars(SyncCopyCache) /\ WF_vars(CollectGarbage)
  /\ \A r \in Refs : WF_vars(SyncSource(r))
  /\ \A g \in GrantPool : WF_vars(SyncGrant(g))

FairSpec == Spec /\ Fairness

-------------------------------------------------------------------------------
(***************************************************************************)
(* The types of the variables.                                             *)
(***************************************************************************)
Reasons == {"", "Resolved", "ReferenceNotPermitted", "SecretRefImmutable"}
GatewayType == [alive : BOOLEAN, uid : Nat, ref : Refs,
                generation : Nat, observedGeneration : Nat,
                resourceVersion : Nat, reason : Reasons]
CopyType == [exists : BOOLEAN, from : Refs \cup {NoCopy.from}, owner : Nat,
             version : Nat]
TypeOK ==
  /\ gw \in GatewayType /\ cachedGw \in GatewayType /\ held \in GatewayType
  /\ copy \in CopyType /\ cachedCopy \in CopyType
  /\ sources \in [Refs -> Nat] /\ cachedSources \in [Refs -> Nat]
  /\ grants \subseteq GrantPool /\ cachedGrants \subseteq GrantPool
  /\ watched \subseteq Refs /\ everGranted \subseteq Refs
  /\ {crd, grantWatch, queued, backoff, timer} \subseteq BOOLEAN
  /\ pc \in {"idle", "copy", "grant", "source", "sync", "track", "finish"}
  /\ src \in Nat
  /\ budget \in [edits : Nat, recreations : Nat, grants : Nat,
                 copyLosses : Nat, faults : Nat, restarts : Nat]

(***************************************************************************)
(* Credentials cross a namespace only with consent: whatever is in the     *)
(* managed copy comes from a Secret that a stored ReferenceGrant has       *)
(* permitted by name or for all Secrets of its namespace.                  *)
(***************************************************************************)
CopiedOnlyWithGrant == copy.exists => copy.from \in everGranted

(***************************************************************************)
(* A gateway that is left alone is left alone for a reason: when nothing   *)
(* is running, queued or pending and the caches are up to date, a recorded *)
(* ReferenceNotPermitted is still the case, if the operator found the      *)
(* ReferenceGrant CRD when it started: the permanent failure is not        *)
(* retried, the grant watch alone wakes the gateway.                       *)
(***************************************************************************)
AtRest == /\ pc = "idle" /\ ~queued /\ ~backoff /\ ~timer
          /\ cachedGw = gw /\ cachedCopy = copy /\ cachedSources = sources
          /\ cachedGrants = grants

RefusalStillHolds ==
  AtRest /\ grantWatch /\ gw.alive /\ gw.reason = "ReferenceNotPermitted"
    => ~Permitted(grants, gw.ref)

(***************************************************************************)
(* Nobody is forgotten: a live gateway at rest has had its last edit       *)
(* answered, and has been refused for good unless the periodic resync is   *)
(* switched off.  After anything else a retry, a timer or an event is on   *)
(* its way, whatever races with the reconcile.                             *)
(***************************************************************************)
NobodyForgotten ==
  AtRest /\ gw.alive
    => /\ gw.observedGeneration = gw.generation
       /\ \/ gw.reason \in {"ReferenceNotPermitted", "SecretRefImmutable"}
          \/ SyncPeriod = 0 /\ gw.reason = "Resolved"

(***************************************************************************)
(* Rotation reaches the copy: once the outside world is quiet, a gateway   *)
(* whose reference is permitted and whose source exists has a copy of the  *)
(* current version, although Secret events are filtered, the copy is not   *)
(* watched and the caches lag.                                             *)
(***************************************************************************)
CopyIsCurrent ==
  gw.alive /\ CrossNamespace(gw.ref) /\ Permitted(grants, gw.ref)
    /\ sources[gw.ref] # 0
  => /\ copy.exists /\ copy.from = gw.ref /\ copy.owner = gw.uid
     /\ copy.version = sources[gw.ref]
     /\ gw.reason = "Resolved"

RotationArrives == <>[]CopyIsCurrent

(***************************************************************************)
(* Without a gateway there is no copy for long, although a reconcile with  *)
(* a stale cache may write it once more.                                   *)
(***************************************************************************)
CopyCollected == [](~gw.alive => <>(gw.alive \/ ~copy.exists))

(***************************************************************************)
(* The operator keeps CopyContract: although resolveSecret reads the       *)
(* gateway, the grants and the source from caches that lag, and although   *)
(* retries, restarts and recreated gateways write the copy again, it is    *)
(* written only from a consented source, with a version that source had,   *)
(* and never goes back to an older version or to an older gateway.         *)
(***************************************************************************)
CopyPromise == INSTANCE CopyContract WITH
  version <- sources, consented <- everGranted, incarnation <- gw.uid

ImplementsCopyContract == CopyPromise!Spec

-------------------------------------------------------------------------------
(***************************************************************************)
(* Statements of the documentation and the comments that the code breaks.  *)
(***************************************************************************)

(***************************************************************************)
(* "secretRef is immutable once a managed copy exists": the copy of one    *)
(* gateway never changes its source.  resolveSecret compares with a cached *)
(* copy, and an error of that read skips the comparison.                   *)
(***************************************************************************)
CopyKeepsSource ==
  [][copy.exists /\ copy'.exists /\ copy.owner = copy'.owner
     => copy.from = copy'.from]_vars

(***************************************************************************)
(* "delete and recreate the LLMBatchGateway to use a different Secret": a  *)
(* recorded SecretRefImmutable of a gateway at rest is still the case.     *)
(***************************************************************************)
ImmutableStillHolds ==
  AtRest /\ gw.alive /\ gw.reason = "SecretRefImmutable"
    => copy.exists /\ copy.from # gw.ref
===============================================================================
