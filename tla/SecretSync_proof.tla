--------------------------- MODULE SecretSync_proof ---------------------------
(***************************************************************************)
(* Proofs about SecretSync, for every set of references and grants and     *)
(* every bound: the types, that credentials are copied only with consent,  *)
(* that a refusal which still stands is a right one, and that no gateway   *)
(* is forgotten.                                                           *)
(***************************************************************************)
EXTENDS SecretSync, TLAPS

(***************************************************************************)
(* What the proof needs to know of the shape of the state.                 *)
(***************************************************************************)
Shapes ==
  /\ gw \in GatewayType /\ cachedGw \in GatewayType /\ held \in GatewayType
  /\ grants \subseteq GrantPool /\ cachedGrants \subseteq GrantPool

(***************************************************************************)
(* Every grant that the operator may still see, stored or cached, has left *)
(* its trace, and a reconcile past the check holds a consented reference.  *)
(***************************************************************************)
Consented(gs) == \A g \in gs, r \in Refs : Consents(g, r) => r \in everGranted

ConsentInv ==
  /\ Shapes
  /\ Consented(grants) /\ Consented(cachedGrants)
  /\ pc \in {"source", "sync"} => held.ref \in everGranted
  /\ CopiedOnlyWithGrant

LEMMA NoGatewayType ==
  ASSUME Refs # {} PROVE NoGateway \in GatewayType
<1>1. (CHOOSE r \in Refs : TRUE) \in Refs
  OBVIOUS
<1> QED
  BY <1>1 DEF NoGateway, Gateway, GatewayType, Reasons

LEMMA NewGatewayType ==
  ASSUME NEW uid \in Nat, NEW r \in Refs PROVE Gateway(uid, r) \in GatewayType
  BY DEF Gateway, GatewayType, Reasons

LEMMA StatusUpdateType ==
  ASSUME NEW g \in GatewayType, NEW reason \in Reasons, NEW n \in Nat
  PROVE  [g EXCEPT !.reason = reason, !.observedGeneration = n] \in GatewayType
  BY DEF GatewayType

LEMMA VersionUpdateType ==
  ASSUME NEW g \in GatewayType, NEW n \in Nat
  PROVE  [g EXCEPT !.resourceVersion = n + 1] \in GatewayType
  BY DEF GatewayType

LEMMA RefUpdateType ==
  ASSUME NEW g \in GatewayType, NEW r \in Refs, NEW m \in Nat, NEW n \in Nat
  PROVE  [g EXCEPT !.ref = r, !.generation = m, !.resourceVersion = n]
           \in GatewayType
  BY DEF GatewayType

(***************************************************************************)
(* checkReferenceGrant finds a grant only if that grant states consent.    *)
(***************************************************************************)
LEMMA PermittedMeansConsent ==
  ASSUME NEW gs \in SUBSET GrantPool, NEW r \in Refs, Permitted(gs, r)
  PROVE  \E g \in gs : Consents(g, r)
<1>1. PICK g \in gs : g.ns = r.ns /\ referenceGrantPermits(g, r)
  BY DEF Permitted
<1>2. PICK t \in g.to : /\ t.group = "" /\ t.kind = "Secret"
                        /\ t.name \in {"*", r.name}
  BY <1>1 DEF referenceGrantPermits
<1>3. t \in [group : STRING, kind : STRING, name : STRING]
  BY <1>2, SecretAssumption
<1>4. t = [group |-> "", kind |-> "Secret", name |-> t.name]
  BY <1>2, <1>3
<1>5. t \in {[group |-> "", kind |-> "Secret", name |-> n] : n \in {"*", r.name}}
  BY <1>2, <1>4
<1> QED
  BY <1>1, <1>2, <1>5 DEF Consents, referenceGrantPermits

(***************************************************************************)
(* A status patch changes nothing but the status of the gateway.           *)
(***************************************************************************)
LEMMA PatchKeepsShape ==
  ASSUME gw \in GatewayType, held \in GatewayType, NEW reason \in Reasons,
         NEW requeue \in BOOLEAN, PatchReason(reason, requeue)
  PROVE  gw' \in GatewayType /\ held' \in GatewayType /\ pc' = "idle"
<1>1. Refs # {}
  BY DEF GatewayType
<1>2. held' \in GatewayType /\ pc' = "idle"
  BY <1>1, NoGatewayType DEF PatchReason, Return
<1>3. ASSUME WriteReason(reason) PROVE gw' \in GatewayType
  <2>1. held.generation \in Nat /\ gw.resourceVersion \in Nat
    BY DEF GatewayType
  <2> DEFINE written == [gw EXCEPT !.reason = reason,
                                   !.observedGeneration = held.generation]
  <2>2. written \in GatewayType
    BY <2>1, StatusUpdateType
  <2>3. [written EXCEPT !.resourceVersion = gw.resourceVersion + 1]
          \in GatewayType
    BY <2>1, <2>2, VersionUpdateType
  <2> QED
    BY <1>3, <2>2, <2>3 DEF WriteReason
<1> QED
  BY <1>2, <1>3 DEF PatchReason

-------------------------------------------------------------------------------
LEMMA ConsentInit == Init => ConsentInv
<1> SUFFICES ASSUME Init PROVE ConsentInv
  OBVIOUS
<1>1. PICK r \in Refs : gw = Gateway(1, r)
  BY DEF Init
<1>2. Shapes
  BY <1>1, NewGatewayType, NoGatewayType DEF Init, Shapes
<1> QED
  BY <1>2 DEF Init, ConsentInv, Consented, CopiedOnlyWithGrant, NoCopy

(***************************************************************************)
(* The steps of a reconcile.                                               *)
(***************************************************************************)
LEMMA ConsentReconcile ==
  ASSUME ConsentInv, StartReconcile \/ ReconcileStep \/ Fault
  PROVE  ConsentInv'
<1> USE DEF ConsentInv, Shapes, Consented, CopiedOnlyWithGrant
<1>0. Refs # {} /\ held.ref \in Refs
  BY DEF GatewayType
<1>1. CASE StartReconcile
  BY <1>1 DEF StartReconcile, server, caches, filter
<1>2. CASE ResolveLocal \/ ReadCopy
  BY <1>2 DEF ResolveLocal, ReadCopy, Goto, server, caches, filter, queue
<1>3. CASE FailImmutable \/ FailNotPermitted
  <2>1. PICK reason \in Reasons : FailPermanently(reason)
    BY <1>3 DEF FailImmutable, FailNotPermitted, Reasons
  <2>2. gw' \in GatewayType /\ held' \in GatewayType /\ pc' = "idle"
    BY <2>1, PatchKeepsShape DEF FailPermanently
  <2> QED
    BY <2>1, <2>2 DEF FailPermanently, caches
<1>4. CASE CheckGrant
  <2>1. \E g \in cachedGrants : Consents(g, held.ref)
    BY <1>4, <1>0, PermittedMeansConsent DEF CheckGrant
  <2>2. held.ref \in everGranted
    BY <2>1, <1>0
  <2> QED
    BY <1>4, <2>2 DEF CheckGrant, Goto, server, caches, filter, queue
<1>5. CASE ReadSource
  BY <1>5 DEF ReadSource, Goto, server, caches, filter, queue
<1>6. CASE FailNoSource \/ Fault
  <2>1. held' \in GatewayType /\ pc' = "idle"
    BY <1>6, <1>0, NoGatewayType DEF FailNoSource, Fault, Return
  <2> QED
    BY <1>6, <2>1 DEF FailNoSource, Fault, server, caches, filter
<1>7. CASE syncSecretCopy
  <2>1. copy'.from = held.ref /\ held.ref \in everGranted
    BY <1>7 DEF syncSecretCopy
  <2> QED
    BY <1>7, <2>1 DEF syncSecretCopy, caches
<1>8. CASE Track
  BY <1>8 DEF Track, server, caches
<1>9. CASE Finish
  <2>1. gw' \in GatewayType /\ held' \in GatewayType /\ pc' = "idle"
    BY <1>9, PatchKeepsShape DEF Finish, Reasons
  <2> QED
    BY <1>9, <2>1 DEF Finish, caches
<1> QED
  BY <1>1, <1>2, <1>3, <1>4, <1>5, <1>6, <1>7, <1>8, <1>9 DEF ReconcileStep

(***************************************************************************)
(* Queue, watches and restarts: the caches only ever hold what was stored. *)
(***************************************************************************)
LEMMA ConsentRuntime ==
  ASSUME ConsentInv, Runtime \/ Restart
  PROVE  ConsentInv'
<1> USE DEF ConsentInv, Shapes, Consented, CopiedOnlyWithGrant
<1>0. Refs # {}
  BY DEF GatewayType
<1>1. CASE BackoffExpires \/ TimerFires
  BY <1>1 DEF BackoffExpires, TimerFires, server, caches, run
<1>2. CASE SyncGateway \/ SyncCopyCache
  BY <1>2 DEF SyncGateway, SyncCopyCache, server, run
<1>3. ASSUME NEW r \in Refs, SyncSource(r) PROVE ConsentInv'
  BY <1>3 DEF SyncSource, server, run
<1>4. ASSUME NEW g \in GrantPool, SyncGrant(g) PROVE ConsentInv'
  <2>1. cachedGrants' \subseteq cachedGrants \cup grants
    BY <1>4 DEF SyncGrant
  <2> QED
    BY <1>4, <2>1 DEF SyncGrant, server, run
<1>5. CASE Restart
  <2>1. held' \in GatewayType
    BY <1>5, <1>0, NoGatewayType DEF Restart
  <2> QED
    BY <1>5, <2>1 DEF Restart, server
<1> QED
  BY <1>1, <1>2, <1>3, <1>4, <1>5 DEF Runtime

(***************************************************************************)
(* The outside world: a grant leaves its trace in the step that stores it. *)
(***************************************************************************)
LEMMA ConsentEnvironment ==
  ASSUME ConsentInv, Environment
  PROVE  ConsentInv'
<1> USE DEF ConsentInv, Shapes, Consented, CopiedOnlyWithGrant
<1>1. ASSUME NEW r \in Refs, EditRef(r) PROVE ConsentInv'
  <2>1. gw.generation + 1 \in Nat /\ gw.resourceVersion + 1 \in Nat
    BY DEF GatewayType
  <2>2. gw' \in GatewayType
    BY <1>1, <2>1, RefUpdateType DEF EditRef
  <2> QED
    BY <1>1, <2>2 DEF EditRef, caches, run
<1>2. ASSUME NEW r \in Refs, RecreateGateway(r) PROVE ConsentInv'
  <2>1. gw.uid + 1 \in Nat
    BY DEF GatewayType
  <2>2. gw' \in GatewayType
    BY <1>2, <2>1, NewGatewayType DEF RecreateGateway
  <2> QED
    BY <1>2, <2>2 DEF RecreateGateway, caches, run
<1>3. ASSUME NEW r \in Refs, RotateSource(r) PROVE ConsentInv'
  BY <1>3 DEF RotateSource, caches, run
<1>4. ASSUME NEW g \in GrantPool, ChangeGrant(g) PROVE ConsentInv'
  <2>1. grants' \subseteq GrantPool /\ everGranted \subseteq everGranted'
    BY <1>4 DEF ChangeGrant
  <2>2. \A h \in grants', r \in Refs : Consents(h, r) => r \in everGranted'
    BY <1>4 DEF ChangeGrant
  <2> QED
    BY <1>4, <2>1, <2>2 DEF ChangeGrant, caches, run
<1>5. CASE DeleteGateway
  <2>1. gw' \in GatewayType
    BY <1>5 DEF DeleteGateway, GatewayType
  <2> QED
    BY <1>5, <2>1 DEF DeleteGateway, caches, run
<1>6. CASE CollectGarbage \/ LoseCopy
  <2>1. copy' = NoCopy
    BY <1>6 DEF CollectGarbage, LoseCopy
  <2>2. ~NoCopy.exists
    BY DEF NoCopy
  <2> QED
    BY <1>6, <2>1, <2>2 DEF CollectGarbage, LoseCopy, caches, run
<1>7. CASE InstallCRD
  BY <1>7 DEF InstallCRD, caches, run
<1> QED
  BY <1>1, <1>2, <1>3, <1>4, <1>5, <1>6, <1>7 DEF Environment

-------------------------------------------------------------------------------
LEMMA ConsentAlways == Spec => []ConsentInv
<1>1. ConsentInv /\ [Next]_vars => ConsentInv'
  <2> SUFFICES ASSUME ConsentInv, [Next]_vars PROVE ConsentInv'
    OBVIOUS
  <2>1. CASE Next
    BY <2>1, ConsentReconcile, ConsentRuntime, ConsentEnvironment DEF Next
  <2>2. CASE UNCHANGED vars
    BY <2>2 DEF vars, server, caches, run, ConsentInv, Shapes, Consented,
                CopiedOnlyWithGrant
  <2> QED
    BY <2>1, <2>2
<1> QED
  BY <1>1, ConsentInit, PTL DEF Spec

(***************************************************************************)
(* resolveSecret copies a Secret across namespaces only when a             *)
(* ReferenceGrant for it has been stored, whatever the caches, watches,    *)
(* faults and users do.                                                    *)
(***************************************************************************)
THEOREM CopiesNeedConsent == Spec => []CopiedOnlyWithGrant
<1>1. ConsentInv => CopiedOnlyWithGrant
  BY DEF ConsentInv
<1> QED
  BY <1>1, ConsentAlways, PTL
-------------------------------------------------------------------------------
(***************************************************************************)
(* Types.  What a step spends stays a number, a copy that is written names *)
(* the reference it was made from.                                         *)
(***************************************************************************)
BudgetType == [edits : Nat, recreations : Nat, grants : Nat,
               copyLosses : Nat, faults : Nat, restarts : Nat]

LEMMA SpendType ==
  ASSUME budget \in BudgetType, NEW max,
         NEW what \in {"edits", "recreations", "grants", "copyLosses",
                       "faults", "restarts"},
         Spend(what, max)
  PROVE  budget' \in BudgetType
<1>1. budget' = [budget EXCEPT ![what] = budget[what] + 1]
  BY DEF Spend
<1>2. budget[what] + 1 \in Nat
  BY DEF BudgetType
<1> QED
  BY <1>1, <1>2 DEF BudgetType

LEMMA NoCopyType == NoCopy \in CopyType
  BY DEF NoCopy, CopyType

LEMMA ReturnType ==
  ASSUME TypeOK, NEW err \in BOOLEAN, NEW requeue \in BOOLEAN,
         Return(err, requeue)
  PROVE  /\ pc' = "idle" /\ held' \in GatewayType /\ src' = 0
         /\ {queued', backoff', timer'} \subseteq BOOLEAN
<1>1. Refs # {}
  BY DEF TypeOK, GatewayType
<1>2. held' \in GatewayType
  BY <1>1, NoGatewayType DEF Return
<1>3. {queued, backoff, timer} \subseteq BOOLEAN
  BY DEF TypeOK
<1>4. (backoff \/ err) \in BOOLEAN /\ (timer \/ (requeue /\ SyncPeriod > 0)) \in BOOLEAN
  OBVIOUS
<1> QED
  BY <1>2, <1>3, <1>4 DEF Return

LEMMA PatchType ==
  ASSUME TypeOK, NEW reason \in Reasons, NEW requeue \in BOOLEAN,
         PatchReason(reason, requeue)
  PROVE  /\ gw' \in GatewayType /\ held' \in GatewayType
         /\ pc' = "idle" /\ src' = 0
         /\ {queued', backoff', timer'} \subseteq BOOLEAN
<1>1. gw' \in GatewayType
  BY PatchKeepsShape DEF TypeOK
<1>2. PICK err \in BOOLEAN, again \in BOOLEAN : Return(err, again)
  BY DEF PatchReason
<1> QED
  BY <1>1, <1>2, ReturnType

LEMMA TypeInit == Init => TypeOK
<1> SUFFICES ASSUME Init PROVE TypeOK
  OBVIOUS
<1>1. PICK r \in Refs : gw = Gateway(1, r)
  BY DEF Init
<1>2. gw \in GatewayType /\ held \in GatewayType
  BY <1>1, NewGatewayType, NoGatewayType DEF Init
<1>3. sources \in [Refs -> Nat]
  BY DEF Init
<1>4. crd \in BOOLEAN
  BY SecretAssumption DEF Init
<1>5. budget \in BudgetType
  BY DEF Init, BudgetType
<1> QED
  BY <1>2, <1>3, <1>4, <1>5, NoCopyType DEF Init, TypeOK, BudgetType

LEMMA TypeReconcile ==
  ASSUME TypeOK, StartReconcile \/ ReconcileStep \/ Fault
  PROVE  TypeOK'
<1>0. held.ref \in Refs /\ held.uid \in Nat
  BY DEF TypeOK, GatewayType
<1>1. CASE StartReconcile
  BY <1>1 DEF StartReconcile, TypeOK, server, caches, filter
<1>2. CASE ResolveLocal \/ CheckGrant
  BY <1>2 DEF ResolveLocal, CheckGrant, Goto, TypeOK, server, caches, filter,
              queue
<1>3. CASE ReadCopy
  <2>1. budget' \in BudgetType
    BY <1>3, SpendType DEF ReadCopy, TypeOK, BudgetType
  <2> QED
    BY <1>3, <2>1 DEF ReadCopy, Goto, TypeOK, BudgetType, server, caches,
                      filter, queue
<1>4. CASE FailImmutable \/ FailNotPermitted \/ Finish
  <2>1. PICK reason \in Reasons, again \in BOOLEAN : PatchReason(reason, again)
    BY <1>4 DEF FailImmutable, FailNotPermitted, FailPermanently, Finish, Reasons
  <2>2. UNCHANGED <<copy, sources, grants, crd, caches, filter, everGranted,
                    budget>>
    BY <1>4 DEF FailImmutable, FailNotPermitted, FailPermanently, Finish
  <2> QED
    BY <2>1, <2>2, PatchType DEF TypeOK, caches, filter
<1>5. CASE ReadSource
  <2>1. src' \in Nat
    BY <1>5, <1>0 DEF ReadSource, TypeOK
  <2> QED
    BY <1>5, <2>1 DEF ReadSource, Goto, TypeOK, server, caches, filter, queue
<1>6. CASE FailNoSource \/ Fault
  <2>1. Return(TRUE, FALSE) /\ UNCHANGED <<server, caches, filter, everGranted>>
    BY <1>6 DEF FailNoSource, Fault
  <2>2. budget' \in BudgetType
    BY <1>6, SpendType DEF FailNoSource, Fault, TypeOK, BudgetType
  <2>3. /\ pc' = "idle" /\ held' \in GatewayType /\ src' = 0
        /\ {queued', backoff', timer'} \subseteq BOOLEAN
    BY <2>1, ReturnType
  <2> QED
    BY <2>1, <2>2, <2>3 DEF TypeOK, BudgetType, server, caches, filter
<1>7. CASE syncSecretCopy
  <2>1. copy' \in CopyType
    BY <1>7, <1>0 DEF syncSecretCopy, CopyType, TypeOK
  <2> QED
    BY <1>7, <2>1 DEF syncSecretCopy, TypeOK, caches, filter, queue
<1>8. CASE Track
  BY <1>8, <1>0 DEF Track, TypeOK, server, caches, queue
<1> QED
  BY <1>1, <1>2, <1>3, <1>4, <1>5, <1>6, <1>7, <1>8 DEF ReconcileStep

LEMMA TypeRuntime ==
  ASSUME TypeOK, Runtime \/ Restart
  PROVE  TypeOK'
<1>1. CASE BackoffExpires \/ TimerFires
  BY <1>1 DEF BackoffExpires, TimerFires, TypeOK, server, caches, filter, run
<1>2. CASE SyncGateway \/ SyncCopyCache
  BY <1>2 DEF SyncGateway, SyncCopyCache, TypeOK, server, filter, queue, run
<1>3. ASSUME NEW r \in Refs, SyncSource(r) PROVE TypeOK'
  <2>1. cachedSources' \in [Refs -> Nat] /\ queued' \in BOOLEAN
    BY <1>3 DEF SyncSource, enqueueForSecret, TypeOK
  <2> QED
    BY <1>3, <2>1 DEF SyncSource, TypeOK, server, filter, run
<1>4. ASSUME NEW g \in GrantPool, SyncGrant(g) PROVE TypeOK'
  <2>1. cachedGrants' \subseteq GrantPool /\ queued' \in BOOLEAN
    BY <1>4 DEF SyncGrant, enqueueForReferenceGrant, TypeOK
  <2> QED
    BY <1>4, <2>1 DEF SyncGrant, TypeOK, server, filter, run
<1>5. CASE Restart
  <2>1. held' \in GatewayType
    BY <1>5, NoGatewayType DEF Restart, TypeOK, GatewayType
  <2>2. budget' \in BudgetType
    BY <1>5, SpendType DEF Restart, TypeOK, BudgetType
  <2> QED
    BY <1>5, <2>1, <2>2 DEF Restart, TypeOK, BudgetType, server
<1> QED
  BY <1>1, <1>2, <1>3, <1>4, <1>5 DEF Runtime

LEMMA TypeEnvironment ==
  ASSUME TypeOK, Environment
  PROVE  TypeOK'
<1>0. budget \in BudgetType /\ gw \in GatewayType
  BY DEF TypeOK, BudgetType
<1>1. ASSUME NEW r \in Refs, EditRef(r) PROVE TypeOK'
  <2>1. gw.generation + 1 \in Nat /\ gw.resourceVersion + 1 \in Nat
    BY <1>0 DEF GatewayType
  <2>2. gw' \in GatewayType /\ budget' \in BudgetType
    BY <1>0, <1>1, <2>1, RefUpdateType, SpendType DEF EditRef
  <2> QED
    BY <1>1, <2>2 DEF EditRef, TypeOK, BudgetType, caches, filter, queue, run
<1>2. ASSUME NEW r \in Refs, RecreateGateway(r) PROVE TypeOK'
  <2>1. gw.uid + 1 \in Nat
    BY <1>0 DEF GatewayType
  <2>2. gw' \in GatewayType
    BY <1>2, <2>1, NewGatewayType DEF RecreateGateway
  <2> QED
    BY <1>2, <2>2 DEF RecreateGateway, TypeOK, caches, filter, queue, run
<1>3. ASSUME NEW r \in Refs, RotateSource(r) PROVE TypeOK'
  <2>1. sources' \in [Refs -> Nat]
    BY <1>3 DEF RotateSource, TypeOK
  <2> QED
    BY <1>3, <2>1 DEF RotateSource, TypeOK, caches, filter, queue, run
<1>4. ASSUME NEW g \in GrantPool, ChangeGrant(g) PROVE TypeOK'
  <2>1. grants' \subseteq GrantPool /\ everGranted' \subseteq Refs
    BY <1>4 DEF ChangeGrant, TypeOK
  <2>2. budget' \in BudgetType
    BY <1>0, <1>4, SpendType DEF ChangeGrant
  <2> QED
    BY <1>4, <2>1, <2>2 DEF ChangeGrant, TypeOK, BudgetType, caches, filter,
                            queue, run
<1>5. CASE DeleteGateway
  <2>1. gw' \in GatewayType /\ budget' \in BudgetType
    BY <1>0, <1>5, SpendType DEF DeleteGateway, GatewayType
  <2> QED
    BY <1>5, <2>1 DEF DeleteGateway, TypeOK, BudgetType, caches, filter,
                      queue, run
<1>6. CASE CollectGarbage \/ LoseCopy
  <2>1. copy' \in CopyType /\ budget' \in BudgetType
    BY <1>0, <1>6, NoCopyType, SpendType DEF CollectGarbage, LoseCopy
  <2> QED
    BY <1>6, <2>1 DEF CollectGarbage, LoseCopy, TypeOK, BudgetType, caches,
                      filter, queue, run
<1>7. CASE InstallCRD
  BY <1>7 DEF InstallCRD, TypeOK, caches, filter, queue, run
<1> QED
  BY <1>1, <1>2, <1>3, <1>4, <1>5, <1>6, <1>7 DEF Environment

LEMMA TypeStutter == ASSUME TypeOK, UNCHANGED vars PROVE TypeOK'
  BY DEF TypeOK, vars, server, caches, filter, queue, run

(***************************************************************************)
(* Every variable keeps its type, for all constants.                       *)
(***************************************************************************)
THEOREM TypesKept == Spec => []TypeOK
<1>1. TypeOK /\ [Next]_vars => TypeOK'
  BY TypeReconcile, TypeRuntime, TypeEnvironment, TypeStutter DEF Next
<1> QED
  BY <1>1, TypeInit, PTL DEF Spec

-------------------------------------------------------------------------------
(***************************************************************************)
(* A gateway at rest.  Two versions of the gateway are compared by uid and *)
(* resourceVersion, as the API server does for a patch; the ones a cache   *)
(* or a reconcile holds are never newer than the stored one, and two that  *)
(* compare equal agree in spec.  The grant watch implies the CRD.  Given   *)
(* that, a live gateway with nothing on its way has been answered, by the  *)
(* grants the cache holds now.                                             *)
(***************************************************************************)
NotNewer(x, y) ==
  /\ x.uid <= y.uid
  /\ x.uid = y.uid => x.resourceVersion <= y.resourceVersion
  /\ x.uid = y.uid /\ x.resourceVersion = y.resourceVersion
       => x.ref = y.ref /\ x.generation = y.generation

OnItsWay == pc # "idle" \/ queued \/ backoff \/ timer \/ cachedGw # gw

Answered ==
  /\ gw.observedGeneration = gw.generation
  /\ \/ gw.reason \in {"ReferenceNotPermitted", "SecretRefImmutable"}
     \/ SyncPeriod = 0 /\ gw.reason = "Resolved"
  /\ grantWatch /\ gw.reason = "ReferenceNotPermitted"
       => ~Permitted(cachedGrants, gw.ref)

VersionInv == /\ gw.uid # 0
              /\ NotNewer(cachedGw, gw) /\ NotNewer(held, gw)
              /\ grantWatch => crd

RestInv == TypeOK /\ VersionInv /\ (gw.alive /\ ~OnItsWay => Answered)

(***************************************************************************)
(* How a version may advance: by a status patch that changes nothing, by a *)
(* new resourceVersion or by a new uid.                                    *)
(***************************************************************************)
LEMMA Advance ==
  ASSUME NEW x \in GatewayType, NEW y \in GatewayType, NEW z \in GatewayType,
         NotNewer(x, y),
         \/ /\ z.uid = y.uid /\ z.resourceVersion = y.resourceVersion
            /\ z.ref = y.ref /\ z.generation = y.generation
         \/ z.uid = y.uid /\ z.resourceVersion = y.resourceVersion + 1
         \/ z.uid = y.uid + 1
  PROVE  NotNewer(x, z)
<1>1. /\ x.uid \in Nat /\ y.uid \in Nat /\ z.uid \in Nat
      /\ x.resourceVersion \in Nat /\ y.resourceVersion \in Nat
      /\ z.resourceVersion \in Nat
  BY DEF GatewayType
<1> QED
  BY <1>1 DEF NotNewer

LEMMA NotNewerThanItself ==
  ASSUME NEW x \in GatewayType PROVE NotNewer(x, x)
  BY DEF NotNewer, GatewayType

LEMMA NoGatewayNotNewer ==
  ASSUME NEW y \in GatewayType, y.uid # 0 PROVE NotNewer(NoGateway, y)
<1>1. NoGateway.uid = 0 /\ y.uid \in Nat
  BY DEF NoGateway, Gateway, GatewayType
<1> QED
  BY <1>1 DEF NotNewer

(***************************************************************************)
(* A status patch: the version advances and the reconcile is over.  It     *)
(* leaves an answer to the current generation, or a retry on its way.      *)
(***************************************************************************)
LEMMA WriteFields ==
  ASSUME gw \in GatewayType, held \in GatewayType, NEW reason \in Reasons,
         WriteReason(reason)
  PROVE  /\ gw'.uid = gw.uid /\ gw'.ref = gw.ref /\ gw'.alive = gw.alive
         /\ gw'.generation = gw.generation /\ gw'.reason = reason
         /\ gw'.observedGeneration = held.generation
         /\ \/ gw'.resourceVersion = gw.resourceVersion
            \/ gw'.resourceVersion = gw.resourceVersion + 1
<1> DEFINE written == [gw EXCEPT !.reason = reason,
                                 !.observedGeneration = held.generation]
<1>1. /\ written.uid = gw.uid /\ written.ref = gw.ref
      /\ written.alive = gw.alive /\ written.generation = gw.generation
      /\ written.reason = reason
      /\ written.observedGeneration = held.generation
      /\ written.resourceVersion = gw.resourceVersion
  BY DEF GatewayType
<1>2. written \in GatewayType
  BY StatusUpdateType DEF GatewayType
<1>3. CASE written = gw
  BY <1>1, <1>3 DEF WriteReason
<1>4. CASE written # gw
  <2>1. gw' = [written EXCEPT !.resourceVersion = gw.resourceVersion + 1]
    BY <1>4 DEF WriteReason
  <2> QED
    BY <1>1, <1>2, <2>1 DEF GatewayType
<1> QED
  BY <1>3, <1>4

LEMMA PatchRest ==
  ASSUME RestInv, TypeOK', NEW reason \in Reasons, NEW requeue \in BOOLEAN,
         PatchReason(reason, requeue),
         UNCHANGED <<crd, caches, filter>>,
         \/ reason = "Resolved" /\ requeue
         \/ reason = "SecretRefImmutable"
         \/ /\ reason = "ReferenceNotPermitted"
            /\ ~Permitted(cachedGrants, held.ref)
  PROVE  RestInv'
<1> DEFINE Written == VersionMatches /\ WriteReason(reason) /\ Return(FALSE, requeue)
<1> DEFINE Refused == ~VersionMatches /\ UNCHANGED gw /\ Return(TRUE, FALSE)
<1>1. Written \/ Refused
  BY DEF PatchReason
<1>2. gw \in GatewayType /\ held \in GatewayType /\ cachedGw \in GatewayType
      /\ gw' \in GatewayType /\ cachedGw' = cachedGw /\ cachedGrants' = cachedGrants
      /\ grantWatch' = grantWatch /\ crd' = crd
  BY DEF RestInv, TypeOK, caches, filter
<1>3. gw'.uid # 0 /\ NotNewer(cachedGw, gw')
  <2>1. CASE Written
    BY <1>2, <2>1, WriteFields, Advance DEF RestInv, VersionInv
  <2>2. CASE Refused
    BY <2>2 DEF RestInv, VersionInv
  <2> QED
    BY <1>1, <2>1, <2>2
<1>4. held' = NoGateway /\ pc' = "idle" /\ queued' = queued
  BY <1>1 DEF Return
<1>5. VersionInv'
  BY <1>2, <1>3, <1>4, NoGatewayNotNewer DEF VersionInv, RestInv
<1>6. CASE Refused
  BY <1>2, <1>5, <1>6 DEF RestInv, OnItsWay, Return
<1>7. CASE Written
  <2>1. held.ref = gw.ref /\ held.generation = gw.generation
    BY <1>7 DEF VersionMatches, RestInv, VersionInv, NotNewer
  <2>2. gw'.ref = gw.ref /\ gw'.reason = reason
        /\ gw'.observedGeneration = gw'.generation
    BY <1>2, <1>7, <2>1, WriteFields
  <2>3. CASE reason = "Resolved" /\ requeue
    <3>1. CASE SyncPeriod > 0
      BY <1>5, <1>7, <2>3, <3>1 DEF RestInv, OnItsWay, Return
    <3>2. CASE SyncPeriod = 0
      BY <1>5, <2>2, <2>3, <3>2 DEF RestInv, Answered
    <3> QED
      BY <3>1, <3>2, SecretAssumption
  <2>4. CASE reason = "SecretRefImmutable"
    BY <1>5, <2>2, <2>4 DEF RestInv, Answered
  <2>5. CASE reason = "ReferenceNotPermitted" /\ ~Permitted(cachedGrants, held.ref)
    <3>1. ~Permitted(cachedGrants, gw.ref)'
      BY <1>2, <2>1, <2>2, <2>5 DEF Permitted
    <3> QED
      BY <1>5, <2>2, <2>5, <3>1 DEF RestInv, Answered
  <2> QED
    BY <2>3, <2>4, <2>5
<1> QED
  BY <1>1, <1>6, <1>7

(***************************************************************************)
(* A step that leaves the gateway, what is cached of it and of the grants, *)
(* and the watch alone, and takes nothing away that is on its way.         *)
(***************************************************************************)
LEMMA QuietStep ==
  ASSUME RestInv, TypeOK',
         UNCHANGED <<gw, cachedGw, cachedGrants, grantWatch>>,
         crd => crd', crd' => crd \/ ~grantWatch,
         held' \in {held, NoGateway}, OnItsWay => OnItsWay'
  PROVE  RestInv'
<1>1. VersionInv'
  <2>1. NotNewer(held', gw)
    BY NoGatewayNotNewer DEF RestInv, TypeOK, VersionInv
  <2> QED
    BY <2>1 DEF RestInv, VersionInv
<1>2. Answered => Answered'
  BY DEF Answered, Permitted
<1> QED
  BY <1>1, <1>2 DEF RestInv

LEMMA RestInit == Init => RestInv
<1> SUFFICES ASSUME Init PROVE RestInv
  OBVIOUS
<1>1. TypeOK
  BY TypeInit
<1>2. gw.uid = 1
  <2>1. PICK r \in Refs : gw = Gateway(1, r)
    BY DEF Init
  <2> QED
    BY <2>1 DEF Gateway
<1>3. NotNewer(cachedGw, gw) /\ NotNewer(held, gw)
  BY <1>1, <1>2, NotNewerThanItself, NoGatewayNotNewer DEF Init, TypeOK
<1> QED
  BY <1>1, <1>2, <1>3 DEF RestInv, VersionInv, OnItsWay, Init

LEMMA RestReconcile ==
  ASSUME RestInv, TypeOK', StartReconcile \/ ReconcileStep \/ Fault
  PROVE  RestInv'
<1>0. TypeOK
  BY DEF RestInv
<1>1. CASE StartReconcile
  <2>1. VersionInv'
    BY <1>1 DEF StartReconcile, RestInv, VersionInv, server, caches, filter
  <2>2. gw.alive => OnItsWay'
    BY <1>1 DEF StartReconcile, OnItsWay, server, caches
  <2> QED
    BY <1>1, <2>1, <2>2 DEF StartReconcile, RestInv, server
<1>2. CASE ResolveLocal \/ ReadCopy \/ CheckGrant \/ ReadSource
  <2>1. /\ UNCHANGED <<server, caches, filter, held>>
        /\ pc' \in {"grant", "finish", "source", "sync"}
    BY <1>2 DEF ResolveLocal, ReadCopy, CheckGrant, ReadSource, Goto
  <2> QED
    BY <2>1, QuietStep DEF server, caches, filter, OnItsWay
<1>3. CASE syncSecretCopy \/ Track
  <2>1. /\ UNCHANGED <<gw, crd, caches, grantWatch, held>>
        /\ pc' \in {"track", "finish"}
    BY <1>3 DEF syncSecretCopy, Track, server, filter
  <2> QED
    BY <2>1, QuietStep DEF caches, OnItsWay
<1>4. CASE FailNoSource \/ Fault
  <2>1. UNCHANGED <<server, caches, filter>> /\ Return(TRUE, FALSE)
    BY <1>4 DEF FailNoSource, Fault
  <2>2. held' = NoGateway /\ OnItsWay'
    BY <2>1 DEF Return, OnItsWay
  <2> QED
    BY <2>1, <2>2, QuietStep DEF server, caches, filter
<1>5. CASE FailImmutable
  BY <1>5, PatchRest DEF FailImmutable, FailPermanently, Reasons
<1>6. CASE FailNotPermitted
  BY <1>6, PatchRest DEF FailNotPermitted, FailPermanently, Reasons
<1>7. CASE Finish
  BY <1>7, PatchRest DEF Finish, Reasons
<1> QED
  BY <1>1, <1>2, <1>3, <1>4, <1>5, <1>6, <1>7 DEF ReconcileStep

LEMMA RestRuntime ==
  ASSUME RestInv, TypeOK', Runtime \/ Restart
  PROVE  RestInv'
<1>1. CASE BackoffExpires \/ TimerFires
  <2>1. UNCHANGED <<server, caches, filter, held>> /\ OnItsWay'
    BY <1>1 DEF BackoffExpires, TimerFires, OnItsWay, run
  <2> QED
    BY <2>1, QuietStep DEF server, caches, filter
<1>2. CASE SyncGateway
  <2>1. cachedGw' = gw /\ OnItsWay' /\ UNCHANGED <<gw, crd, held, grantWatch>>
    BY <1>2 DEF SyncGateway, OnItsWay, server, filter, run
  <2>2. VersionInv'
    BY <2>1, NotNewerThanItself DEF RestInv, VersionInv, TypeOK
  <2> QED
    BY <2>1, <2>2 DEF RestInv
<1>3. CASE SyncCopyCache
  BY <1>3, QuietStep DEF SyncCopyCache, server, filter, queue, run, OnItsWay
<1>4. ASSUME NEW r \in Refs, SyncSource(r) PROVE RestInv'
  <2>1. OnItsWay => OnItsWay'
    BY <1>4 DEF SyncSource, enqueueForSecret, OnItsWay, server, run
  <2> QED
    BY <1>4, <2>1, QuietStep DEF SyncSource, server, filter, run
<1>5. ASSUME NEW g \in GrantPool, SyncGrant(g) PROVE RestInv'
  <2>0. UNCHANGED <<gw, crd, cachedGw, grantWatch, held>>
    BY <1>5 DEF SyncGrant, server, filter, run
  <2>1. VersionInv'
    BY <2>0 DEF RestInv, VersionInv
  <2>2. OnItsWay => OnItsWay'
    BY <1>5 DEF SyncGrant, enqueueForReferenceGrant, OnItsWay, server, run
  <2>3. CASE OnItsWay'
    BY <2>1, <2>3 DEF RestInv
  <2>4. CASE ~OnItsWay'
    <3>1. ASSUME gw.alive PROVE Answered'
      <4>1. Answered /\ cachedGw = gw
        BY <2>2, <2>4, <3>1 DEF RestInv, OnItsWay
      <4>2. ~(grantWatch /\ gw.ref.ns = g.ns)
        BY <1>5, <2>4, <3>1, <4>1 DEF SyncGrant, enqueueForReferenceGrant, OnItsWay
      <4>3. cachedGrants' \subseteq cachedGrants \cup {g}
        BY <1>5 DEF SyncGrant
      <4> QED
        BY <2>0, <4>1, <4>2, <4>3 DEF Answered, Permitted
    <3> QED
      BY <2>0, <2>1, <3>1 DEF RestInv
  <2> QED
    BY <2>3, <2>4
<1>6. CASE Restart
  <2>1. VersionInv'
    BY <1>6, NotNewerThanItself, NoGatewayNotNewer
    DEF Restart, RestInv, VersionInv, TypeOK, server
  <2> QED
    BY <1>6, <2>1 DEF Restart, RestInv, OnItsWay
<1> QED
  BY <1>1, <1>2, <1>3, <1>4, <1>5, <1>6 DEF Runtime

(***************************************************************************)
(* An edit or a recreation makes the cached gateway differ from the stored *)
(* one, so the watch will bring it.                                        *)
(***************************************************************************)
LEMMA RestEnvironment ==
  ASSUME RestInv, TypeOK', Environment
  PROVE  RestInv'
<1>0. /\ gw \in GatewayType /\ cachedGw \in GatewayType /\ held \in GatewayType
      /\ gw' \in GatewayType
  BY DEF RestInv, TypeOK
<1>1. ASSUME NEW r \in Refs, EditRef(r) PROVE RestInv'
  <2>0. UNCHANGED <<crd, cachedGw, held, grantWatch>>
    BY <1>1 DEF EditRef, caches, filter, run
  <2>1. gw'.uid = gw.uid /\ gw'.resourceVersion = gw.resourceVersion + 1
    BY <1>0, <1>1 DEF EditRef, GatewayType
  <2>2. NotNewer(cachedGw, gw') /\ NotNewer(held, gw')
    BY <1>0, <2>1, Advance DEF RestInv, VersionInv
  <2>3. cachedGw # gw'
    BY <1>0, <2>1 DEF RestInv, VersionInv, NotNewer, GatewayType
  <2> QED
    BY <2>0, <2>1, <2>2, <2>3 DEF RestInv, VersionInv, OnItsWay
<1>2. ASSUME NEW r \in Refs, RecreateGateway(r) PROVE RestInv'
  <2>0. UNCHANGED <<crd, cachedGw, held, grantWatch>>
    BY <1>2 DEF RecreateGateway, caches, filter, run
  <2>1. gw'.uid = gw.uid + 1
    BY <1>0, <1>2 DEF RecreateGateway, Gateway
  <2>2. NotNewer(cachedGw, gw') /\ NotNewer(held, gw')
    BY <1>0, <2>1, Advance DEF RestInv, VersionInv
  <2>3. cachedGw # gw' /\ gw'.uid # 0
    BY <1>0, <2>1 DEF RestInv, VersionInv, NotNewer, GatewayType
  <2> QED
    BY <2>0, <2>2, <2>3 DEF RestInv, VersionInv, OnItsWay
<1>3. ASSUME NEW r \in Refs, RotateSource(r) PROVE RestInv'
  BY <1>3, QuietStep DEF RotateSource, caches, filter, queue, run, OnItsWay
<1>4. ASSUME NEW g \in GrantPool, ChangeGrant(g) PROVE RestInv'
  BY <1>4, QuietStep DEF ChangeGrant, caches, filter, queue, run, OnItsWay
<1>5. CASE DeleteGateway
  <2>0. UNCHANGED <<crd, cachedGw, held, grantWatch>>
    BY <1>5 DEF DeleteGateway, caches, filter, run
  <2>1. /\ gw'.uid = gw.uid /\ gw'.resourceVersion = gw.resourceVersion
        /\ gw'.ref = gw.ref /\ gw'.generation = gw.generation /\ ~gw'.alive
    BY <1>0, <1>5 DEF DeleteGateway, GatewayType
  <2>2. NotNewer(cachedGw, gw') /\ NotNewer(held, gw')
    BY <1>0, <2>1, Advance DEF RestInv, VersionInv
  <2> QED
    BY <2>0, <2>1, <2>2 DEF RestInv, VersionInv
<1>6. CASE CollectGarbage \/ LoseCopy
  BY <1>6, QuietStep DEF CollectGarbage, LoseCopy, caches, filter, queue, run,
                         OnItsWay
<1>7. CASE InstallCRD
  <2>1. ~grantWatch
    BY <1>7 DEF InstallCRD, RestInv, VersionInv
  <2> QED
    BY <1>7, <2>1, QuietStep DEF InstallCRD, caches, filter, queue, run, OnItsWay
<1> QED
  BY <1>1, <1>2, <1>3, <1>4, <1>5, <1>6, <1>7 DEF Environment

LEMMA RestAlways == Spec => []RestInv
<1>1. RestInv /\ [Next]_vars => RestInv'
  <2> SUFFICES ASSUME RestInv, [Next]_vars PROVE RestInv'
    OBVIOUS
  <2>0. TypeOK'
    BY TypeReconcile, TypeRuntime, TypeEnvironment, TypeStutter
    DEF Next, RestInv
  <2>1. CASE Next
    BY <2>0, <2>1, RestReconcile, RestRuntime, RestEnvironment DEF Next
  <2>2. CASE UNCHANGED vars
    BY <2>0, <2>2, QuietStep DEF vars, server, caches, filter, queue, run,
                                 OnItsWay
  <2> QED
    BY <2>1, <2>2
<1> QED
  BY <1>1, RestInit, PTL DEF Spec

(***************************************************************************)
(* A recorded ReferenceNotPermitted, which is not retried, never outlives  *)
(* the lack of a grant: the grant watch wakes the gateway however its      *)
(* event races with the reconcile, the gateway's own event and a restart.  *)
(***************************************************************************)
THEOREM RefusalsAreCurrent == Spec => []RefusalStillHolds
<1>1. RestInv => RefusalStillHolds
  BY DEF RestInv, RefusalStillHolds, AtRest, OnItsWay, Answered
<1> QED
  BY <1>1, RestAlways, PTL

(***************************************************************************)
(* Every live gateway at rest has had its last edit answered, and answered *)
(* with a permanent failure unless there is no periodic resync.            *)
(***************************************************************************)
THEOREM NobodyIsForgotten == Spec => []NobodyForgotten
<1>1. RestInv => NobodyForgotten
  BY DEF RestInv, NobodyForgotten, AtRest, OnItsWay, Answered
<1> QED
  BY <1>1, RestAlways, PTL

-------------------------------------------------------------------------------
(***************************************************************************)
(* The contract of the copy.  What is cached of a source or of the gateway *)
(* only moves forward, so whatever a reconcile has in its hands is at      *)
(* least as new as what an earlier one wrote: the copy is bounded by the   *)
(* caches, by the gateway a running reconcile holds and by the source it   *)
(* has read.                                                               *)
(***************************************************************************)
CopyBehindCaches ==
  copy.exists => /\ copy.owner <= cachedGw.uid
                 /\ copy.version <= cachedSources[copy.from]

CopyBehindReconcile ==
  /\ pc # "idle" => /\ held.uid # 0 /\ held.uid <= cachedGw.uid
                    /\ copy.exists => copy.owner <= held.uid
  /\ pc = "sync" => /\ src # 0 /\ src <= cachedSources[held.ref]
                    /\ copy.exists /\ copy.from = held.ref
                         => copy.version <= src

CopyInv == /\ cachedGw.uid # 0
           /\ \A r \in Refs : cachedSources[r] <= sources[r]
           /\ CopyBehindCaches /\ CopyBehindReconcile

LEMMA CopyFacts ==
  ASSUME TypeOK, ConsentInv
  PROVE  /\ gw.uid \in Nat /\ cachedGw.uid \in Nat /\ held.uid \in Nat
         /\ held.ref \in Refs /\ copy.owner \in Nat /\ copy.version \in Nat
         /\ src \in Nat /\ sources \in [Refs -> Nat]
         /\ cachedSources \in [Refs -> Nat]
         /\ copy.exists => copy.from \in Refs
<1>1. copy.exists => copy.from \in Refs
  BY DEF ConsentInv, CopiedOnlyWithGrant, TypeOK
<1> QED
  BY <1>1 DEF TypeOK, GatewayType, CopyType

LEMMA NoCopyAbsent == ~NoCopy.exists
  BY DEF NoCopy

LEMMA FirstGateway == ASSUME Init PROVE gw.uid = 1
<1>1. PICK r \in Refs : gw = Gateway(1, r)
  BY DEF Init
<1> QED
  BY <1>1 DEF Gateway

LEMMA CopyInit == ASSUME Init PROVE CopyInv
<1>1. sources \in [Refs -> {0, 1}] /\ cachedSources = sources
  BY DEF Init
<1>2. \A r \in Refs : cachedSources[r] <= sources[r]
  BY <1>1
<1>3. cachedGw.uid = 1
  BY FirstGateway DEF Init
<1>4. cachedGw.uid # 0
  BY <1>3
<1> QED
  BY <1>2, <1>4, NoCopyAbsent
  DEF Init, CopyInv, CopyBehindCaches, CopyBehindReconcile

(***************************************************************************)
(* A step that writes no copy and reads nothing: sources and caches move   *)
(* forward, and the reconcile stays where it is, leaves "sync" or ends.    *)
(***************************************************************************)
LEMMA CopyForward ==
  ASSUME TypeOK, ConsentInv, CopyInv, TypeOK',
         \/ copy' = copy
         \/ ~copy'.exists,
         cachedGw.uid <= cachedGw'.uid,
         \A r \in Refs : /\ cachedSources[r] <= cachedSources'[r]
                         /\ cachedSources'[r] <= sources'[r],
         \/ UNCHANGED <<pc, held, src>>
         \/ pc # "idle" /\ pc' # "sync" /\ held' = held
         \/ pc' = "idle"
  PROVE  CopyInv'
<1>1. /\ cachedGw.uid \in Nat /\ cachedGw'.uid \in Nat /\ held.uid \in Nat
      /\ held.ref \in Refs /\ copy.owner \in Nat /\ copy.version \in Nat
      /\ src \in Nat /\ cachedSources \in [Refs -> Nat]
      /\ cachedSources' \in [Refs -> Nat]
      /\ copy.exists => copy.from \in Refs
  BY CopyFacts DEF TypeOK, GatewayType
<1>2. cachedGw'.uid # 0
  BY <1>1 DEF CopyInv
<1>3. CopyBehindCaches'
  BY <1>1 DEF CopyInv, CopyBehindCaches
<1>4. CopyBehindReconcile'
  <2>1. CASE UNCHANGED <<pc, held, src>>
    BY <1>1, <2>1 DEF CopyInv, CopyBehindReconcile
  <2>2. CASE pc # "idle" /\ pc' # "sync" /\ held' = held
    BY <1>1, <2>2 DEF CopyInv, CopyBehindReconcile
  <2>3. CASE pc' = "idle"
    BY <2>3 DEF CopyBehindReconcile
  <2> QED
    BY <2>1, <2>2, <2>3
<1> QED
  BY <1>2, <1>3, <1>4 DEF CopyInv

LEMMA CopyReconcile ==
  ASSUME TypeOK, ConsentInv, CopyInv, TypeOK',
         StartReconcile \/ ReconcileStep \/ Fault
  PROVE  CopyInv'
<1>0. /\ gw.uid \in Nat /\ cachedGw.uid \in Nat /\ held.uid \in Nat
      /\ held.ref \in Refs /\ copy.owner \in Nat /\ copy.version \in Nat
      /\ src \in Nat /\ sources \in [Refs -> Nat]
      /\ cachedSources \in [Refs -> Nat]
      /\ copy.exists => copy.from \in Refs
  BY CopyFacts
<1>1. CASE StartReconcile
  <2>1. UNCHANGED <<copy, sources, cachedGw, cachedSources, src>>
    BY <1>1 DEF StartReconcile, server, caches
  <2>2. \/ UNCHANGED <<pc, held>>
        \/ pc' = "copy" /\ held' = cachedGw
    BY <1>1 DEF StartReconcile
  <2> QED
    BY <1>0, <2>1, <2>2 DEF CopyInv, CopyBehindCaches, CopyBehindReconcile
<1>2. CASE ResolveLocal \/ ReadCopy \/ CheckGrant \/ Track
  <2>1. /\ UNCHANGED <<copy, sources, cachedGw, cachedSources, held>>
        /\ pc # "idle" /\ pc' # "sync"
    BY <1>2 DEF ResolveLocal, ReadCopy, CheckGrant, Track, Goto, server, caches
  <2> QED
    BY <1>0, <2>1, CopyForward DEF CopyInv
<1>3. CASE FailImmutable \/ FailNotPermitted \/ FailNoSource \/ Finish \/ Fault
  <2>1. UNCHANGED <<copy, sources, cachedGw, cachedSources>> /\ pc' = "idle"
    BY <1>3 DEF FailImmutable, FailNotPermitted, FailNoSource, Finish, Fault,
                FailPermanently, PatchReason, Return, server, caches
  <2> QED
    BY <1>0, <2>1, CopyForward DEF CopyInv
<1>4. CASE ReadSource
  <2>1. /\ UNCHANGED <<copy, sources, cachedGw, cachedSources, held>>
        /\ pc = "source" /\ pc' = "sync"
        /\ src' = cachedSources[held.ref] /\ src' # 0
    BY <1>4 DEF ReadSource, Goto, server, caches
  <2> QED
    BY <1>0, <2>1 DEF CopyInv, CopyBehindCaches, CopyBehindReconcile
<1>5. CASE syncSecretCopy
  <2>1. /\ UNCHANGED <<sources, cachedGw, cachedSources, held>>
        /\ pc = "sync" /\ pc' = "track"
        /\ copy'.from = held.ref /\ copy'.owner = held.uid
        /\ copy'.version = src
    BY <1>5 DEF syncSecretCopy, caches
  <2> QED
    BY <1>0, <2>1 DEF CopyInv, CopyBehindCaches, CopyBehindReconcile
<1> QED
  BY <1>1, <1>2, <1>3, <1>4, <1>5 DEF ReconcileStep

LEMMA CopyElsewhere ==
  ASSUME RestInv, ConsentInv, CopyInv, TypeOK',
         Runtime \/ Restart \/ Environment
  PROVE  CopyInv'
<1>0. /\ TypeOK /\ gw.uid \in Nat /\ cachedGw.uid \in Nat
      /\ sources \in [Refs -> Nat] /\ cachedSources \in [Refs -> Nat]
      /\ cachedGw.uid <= gw.uid
  BY CopyFacts DEF RestInv, VersionInv, NotNewer
<1>1. CASE BackoffExpires \/ TimerFires \/ SyncCopyCache
  <2>1. UNCHANGED <<copy, sources, cachedGw, cachedSources, pc, held, src>>
    BY <1>1 DEF BackoffExpires, TimerFires, SyncCopyCache, server, caches, run
  <2> QED
    BY <1>0, <2>1, CopyForward DEF CopyInv
<1>2. CASE SyncGateway
  <2>1. /\ UNCHANGED <<copy, sources, cachedSources, pc, held, src>>
        /\ cachedGw' = gw
    BY <1>2 DEF SyncGateway, server, run
  <2> QED
    BY <1>0, <2>1, CopyForward DEF CopyInv
<1>3. ASSUME NEW r \in Refs, SyncSource(r) PROVE CopyInv'
  <2>1. /\ UNCHANGED <<copy, sources, cachedGw, pc, held, src>>
        /\ cachedSources' = [cachedSources EXCEPT ![r] = sources[r]]
    BY <1>3 DEF SyncSource, server, run
  <2>2. \A q \in Refs : /\ cachedSources[q] <= cachedSources'[q]
                        /\ cachedSources'[q] <= sources[q]
    BY <1>0, <2>1 DEF CopyInv
  <2> QED
    BY <1>0, <2>1, <2>2, CopyForward DEF CopyInv
<1>4. ASSUME NEW g \in GrantPool, SyncGrant(g) \/ ChangeGrant(g) PROVE CopyInv'
  <2>1. UNCHANGED <<copy, sources, cachedGw, cachedSources, pc, held, src>>
    BY <1>4 DEF SyncGrant, ChangeGrant, server, caches, run
  <2> QED
    BY <1>0, <2>1, CopyForward DEF CopyInv
<1>5. CASE Restart
  <2>1. /\ UNCHANGED <<copy, sources>> /\ pc' = "idle"
        /\ cachedGw' = gw /\ cachedSources' = sources
    BY <1>5 DEF Restart, server
  <2> QED
    BY <1>0, <2>1, CopyForward DEF CopyInv
<1>6. ASSUME NEW r \in Refs, EditRef(r) \/ RecreateGateway(r) PROVE CopyInv'
  <2>1. UNCHANGED <<copy, sources, cachedGw, cachedSources, pc, held, src>>
    BY <1>6 DEF EditRef, RecreateGateway, caches, run
  <2> QED
    BY <1>0, <2>1, CopyForward DEF CopyInv
<1>7. ASSUME NEW r \in Refs, RotateSource(r) PROVE CopyInv'
  <2>1. /\ UNCHANGED <<copy, cachedGw, cachedSources, pc, held, src>>
        /\ sources' = [sources EXCEPT ![r] = sources[r] + 1]
    BY <1>7 DEF RotateSource, caches, run
  <2>2. \A q \in Refs : cachedSources[q] <= sources'[q]
    BY <1>0, <2>1 DEF CopyInv
  <2> QED
    BY <1>0, <2>1, <2>2, CopyForward DEF CopyInv
<1>8. CASE DeleteGateway \/ InstallCRD
  <2>1. UNCHANGED <<copy, sources, cachedGw, cachedSources, pc, held, src>>
    BY <1>8 DEF DeleteGateway, InstallCRD, caches, run
  <2> QED
    BY <1>0, <2>1, CopyForward DEF CopyInv
<1>9. CASE CollectGarbage \/ LoseCopy
  <2>1. /\ UNCHANGED <<sources, cachedGw, cachedSources, pc, held, src>>
        /\ ~copy'.exists
    BY <1>9, NoCopyAbsent DEF CollectGarbage, LoseCopy, caches, run
  <2> QED
    BY <1>0, <2>1, CopyForward DEF CopyInv
<1> QED
  BY <1>1, <1>2, <1>3, <1>4, <1>5, <1>6, <1>7, <1>8, <1>9
  DEF Runtime, Environment

(***************************************************************************)
(* Every step is one the contract of the copy allows, or none.             *)
(***************************************************************************)
LEMMA PromiseInit == ASSUME Init PROVE CopyPromise!Init
  BY FirstGateway, NoCopyAbsent DEF Init, CopyPromise!Init

LEMMA PromiseWrite ==
  ASSUME RestInv, ConsentInv, CopyInv, syncSecretCopy
  PROVE  CopyPromise!Next
<1>0. /\ gw.uid \in Nat /\ cachedGw.uid \in Nat /\ held.uid \in Nat
      /\ held.ref \in Refs /\ copy.owner \in Nat /\ copy.version \in Nat
      /\ src \in Nat /\ sources \in [Refs -> Nat]
      /\ cachedSources \in [Refs -> Nat]
  BY CopyFacts DEF RestInv
<1>1. /\ pc = "sync" /\ UNCHANGED <<sources, everGranted, gw>>
      /\ copy' = [exists |-> TRUE, from |-> held.ref, owner |-> held.uid,
                  version |-> src]
  BY DEF syncSecretCopy
<1>2. src \in 1..sources[held.ref]
  BY <1>0, <1>1 DEF CopyInv, CopyBehindReconcile
<1>3. held.uid \in 1..gw.uid
  BY <1>0, <1>1 DEF CopyInv, CopyBehindReconcile, RestInv, VersionInv, NotNewer
<1>4. CopyPromise!Supersedes(held.ref, src, held.uid)
  BY <1>0, <1>1 DEF CopyInv, CopyBehindReconcile, CopyPromise!Supersedes
<1>5. held.ref \in everGranted
  BY <1>1 DEF ConsentInv
<1>6. CopyPromise!Write(held.ref, src, held.uid)
  BY <1>1, <1>2, <1>3, <1>4, <1>5 DEF CopyPromise!Write
<1> QED
  BY <1>0, <1>2, <1>3, <1>6 DEF CopyPromise!Next

LEMMA PromiseStep ==
  ASSUME RestInv, ConsentInv, CopyInv, Next
  PROVE  [CopyPromise!Next]_(CopyPromise!vars)
<1>0. gw \in GatewayType /\ held \in GatewayType
  BY DEF RestInv, TypeOK
<1> DEFINE Same == UNCHANGED <<sources, everGranted, copy>>
<1>1. ASSUME Same, gw'.uid = gw.uid PROVE UNCHANGED CopyPromise!vars
  BY <1>1 DEF CopyPromise!vars
<1>2. CASE StartReconcile \/ Fault \/ Runtime \/ Restart
  BY <1>1, <1>2 DEF StartReconcile, Fault, Runtime, BackoffExpires, TimerFires,
     SyncGateway, SyncCopyCache, SyncSource, SyncGrant, Restart, server
<1>3. CASE ResolveLocal \/ ReadCopy \/ CheckGrant \/ ReadSource \/ FailNoSource
             \/ Track
  BY <1>1, <1>3 DEF ResolveLocal, ReadCopy, CheckGrant, ReadSource,
     FailNoSource, Track, Goto, server
<1>4. CASE FailImmutable \/ FailNotPermitted \/ Finish
  <2>1. PICK reason \in Reasons, requeue \in BOOLEAN :
          PatchReason(reason, requeue) /\ Same
    BY <1>4 DEF FailImmutable, FailNotPermitted, Finish, FailPermanently, Reasons
  <2>2. gw'.uid = gw.uid
    BY <1>0, <2>1, WriteFields DEF PatchReason
  <2> QED
    BY <1>1, <2>1, <2>2
<1>5. CASE syncSecretCopy
  BY <1>5, PromiseWrite
<1>6. ASSUME NEW r \in Refs, EditRef(r) PROVE UNCHANGED CopyPromise!vars
  <2>1. gw'.uid = gw.uid
    BY <1>0, <1>6 DEF EditRef, GatewayType
  <2> QED
    BY <1>1, <1>6, <2>1 DEF EditRef
<1>7. ASSUME NEW r \in Refs, RecreateGateway(r) PROVE CopyPromise!Reincarnate
  BY <1>7 DEF RecreateGateway, Gateway, CopyPromise!Reincarnate
<1>8. ASSUME NEW r \in Refs, RotateSource(r) PROVE CopyPromise!Rotate(r)
  BY <1>8 DEF RotateSource, CopyPromise!Rotate
<1>9. ASSUME NEW g \in GrantPool, ChangeGrant(g) PROVE CopyPromise!Consent
  <2> DEFINE more == {r \in Refs : \E h \in grants' : Consents(h, r)}
  <2>1. more \in SUBSET Refs /\ everGranted' = everGranted \cup more
    BY <1>9 DEF ChangeGrant
  <2> HIDE DEF more
  <2> QED
    BY <1>9, <2>1 DEF ChangeGrant, CopyPromise!Consent
<1>10. CASE DeleteGateway \/ InstallCRD
  <2>1. gw'.uid = gw.uid
    BY <1>0, <1>10 DEF DeleteGateway, InstallCRD, GatewayType
  <2> QED
    BY <1>1, <1>10, <2>1 DEF DeleteGateway, InstallCRD
<1>11. CASE CollectGarbage \/ LoseCopy
  BY <1>11, NoCopyAbsent
  DEF CollectGarbage, LoseCopy, CopyPromise!Next, CopyPromise!Remove
<1> QED
  BY <1>2, <1>3, <1>4, <1>5, <1>6, <1>7, <1>8, <1>9, <1>10, <1>11
  DEF Next, ReconcileStep, Environment, CopyPromise!Next

(***************************************************************************)
(* The operator implements the contract of the copy: it is written only    *)
(* from a consented reference, with a version its source had, and neither  *)
(* a lagging cache nor a retry, a restart or a recreated gateway takes it  *)
(* back to an older version of its source or to an older gateway.          *)
(***************************************************************************)
THEOREM CopyContractImplemented == Spec => ImplementsCopyContract
<1>1. Init => CopyPromise!Init /\ CopyInv
  BY PromiseInit, CopyInit
<1>2. TypeOK' /\ RestInv /\ ConsentInv /\ CopyInv /\ [Next]_vars => CopyInv'
  <2> SUFFICES ASSUME TypeOK', RestInv, ConsentInv, CopyInv, [Next]_vars
               PROVE  CopyInv'
    OBVIOUS
  <2>1. TypeOK
    BY DEF RestInv
  <2>2. CASE Next
    BY <2>1, <2>2, CopyReconcile, CopyElsewhere DEF Next
  <2>3. CASE UNCHANGED vars
    BY <2>3 DEF vars, server, caches, run, CopyInv, CopyBehindCaches,
                CopyBehindReconcile
  <2> QED
    BY <2>2, <2>3
<1>3. RestInv /\ ConsentInv /\ CopyInv /\ [Next]_vars
        => [CopyPromise!Next]_(CopyPromise!vars)
  <2>1. UNCHANGED vars => UNCHANGED CopyPromise!vars
    BY DEF vars, server, CopyPromise!vars
  <2> QED
    BY <2>1, PromiseStep
<1> QED
  BY <1>1, <1>2, <1>3, TypesKept, RestAlways, ConsentAlways, PTL
  DEF Spec, ImplementsCopyContract, CopyPromise!Spec
===============================================================================
