------------------------ MODULE MetricsController_proof ------------------------
(***************************************************************************)
(* Proof, for every set of CRDs at startup and every bound, that the       *)
(* metrics controller comes to rest only when its resources are in place.  *)
(***************************************************************************)
EXTENDS MetricsController, TLAPS

Types ==
  /\ crds \subseteq Kinds /\ watched \subseteq Kinds
  /\ object \in [Kinds -> {"absent", "applied", "drifted"}]
  /\ pc \in 0..3 /\ drifts \in [Kinds -> Nat]

(***************************************************************************)
(* Every resource is in place, or its change will wake the controller, or  *)
(* a reconcile is to come, or the running one has yet to reach it.  What   *)
(* was ever there has its kind installed.                                  *)
(***************************************************************************)
Ahead(k)   == \E i \in 1..3 : pc # 0 /\ pc <= i /\ Resources[i] = k
InPlace(k) == object[k] = "applied" \/ (k \notin watched /\ drifts[k] > 0)
Pending(k) == queued \/ backoff \/ (k \in changed /\ k \in watched) \/ Ahead(k)

UpkeepInv ==
  /\ Types
  /\ \A k \in Kinds : object[k] # "absent" \/ drifts[k] > 0 => k \in crds
  /\ \A k \in Kinds : InPlace(k) \/ Pending(k)

LEMMA KindsAreResources == \A k \in Kinds : \E i \in 1..3 : Resources[i] = k
  BY DEF Kinds

LEMMA ResourcesAreKinds == \A i \in 1..3 : Resources[i] \in Kinds
  BY DEF Kinds

LEMMA ResourcesDistinct ==
  \A i, j \in 1..3 : Resources[i] = Resources[j] => i = j
  BY DEF Resources

-------------------------------------------------------------------------------
LEMMA UpkeepInit == Init => UpkeepInv
<1> SUFFICES ASSUME Init PROVE UpkeepInv
  OBVIOUS
<1>1. crds \subseteq Kinds
  BY MetricsAssumption DEF Init
<1>2. Types
  BY <1>1 DEF Init, Types
<1>3. \A k \in Kinds : object[k] = "absent" /\ drifts[k] = 0
  BY DEF Init
<1>4. \A k \in Kinds : Pending(k)
  BY DEF Init, Pending
<1> QED
  BY <1>2, <1>3, <1>4 DEF UpkeepInv

(***************************************************************************)
(* An error leaves a retry, whichever resource it hit.                     *)
(***************************************************************************)
LEMMA ErrorStep ==
  ASSUME UpkeepInv, ReturnError,
         UNCHANGED <<crds, watched, object, changed, queued, drifts>>
  PROVE  UpkeepInv'
<1>1. \A k \in Kinds : Pending(k)'
  BY DEF ReturnError, Pending
<1> QED
  BY <1>1 DEF UpkeepInv, Types, ReturnError

(***************************************************************************)
(* Apply puts the resource at pc in place; the ones behind it keep what    *)
(* they had, the ones after it are still ahead.                            *)
(***************************************************************************)
LEMMA ApplyStep ==
  ASSUME UpkeepInv, Apply
  PROVE  UpkeepInv'
<1> DEFINE here == Resources[pc]
<1>0. pc \in 1..3 /\ here \in Kinds /\ here \in crds
  BY ResourcesAreKinds DEF UpkeepInv, Types, Apply
<1>1. /\ object' = [object EXCEPT ![here] = "applied"]
      /\ changed \subseteq changed'
      /\ UNCHANGED <<crds, watched, queued, backoff, drifts>>
  BY DEF Apply, Write
<1>2. pc' = IF pc = 3 THEN 0 ELSE pc + 1
  BY <1>0 DEF Apply
<1>3. Types'
  BY <1>0, <1>1, <1>2 DEF UpkeepInv, Types
<1>4. ASSUME NEW k \in Kinds PROVE InPlace(k)' \/ Pending(k)'
  <2>1. CASE k = here
    BY <1>0, <1>1, <2>1 DEF InPlace, UpkeepInv, Types
  <2>2. CASE k # here
    <3>1. object'[k] = object[k]
      BY <1>1, <2>2 DEF UpkeepInv, Types
    <3>2. Ahead(k) => Ahead(k)'
      BY <1>0, <1>2, <2>2 DEF Ahead
    <3> QED
      BY <1>1, <3>1, <3>2 DEF InPlace, Pending, UpkeepInv
  <2> QED
    BY <2>1, <2>2
<1>5. ASSUME NEW k \in Kinds
      PROVE  object'[k] # "absent" \/ drifts'[k] > 0 => k \in crds'
  BY <1>0, <1>1 DEF UpkeepInv, Types
<1> QED
  BY <1>3, <1>4, <1>5 DEF UpkeepInv

(***************************************************************************)
(* Others change one resource: its watch will tell, if it has one.         *)
(***************************************************************************)
LEMMA DriftStep ==
  ASSUME UpkeepInv, NEW d \in Kinds, NEW state \in {"absent", "drifted"},
         Drift(d, state)
  PROVE  UpkeepInv'
<1>1. /\ object' = [object EXCEPT ![d] = state]
      /\ drifts' = [drifts EXCEPT ![d] = drifts[d] + 1]
      /\ changed' = IF object[d] = state THEN changed ELSE changed \cup {d}
      /\ object[d] # "absent"
      /\ UNCHANGED <<crds, watched, queued, backoff, pc>>
  BY DEF Drift, Write
<1>2. Types'
  BY <1>1 DEF UpkeepInv, Types
<1>3. ASSUME NEW k \in Kinds PROVE InPlace(k)' \/ Pending(k)'
  <2>1. CASE k # d
    BY <1>1, <2>1 DEF UpkeepInv, Types, InPlace, Pending, Ahead
  <2>2. CASE k = d /\ k \notin watched
    BY <1>1, <2>2 DEF UpkeepInv, Types, InPlace
  <2>3. CASE k = d /\ k \in watched /\ object[d] # state
    BY <1>1, <2>3 DEF Pending
  <2>4. CASE k = d /\ k \in watched /\ object[d] = state
    <3>1. ~InPlace(k)
      BY <2>4 DEF InPlace
    <3> QED
      BY <1>1, <2>4, <3>1 DEF UpkeepInv, Pending, Ahead
  <2> QED
    BY <2>1, <2>2, <2>3, <2>4
<1>4. ASSUME NEW k \in Kinds
      PROVE  object'[k] # "absent" \/ drifts'[k] > 0 => k \in crds'
  BY <1>1 DEF UpkeepInv, Types
<1> QED
  BY <1>2, <1>3, <1>4 DEF UpkeepInv

LEMMA UpkeepStep ==
  ASSUME UpkeepInv, [Next]_vars
  PROVE  UpkeepInv'
<1>1. CASE Start
  <2>1. \A k \in Kinds : Ahead(k)'
    BY <1>1, KindsAreResources DEF Start, Ahead
  <2>2. Types'
    BY <1>1 DEF Start, UpkeepInv, Types
  <2>3. \A k \in Kinds : Pending(k)'
    BY <2>1 DEF Pending
  <2> QED
    BY <1>1, <2>2, <2>3 DEF Start, UpkeepInv
<1>2. CASE Apply
  BY <1>2, ApplyStep
<1>3. CASE FailNoMatch \/ Fault
  BY <1>3, ErrorStep DEF FailNoMatch, Fault
<1>4. CASE BackoffExpires \/ Restart
  <2>1. queued' /\ Types'
    BY <1>4 DEF BackoffExpires, Restart, UpkeepInv, Types
  <2>2. \A k \in Kinds : Pending(k)'
    BY <2>1 DEF Pending
  <2> QED
    BY <1>4, <2>1, <2>2 DEF BackoffExpires, Restart, UpkeepInv
<1>5. CASE InstallCRDs
  BY <1>5 DEF InstallCRDs, UpkeepInv, Types, InPlace, Pending, Ahead
<1>6. ASSUME NEW d \in Kinds, Deliver(d) PROVE UpkeepInv'
  <2>1. Types'
    BY <1>6 DEF Deliver, UpkeepInv, Types
  <2>2. \A k \in Kinds : Pending(k) => Pending(k)'
    BY <1>6 DEF Deliver, Pending, Ahead
  <2> QED
    BY <1>6, <2>1, <2>2 DEF Deliver, UpkeepInv, InPlace
<1>7. ASSUME NEW d \in Kinds, NEW state \in {"absent", "drifted"},
             Drift(d, state)
      PROVE  UpkeepInv'
  BY <1>7, DriftStep
<1>8. CASE UNCHANGED vars
  BY <1>8 DEF vars, UpkeepInv, Types, InPlace, Pending, Ahead
<1> QED
  BY <1>1, <1>2, <1>3, <1>4, <1>5, <1>6, <1>7, <1>8 DEF Next

(***************************************************************************)
(* The metrics controller rests only when all three CRDs are installed and *)
(* its Service, ServiceMonitor and PrometheusRule are in place.            *)
(***************************************************************************)
THEOREM WorkIsDone == Spec => []RestsOnlyWhenDone
<1>1. UpkeepInv => RestsOnlyWhenDone
  <2> SUFFICES ASSUME UpkeepInv, AtRest
               PROVE  /\ crds = Kinds
                      /\ \A k \in Kinds : InPlace(k)
    BY DEF RestsOnlyWhenDone, InPlace
  <2>1. \A k \in Kinds : InPlace(k)
    BY DEF UpkeepInv, AtRest, Pending, Ahead
  <2>2. \A k \in Kinds : k \in crds
    BY <2>1 DEF UpkeepInv, InPlace
  <2> QED
    BY <2>1, <2>2 DEF UpkeepInv, Types
<1> QED
  BY <1>1, UpkeepInit, UpkeepStep, PTL DEF Spec
================================================================================
