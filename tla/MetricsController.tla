-------------------------- MODULE MetricsController --------------------------
(***************************************************************************)
(* The controller that keeps the operator's own metrics Service,           *)
(* ServiceMonitor and PrometheusRule in place.  One reconcile applies the  *)
(* three in a fixed order and ends at the first error; it runs once at     *)
(* startup and then whenever a watched one of them changes.  A kind whose  *)
(* CRD was not installed at startup is not watched.                        *)
(***************************************************************************)
EXTENDS Integers, Sequences

CONSTANTS
  CRDsAtStart,  \* sets of kinds that may be installed at startup
  MaxDrifts,    \* bound: changes and deletions of each resource by others
  MaxFaults,    \* bound: API calls that fail
  MaxRestarts   \* bound: restarts of the operator

\* The order in which Reconcile applies them.
Resources == <<"Service", "ServiceMonitor", "PrometheusRule">>
Kinds     == {Resources[i] : i \in 1..3}

ASSUME MetricsAssumption ==
  /\ CRDsAtStart \subseteq SUBSET Kinds
  /\ \A crds \in CRDsAtStart : "Service" \in crds
  /\ {MaxDrifts, MaxFaults, MaxRestarts} \subseteq Nat

VARIABLES
  crds,     \* kinds the API server knows
  watched,  \* kinds SetupWithManager registered a watch for
  object,   \* each resource: "absent", "applied" or "drifted"
  changed,  \* resources with a change the watch has not delivered yet
  queued, backoff,  \* the empty request is queued, or will be after an error
  pc,       \* 0 while idle, else the position in Resources
  drifts,   \* how often others have changed each resource
  faults, restarts

vars == <<crds, watched, object, changed, queued, backoff, pc, drifts, faults,
          restarts>>

Write(k, state) ==
  /\ object' = [object EXCEPT ![k] = state]
  /\ changed' = IF object[k] = state THEN changed ELSE changed \cup {k}

Start ==
  /\ pc = 0 /\ queued
  /\ queued' = FALSE /\ pc' = 1
  /\ UNCHANGED <<crds, watched, object, changed, backoff, drifts, faults,
                 restarts>>

Apply ==
  /\ pc # 0 /\ Resources[pc] \in crds
  /\ Write(Resources[pc], "applied")
  /\ pc' = (pc + 1) % 4
  /\ UNCHANGED <<crds, watched, queued, backoff, drifts, faults, restarts>>

\* Mutant: an error is logged and counted, and the request is forgotten.
MutErrorForgotten == pc' = 0 /\ UNCHANGED backoff

\* An error ends the reconcile and is retried with backoff.
ReturnError == pc' = 0 /\ backoff' = TRUE

FailNoMatch ==
  /\ pc # 0 /\ Resources[pc] \notin crds
  /\ ReturnError
  /\ UNCHANGED <<crds, watched, object, changed, queued, drifts, faults,
                 restarts>>

Fault ==
  /\ pc # 0 /\ faults < MaxFaults /\ faults' = faults + 1
  /\ ReturnError
  /\ UNCHANGED <<crds, watched, object, changed, queued, drifts, restarts>>

BackoffExpires ==
  /\ backoff /\ backoff' = FALSE /\ queued' = TRUE
  /\ UNCHANGED <<crds, watched, object, changed, pc, drifts, faults, restarts>>

\* nameFilter lets only the operator's own resources through.
Deliver(k) ==
  /\ k \in changed /\ changed' = changed \ {k}
  /\ queued' = (queued \/ k \in watched)
  /\ UNCHANGED <<crds, watched, object, backoff, pc, drifts, faults, restarts>>

Drift(k, state) ==
  /\ object[k] # "absent" /\ drifts[k] < MaxDrifts
  /\ drifts' = [drifts EXCEPT ![k] = drifts[k] + 1]
  /\ Write(k, state)
  /\ UNCHANGED <<crds, watched, queued, backoff, pc, faults, restarts>>

\* The Prometheus operator's CRDs come in one bundle.
InstallCRDs ==
  /\ crds # Kinds /\ crds' = Kinds
  /\ UNCHANGED <<watched, object, changed, queued, backoff, pc, drifts, faults,
                 restarts>>

\* SetupWithManager: the watches, and one request to bootstrap.
Restart ==
  /\ restarts < MaxRestarts /\ restarts' = restarts + 1
  /\ watched' = crds /\ changed' = {}
  /\ queued' = TRUE /\ backoff' = FALSE /\ pc' = 0
  /\ UNCHANGED <<crds, object, drifts, faults>>

Init ==
  /\ crds \in CRDsAtStart /\ watched = crds
  /\ object = [k \in Kinds |-> "absent"] /\ changed = {}
  /\ queued = TRUE /\ backoff = FALSE /\ pc = 0
  /\ drifts = [k \in Kinds |-> 0] /\ faults = 0 /\ restarts = 0

Next ==
  \/ Start \/ Apply \/ FailNoMatch \/ Fault \/ BackoffExpires \/ Restart
  \/ InstallCRDs
  \/ \E k \in Kinds : \/ Deliver(k)
                      \/ \E state \in {"absent", "drifted"} : Drift(k, state)

Spec == Init /\ [][Next]_vars

\* The worker, the backoff timer and the watches make progress.
Fairness ==
  /\ WF_vars(Start) /\ WF_vars(Apply) /\ WF_vars(FailNoMatch)
  /\ WF_vars(BackoffExpires) /\ \A k \in Kinds : WF_vars(Deliver(k))

FairSpec == Spec /\ Fairness

-------------------------------------------------------------------------------
(***************************************************************************)
(* "MetricsController ensures the operator's own metrics Service,          *)
(* ServiceMonitor and PrometheusRule are always present and up to date":   *)
(* once nobody changes them any more, every resource whose kind is         *)
(* installed is there as the operator wants it, for good.  Left out is a   *)
(* resource that others changed and whose kind was installed after the     *)
(* operator's last start: it has no watch.                                 *)
(***************************************************************************)
AlwaysPresent ==
  <>[](\A k \in crds : \/ object[k] = "applied"
                       \/ k \notin watched /\ drifts[k] > 0)

(***************************************************************************)
(* The controller only comes to rest when its work is done: with nothing   *)
(* running, queued, waiting for a retry or yet to be delivered, all three  *)
(* kinds are installed and every resource is as the operator wants it, up  *)
(* to the ones left out above.  An error, a missing CRD, a restart or a    *)
(* change between two of the three applies always leaves something to do.  *)
(***************************************************************************)
AtRest == pc = 0 /\ ~queued /\ ~backoff /\ changed = {}

RestsOnlyWhenDone ==
  AtRest => /\ crds = Kinds
            /\ \A k \in Kinds : \/ object[k] = "applied"
                                \/ k \notin watched /\ drifts[k] > 0
==============================================================================
