---------------------------- MODULE RolloutStatus ----------------------------
(***************************************************************************)
(* What the operator reports for one workload: the replica counts derived  *)
(* from a Deployment or a StatefulSet, and the Available verdict derived   *)
(* from the counts.  The workload d is a record with the fields of the     *)
(* Kubernetes object the code reads:                                       *)
(*                                                                         *)
(*   generation, desired            metadata.generation, spec.replicas     *)
(*   observedGeneration, updatedReplicas, replicas, readyReplicas   status *)
(*   revised     status.currentRevision = status.updateRevision            *)
(***************************************************************************)
EXTENDS Integers

(***************************************************************************)
(* reportedReadyReplicas: readiness is hidden during a rollout and capped. *)
(***************************************************************************)
reportedReadyReplicas(ready, desired, rolledOut) ==
  IF ~rolledOut THEN 0
  ELSE IF ready > desired THEN desired
  ELSE ready

deploymentRolledOut(d) ==
  /\ d.observedGeneration >= d.generation
  /\ d.updatedReplicas = d.desired
  /\ d.replicas = d.desired
  /\ d.readyReplicas >= d.desired

statefulSetRolledOut(ss) ==
  /\ deploymentRolledOut(ss)
  /\ ss.revised

deploymentReplicaStatus(d) ==
  [ replicas      |-> d.desired,
    readyReplicas |-> reportedReadyReplicas(d.readyReplicas, d.desired,
                                            deploymentRolledOut(d)) ]

statefulSetReplicaStatus(ss) ==
  [ replicas      |-> ss.desired,
    readyReplicas |-> reportedReadyReplicas(ss.readyReplicas, ss.desired,
                                            statefulSetRolledOut(ss)) ]

(***************************************************************************)
(* The verdict of setComponentAvailableCondition on reported counts.  A    *)
(* component without a workload has the counts 0/0 and is not available.   *)
(***************************************************************************)
available(c) == c.replicas > 0 /\ c.readyReplicas >= c.replicas
==============================================================================
