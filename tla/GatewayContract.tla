---------------------------- MODULE GatewayContract ----------------------------
(***************************************************************************)
(* What an LLMBatchGateway promises to whoever only looks at its metadata  *)
(* and status: a verdict is about the generation it names, it is given     *)
(* while that generation is the stored one, a verdict that the spec was    *)
(* processed is given only when the cluster is as that spec says and binds *)
(* the operator until the next edit, and every generation is answered.     *)
(*                                                                         *)
(* How the operator gets there (caches, queues, retries, the order of its  *)
(* calls) does not appear.  GatewayReconcile implements this.              *)
(***************************************************************************)
EXTENDS Naturals

VARIABLES
  alive,       \* the gateway has not been deleted
  generation,  \* the generation of its spec
  reported,    \* the generation and the verdict its status shows
  deployed     \* the cluster is as the spec says, save what others changed

vars == <<alive, generation, reported, deployed>>

\* updateStatus gives the first two verdicts, recordFailure the third.
Processed == {"ready", "waiting"}
Verdicts  == Processed \cup {"failed"}

\* The operator has vouched for the current generation.
Bound == alive /\ reported.generation = generation
               /\ reported.verdict \in Processed

Init == /\ alive = TRUE /\ generation = 1
        /\ reported = [generation |-> 0, verdict |-> "none"]
        /\ deployed \in BOOLEAN

Edit == /\ alive /\ generation' = generation + 1
        /\ deployed' \in BOOLEAN
        /\ UNCHANGED <<alive, reported>>

\* The operator, and whoever else, works on the cluster.
Work == /\ deployed' \in BOOLEAN
        /\ Bound => deployed'
        /\ UNCHANGED <<alive, generation, reported>>

Judge(v) == /\ alive
            /\ v \in Processed => deployed
            /\ reported' = [generation |-> generation, verdict |-> v]
            /\ UNCHANGED <<alive, generation, deployed>>

Delete == /\ alive /\ alive' = FALSE
          /\ UNCHANGED <<generation, reported, deployed>>

Next == Edit \/ Work \/ Delete \/ \E v \in Verdicts : Judge(v)

Spec == Init /\ [][Next]_vars

\* A generation that has no verdict gets one.
Answer == reported.generation # generation /\ \E v \in Verdicts : Judge(v)

Fairness == WF_vars(Answer)
===============================================================================
