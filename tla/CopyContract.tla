----------------------------- MODULE CopyContract -----------------------------
(***************************************************************************)
(* What the managed copy of a credentials Secret promises to the workloads *)
(* that mount it and to the owner of the source: it is only ever written   *)
(* from a reference that was consented to, with a version the source had   *)
(* and on behalf of an incarnation the gateway had; while it stays, it     *)
(* never goes back to an earlier version of the same source, nor to an     *)
(* earlier incarnation of the gateway.                                     *)
(*                                                                         *)
(* Grants, caches, watches, retries and restarts do not appear.            *)
(* SecretSync implements this.                                             *)
(***************************************************************************)
EXTENDS Naturals

CONSTANT Refs    \* the references a gateway may hold

VARIABLES
  version,       \* version of each source, 0 while it does not exist
  consented,     \* the references whose namespace has ever consented
  incarnation,   \* how many gateways of this name there have been
  copy           \* [exists, from, owner, version]

vars == <<version, consented, incarnation, copy>>

Init == /\ version \in [Refs -> {0, 1}]
        /\ consented = {} /\ incarnation = 1
        /\ ~copy.exists

Rotate(r) == /\ version' = [version EXCEPT ![r] = version[r] + 1]
             /\ UNCHANGED <<consented, incarnation, copy>>

Consent == /\ \E more \in SUBSET Refs : consented' = consented \cup more
           /\ UNCHANGED <<version, incarnation, copy>>

Reincarnate == /\ incarnation' = incarnation + 1
               /\ UNCHANGED <<version, consented, copy>>

\* The copy may be overwritten with version v of r, for the u-th gateway.
Supersedes(r, v, u) ==
  copy.exists => /\ u >= copy.owner
                 /\ copy.from = r => v >= copy.version

Write(r, v, u) ==
  /\ r \in consented /\ v \in 1..version[r] /\ u \in 1..incarnation
  /\ Supersedes(r, v, u)
  /\ copy' = [exists |-> TRUE, from |-> r, owner |-> u, version |-> v]
  /\ UNCHANGED <<version, consented, incarnation>>

\* By the garbage collector or by a user, never by the operator.
Remove == /\ copy.exists /\ ~copy'.exists
          /\ UNCHANGED <<version, consented, incarnation>>

Next == \/ Consent \/ Reincarnate \/ Remove
        \/ \E r \in Refs : Rotate(r)
        \/ \E r \in Refs : \E v \in 1..version[r], u \in 1..incarnation :
             Write(r, v, u)

Spec == Init /\ [][Next]_vars
===============================================================================
