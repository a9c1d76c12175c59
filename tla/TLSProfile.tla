------------------------------ MODULE TLSProfile ------------------------------
(***************************************************************************)
(* The cluster's TLS profile: Resolve reads it from the APIServer resource *)
(* while the process starts, ProfileValuesFromSpec converts it for the     *)
(* charts, and SetupWatcher makes a later change end the process, so that  *)
(* its successor reads it again.  A transient error of the first read is   *)
(* bridged with the Intermediate profile.                                  *)
(***************************************************************************)
EXTENDS Integers, Sequences, FiniteSets

CONSTANTS
  Profiles,      \* profiles the cluster may start with: [min, ciphers]
  LaterProfiles, \* profiles it may change to
  Intermediate,  \* configv1.TLSProfiles[TLSProfileIntermediateType]
  Policies,      \* values of the TLS adherence policy
  Clusters,      \* what reading the APIServer resource may find: "present",
                 \* "notfound", or "nomatch" on a cluster other than OpenShift
  SuiteName,     \* suite name of each cipher NewTLSConfigFromProfile knows
  SecureSuites,  \* tls.CipherSuites(), by name
  TLS12Suites,   \* the ones among them that TLS 1.2 can use
  MaxFaults,     \* bound: reads of the APIServer resource that fail, crashes
  MaxChanges     \* bound: changes of profile or policy

AllProfiles == Profiles \cup LaterProfiles \cup {Intermediate}

ASSUME ProfileAssumption ==
  /\ Clusters \subseteq {"present", "notfound", "nomatch"}
  /\ \A p \in AllProfiles :
       /\ p.min \in {"", "TLS10", "TLS11", "TLS12", "TLS13"}
       /\ p.ciphers \in Seq(STRING)
  /\ TLS12Suites \subseteq SecureSuites
  /\ MaxFaults \in Nat /\ MaxChanges \in Nat

VARIABLES
  apiserver,  \* the APIServer resource "cluster"
  pc,         \* "profile", "adherence", "setup", "running" or "exited"
  result,     \* tls.Result
  walk,       \* the conversion of its profile, in "setup"
  watcher,    \* SecurityProfileWatcher: registered, with its initial values
  notified,   \* an event of the resource waits for the watcher
  absent,     \* history: this process found no resource when it read it
  faults, changes

vars == <<apiserver, pc, result, walk, watcher, notified, absent, faults,
          changes>>

(***************************************************************************)
(* The conversion.  The library reports the ciphers it does not know and   *)
(* the codes of the others; the loop walks both lists to tell which cipher *)
(* each code belongs to.  The lists are given by the positions they come   *)
(* from: Nth(K, n) is the n-th position of K.                              *)
(***************************************************************************)
Positions(p) == 1..Len(p.ciphers)
KnownAt(p)   == {i \in Positions(p) : p.ciphers[i] \in DOMAIN SuiteName}

Nth(K, n)  == CHOOSE i \in K : Cardinality({j \in K : j <= i}) = n
CiphersAt(p, K) == [n \in 1..Cardinality(K) |-> p.ciphers[Nth(K, n)]]
SuitesAt(p, K)  == [n \in 1..Cardinality(K) |-> SuiteName[p.ciphers[Nth(K, n)]]]

\* NewTLSConfigFromProfile: codes (by suite name) and unsupported ciphers.
Codes(p)   == SuitesAt(p, KnownAt(p))
Unknown(p) == CiphersAt(p, Positions(p) \ KnownAt(p))

\* Before the loop of batchGatewayCipherSuiteNames: the next cipher, the next
\* code and unknown cipher of the library's lists, and the two results.
NoWalk == [at |-> 1, code |-> 1, unknown |-> 1,
           names |-> << >>, unsupported |-> << >>]

\* Mutant: the position in the library's list of unknown ciphers is not moved.
MutWalkStep(p, w) ==
  LET c == p.ciphers[w.at]
      next == [w EXCEPT !.at = w.at + 1]
  IN IF \/ w.unknown <= Len(Unknown(p)) /\ Unknown(p)[w.unknown] = c
        \/ w.code > Len(Codes(p))
       THEN [next EXCEPT !.unsupported = Append(w.unsupported, c)]
     ELSE IF Codes(p)[w.code] \in SecureSuites
       THEN [next EXCEPT !.code = w.code + 1,
                         !.names = Append(w.names, Codes(p)[w.code])]
     ELSE [next EXCEPT !.code = w.code + 1,
                       !.unsupported = Append(w.unsupported, c)]

WalkStep(p, w) ==
  LET c == p.ciphers[w.at]
      next == [w EXCEPT !.at = w.at + 1]
  IN IF w.unknown <= Len(Unknown(p)) /\ Unknown(p)[w.unknown] = c
       THEN [next EXCEPT !.unknown = w.unknown + 1,
                         !.unsupported = Append(w.unsupported, c)]
     ELSE IF w.code > Len(Codes(p))
       THEN [next EXCEPT !.unsupported = Append(w.unsupported, c)]
     ELSE IF Codes(p)[w.code] \in SecureSuites
       THEN [next EXCEPT !.code = w.code + 1,
                         !.names = Append(w.names, Codes(p)[w.code])]
     ELSE [next EXCEPT !.code = w.code + 1,
                       !.unsupported = Append(w.unsupported, c)]

\* The loop is entered for ciphers of a profile below TLS 1.3.
Walking == /\ result.profile.min \in {"", "TLS12"}
           /\ walk.at <= Len(result.profile.ciphers)

WalkCipher ==
  /\ pc = "setup" /\ Walking
  /\ walk' = WalkStep(result.profile, walk)
  /\ UNCHANGED <<apiserver, pc, result, watcher, notified, absent, faults,
                 changes>>

hasTLS12CipherSuite(names) == \E i \in DOMAIN names : names[i] \in TLS12Suites

\* ProfileValuesFromSpec returns no error; the values are then walk.names.
Accepted ==
  /\ result.profile.min \in {"", "TLS12", "TLS13"}
  /\ \/ result.profile.min = "TLS13" \/ result.profile.ciphers = << >>
     \/ hasTLS12CipherSuite(walk.names)

(***************************************************************************)
(* Resolve.  No resource, or no such kind: the defaults, and no watcher.   *)
(* A transient error: the defaults for the profile, but with a watcher;    *)
(* for the policy, none.  Any other error ends the process.                *)
(***************************************************************************)
NoResult  == [profile |-> Intermediate, profileFetched |-> FALSE,
              adherence |-> "", adherenceFetched |-> FALSE]
NoWatcher == [registered |-> FALSE, profile |-> Intermediate,
              onAdherence |-> FALSE, adherence |-> ""]

Exit == /\ pc' = "exited" /\ result' = NoResult /\ walk' = NoWalk
        /\ watcher' = NoWatcher /\ notified' = FALSE /\ absent' = FALSE

SpendFault == faults < MaxFaults /\ faults' = faults + 1

FetchProfile ==
  /\ pc = "profile" /\ pc' = "adherence"
  /\ result' = IF apiserver.state = "present"
                 THEN [result EXCEPT !.profile = apiserver.profile,
                                     !.profileFetched = TRUE]
                 ELSE [result EXCEPT !.profileFetched = FALSE]
  /\ absent' = (apiserver.state # "present")
  /\ UNCHANGED <<apiserver, walk, watcher, notified, faults, changes>>

\* Mutant: after a transient error the profile does not count as fetched.
MutBridged == [result EXCEPT !.profile = Intermediate]

Bridged == [result EXCEPT !.profile = Intermediate, !.profileFetched = TRUE]

FetchProfileTransient ==
  /\ pc = "profile" /\ pc' = "adherence" /\ SpendFault
  /\ result' = Bridged
  /\ UNCHANGED <<apiserver, walk, watcher, notified, absent, changes>>

FetchAdherence ==
  /\ pc = "adherence" /\ pc' = "setup"
  /\ result' = IF apiserver.state = "present"
                 THEN [result EXCEPT !.adherence = apiserver.adherence,
                                     !.adherenceFetched = TRUE]
                 ELSE result
  /\ UNCHANGED <<apiserver, walk, watcher, notified, absent, faults, changes>>

FetchAdherenceTransient ==
  /\ pc = "adherence" /\ pc' = "setup" /\ SpendFault
  /\ UNCHANGED <<apiserver, result, walk, watcher, notified, absent, changes>>

\* An error that Resolve returns, or a crash.
Fail ==
  /\ pc # "exited" /\ SpendFault
  /\ Exit
  /\ UNCHANGED <<apiserver, changes>>

(***************************************************************************)
(* main: convert the profile, set up the watcher and start the manager. A  *)
(* watcher of a kind the cluster does not have keeps it from starting.     *)
(***************************************************************************)
SetupWatcher ==
  watcher' = IF ~result.profileFetched THEN NoWatcher
             ELSE [registered |-> TRUE, profile |-> result.profile,
                   onAdherence |-> result.adherenceFetched,
                   adherence |-> result.adherence]

Start ==
  /\ pc = "setup" /\ ~Walking /\ Accepted
  /\ result.profileFetched => apiserver.state # "nomatch"
  /\ SetupWatcher
  /\ pc' = "running"
  /\ notified' = (result.profileFetched /\ apiserver.state = "present")
  /\ UNCHANGED <<apiserver, result, walk, absent, faults, changes>>

StartFails ==
  /\ pc = "setup" /\ ~Walking
  /\ \/ ~Accepted
     \/ result.profileFetched /\ apiserver.state = "nomatch"
  /\ Exit
  /\ UNCHANGED <<apiserver, faults, changes>>

\* The watcher compares what is stored with what it started with and cancels
\* the manager's context when they differ.
Changed ==
  /\ apiserver.state = "present"
  /\ \/ watcher.profile # apiserver.profile
     \/ watcher.onAdherence /\ watcher.adherence # apiserver.adherence

WatcherReconcile ==
  /\ pc = "running" /\ notified
  /\ IF Changed THEN Exit
     ELSE notified' = FALSE /\ UNCHANGED <<pc, result, walk, watcher, absent>>
  /\ UNCHANGED <<apiserver, faults, changes>>

\* The kubelet starts the container again.
Restart ==
  /\ pc = "exited" /\ pc' = "profile"
  /\ UNCHANGED <<apiserver, result, walk, watcher, notified, absent, faults,
                 changes>>

\* The resource is changed, or created where the kind exists.
ChangeAPIServer(p, a) ==
  /\ apiserver.state # "nomatch" /\ changes < MaxChanges
  /\ apiserver' = [state |-> "present", profile |-> p, adherence |-> a]
  /\ apiserver' # apiserver
  /\ changes' = changes + 1
  /\ notified' = (notified \/ watcher.registered)
  /\ UNCHANGED <<pc, result, walk, watcher, absent, faults>>

-------------------------------------------------------------------------------
Init ==
  /\ apiserver \in [state : Clusters, profile : Profiles, adherence : Policies]
  /\ apiserver.state # "present" => apiserver.profile = Intermediate
  /\ pc = "profile" /\ result = NoResult /\ walk = NoWalk
  /\ watcher = NoWatcher
  /\ notified = FALSE /\ absent = FALSE /\ faults = 0 /\ changes = 0

Process == \/ FetchProfile \/ FetchAdherence \/ WalkCipher \/ Start
           \/ StartFails \/ WatcherReconcile \/ Restart

Next ==
  \/ Process \/ FetchProfileTransient \/ FetchAdherenceTransient \/ Fail
  \/ \E p \in LaterProfiles, a \in Policies : ChangeAPIServer(p, a)

Spec == Init /\ [][Next]_vars

\* The process runs, its watch delivers, and the kubelet restarts it.
FairSpec == Spec /\ WF_vars(Process)

-------------------------------------------------------------------------------
(***************************************************************************)
(* "triggers a graceful restart when the TLS profile or adherence policy   *)
(* changes": once the cluster's settings stay as they are and can be       *)
(* converted, the process runs with them for good, whatever failed while   *)
(* it or its predecessors started: with the stored profile, or with the    *)
(* defaults where there is none, and not with a policy it read earlier.    *)
(* Only a process that found no resource when it started, and so has no    *)
(* watcher, may miss one that is created later; every other one, also one  *)
(* that could not tell, takes it over.                                     *)
(***************************************************************************)
\* The positions of the secure suites of a profile.
UsableAt(p) == {i \in KnownAt(p) : SuiteName[p.ciphers[i]] \in SecureSuites}

Convertible(p) ==
  /\ p.min \in {"", "TLS12", "TLS13"}
  /\ \/ p.min = "TLS13" \/ p.ciphers = << >>
     \/ \E i \in UsableAt(p) : SuiteName[p.ciphers[i]] \in TLS12Suites

InForce ==
  IF apiserver.state # "present" \/ absent
    THEN pc = "running" /\ result.profile = Intermediate
  ELSE Convertible(apiserver.profile) =>
         /\ pc = "running" /\ result.profile = apiserver.profile
         /\ result.adherenceFetched => result.adherence = apiserver.adherence

SettingsInForce == <>[]InForce

(***************************************************************************)
(* No change slips past: a process that serves with no event waiting for   *)
(* its watcher runs with what is stored now, although the two reads, the   *)
(* registration of the watch and the changes interleave in any order.      *)
(***************************************************************************)
NoChangeMissed == pc = "running" /\ ~notified => InForce

(***************************************************************************)
(* The loop over the two lists pairs every code with its own cipher: the   *)
(* charts get the secure suites of the profile, in its order, nothing else *)
(* and, below TLS 1.3, something TLS 1.2 can use; every other cipher of    *)
(* the profile is reported as unsupported.                                 *)
(***************************************************************************)
ConversionExact ==
  LET p == result.profile
  IN pc = "running" =>
       IF p.min = "TLS13" THEN walk.names = << >>
       ELSE /\ walk.names = SuitesAt(p, UsableAt(p))
            /\ walk.unsupported = CiphersAt(p, Positions(p) \ UsableAt(p))
            /\ Convertible(p)
===============================================================================
