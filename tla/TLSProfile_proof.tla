---------------------------- MODULE TLSProfile_proof ----------------------------
(***************************************************************************)
(* Proofs, for every set of profiles, policies and clusters and for every  *)
(* bound, that a running process never misses a change of the profile, and *)
(* that the ciphers of every profile, of any length, are converted exactly.*)
(***************************************************************************)
EXTENDS TLSProfile, FiniteSetTheorems, FunctionTheorems, SequenceTheorems,
        TLAPS

ResultType == [profile : AllProfiles, profileFetched : BOOLEAN,
               adherence : Policies \cup {""}, adherenceFetched : BOOLEAN]

(***************************************************************************)
(* The watcher compares with the values the process started with; without  *)
(* a resource the process has the defaults; and a process that did not     *)
(* find out that there is no resource will have a watcher.                 *)
(***************************************************************************)
WatcherHolds ==
  IF result.profileFetched
    THEN watcher = [registered |-> TRUE, profile |-> result.profile,
                    onAdherence |-> result.adherenceFetched,
                    adherence |-> result.adherence]
    ELSE watcher = NoWatcher

ReloadInv ==
  /\ apiserver \in [state : {"present", "notfound", "nomatch"},
                    profile : AllProfiles, adherence : Policies]
  /\ result \in ResultType
  /\ pc \in {"profile", "adherence", "setup", "running", "exited"}
  /\ pc \in {"profile", "exited"} => result = NoResult /\ ~absent
  /\ absent => ~result.profileFetched
  /\ apiserver.state # "present" \/ absent => result.profile = Intermediate
  /\ pc \in {"adherence", "setup", "running"} /\ ~absent => result.profileFetched
  /\ pc = "running" => WatcherHolds
  /\ pc = "running" /\ ~notified /\ apiserver.state = "present" /\ ~absent
       => ~Changed

LEMMA NoResultType == NoResult \in ResultType
  BY DEF NoResult, ResultType, AllProfiles

LEMMA ExitStep ==
  ASSUME ReloadInv, Exit, UNCHANGED apiserver PROVE ReloadInv'
<1>1. result' = NoResult /\ pc' = "exited" /\ ~absent'
  BY DEF Exit
<1>2. NoResult.profile = Intermediate
  BY DEF NoResult
<1> QED
  BY <1>1, <1>2, NoResultType DEF ReloadInv

LEMMA ReloadInit == Init => ReloadInv
<1> SUFFICES ASSUME Init PROVE ReloadInv
  OBVIOUS
<1>1. result = NoResult /\ pc = "profile" /\ ~absent
  BY DEF Init
<1>2. NoResult.profile = Intermediate
  BY DEF NoResult
<1>3. apiserver \in [state : {"present", "notfound", "nomatch"},
                    profile : AllProfiles, adherence : Policies]
  BY ProfileAssumption DEF Init, AllProfiles
<1> QED
  BY <1>1, <1>2, <1>3, NoResultType DEF ReloadInv

(***************************************************************************)
(* The two reads.                                                          *)
(***************************************************************************)
LEMMA ReadSteps ==
  ASSUME ReloadInv,
         \/ FetchProfile \/ FetchProfileTransient
         \/ FetchAdherence \/ FetchAdherenceTransient
  PROVE  ReloadInv'
<1>0. /\ result \in ResultType /\ Intermediate \in AllProfiles
      /\ apiserver.profile \in AllProfiles /\ apiserver.adherence \in Policies
  BY DEF ReloadInv, AllProfiles
<1>1. CASE FetchProfile
  <2>0. /\ result = NoResult /\ ~absent /\ pc' = "adherence"
        /\ apiserver' = apiserver /\ absent' = (apiserver.state # "present")
    BY <1>1 DEF FetchProfile, ReloadInv
  <2>1. CASE apiserver.state = "present"
    <3>1. result' = [result EXCEPT !.profile = apiserver.profile,
                                   !.profileFetched = TRUE]
      BY <1>1, <2>1 DEF FetchProfile
    <3>2. result' \in ResultType /\ result'.profileFetched
      BY <1>0, <3>1 DEF ResultType
    <3> QED
      BY <2>0, <2>1, <3>2 DEF ReloadInv
  <2>2. CASE apiserver.state # "present"
    <3>1. result' = [result EXCEPT !.profileFetched = FALSE]
      BY <1>1, <2>2 DEF FetchProfile
    <3>2. /\ result' \in ResultType /\ ~result'.profileFetched
          /\ result'.profile = Intermediate
      BY <1>0, <2>0, <3>1 DEF ResultType, NoResult
    <3> QED
      BY <2>0, <2>2, <3>2 DEF ReloadInv
  <2> QED
    BY <2>1, <2>2
<1>2. CASE FetchProfileTransient
  <2>1. /\ ~absent /\ pc' = "adherence" /\ UNCHANGED <<apiserver, absent>>
        /\ result' = [result EXCEPT !.profile = Intermediate,
                                    !.profileFetched = TRUE]
    BY <1>2 DEF FetchProfileTransient, Bridged, ReloadInv
  <2>2. /\ result' \in ResultType /\ result'.profileFetched
        /\ result'.profile = Intermediate
    BY <1>0, <2>1 DEF ResultType
  <2> QED
    BY <2>1, <2>2 DEF ReloadInv
<1>3. CASE FetchAdherence \/ FetchAdherenceTransient
  <2>1. /\ pc = "adherence" /\ pc' = "setup" /\ UNCHANGED <<apiserver, absent>>
        /\ \/ result' = result
           \/ result' = [result EXCEPT !.adherence = apiserver.adherence,
                                       !.adherenceFetched = TRUE]
    BY <1>3 DEF FetchAdherence, FetchAdherenceTransient
  <2>2. /\ result' \in ResultType /\ result'.profile = result.profile
        /\ result'.profileFetched = result.profileFetched
    BY <1>0, <2>1 DEF ResultType
  <2> QED
    BY <2>1, <2>2 DEF ReloadInv
<1> QED
  BY <1>1, <1>2, <1>3

(***************************************************************************)
(* Start registers the watcher with the values that were read; the first   *)
(* event of the new watch reports what was changed in between.             *)
(***************************************************************************)
LEMMA StartStep ==
  ASSUME ReloadInv, Start PROVE ReloadInv'
<1>1. /\ pc = "setup" /\ pc' = "running" /\ UNCHANGED <<apiserver, result, absent>>
      /\ notified' = (result.profileFetched /\ apiserver.state = "present")
  BY DEF Start
<1>2. WatcherHolds'
  BY <1>1 DEF Start, SetupWatcher, WatcherHolds
<1>3. ~absent => result.profileFetched
  BY <1>1 DEF ReloadInv
<1> QED
  BY <1>1, <1>2, <1>3 DEF ReloadInv

(***************************************************************************)
(* A change reaches every watcher that is registered, and a process whose  *)
(* reads found a resource has one once it runs.                            *)
(***************************************************************************)
LEMMA ChangeStep ==
  ASSUME ReloadInv, NEW p \in LaterProfiles, NEW a \in Policies,
         ChangeAPIServer(p, a)
  PROVE  ReloadInv'
<1>1. /\ apiserver' = [state |-> "present", profile |-> p, adherence |-> a]
      /\ notified' = (notified \/ watcher.registered)
      /\ UNCHANGED <<pc, result, watcher, absent>>
  BY DEF ChangeAPIServer
<1>2. p \in AllProfiles
  BY DEF AllProfiles
<1>3. ASSUME pc = "running", ~absent PROVE notified'
  <2>1. watcher.registered = TRUE
    BY <1>3 DEF ReloadInv, WatcherHolds
  <2> QED
    BY <1>1, <2>1
<1>4. /\ apiserver' \in [state : {"present", "notfound", "nomatch"},
                          profile : AllProfiles, adherence : Policies]
      /\ apiserver'.state = "present"
  BY <1>1, <1>2
<1>5. pc' = "running" => WatcherHolds'
  BY <1>1 DEF ReloadInv, WatcherHolds
<1> QED
  BY <1>1, <1>3, <1>4, <1>5 DEF ReloadInv

LEMMA ReloadStep ==
  ASSUME ReloadInv, [Next]_vars PROVE ReloadInv'
<1>1. CASE \/ FetchProfile \/ FetchProfileTransient
           \/ FetchAdherence \/ FetchAdherenceTransient
  BY <1>1, ReadSteps
<1>2. CASE Start
  BY <1>2, StartStep
<1>3. CASE StartFails \/ Fail
  BY <1>3, ExitStep DEF StartFails, Fail
<1>4. CASE WatcherReconcile
  <2>1. CASE Changed
    BY <1>4, <2>1, ExitStep DEF WatcherReconcile
  <2>2. CASE ~Changed
    BY <1>4, <2>2 DEF WatcherReconcile, ReloadInv, WatcherHolds, Changed
  <2> QED
    BY <2>1, <2>2
<1>5. CASE Restart
  BY <1>5 DEF Restart, ReloadInv
<1>6. ASSUME NEW p \in LaterProfiles, NEW a \in Policies, ChangeAPIServer(p, a)
      PROVE  ReloadInv'
  BY <1>6, ChangeStep
<1>7. CASE WalkCipher \/ UNCHANGED vars
  BY <1>7 DEF WalkCipher, vars, ReloadInv, WatcherHolds, Changed
<1> QED
  BY <1>1, <1>2, <1>3, <1>4, <1>5, <1>6, <1>7 DEF Next, Process

(***************************************************************************)
(* A process that serves with no event waiting for its watcher has the     *)
(* settings that are in force: no change between the two reads, before the *)
(* watch or after it is missed, whatever read failed on the way.           *)
(***************************************************************************)
THEOREM ChangesAreSeen == Spec => []NoChangeMissed
<1>1. ReloadInv => NoChangeMissed
  <2> SUFFICES ASSUME ReloadInv, pc = "running", ~notified PROVE InForce
    BY DEF NoChangeMissed
  <2>1. CASE apiserver.state # "present" \/ absent
    BY <2>1 DEF ReloadInv, InForce
  <2>2. CASE apiserver.state = "present" /\ ~absent
    <3>1. ~Changed /\ WatcherHolds /\ result.profileFetched
      BY <2>2 DEF ReloadInv
    <3> QED
      BY <2>2, <3>1 DEF InForce, Changed, WatcherHolds
  <2> QED
    BY <2>1, <2>2
<1> QED
  BY <1>1, ReloadInit, ReloadStep, PTL DEF Spec

-------------------------------------------------------------------------------
(***************************************************************************)
(* Lists given by the positions they come from.  The rank of a position is *)
(* the number of positions up to it; no two have the same rank, and every  *)
(* number up to the size of the set is the rank of one.                    *)
(***************************************************************************)
UpTo(K, i)   == {j \in K : j <= i}
Before(K, i) == {j \in K : j < i}

LEMMA FinitePositions ==
  ASSUME NEW m \in Nat, NEW K \in SUBSET (1..m)
  PROVE  IsFiniteSet(K) /\ Cardinality(K) \in Nat
<1>1. IsFiniteSet(1..m)
  BY FS_Interval
<1>2. IsFiniteSet(K)
  BY <1>1, FS_Subset
<1> QED
  BY <1>2, FS_CardinalityType

LEMMA RankOf ==
  ASSUME NEW m \in Nat, NEW K \in SUBSET (1..m), NEW i \in K
  PROVE  /\ Cardinality(UpTo(K, i)) = Cardinality(Before(K, i)) + 1
         /\ Cardinality(UpTo(K, i)) \in 1..Cardinality(K)
<1>0. \A j \in K : j \in 1..m /\ j \in Nat
  OBVIOUS
<1>0a. \A j \in K : j <= i <=> j < i \/ j = i
  BY <1>0
<1>0b. ~(i < i)
  BY <1>0
<1>1. /\ Before(K, i) \in SUBSET (1..m) /\ i \notin Before(K, i)
      /\ UpTo(K, i) = Before(K, i) \cup {i} /\ UpTo(K, i) \in SUBSET K
  BY <1>0, <1>0a, <1>0b, Zenon DEF Before, UpTo
<1>2. IsFiniteSet(Before(K, i)) /\ Cardinality(Before(K, i)) \in Nat
  BY <1>1, FinitePositions
<1>3. Cardinality(UpTo(K, i)) = Cardinality(Before(K, i)) + 1
  BY <1>1, <1>2, FS_AddElement
<1>4. IsFiniteSet(K) /\ Cardinality(K) \in Nat
  BY FinitePositions
<1>5. Cardinality(UpTo(K, i)) <= Cardinality(K)
  BY <1>1, <1>4, FS_Subset
<1> QED
  BY <1>2, <1>3, <1>4, <1>5

LEMMA RankInjective ==
  ASSUME NEW m \in Nat, NEW K \in SUBSET (1..m), NEW i \in K, NEW k \in K,
         Cardinality(UpTo(K, i)) = Cardinality(UpTo(K, k))
  PROVE  i = k
<1>1. ASSUME NEW x \in K, NEW y \in K, x < y,
             Cardinality(UpTo(K, x)) = Cardinality(UpTo(K, y))
      PROVE  FALSE
  <2>0. \A j \in K : j \in 1..m /\ j \in Nat
    OBVIOUS
  <2>0a. (\A j \in K : j <= x => j <= y) /\ y <= y /\ ~(y <= x)
    BY <1>1, <2>0
  <2>1. /\ UpTo(K, y) \in SUBSET (1..m) /\ UpTo(K, x) \in SUBSET UpTo(K, y)
        /\ y \in UpTo(K, y) /\ y \notin UpTo(K, x)
    BY <2>0, <2>0a, Zenon DEF UpTo
  <2>2. IsFiniteSet(UpTo(K, y))
    BY <2>1, FinitePositions
  <2>3. UpTo(K, x) = UpTo(K, y)
    BY <1>1, <2>1, <2>2, FS_Subset
  <2> QED
    BY <2>1, <2>3
<1>2. i \in Nat /\ k \in Nat
  OBVIOUS
<1>3. i < k \/ k < i \/ i = k
  BY <1>2
<1> QED
  BY <1>1, <1>3

LEMMA NthOfRank ==
  ASSUME NEW m \in Nat, NEW K \in SUBSET (1..m), NEW i \in K
  PROVE  /\ Nth(K, Cardinality(UpTo(K, i))) = i
         /\ Nth(K, Cardinality(Before(K, i)) + 1) = i
<1> DEFINE n == Cardinality(UpTo(K, i))
<1>1. \A k \in K : Cardinality(UpTo(K, k)) = n => k = i
  BY RankInjective
<1>2. Nth(K, n) = CHOOSE k \in K : Cardinality(UpTo(K, k)) = n
  BY DEF Nth, UpTo
<1> HIDE DEF n
<1>3. Cardinality(UpTo(K, i)) = n
  BY DEF n
<1>4. Nth(K, n) = i
  BY <1>1, <1>2, <1>3
<1> QED
  BY <1>4, RankOf DEF n

LEMMA EveryRank ==
  ASSUME NEW m \in Nat, NEW K \in SUBSET (1..m), NEW n \in 1..Cardinality(K)
  PROVE  \E i \in K : Cardinality(UpTo(K, i)) = n
<1> DEFINE rank == [i \in K |-> Cardinality(UpTo(K, i))]
<1>1. IsFiniteSet(K) /\ Cardinality(K) \in Nat
  BY FinitePositions
<1>2. rank \in [K -> 1..Cardinality(K)]
  BY RankOf
<1>3. \A i, k \in K : rank[i] = rank[k] => i = k
  BY RankInjective
<1>4. \A i \in K : rank[i] = Cardinality(UpTo(K, i))
  OBVIOUS
<1> HIDE DEF rank
<1>5. rank \in Injection(K, 1..Cardinality(K))
  BY <1>2, <1>3 DEF Injection, IsInjective
<1>6. IsFiniteSet(1..Cardinality(K)) /\ Cardinality(1..Cardinality(K)) = Cardinality(K)
  BY <1>1, FS_Interval
<1>7. rank \in Surjection(K, 1..Cardinality(K))
  BY <1>1, <1>5, <1>6, FS_Injection
<1>8. \A k \in 1..Cardinality(K) : \E i \in K : rank[i] = k
  BY <1>7, Fun_SurjectionProperties
<1> QED
  BY <1>4, <1>8

LEMMA NthIsMember ==
  ASSUME NEW m \in Nat, NEW K \in SUBSET (1..m), NEW n \in 1..Cardinality(K)
  PROVE  Nth(K, n) \in K
<1>1. PICK i \in K : Cardinality(UpTo(K, i)) = n
  BY EveryRank
<1>2. Nth(K, Cardinality(UpTo(K, i))) = i
  BY NthOfRank
<1> QED
  BY <1>1, <1>2

(***************************************************************************)
(* A position behind all others is the last of the list.                   *)
(***************************************************************************)
LEMMA NthOfMore ==
  ASSUME NEW m \in Nat, NEW K \in SUBSET (1..m), NEW i \in 1..m,
         \A j \in K : j < i
  PROVE  /\ Cardinality(K \cup {i}) = Cardinality(K) + 1
         /\ \A n \in 1..Cardinality(K) : Nth(K \cup {i}, n) = Nth(K, n)
         /\ Nth(K \cup {i}, Cardinality(K) + 1) = i
<1> DEFINE T == K \cup {i}
<1>0. T \in SUBSET (1..m) /\ i \in T /\ i \notin K
  OBVIOUS
<1>1. Cardinality(T) = Cardinality(K) + 1
  BY <1>0, FinitePositions, FS_AddElement
<1>2. ASSUME NEW n \in 1..Cardinality(K) PROVE Nth(T, n) = Nth(K, n)
  <2>1. PICK k \in K : Cardinality(UpTo(K, k)) = n
    BY EveryRank
  <2>2. UpTo(T, k) = UpTo(K, k) /\ k \in T
    BY DEF UpTo
  <2>3. Nth(K, n) = k
    BY <2>1, NthOfRank
  <2>4. Nth(T, n) = k
    BY <1>0, <2>1, <2>2, NthOfRank
  <2> QED
    BY <2>3, <2>4
<1>3. Before(T, i) = K
  <2>1. ~(i < i)
    OBVIOUS
  <2> QED
    BY <2>1, Zenon DEF Before
<1>4. Nth(T, Cardinality(K) + 1) = i
  BY <1>0, <1>3, NthOfRank
<1> QED
  BY <1>1, <1>2, <1>4

(***************************************************************************)
(* The lists of ciphers and of suites at some positions.                   *)
(***************************************************************************)
SuiteNames == {SuiteName[c] : c \in DOMAIN SuiteName}

LEMMA AppendIsLonger ==
  ASSUME NEW S, NEW s \in Seq(S), NEW t \in Seq(S), NEW e \in S,
         Len(t) = Len(s) + 1, t[Len(s) + 1] = e,
         \A k \in 1..Len(s) : t[k] = s[k]
  PROVE  t = Append(s, e)
<1>1. /\ Append(s, e) \in Seq(S) /\ Len(Append(s, e)) = Len(s) + 1
      /\ \A k \in 1..Len(s) : Append(s, e)[k] = s[k]
      /\ Append(s, e)[Len(s) + 1] = e
  BY AppendProperties
<1>2. \A k \in 1..Len(t) : k \in 1..Len(s) \/ k = Len(s) + 1
  OBVIOUS
<1>3. \A k \in 1..Len(t) : t[k] = Append(s, e)[k]
  BY <1>1, <1>2
<1> QED
  BY <1>1, <1>3, SeqEqual

LEMMA CiphersAtType ==
  ASSUME NEW p, p.ciphers \in Seq(STRING), NEW K \in SUBSET Positions(p)
  PROVE  /\ CiphersAt(p, K) \in Seq(STRING)
         /\ Len(CiphersAt(p, K)) = Cardinality(K)
         /\ \A k \in 1..Cardinality(K) : CiphersAt(p, K)[k] = p.ciphers[Nth(K, k)]
<1>1. Len(p.ciphers) \in Nat /\ K \in SUBSET (1..Len(p.ciphers))
  BY DEF Positions
<1>2. Cardinality(K) \in Nat /\ \A k \in 1..Cardinality(K) : Nth(K, k) \in K
  BY <1>1, FinitePositions, NthIsMember
<1>3. \A k \in 1..Cardinality(K) : p.ciphers[Nth(K, k)] \in STRING
  BY <1>1, <1>2
<1> QED
  BY <1>2, <1>3 DEF CiphersAt

LEMMA CiphersAtMore ==
  ASSUME NEW p, p.ciphers \in Seq(STRING), NEW K \in SUBSET Positions(p),
         NEW i \in Positions(p), \A j \in K : j < i
  PROVE  CiphersAt(p, K \cup {i}) = Append(CiphersAt(p, K), p.ciphers[i])
<1> DEFINE T == K \cup {i}
           s == CiphersAt(p, K)
           t == CiphersAt(p, T)
<1>1. /\ Len(p.ciphers) \in Nat /\ K \in SUBSET (1..Len(p.ciphers))
      /\ i \in 1..Len(p.ciphers) /\ p.ciphers[i] \in STRING
  BY DEF Positions
<1>2. /\ Cardinality(T) = Cardinality(K) + 1
      /\ \A k \in 1..Cardinality(K) : Nth(T, k) = Nth(K, k)
      /\ Nth(T, Cardinality(K) + 1) = i
  BY <1>1, NthOfMore
<1>3. /\ s \in Seq(STRING) /\ Len(s) = Cardinality(K)
      /\ \A k \in 1..Cardinality(K) : s[k] = p.ciphers[Nth(K, k)]
  BY CiphersAtType
<1>4. T \in SUBSET Positions(p)
  OBVIOUS
<1> HIDE DEF T
<1>5. /\ t \in Seq(STRING) /\ Len(t) = Cardinality(T)
      /\ \A k \in 1..Cardinality(T) : t[k] = p.ciphers[Nth(T, k)]
  BY <1>4, CiphersAtType
<1> HIDE DEF s, t
<1>6. Len(t) = Len(s) + 1 /\ t[Len(s) + 1] = p.ciphers[i]
  BY <1>2, <1>3, <1>5
<1>7. \A k \in 1..Len(s) : t[k] = s[k]
  BY <1>2, <1>3, <1>5
<1>8. t = Append(s, p.ciphers[i])
  BY <1>1, <1>3, <1>5, <1>6, <1>7, AppendIsLonger
<1> QED
  BY <1>8 DEF s, t, T

LEMMA SuitesAtType ==
  ASSUME NEW p, p.ciphers \in Seq(STRING), NEW K \in SUBSET KnownAt(p)
  PROVE  /\ SuitesAt(p, K) \in Seq(SuiteNames)
         /\ Len(SuitesAt(p, K)) = Cardinality(K)
         /\ \A k \in 1..Cardinality(K) :
              /\ Nth(K, k) \in K
              /\ SuitesAt(p, K)[k] = SuiteName[p.ciphers[Nth(K, k)]]
<1>1. /\ Len(p.ciphers) \in Nat /\ K \in SUBSET (1..Len(p.ciphers))
      /\ \A i \in K : SuiteName[p.ciphers[i]] \in SuiteNames
  BY DEF Positions, KnownAt, SuiteNames
<1>2. Cardinality(K) \in Nat /\ \A k \in 1..Cardinality(K) : Nth(K, k) \in K
  BY <1>1, FinitePositions, NthIsMember
<1>3. \A k \in 1..Cardinality(K) : SuiteName[p.ciphers[Nth(K, k)]] \in SuiteNames
  BY <1>1, <1>2
<1> QED
  BY <1>2, <1>3 DEF SuitesAt

LEMMA SuitesAtMore ==
  ASSUME NEW p, p.ciphers \in Seq(STRING), NEW K \in SUBSET KnownAt(p),
         NEW i \in KnownAt(p), \A j \in K : j < i
  PROVE  SuitesAt(p, K \cup {i}) =
           Append(SuitesAt(p, K), SuiteName[p.ciphers[i]])
<1> DEFINE T == K \cup {i}
           s == SuitesAt(p, K)
           t == SuitesAt(p, T)
<1>1. /\ Len(p.ciphers) \in Nat /\ K \in SUBSET (1..Len(p.ciphers))
      /\ i \in 1..Len(p.ciphers) /\ SuiteName[p.ciphers[i]] \in SuiteNames
  BY DEF Positions, KnownAt, SuiteNames
<1>2. /\ Cardinality(T) = Cardinality(K) + 1
      /\ \A k \in 1..Cardinality(K) : Nth(T, k) = Nth(K, k)
      /\ Nth(T, Cardinality(K) + 1) = i
  BY <1>1, NthOfMore
<1>3. /\ s \in Seq(SuiteNames) /\ Len(s) = Cardinality(K)
      /\ \A k \in 1..Cardinality(K) : s[k] = SuiteName[p.ciphers[Nth(K, k)]]
  BY SuitesAtType
<1>4. T \in SUBSET KnownAt(p)
  OBVIOUS
<1> HIDE DEF T
<1>5. /\ t \in Seq(SuiteNames) /\ Len(t) = Cardinality(T)
      /\ \A k \in 1..Cardinality(T) : t[k] = SuiteName[p.ciphers[Nth(T, k)]]
  BY <1>4, SuitesAtType
<1> HIDE DEF s, t
<1>6. Len(t) = Len(s) + 1 /\ t[Len(s) + 1] = SuiteName[p.ciphers[i]]
  BY <1>2, <1>3, <1>5
<1>7. \A k \in 1..Len(s) : t[k] = s[k]
  BY <1>2, <1>3, <1>5
<1>8. t = Append(s, SuiteName[p.ciphers[i]])
  BY <1>1, <1>3, <1>5, <1>6, <1>7, AppendIsLonger
<1> QED
  BY <1>8 DEF s, t, T

(***************************************************************************)
(* The loop invariant: before the cipher at w.at the walk has passed as    *)
(* many codes and unknown ciphers as lie before it, and has sorted the     *)
(* ciphers before it.                                                      *)
(***************************************************************************)
UnknownAt(p)  == Positions(p) \ KnownAt(p)
UnusableAt(p) == Positions(p) \ UsableAt(p)

WalkType == [at : Nat, code : Nat, unknown : Nat, names : Seq(SuiteNames),
             unsupported : Seq(STRING)]

WalkInv(p, w) ==
  /\ w.at \in 1..(Len(p.ciphers) + 1)
  /\ w.code = Cardinality(Before(KnownAt(p), w.at)) + 1
  /\ w.unknown = Cardinality(Before(UnknownAt(p), w.at)) + 1
  /\ w.names = SuitesAt(p, Before(UsableAt(p), w.at))
  /\ w.unsupported = CiphersAt(p, Before(UnusableAt(p), w.at))

LEMMA BeforeNext ==
  ASSUME NEW m \in Nat, NEW K \in SUBSET (1..m), NEW i \in 1..m
  PROVE  /\ Before(K, i) \in SUBSET K /\ \A j \in Before(K, i) : j < i
         /\ i \in K => Before(K, i + 1) = Before(K, i) \cup {i}
         /\ i \notin K => Before(K, i + 1) = Before(K, i)
<1>1. \A j \in K : j < i + 1 <=> j < i \/ j = i
  OBVIOUS
<1> QED
  BY <1>1, Zenon DEF Before

\* How many positions lie before i and before i + 1.
LEMMA CountNext ==
  ASSUME NEW m \in Nat, NEW K \in SUBSET (1..m), NEW i \in 1..m
  PROVE  /\ Cardinality(Before(K, i)) \in Nat
         /\ i \in K => /\ Cardinality(Before(K, i + 1))
                             = Cardinality(Before(K, i)) + 1
                       /\ Cardinality(Before(K, i)) + 1 \in 1..Cardinality(K)
         /\ i \notin K => Cardinality(Before(K, i + 1)) = Cardinality(Before(K, i))
<1>1. Before(K, i) \in SUBSET (1..m)
  BY DEF Before
<1>2. IsFiniteSet(Before(K, i)) /\ Cardinality(Before(K, i)) \in Nat
  BY <1>1, FinitePositions
<1>3. i \notin Before(K, i)
  BY DEF Before
<1>4. ASSUME i \in K
      PROVE  /\ Cardinality(Before(K, i + 1)) = Cardinality(Before(K, i)) + 1
             /\ Cardinality(Before(K, i)) + 1 \in 1..Cardinality(K)
  <2>1. Before(K, i + 1) = Before(K, i) \cup {i}
    BY <1>4, BeforeNext
  <2>2. Cardinality(Before(K, i + 1)) = Cardinality(Before(K, i)) + 1
    BY <1>2, <1>3, <2>1, FS_AddElement
  <2>3. Cardinality(Before(K, i)) + 1 \in 1..Cardinality(K)
    BY <1>4, RankOf
  <2> QED
    BY <2>2, <2>3
<1> QED
  BY <1>2, <1>4, BeforeNext

(***************************************************************************)
(* One cipher.  One that the library does not know is next in its list of  *)
(* unknown ciphers; one that it knows is not, and its code is next.        *)
(***************************************************************************)
LEMMA LibraryLists ==
  ASSUME NEW p, p.ciphers \in Seq(STRING), NEW w \in WalkType, WalkInv(p, w),
         w.at <= Len(p.ciphers)
  PROVE  /\ w.at \in UnknownAt(p) =>
              /\ w.unknown <= Len(Unknown(p))
              /\ Unknown(p)[w.unknown] = p.ciphers[w.at]
         /\ w.at \in KnownAt(p) =>
              /\ ~(/\ w.unknown <= Len(Unknown(p))
                   /\ Unknown(p)[w.unknown] = p.ciphers[w.at])
              /\ ~(w.code > Len(Codes(p)))
              /\ Codes(p)[w.code] = SuiteName[p.ciphers[w.at]]
<1> DEFINE i == w.at
           K == KnownAt(p)
           U == UnknownAt(p)
<1>0. /\ Len(p.ciphers) \in Nat /\ i \in 1..Len(p.ciphers)
      /\ K \in SUBSET (1..Len(p.ciphers)) /\ U \in SUBSET (1..Len(p.ciphers))
      /\ U \in SUBSET Positions(p)
  BY DEF Positions, KnownAt, UnknownAt, WalkInv
<1>1. /\ Len(Unknown(p)) = Cardinality(U) /\ Cardinality(U) \in Nat
      /\ \A k \in 1..Cardinality(U) : Unknown(p)[k] = p.ciphers[Nth(U, k)]
  BY <1>0, CiphersAtType, FinitePositions DEF Unknown, UnknownAt
<1>2. /\ Len(Codes(p)) = Cardinality(K) /\ Cardinality(K) \in Nat
      /\ \A k \in 1..Cardinality(K) :
           Codes(p)[k] = SuiteName[p.ciphers[Nth(K, k)]]
  BY <1>0, SuitesAtType, FinitePositions DEF Codes
<1>3. /\ w.unknown = Cardinality(Before(U, i)) + 1
      /\ w.code = Cardinality(Before(K, i)) + 1
      /\ Cardinality(Before(U, i)) \in Nat /\ Cardinality(Before(K, i)) \in Nat
  BY <1>0, CountNext DEF WalkInv
<1>4. ASSUME i \in U
      PROVE  w.unknown <= Len(Unknown(p)) /\ Unknown(p)[w.unknown] = p.ciphers[i]
  <2>0. Cardinality(Before(U, i)) + 1 \in 1..Cardinality(U)
    BY <1>0, <1>4, CountNext
  <2>0a. Nth(U, Cardinality(Before(U, i)) + 1) = i
    BY <1>0, <1>4, NthOfRank
  <2>1. w.unknown \in 1..Cardinality(U) /\ Nth(U, w.unknown) = i
    BY <1>3, <2>0, <2>0a
  <2> QED
    BY <1>1, <2>1
<1>5. ASSUME i \in K, w.unknown <= Len(Unknown(p)) PROVE Unknown(p)[w.unknown] # p.ciphers[i]
  <2>1. w.unknown \in 1..Cardinality(U)
    BY <1>1, <1>3, <1>5
  <2>2. Nth(U, w.unknown) \in U
    BY <1>0, <2>1, NthIsMember
  <2>3. p.ciphers[Nth(U, w.unknown)] \notin DOMAIN SuiteName
    BY <2>2 DEF UnknownAt, KnownAt
  <2>4. p.ciphers[i] \in DOMAIN SuiteName
    BY <1>5 DEF KnownAt
  <2> QED
    BY <1>1, <2>1, <2>3, <2>4
<1>6. ASSUME i \in K
      PROVE  ~(w.code > Len(Codes(p))) /\ Codes(p)[w.code] = SuiteName[p.ciphers[i]]
  <2>0. Cardinality(Before(K, i)) + 1 \in 1..Cardinality(K)
    BY <1>0, <1>6, CountNext
  <2>0a. Nth(K, Cardinality(Before(K, i)) + 1) = i
    BY <1>0, <1>6, NthOfRank
  <2>1. w.code \in 1..Cardinality(K) /\ Nth(K, w.code) = i
    BY <1>3, <2>0, <2>0a
  <2> QED
    BY <1>2, <2>1
<1> QED
  BY <1>4, <1>5, <1>6

LEMMA WalkPreserved ==
  ASSUME NEW p, p.ciphers \in Seq(STRING), NEW w \in WalkType, WalkInv(p, w),
         w.at <= Len(p.ciphers), NEW v, v = WalkStep(p, w)
  PROVE  v \in WalkType /\ WalkInv(p, v)
<1> DEFINE i == w.at
           c == p.ciphers[i]
           K == KnownAt(p)
           U == UnknownAt(p)
           G == UsableAt(p)
           B == UnusableAt(p)
<1>0. /\ Len(p.ciphers) \in Nat /\ i \in 1..Len(p.ciphers) /\ c \in STRING
      /\ K \in SUBSET (1..Len(p.ciphers)) /\ U \in SUBSET (1..Len(p.ciphers))
      /\ G \in SUBSET (1..Len(p.ciphers)) /\ B \in SUBSET (1..Len(p.ciphers))
      /\ G \in SUBSET K /\ i \in Positions(p) /\ B \in SUBSET Positions(p)
  BY DEF Positions, KnownAt, UnknownAt, UsableAt, UnusableAt, WalkInv
<1>1. /\ w.at \in Nat /\ w.code \in Nat /\ w.unknown \in Nat
      /\ w.names \in Seq(SuiteNames) /\ w.unsupported \in Seq(STRING)
      /\ w.at + 1 \in 1..(Len(p.ciphers) + 1)
      /\ w.code + 1 \in Nat /\ w.unknown + 1 \in Nat /\ w.at + 1 \in Nat
  BY <1>0 DEF WalkType
<1>2. /\ w.code = Cardinality(Before(K, i)) + 1
      /\ w.unknown = Cardinality(Before(U, i)) + 1
      /\ w.names = SuitesAt(p, Before(G, i))
      /\ w.unsupported = CiphersAt(p, Before(B, i))
  BY DEF WalkInv
<1>3. /\ i \in U <=> i \notin K
      /\ i \in B <=> i \notin G
      /\ i \in G <=> i \in K /\ SuiteName[c] \in SecureSuites
  BY <1>0 DEF UnknownAt, UnusableAt, UsableAt
<1>4. /\ i \in K => Cardinality(Before(K, i + 1)) = Cardinality(Before(K, i)) + 1
      /\ i \notin K => Cardinality(Before(K, i + 1)) = Cardinality(Before(K, i))
      /\ i \in U => Cardinality(Before(U, i + 1)) = Cardinality(Before(U, i)) + 1
      /\ i \notin U => Cardinality(Before(U, i + 1)) = Cardinality(Before(U, i))
  BY <1>0, CountNext
<1>5. /\ i \notin G => SuitesAt(p, Before(G, i + 1)) = w.names
      /\ i \in G => SuitesAt(p, Before(G, i + 1)) = Append(w.names, SuiteName[c])
  <2>1. /\ Before(G, i) \in SUBSET G /\ \A j \in Before(G, i) : j < i
        /\ i \in G => Before(G, i + 1) = Before(G, i) \cup {i}
        /\ i \notin G => Before(G, i + 1) = Before(G, i)
    BY <1>0, BeforeNext
  <2>2. Before(G, i) \in SUBSET K
    BY <1>0, <2>1
  <2>3. ASSUME i \in K
        PROVE  SuitesAt(p, Before(G, i) \cup {i})
                 = Append(SuitesAt(p, Before(G, i)), SuiteName[c])
    BY <2>1, <2>2, <2>3, SuitesAtMore
  <2> QED
    BY <1>2, <1>3, <2>1, <2>3
<1>6. /\ i \notin B => CiphersAt(p, Before(B, i + 1)) = w.unsupported
      /\ i \in B => CiphersAt(p, Before(B, i + 1)) = Append(w.unsupported, c)
  <2>1. /\ Before(B, i) \in SUBSET B /\ \A j \in Before(B, i) : j < i
        /\ i \in B => Before(B, i + 1) = Before(B, i) \cup {i}
        /\ i \notin B => Before(B, i + 1) = Before(B, i)
    BY <1>0, BeforeNext
  <2>2. Before(B, i) \in SUBSET Positions(p)
    BY <1>0, <2>1
  <2>3. CiphersAt(p, Before(B, i) \cup {i}) = Append(CiphersAt(p, Before(B, i)), c)
    BY <1>0, <2>1, <2>2, CiphersAtMore
  <2> QED
    BY <1>2, <2>1, <2>3
<1>7. Append(w.unsupported, c) \in Seq(STRING)
  BY <1>0, <1>1
<1>8. ASSUME i \in K
      PROVE  Append(w.names, SuiteName[c]) \in Seq(SuiteNames)
  <2>1. SuiteName[c] \in SuiteNames
    BY <1>8 DEF KnownAt, SuiteNames
  <2> QED
    BY <1>1, <2>1
<1> DEFINE next == [w EXCEPT !.at = w.at + 1]
<1>9. CASE i \in U
  <2>1. v = [next EXCEPT !.unknown = w.unknown + 1,
                         !.unsupported = Append(w.unsupported, c)]
    BY <1>9, LibraryLists DEF WalkStep
  <2>2. /\ v \in WalkType /\ v.at = w.at + 1 /\ v.code = w.code
        /\ v.unknown = w.unknown + 1 /\ v.names = w.names
        /\ v.unsupported = Append(w.unsupported, c)
    BY <1>1, <1>7, <2>1 DEF WalkType
  <2>3. i \notin K /\ i \notin G /\ i \in B
    BY <1>3, <1>9
  <2> QED
    BY <1>1, <1>2, <1>4, <1>5, <1>6, <1>9, <2>2, <2>3 DEF WalkInv
<1>10. CASE i \in G
  <2>1. i \in K /\ i \notin U /\ i \notin B /\ SuiteName[c] \in SecureSuites
    BY <1>3, <1>10
  <2>2. v = [next EXCEPT !.code = w.code + 1,
                         !.names = Append(w.names, SuiteName[c])]
    BY <2>1, LibraryLists DEF WalkStep
  <2>3. /\ v \in WalkType /\ v.at = w.at + 1 /\ v.code = w.code + 1
        /\ v.unknown = w.unknown /\ v.names = Append(w.names, SuiteName[c])
        /\ v.unsupported = w.unsupported
    BY <1>1, <1>8, <2>1, <2>2 DEF WalkType
  <2> QED
    BY <1>1, <1>2, <1>4, <1>5, <1>6, <1>10, <2>1, <2>3 DEF WalkInv
<1>11. CASE i \in K /\ i \notin G
  <2>1. i \notin U /\ i \in B /\ SuiteName[c] \notin SecureSuites
    BY <1>3, <1>11
  <2>2. v = [next EXCEPT !.code = w.code + 1,
                         !.unsupported = Append(w.unsupported, c)]
    BY <1>11, <2>1, LibraryLists DEF WalkStep
  <2>3. /\ v \in WalkType /\ v.at = w.at + 1 /\ v.code = w.code + 1
        /\ v.unknown = w.unknown /\ v.names = w.names
        /\ v.unsupported = Append(w.unsupported, c)
    BY <1>1, <1>7, <2>2 DEF WalkType
  <2> QED
    BY <1>1, <1>2, <1>4, <1>5, <1>6, <1>11, <2>1, <2>3 DEF WalkInv
<1> QED
  BY <1>3, <1>9, <1>10, <1>11

-------------------------------------------------------------------------------
(***************************************************************************)
(* The walk as the process goes through it: not begun before "setup", over *)
(* and accepted once the process runs, and never begun for TLS 1.3.        *)
(***************************************************************************)
ConversionInv ==
  /\ walk \in WalkType
  /\ pc \notin {"setup", "running"} => walk = NoWalk
  /\ pc \in {"setup", "running"} => WalkInv(result.profile, walk)
  /\ pc = "running" => ~Walking /\ Accepted
  /\ result.profile.min = "TLS13" => walk = NoWalk

LEMMA NoWalkType == NoWalk \in WalkType
<1>1. << >> \in Seq(SuiteNames) /\ << >> \in Seq(STRING)
  OBVIOUS
<1> QED
  BY <1>1 DEF NoWalk, WalkType

LEMMA WalkBegins ==
  ASSUME NEW p, p.ciphers \in Seq(STRING), NEW w, w = NoWalk
  PROVE  WalkInv(p, w)
<1>1. /\ w.at = 1 /\ w.code = 1 /\ w.unknown = 1
      /\ w.names = << >> /\ w.unsupported = << >>
  BY DEF NoWalk
<1>2. ASSUME NEW K \in SUBSET Positions(p)
      PROVE  Before(K, 1) = {} /\ Cardinality(Before(K, 1)) = 0
  <2>0. \A j \in K : ~(j < 1)
    BY DEF Positions
  <2>1. Before(K, 1) = {}
    BY <2>0, Zenon DEF Before
  <2> QED
    BY <2>1, FS_EmptySet
<1>3. /\ KnownAt(p) \in SUBSET Positions(p) /\ UnknownAt(p) \in SUBSET Positions(p)
      /\ UsableAt(p) \in SUBSET Positions(p) /\ UnusableAt(p) \in SUBSET Positions(p)
  BY DEF KnownAt, UnknownAt, UsableAt, UnusableAt
<1>4. SuitesAt(p, {}) = << >> /\ CiphersAt(p, {}) = << >>
  BY FS_EmptySet DEF SuitesAt, CiphersAt
<1>5. /\ Cardinality(Before(KnownAt(p), 1)) = 0
      /\ Cardinality(Before(UnknownAt(p), 1)) = 0
      /\ Before(UsableAt(p), 1) = {} /\ Before(UnusableAt(p), 1) = {}
  BY <1>2, <1>3
<1>6. 1 \in 1..(Len(p.ciphers) + 1) /\ 1 = 0 + 1
  OBVIOUS
<1>7. /\ w.at \in 1..(Len(p.ciphers) + 1)
      /\ w.code = Cardinality(Before(KnownAt(p), w.at)) + 1
      /\ w.unknown = Cardinality(Before(UnknownAt(p), w.at)) + 1
  BY <1>1, <1>5, <1>6
<1>8. /\ w.names = SuitesAt(p, Before(UsableAt(p), w.at))
      /\ w.unsupported = CiphersAt(p, Before(UnusableAt(p), w.at))
  BY <1>1, <1>4, <1>5, Zenon
<1> QED
  BY <1>7, <1>8 DEF WalkInv

LEMMA ProfileTyped ==
  ASSUME ReloadInv
  PROVE  /\ result.profile.ciphers \in Seq(STRING)
         /\ result.profile.min \in {"", "TLS10", "TLS11", "TLS12", "TLS13"}
  BY ProfileAssumption DEF ReloadInv, ResultType

LEMMA ConversionStep ==
  ASSUME ReloadInv, ReloadInv', ConversionInv, [Next]_vars
  PROVE  ConversionInv'
<1>0. /\ result.profile.ciphers \in Seq(STRING)
      /\ result'.profile.ciphers \in Seq(STRING)
  <2>1. result \in ResultType /\ result' \in ResultType
    BY DEF ReloadInv
  <2> QED
    BY <2>1, ProfileAssumption DEF ResultType
<1>1. CASE FetchProfile \/ FetchProfileTransient \/ Restart
  <2>1. walk' = walk /\ walk = NoWalk /\ pc' \notin {"setup", "running"}
    BY <1>1 DEF FetchProfile, FetchProfileTransient, Restart, ConversionInv
  <2> QED
    BY <2>1, NoWalkType DEF ConversionInv
<1>2. CASE FetchAdherence \/ FetchAdherenceTransient
  <2>1. walk' = walk /\ walk = NoWalk /\ pc' = "setup"
    BY <1>2 DEF FetchAdherence, FetchAdherenceTransient, ConversionInv
  <2>2. WalkInv(result.profile, walk)'
    BY <1>0, <2>1, WalkBegins
  <2> QED
    BY <2>1, <2>2, NoWalkType DEF ConversionInv
<1>3. CASE WalkCipher
  <2>1. /\ pc = "setup" /\ UNCHANGED <<pc, result>>
        /\ walk' = WalkStep(result.profile, walk)
        /\ result.profile.min # "TLS13" /\ walk.at <= Len(result.profile.ciphers)
    BY <1>3 DEF WalkCipher, Walking
  <2>2. walk \in WalkType /\ WalkInv(result.profile, walk)
    BY <2>1 DEF ConversionInv
  <2>3. walk' \in WalkType /\ WalkInv(result.profile, walk')
    BY <1>0, <2>1, <2>2, WalkPreserved
  <2> QED
    BY <2>1, <2>3 DEF ConversionInv
<1>4. CASE Start
  <2>1. /\ pc = "setup" /\ pc' = "running" /\ UNCHANGED <<result, walk>>
        /\ ~Walking /\ Accepted
    BY <1>4 DEF Start
  <2> QED
    BY <2>1 DEF ConversionInv, Walking, Accepted
<1>5. CASE Exit
  <2>1. walk' = NoWalk /\ pc' = "exited"
    BY <1>5 DEF Exit
  <2> QED
    BY <2>1, NoWalkType DEF ConversionInv
<1>6. CASE UNCHANGED <<pc, result, walk>>
  BY <1>6 DEF ConversionInv, Walking, Accepted
<1>7. CASE StartFails \/ Fail
  BY <1>5, <1>7 DEF StartFails, Fail
<1>8. CASE WatcherReconcile
  BY <1>5, <1>6, <1>8 DEF WatcherReconcile
<1>9. ASSUME NEW p \in LaterProfiles, NEW a \in Policies, ChangeAPIServer(p, a)
      PROVE  ConversionInv'
  BY <1>6, <1>9 DEF ChangeAPIServer
<1>10. CASE UNCHANGED vars
  BY <1>6, <1>10 DEF vars
<1> QED
  BY <1>1, <1>2, <1>3, <1>4, <1>7, <1>8, <1>9, <1>10 DEF Next, Process

LEMMA ConversionInit == Init => ConversionInv
<1> SUFFICES ASSUME Init PROVE ConversionInv
  OBVIOUS
<1>1. walk = NoWalk /\ pc = "profile"
  BY DEF Init
<1> QED
  BY <1>1, NoWalkType DEF ConversionInv

(***************************************************************************)
(* When the walk is over, every position lies before it.                   *)
(***************************************************************************)
LEMMA WalkOver ==
  ASSUME NEW p, p.ciphers \in Seq(STRING), NEW w, WalkInv(p, w),
         ~(w.at <= Len(p.ciphers))
  PROVE  /\ w.names = SuitesAt(p, UsableAt(p))
         /\ w.unsupported = CiphersAt(p, Positions(p) \ UsableAt(p))
<1>1. w.at = Len(p.ciphers) + 1 /\ Len(p.ciphers) \in Nat
  BY DEF WalkInv
<1>2. ASSUME NEW K \in SUBSET Positions(p) PROVE Before(K, w.at) = K
  <2>1. \A j \in K : j < w.at
    BY <1>1 DEF Positions
  <2> QED
    BY <2>1, Zenon DEF Before
<1>3. UsableAt(p) \in SUBSET Positions(p) /\ UnusableAt(p) \in SUBSET Positions(p)
  BY DEF KnownAt, UsableAt, UnusableAt
<1> QED
  BY <1>2, <1>3 DEF WalkInv, UnusableAt

LEMMA AcceptedIsConvertible ==
  ASSUME NEW p, p.ciphers \in Seq(STRING),
         hasTLS12CipherSuite(SuitesAt(p, UsableAt(p)))
  PROVE  \E i \in UsableAt(p) : SuiteName[p.ciphers[i]] \in TLS12Suites
<1>1. UsableAt(p) \in SUBSET KnownAt(p)
  BY DEF UsableAt
<1>2. PICK k \in DOMAIN SuitesAt(p, UsableAt(p)) :
        SuitesAt(p, UsableAt(p))[k] \in TLS12Suites
  BY DEF hasTLS12CipherSuite
<1>3. k \in 1..Cardinality(UsableAt(p))
  BY <1>2 DEF SuitesAt
<1>4. /\ Nth(UsableAt(p), k) \in UsableAt(p)
      /\ SuitesAt(p, UsableAt(p))[k] = SuiteName[p.ciphers[Nth(UsableAt(p), k)]]
  BY <1>1, <1>3, SuitesAtType
<1> QED
  BY <1>2, <1>4

(***************************************************************************)
(* The loop of batchGatewayCipherSuiteNames pairs every code with its own  *)
(* cipher, for profiles with any number of ciphers, known, unknown or      *)
(* repeated, in any order: a process that runs has handed the charts       *)
(* exactly the secure suites of its profile, and reported the rest.        *)
(***************************************************************************)
THEOREM ConversionIsExact == Spec => []ConversionExact
<1>1. ReloadInv /\ ConversionInv => ConversionExact
  <2> SUFFICES ASSUME ReloadInv, ConversionInv, pc = "running",
                      NEW p, p = result.profile
               PROVE  IF p.min = "TLS13" THEN walk.names = << >>
                      ELSE /\ walk.names = SuitesAt(p, UsableAt(p))
                           /\ walk.unsupported =
                                CiphersAt(p, Positions(p) \ UsableAt(p))
                           /\ Convertible(p)
    BY DEF ConversionExact
  <2>1. CASE p.min = "TLS13"
    <3>1. walk = NoWalk
      BY <2>1 DEF ConversionInv
    <3> QED
      BY <2>1, <3>1 DEF NoWalk
  <2>2. CASE p.min # "TLS13"
    <3>1. p.ciphers \in Seq(STRING) /\ WalkInv(p, walk) /\ ~Walking /\ Accepted
      BY ProfileTyped DEF ConversionInv
    <3>2. p.min \in {"", "TLS12"} /\ ~(walk.at <= Len(p.ciphers))
      BY <2>2, <3>1 DEF Walking, Accepted
    <3>3. /\ walk.names = SuitesAt(p, UsableAt(p))
          /\ walk.unsupported = CiphersAt(p, Positions(p) \ UsableAt(p))
      BY <3>1, <3>2, WalkOver
    <3>4. p.ciphers = << >> \/ hasTLS12CipherSuite(walk.names)
      BY <2>2, <3>1 DEF Accepted
    <3>5. Convertible(p)
      BY <3>1, <3>2, <3>3, <3>4, AcceptedIsConvertible DEF Convertible
    <3> QED
      BY <2>2, <3>3, <3>5
  <2> QED
    BY <2>1, <2>2
<1>2. Init => ReloadInv /\ ConversionInv
  BY ReloadInit, ConversionInit
<1>3. ReloadInv /\ ConversionInv /\ [Next]_vars => ReloadInv' /\ ConversionInv'
  BY ReloadStep, ConversionStep
<1> QED
  BY <1>1, <1>2, <1>3, PTL DEF Spec
================================================================================
