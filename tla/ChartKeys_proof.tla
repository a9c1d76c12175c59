---------------------------- MODULE ChartKeys_proof ----------------------------
(***************************************************************************)
(* Proof, for every manifest, that the conversions give no chart key two   *)
(* values.  The keys form a tree, and a conversion fills a branch of it: a *)
(* set of values is a branch at a path if it is finite, gives every key    *)
(* one value, and all its keys go on from the path with one of some names. *)
(* Branches at the same path with different names make a branch, and a     *)
(* branch at a path is one at the path above it, under the path's last     *)
(* name.                                                                   *)
(***************************************************************************)
EXTENDS ChartValues_proof, FunctionTheorems

SameStart(key, path) == \A i \in 1..Len(path) : key[i] = path[i]

Branch(values, path, names) ==
  /\ IsFiniteSet(values)
  /\ \A v, w \in values : v[1] = w[1] => v = w
  /\ \A v \in values : SameStart(v[1], path) /\ v[1][Len(path) + 1] \in names

LEMMA AppendAt ==
  ASSUME NEW p, IsPath(p), NEW f
  PROVE  /\ Len(p) \in Nat /\ Len(Append(p, f)) = Len(p) + 1
         /\ SameStart(Append(p, f), p) /\ Append(p, f)[Len(p) + 1] = f
<1>1. PICK X : p \in Seq(X)
  BY DEF IsPath
<1> DEFINE Y == X \cup {f}
<1>2. p \in Seq(Y) /\ f \in Y
  BY <1>1, WiderSeq
<1> HIDE DEF Y
<1> QED
  BY <1>2 DEF SameStart

LEMMA Above ==
  ASSUME NEW values, NEW p, IsPath(p), NEW x, NEW names,
         Branch(values, Append(p, x), names)
  PROVE  Branch(values, p, {x})
<1> DEFINE q == Append(p, x)
<1>1. /\ Len(p) \in Nat /\ Len(q) = Len(p) + 1
      /\ SameStart(q, p) /\ q[Len(p) + 1] = x
  BY AppendAt
<1>2. IsFiniteSet(values) /\ \A v, w \in values : v[1] = w[1] => v = w
  BY DEF Branch
<1>3. ASSUME NEW v \in values
      PROVE  SameStart(v[1], p) /\ v[1][Len(p) + 1] = x
  <2>1. SameStart(v[1], q)
    BY <1>3 DEF Branch
  <2> HIDE DEF q
  <2> QED
    BY <1>1, <2>1 DEF SameStart
<1> QED
  BY <1>2, <1>3 DEF Branch

LEMMA AboveAs ==
  ASSUME NEW values, NEW p, IsPath(p), NEW x, NEW names, NEW q, q = Append(p, x),
         Branch(values, q, names)
  PROVE  Branch(values, p, {x})
  BY Above

LEMMA Join ==
  ASSUME NEW p, NEW A, NEW M, Branch(A, p, M), NEW B, NEW N, Branch(B, p, N),
         \A x \in M : x \notin N
  PROVE  Branch(A \cup B, p, M \cup N)
<1>1. IsFiniteSet(A \cup B)
  BY FS_Union DEF Branch
<1>2. ASSUME NEW v \in A \cup B, NEW w \in A \cup B, v[1] = w[1]
      PROVE  v = w
  BY <1>2 DEF Branch
<1>3. \A v \in A \cup B : SameStart(v[1], p) /\ v[1][Len(p) + 1] \in M \cup N
  BY DEF Branch
<1> QED
  BY <1>1, <1>2, <1>3 DEF Branch

LEMMA Within ==
  ASSUME NEW p, NEW B, NEW N, Branch(B, p, N), NEW A, A \subseteq B
  PROVE  Branch(A, p, N)
<1>1. IsFiniteSet(A)
  BY FS_Subset DEF Branch
<1> QED
  BY <1>1 DEF Branch

LEMMA NoBranch ==
  ASSUME NEW p, NEW N
  PROVE  Branch({}, p, N)
  BY FS_EmptySet DEF Branch

LEMMA Leaf ==
  ASSUME NEW p, IsPath(p), NEW f, NEW value
  PROVE  Branch({<<Append(p, f), value>>}, p, {f})
<1>1. IsFiniteSet({<<Append(p, f), value>>})
  BY FS_Singleton
<1>2. ASSUME NEW k, SameStart(k, p), k[Len(p) + 1] = f,
             IsFiniteSet({<<k, value>>})
      PROVE  Branch({<<k, value>>}, p, {f})
  BY <1>2 DEF Branch
<1> QED
  BY <1>1, <1>2, AppendAt

LEMMA Image ==
  ASSUME NEW S, IsFiniteSet(S), NEW F, DOMAIN F = S
  PROVE  IsFiniteSet({F[x] : x \in S})
<1> DEFINE T == {F[x] : x \in S}
           G == [x \in S |-> F[x]]
<1>1. G \in Surjection(S, T)
  BY DEF Surjection
<1> HIDE DEF G, T
<1>2. IsFiniteSet(T)
  BY <1>1, FS_Surjection
<1> QED
  BY <1>2 DEF T

LEMMA ValuesBranch ==
  ASSUME NEW s, NEW at, NEW fs, IsFiniteSet(fs), NEW to, IsPath(to), NEW unless
  PROVE  Branch(Values(s, at, fs, to, unless), to, fs)
<1>1. CASE at \notin DOMAIN s
  BY <1>1, NoBranch DEF Values
<1>2. CASE at \in DOMAIN s
  <2> DEFINE gs == {g \in fs : s[at][g] \notin unless}
             F == [g \in gs |-> <<Append(to, g), s[at][g]>>]
             V == {F[g] : g \in gs}
  <2>1. Values(s, at, fs, to, unless) = V
    BY <1>2 DEF Values
  <2>2. gs \in SUBSET fs
    OBVIOUS
  <2>3. \A g \in gs : F[g] = <<Append(to, g), s[at][g]>> /\ g \in fs
    OBVIOUS
  <2>4. DOMAIN F = gs
    OBVIOUS
  <2> HIDE DEF F, gs
  <2>5. IsFiniteSet(V)
    BY <2>2, <2>4, FS_Subset, Image
  <2>6. ASSUME NEW v \in V
        PROVE  \E g \in fs : v = <<Append(to, g), s[at][g]>>
    BY <2>3
  <2> HIDE DEF V
  <2>7. ASSUME NEW v \in V
        PROVE  SameStart(v[1], to) /\ v[1][Len(to) + 1] \in fs
    <3>1. PICK g \in fs : v = <<Append(to, g), s[at][g]>>
      BY <2>6
    <3>2. v[1] = Append(to, g)
      BY <3>1
    <3> QED
      BY <3>2, AppendAt
  <2>8. ASSUME NEW v \in V, NEW w \in V, v[1] = w[1] PROVE v = w
    <3>1. PICK g \in fs : v = <<Append(to, g), s[at][g]>>
      BY <2>6
    <3>2. PICK h \in fs : w = <<Append(to, h), s[at][h]>>
      BY <2>6
    <3>3. Append(to, g) = Append(to, h)
      BY <2>8, <3>1, <3>2
    <3>4. g = h
      BY <3>3, AppendAt
    <3> QED
      BY <3>1, <3>2, <3>4
  <2> QED
    BY <2>1, <2>5, <2>7, <2>8 DEF Branch
<1> QED
  BY <1>1, <1>2

LEMMA SetBranch ==
  ASSUME NEW s, NEW at, NEW fs, IsFiniteSet(fs), NEW to, IsPath(to)
  PROVE  /\ Branch(setIfNotEmpty(s, at, fs, to), to, fs)
         /\ Branch(SetIfNotNil(s, at, fs, to), to, fs)
         /\ Branch(SetAlways(s, at, fs, to), to, fs)
  BY ValuesBranch DEF setIfNotEmpty, SetIfNotNil, SetAlways

LEMMA RenamedLeaf ==
  ASSUME NEW s, NEW at, NEW fs, NEW g, fs \subseteq {g}, NEW to, IsPath(to),
         NEW unless, NEW key
  PROVE  Branch(FieldAs(Values(s, at, fs, to, unless), key), to, {key})
<1>1. ASSUME NEW v \in Values(s, at, fs, to, unless)
      PROVE  v = <<Append(to, g), s[at][g]>>
  BY <1>1 DEF Values
<1>2. Front(Append(to, g)) = to
  <2>1. PICK X : to \in Seq(X)
    BY DEF IsPath
  <2> DEFINE Y == X \cup {g}
  <2>2. to \in Seq(Y) /\ g \in Y
    BY <2>1, WiderSeq
  <2> HIDE DEF Y
  <2>3. Append(to, g) \in Seq(Y) /\ Len(Append(to, g)) = Len(to) + 1
    BY <2>2
  <2>4. SubSeq(Append(to, g), 1, Len(to)) = to
    BY <2>2
  <2>5. Len(Append(to, g)) - 1 = Len(to)
    BY <2>2, <2>3
  <2> QED
    BY <2>4, <2>5 DEF Front
<1>3. ASSUME NEW w \in FieldAs(Values(s, at, fs, to, unless), key)
      PROVE  w = <<Append(to, key), s[at][g]>>
  <2>1. PICK v \in Values(s, at, fs, to, unless) :
          w = <<Append(Front(v[1]), key), v[2]>>
    BY <1>3 DEF FieldAs
  <2>2. v[1] = Append(to, g) /\ v[2] = s[at][g]
    BY <1>1
  <2> QED
    BY <1>2, <2>1, <2>2
<1>4. Branch({<<Append(to, key), s[at][g]>>}, to, {key})
  BY Leaf
<1>5. FieldAs(Values(s, at, fs, to, unless), key)
        \subseteq {<<Append(to, key), s[at][g]>>}
  BY <1>3
<1> QED
  BY <1>4, <1>5, Within

LEMMA SetRenamed ==
  ASSUME NEW s, NEW at, NEW fs, NEW g, fs \subseteq {g}, NEW to, IsPath(to), NEW key
  PROVE  /\ Branch(FieldAs(setIfNotEmpty(s, at, fs, to), key), to, {key})
         /\ Branch(FieldAs(SetIfNotNil(s, at, fs, to), key), to, {key})
         /\ Branch(FieldAs(SetAlways(s, at, fs, to), key), to, {key})
  BY RenamedLeaf DEF setIfNotEmpty, SetIfNotNil, SetAlways

LEMMA FiniteNames ==
  /\ \A a : IsFiniteSet({a})
  /\ \A a, b : IsFiniteSet({a, b})
  /\ \A a, b, c : IsFiniteSet({a, b, c})
  /\ \A a, b, c, d : IsFiniteSet({a, b, c, d})
  /\ \A a, b, c, d, e : IsFiniteSet({a, b, c, d, e})
  /\ \A a, b, c, d, e, f : IsFiniteSet({a, b, c, d, e, f})
  /\ \A a, b, c, d, e, f, g : IsFiniteSet({a, b, c, d, e, f, g})
<1>1. ASSUME NEW S, IsFiniteSet(S), NEW x, NEW T, T = S \cup {x}
      PROVE  IsFiniteSet(T)
  BY <1>1, FS_AddElement
<1>2. \A a : IsFiniteSet({a})
  BY FS_Singleton
<1>3. ASSUME NEW a, NEW b
      PROVE  IsFiniteSet({a, b})
  <2>1. IsFiniteSet({a})
    BY <1>2
  <2>2. {a, b} = {a} \cup {b}
    OBVIOUS
  <2> QED
    BY <1>1, <2>1, <2>2
<1>4. ASSUME NEW a, NEW b, NEW c
      PROVE  IsFiniteSet({a, b, c})
  <2>1. IsFiniteSet({a, b})
    BY <1>3
  <2>2. {a, b, c} = {a, b} \cup {c}
    OBVIOUS
  <2> QED
    BY <1>1, <2>1, <2>2
<1>5. ASSUME NEW a, NEW b, NEW c, NEW d
      PROVE  IsFiniteSet({a, b, c, d})
  <2>1. IsFiniteSet({a, b, c})
    BY <1>4
  <2>2. {a, b, c, d} = {a, b, c} \cup {d}
    OBVIOUS
  <2> QED
    BY <1>1, <2>1, <2>2
<1>6. ASSUME NEW a, NEW b, NEW c, NEW d, NEW e
      PROVE  IsFiniteSet({a, b, c, d, e})
  <2>1. IsFiniteSet({a, b, c, d})
    BY <1>5
  <2>2. {a, b, c, d, e} = {a, b, c, d} \cup {e}
    OBVIOUS
  <2> QED
    BY <1>1, <2>1, <2>2
<1>7. ASSUME NEW a, NEW b, NEW c, NEW d, NEW e, NEW f
      PROVE  IsFiniteSet({a, b, c, d, e, f})
  <2>1. IsFiniteSet({a, b, c, d, e})
    BY <1>6
  <2>2. {a, b, c, d, e, f} = {a, b, c, d, e} \cup {f}
    OBVIOUS
  <2> QED
    BY <1>1, <2>1, <2>2
<1>8. ASSUME NEW a, NEW b, NEW c, NEW d, NEW e, NEW f, NEW g
      PROVE  IsFiniteSet({a, b, c, d, e, f, g})
  <2>1. IsFiniteSet({a, b, c, d, e, f})
    BY <1>7
  <2>2. {a, b, c, d, e, f, g} = {a, b, c, d, e, f} \cup {g}
    OBVIOUS
  <2> QED
    BY <1>1, <2>1, <2>2
<1> QED
  BY <1>2, <1>3, <1>4, <1>5, <1>6, <1>7, <1>8

\* The paths of the model in the form Above expects.
LEMMA PathSteps ==
  /\ IsPath(<< >>)
  /\ \A a : <<a>> = Append(<< >>, a) /\ IsPath(<<a>>)
  /\ \A a, b : <<a, b>> = Append(<<a>>, b) /\ IsPath(<<a, b>>)
  /\ \A a, b, c : <<a, b, c>> = Append(<<a, b>>, c) /\ IsPath(<<a, b, c>>)
<1>1. IsPath(<< >>)
  <2>1. << >> \in Seq({})
    OBVIOUS
  <2> QED
    BY <2>1 DEF IsPath
<1>2. ASSUME NEW a PROVE <<a>> = Append(<< >>, a)
  OBVIOUS
<1>3. ASSUME NEW a, NEW b PROVE <<a, b>> = Append(<<a>>, b)
  OBVIOUS
<1>4. ASSUME NEW a, NEW b, NEW c PROVE <<a, b, c>> = Append(<<a, b>>, c)
  OBVIOUS
<1> QED
  BY <1>1, <1>2, <1>3, <1>4, LiteralPath

LEMMA JoinedStep ==
  ASSUME NEW p, IsPath(p), NEW a
  PROVE  p \o <<a>> = Append(p, a) /\ IsPath(p \o <<a>>)
<1>1. PICK X : p \in Seq(X)
  BY DEF IsPath
<1> DEFINE Y == X \cup {a}
<1>2. p \in Seq(Y) /\ a \in Y
  BY <1>1, WiderSeq
<1> HIDE DEF Y
<1>3. p \o <<a>> = Append(p, a)
  BY <1>2
<1> QED
  BY <1>3, LongerPath

LEMMA JoinedSteps ==
  ASSUME NEW p, IsPath(p), NEW a, NEW b
  PROVE  p \o <<a, b>> = Append(Append(p, a), b) /\ IsPath(p \o <<a, b>>)
<1>1. PICK X : p \in Seq(X)
  BY DEF IsPath
<1> DEFINE Y == X \cup {a, b}
<1>2. p \in Seq(Y) /\ a \in Y /\ b \in Y
  BY <1>1, WiderSeq
<1> HIDE DEF Y
<1>3. p \o <<a, b>> = Append(Append(p, a), b)
  BY <1>2
<1> QED
  BY <1>3, LongerPath

LEMMA ResourcesBranch ==
  ASSUME NEW s, NEW at, NEW to, IsPath(to)
  PROVE  Branch(resourceRequirementsToMap(s, at, to), to, {"resources"})
<1> DEFINE under == Append(to, "resources")
           Of(r) == setIfNotEmpty(s, at \o <<"resources", r>>, {"cpu", "memory"},
                                  to \o <<"resources", r>>)
<1>1. IsPath(under)
  BY LongerPath
<1>2. ASSUME NEW r PROVE Branch(Of(r), under, {r})
  <2>1. /\ to \o <<"resources", r>> = Append(under, r)
        /\ IsPath(to \o <<"resources", r>>)
    BY JoinedSteps
  <2>2. Branch(Of(r), to \o <<"resources", r>>, {"cpu", "memory"})
    BY <2>1, SetBranch, FiniteNames
  <2> HIDE DEF Of, under
  <2> QED
    BY <1>1, <2>1, <2>2, AboveAs
<1>3. resourceRequirementsToMap(s, at, to) = Of("limits") \cup Of("requests")
  BY DEF resourceRequirementsToMap
<1> HIDE DEF Of, under
<1>4. Branch(Of("limits") \cup Of("requests"), under, {"limits"} \cup {"requests"})
  BY <1>2, Join
<1> QED
  BY <1>3, <1>4, Above DEF under

LEMMA WorkloadBranch ==
  ASSUME NEW s, NEW at, NEW to, IsPath(to)
  PROVE  Branch(WorkloadValues(s, at, to), to, {"replicaCount", "image", "resources"})
<1> DEFINE count  == FieldAs(SetIfNotNil(s, at, {"replicas"}, to), "replicaCount")
           policy == FieldAs(setIfNotEmpty(s, at, {"imagePullPolicy"},
                                           to \o <<"image">>), "pullPolicy")
           limits == resourceRequirementsToMap(s, at, to)
<1>1. Branch(count, to, {"replicaCount"})
  BY SetRenamed
<1>2. Branch(policy, to, {"image"})
  <2>1. to \o <<"image">> = Append(to, "image") /\ IsPath(to \o <<"image">>)
    BY JoinedStep
  <2>2. Branch(policy, to \o <<"image">>, {"pullPolicy"})
    BY <2>1, SetRenamed
  <2> HIDE DEF policy
  <2> QED
    BY <2>1, <2>2, AboveAs
<1>3. Branch(limits, to, {"resources"})
  BY ResourcesBranch
<1>4. WorkloadValues(s, at, to) = count \cup policy \cup limits
  BY DEF WorkloadValues
<1> HIDE DEF count, policy, limits
<1>5. Branch(count \cup policy \cup limits, to,
             {"replicaCount"} \cup {"image"} \cup {"resources"})
  BY <1>1, <1>2, <1>3, Join
<1>6. {"replicaCount"} \cup {"image"} \cup {"resources"}
        = {"replicaCount", "image", "resources"}
  OBVIOUS
<1> QED
  BY <1>4, <1>5, <1>6

LEMMA ScrapedBranch ==
  ASSUME NEW s, NEW a, NEW b
  PROVE  Branch(Scraped(s, <<a, b>>), <<a>>, {b})
<1>1. <<a, b>> = Append(<<a>>, b) /\ IsPath(<<a>>)
  BY PathSteps
<1>2. Branch({<<Append(<<a>>, b), "set">>}, <<a>>, {b})
  BY <1>1, Leaf
<1>3. Scraped(s, <<a, b>>) \subseteq {<<Append(<<a>>, b), "set">>}
  BY <1>1 DEF Scraped
<1> QED
  BY <1>2, <1>3, Within

\* The storage types exclude one another, by the CRD's rule.
LEMMA FileClientBranch ==
  ASSUME NEW s,
         ~(<<"fileStorage", "s3">> \in DOMAIN s /\ <<"fileStorage", "fs">> \in DOMAIN s)
  PROVE  Branch(FileClient(s), <<"global">>, {"fileClient"})
<1> DEFINE to == <<"global", "fileClient">>
           s3 == <<"fileStorage", "s3">>
           fs == <<"fileStorage", "fs">>
           retry == <<"fileStorage", "retry">>
           types == {<<Append(to, "type"), Last(p)>> : p \in {s3, fs} \cap DOMAIN s}
           bucket == setIfNotEmpty(s, s3, {"region", "bucket", "endpoint",
                                           "accessKeyId", "prefix"}, Append(to, "s3"))
           style  == SetAlways(s, s3, {"usePathStyle"}, Append(to, "s3"))
           create == SetIfNotNil(s, s3, {"autoCreateBucket"}, Append(to, "s3"))
           base   == setIfNotEmpty(s, fs, {"basePath"}, Append(to, "fs"))
           claim  == FieldAs(setIfNotEmpty(s, fs, {"claimName"}, Append(to, "fs")),
                             "pvcName")
           tries  == SetIfNotNil(s, retry, {"maxRetries"}, Append(to, "retry"))
           waits  == setIfNotEmpty(s, retry, {"initialBackoff", "maxBackoff"},
                                   Append(to, "retry"))
<1>1. /\ IsPath(<<"global">>) /\ IsPath(to) /\ to = Append(<<"global">>, "fileClient")
  BY PathSteps
<1>2. \A f : IsPath(Append(to, f))
  BY <1>1, LongerPath
<1>3. FileClient(s) =
        types \cup (bucket \cup style \cup create) \cup (base \cup claim)
          \cup (tries \cup waits)
  <2>1. FileClient(s) = types \cup bucket \cup style \cup create \cup base \cup claim
                          \cup tries \cup waits
    BY DEF FileClient
  <2> HIDE DEF types, bucket, style, create, base, claim, tries, waits
  <2> QED
    BY <2>1
<1>4. Branch(types, to, {"type"})
  <2>1. s3 \notin DOMAIN s \/ fs \notin DOMAIN s
    OBVIOUS
  <2> HIDE DEF s3, fs, to
  <2>2. \/ types \subseteq {<<Append(to, "type"), Last(s3)>>}
        \/ types \subseteq {<<Append(to, "type"), Last(fs)>>}
    BY <2>1
  <2> HIDE DEF types
  <2>3. ASSUME NEW x, types \subseteq {<<Append(to, "type"), x>>}
        PROVE  Branch(types, to, {"type"})
    <3>1. Branch({<<Append(to, "type"), x>>}, to, {"type"})
      BY <1>1, Leaf
    <3> QED
      BY <2>3, <3>1, Within
  <2> QED
    BY <2>2, <2>3
<1> HIDE DEF to, s3, fs, retry
<1>5. Branch(bucket \cup style \cup create, to, {"s3"})
  <2>1. /\ Branch(bucket, Append(to, "s3"), {"region", "bucket", "endpoint",
                                             "accessKeyId", "prefix"})
        /\ Branch(style, Append(to, "s3"), {"usePathStyle"})
        /\ Branch(create, Append(to, "s3"), {"autoCreateBucket"})
    BY <1>2, SetBranch, FiniteNames
  <2> HIDE DEF bucket, style, create
  <2>2. Branch(bucket \cup style \cup create, Append(to, "s3"),
               {"region", "bucket", "endpoint", "accessKeyId", "prefix"}
                 \cup {"usePathStyle"} \cup {"autoCreateBucket"})
    BY <2>1, Join
  <2> QED
    BY <1>1, <2>2, Above
<1>6. Branch(base \cup claim, to, {"fs"})
  <2>1. /\ Branch(base, Append(to, "fs"), {"basePath"})
        /\ Branch(claim, Append(to, "fs"), {"pvcName"})
    BY <1>2, SetBranch, SetRenamed, FiniteNames
  <2> HIDE DEF base, claim
  <2>2. Branch(base \cup claim, Append(to, "fs"), {"basePath"} \cup {"pvcName"})
    BY <2>1, Join
  <2> QED
    BY <1>1, <2>2, Above
<1>7. Branch(tries \cup waits, to, {"retry"})
  <2>1. /\ Branch(tries, Append(to, "retry"), {"maxRetries"})
        /\ Branch(waits, Append(to, "retry"), {"initialBackoff", "maxBackoff"})
    BY <1>2, SetBranch, FiniteNames
  <2> HIDE DEF tries, waits
  <2>2. Branch(tries \cup waits, Append(to, "retry"),
               {"maxRetries"} \cup {"initialBackoff", "maxBackoff"})
    BY <2>1, Join
  <2> QED
    BY <1>1, <2>2, Above
<1> DEFINE s3s == bucket \cup style \cup create
           fss == base \cup claim
           rts == tries \cup waits
<1>8. Branch(types \cup s3s \cup fss \cup rts, to,
             {"type"} \cup {"s3"} \cup {"fs"} \cup {"retry"})
  <2> HIDE DEF types, s3s, fss, rts
  <2> QED
    BY <1>4, <1>5, <1>6, <1>7, Join DEF s3s, fss, rts
<1>9. FileClient(s) = types \cup s3s \cup fss \cup rts
  BY <1>3
<1> HIDE DEF types, s3s, fss, rts
<1>10. Branch(types \cup s3s \cup fss \cup rts, <<"global">>, {"fileClient"})
  BY <1>1, <1>8, AboveAs
<1> QED
  BY <1>9, <1>10

LEMMA GlobalBranch ==
  ASSUME NEW s, NEW secretName,
         ~(<<"fileStorage", "s3">> \in DOMAIN s /\ <<"fileStorage", "fs">> \in DOMAIN s)
  PROVE  Branch(GlobalValues(s, secretName), << >>, {"global"})
<1> DEFINE to == <<"global">>
           secret == {<<<<"global", "secretName">>, secretName>>}
           lists  == SetIfNotNil(s, << >>, {"extraEndpoints"}, to)
           size   == FieldAs(setIfNotEmpty(s, Config(APIServer) \o <<"fileAPI">>,
                                           {"maxSizeBytes"}, to),
                             "maxInputFileSizeBytes")
           files  == FileClient(s)
           plain  == setIfNotEmpty(s, <<"otel">>, {"endpoint", "sampler",
                                                   "samplerArg"},
                                   <<"global", "otel">>)
           always == SetAlways(s, <<"otel">>, {"insecure", "postgresqlTracing"},
                               <<"global", "otel">>)
           pull   == setIfNotEmpty(s, << >>, {"imagePullSecrets"}, to)
           otel   == plain \cup always
<1>1. /\ IsPath(<< >>) /\ IsPath(to) /\ to = Append(<< >>, "global")
      /\ IsPath(<<"global", "otel">>) /\ <<"global", "otel">> = Append(to, "otel")
      /\ <<"global", "secretName">> = Append(to, "secretName")
  BY PathSteps
<1>2. GlobalValues(s, secretName) =
        secret \cup lists \cup size \cup files \cup otel \cup pull
  <2>1. GlobalValues(s, secretName) =
          secret \cup lists \cup size \cup files \cup plain \cup always \cup pull
    BY DEF GlobalValues
  <2> HIDE DEF secret, lists, size, files, plain, always, pull
  <2> QED
    BY <2>1
<1>3. Branch(files, to, {"fileClient"})
  BY FileClientBranch
<1> HIDE DEF to
<1>4. Branch(secret, to, {"secretName"})
  BY <1>1, Leaf
<1>5. /\ Branch(lists, to, {"extraEndpoints"})
      /\ Branch(pull, to, {"imagePullSecrets"})
      /\ Branch(size, to, {"maxInputFileSizeBytes"})
  BY <1>1, SetBranch, SetRenamed, FiniteNames
<1>6. Branch(otel, to, {"otel"})
  <2>1. /\ Branch(plain, <<"global", "otel">>, {"endpoint", "sampler", "samplerArg"})
        /\ Branch(always, <<"global", "otel">>, {"insecure", "postgresqlTracing"})
    BY <1>1, SetBranch, FiniteNames
  <2> HIDE DEF plain, always
  <2>2. Branch(otel, <<"global", "otel">>, {"endpoint", "sampler", "samplerArg"}
                                 \cup {"insecure", "postgresqlTracing"})
    BY <2>1, Join
  <2> HIDE DEF otel
  <2> QED
    BY <1>1, <2>2, AboveAs
<1> HIDE DEF secret, lists, size, files, otel, pull
<1>7. Branch(secret \cup lists \cup size, to,
             {"secretName"} \cup {"extraEndpoints"} \cup {"maxInputFileSizeBytes"})
  BY <1>4, <1>5, Join
<1>8. Branch(secret \cup lists \cup size \cup files \cup otel \cup pull, to,
             {"secretName"} \cup {"extraEndpoints"} \cup {"maxInputFileSizeBytes"}
               \cup {"fileClient"} \cup {"otel"} \cup {"imagePullSecrets"})
  BY <1>3, <1>5, <1>6, <1>7, Join
<1>9. Branch(secret \cup lists \cup size \cup files \cup otel \cup pull,
             << >>, {"global"})
  BY <1>1, <1>8, AboveAs
<1> QED
  BY <1>2, <1>9

LEMMA APIServerConfigBranch ==
  ASSUME NEW s
  PROVE  Branch(apiServerConfigToMap(s), <<"apiserver">>, {"config"})
<1> DEFINE at == Config(APIServer)
           to == <<"apiserver", "config">>
           own   == setIfNotEmpty(s, at, {"port", "observabilityPort",
                                          "readTimeoutSeconds", "writeTimeoutSeconds",
                                          "idleTimeoutSeconds", "inputHeaders",
                                          "enablePprof"}, to)
           batch == setIfNotEmpty(s, at \o <<"batchAPI">>,
                                  {"eventTTLSeconds", "passThroughHeaders"},
                                  Append(to, "batchAPI"))
           lists == SetIfNotNil(s, at \o <<"batchAPI">>, {"extraEndpoints"},
                                Append(to, "batchAPI"))
           files == setIfNotEmpty(s, at \o <<"fileAPI">>,
                                  {"defaultExpirationSeconds", "maxLineCount"},
                                  Append(to, "fileAPI"))
           api   == batch \cup lists
<1>1. /\ IsPath(<<"apiserver">>) /\ IsPath(to) /\ to = Append(<<"apiserver">>, "config")
      /\ \A f : IsPath(Append(to, f))
  BY PathSteps, LongerPath
<1>2. apiServerConfigToMap(s) = own \cup api \cup files
  BY DEF apiServerConfigToMap, BatchAPIValues
<1> HIDE DEF at, to
<1>3. Branch(own, to, {"port", "observabilityPort", "readTimeoutSeconds",
                       "writeTimeoutSeconds", "idleTimeoutSeconds", "inputHeaders",
                       "enablePprof"})
  BY <1>1, SetBranch, FiniteNames
<1>4. Branch(api, to, {"batchAPI"})
  <2>1. /\ Branch(batch, Append(to, "batchAPI"), {"eventTTLSeconds",
                                                  "passThroughHeaders"})
        /\ Branch(lists, Append(to, "batchAPI"), {"extraEndpoints"})
    BY <1>1, SetBranch, FiniteNames
  <2> HIDE DEF batch, lists
  <2>2. Branch(api, Append(to, "batchAPI"),
               {"eventTTLSeconds", "passThroughHeaders"} \cup {"extraEndpoints"})
    BY <2>1, Join
  <2> HIDE DEF api
  <2> QED
    BY <1>1, <2>2, Above
<1>5. Branch(files, to, {"fileAPI"})
  <2>1. Branch(files, Append(to, "fileAPI"), {"defaultExpirationSeconds",
                                              "maxLineCount"})
    BY <1>1, SetBranch, FiniteNames
  <2> HIDE DEF files
  <2> QED
    BY <1>1, <2>1, Above
<1> HIDE DEF own, api, files
<1>6. Branch(own \cup api \cup files, to,
             {"port", "observabilityPort", "readTimeoutSeconds",
              "writeTimeoutSeconds", "idleTimeoutSeconds", "inputHeaders",
              "enablePprof"} \cup {"batchAPI"} \cup {"fileAPI"})
  BY <1>3, <1>4, <1>5, Join
<1>7. Branch(own \cup api \cup files, <<"apiserver">>, {"config"})
  BY <1>1, <1>6, AboveAs
<1> QED
  BY <1>2, <1>7

LEMMA TLSBranch ==
  ASSUME NEW s, NEW profile
  PROVE  Branch(TLSValues(s, profile), <<"apiserver">>, {"tls"})
<1> DEFINE to == <<"apiserver", "tls">>
           cm == <<"tls", "certManager">>
           keys == IF profile = "" THEN {}
                   ELSE {"minVersion", "cipherSuites", "nextProtos"}
           fromProfile == {<<Append(to, k), profile>> : k \in keys}
           own == setIfNotEmpty(s, <<"tls">>, {"enabled", "secretName"}, to)
           managed == {<<to \o <<"certManager", "enabled">>, "set">> :
                         p \in {cm} \cap DOMAIN s}
           issuer == setIfNotEmpty(s, cm, {"issuerName", "issuerKind", "dnsNames"},
                                   Append(to, "certManager"))
           certs == managed \cup issuer
<1>1. /\ IsPath(<<"apiserver">>) /\ IsPath(to) /\ to = Append(<<"apiserver">>, "tls")
      /\ IsPath(Append(to, "certManager"))
  BY PathSteps, LongerPath
<1>2. TLSValues(s, profile) \subseteq fromProfile \cup own \cup certs
  <2>1. TLSValues(s, profile) =
          fromProfile \cup IF ~Enabled(s, <<"tls">>) THEN {}
                           ELSE own \cup managed \cup issuer
    BY DEF TLSValues
  <2> HIDE DEF fromProfile, own, managed, issuer
  <2> QED
    BY <2>1
<1>3. Branch(fromProfile, to, {"minVersion", "cipherSuites", "nextProtos"})
  <2> DEFINE names == {"minVersion", "cipherSuites", "nextProtos"}
             Of(k) == {<<Append(to, k), profile>>}
  <2>1. fromProfile \subseteq
          Of("minVersion") \cup Of("cipherSuites") \cup Of("nextProtos")
    OBVIOUS
  <2> HIDE DEF to
  <2>2. \A k : Branch(Of(k), to, {k})
    BY <1>1, Leaf
  <2> HIDE DEF Of, fromProfile
  <2>3. Branch(Of("minVersion") \cup Of("cipherSuites") \cup Of("nextProtos"), to,
               {"minVersion"} \cup {"cipherSuites"} \cup {"nextProtos"})
    BY <2>2, Join
  <2>4. Branch(fromProfile, to, {"minVersion"} \cup {"cipherSuites"} \cup {"nextProtos"})
    BY <2>1, <2>3, Within
  <2>5. {"minVersion"} \cup {"cipherSuites"} \cup {"nextProtos"} = names
    OBVIOUS
  <2> QED
    BY <2>4, <2>5
<1>4. Branch(managed, Append(to, "certManager"), {"enabled"})
  <2>1. to \o <<"certManager", "enabled">> = Append(Append(to, "certManager"), "enabled")
    BY <1>1, JoinedSteps
  <2>2. Branch({<<Append(Append(to, "certManager"), "enabled"), "set">>},
               Append(to, "certManager"), {"enabled"})
    BY <1>1, Leaf
  <2> HIDE DEF to
  <2>3. managed \subseteq {<<Append(Append(to, "certManager"), "enabled"), "set">>}
    BY <2>1
  <2> HIDE DEF managed
  <2> QED
    BY <2>2, <2>3, Within
<1> HIDE DEF to, cm
<1>5. /\ Branch(own, to, {"enabled", "secretName"})
      /\ Branch(issuer, Append(to, "certManager"),
                {"issuerName", "issuerKind", "dnsNames"})
  BY <1>1, SetBranch, FiniteNames
<1>6. Branch(certs, to, {"certManager"})
  <2> HIDE DEF managed, issuer
  <2>1. Branch(certs, Append(to, "certManager"),
               {"enabled"} \cup {"issuerName", "issuerKind", "dnsNames"})
    BY <1>4, <1>5, Join
  <2> HIDE DEF certs
  <2> QED
    BY <1>1, <2>1, Above
<1> HIDE DEF fromProfile, own, certs
<1>7. Branch(fromProfile \cup own \cup certs, to,
             {"minVersion", "cipherSuites", "nextProtos"}
               \cup {"enabled", "secretName"} \cup {"certManager"})
  BY <1>3, <1>5, <1>6, Join
<1>8. Branch(fromProfile \cup own \cup certs, <<"apiserver">>, {"tls"})
  BY <1>1, <1>7, AboveAs
<1> QED
  BY <1>2, <1>8, Within

LEMMA HTTPRouteBranch ==
  ASSUME NEW s
  PROVE  Branch(HTTPRouteValues(s), <<"apiserver">>, {"httpRoute"})
<1> DEFINE to == <<"apiserver", "httpRoute">>
           own   == setIfNotEmpty(s, <<"httpRoute">>, {"enabled", "annotations"}, to)
           name  == SetAlways(s, <<"httpRoute", "parentRefs">>, {"name"},
                              Append(to, "parentRefs"))
           where == setIfNotEmpty(s, <<"httpRoute", "parentRefs">>,
                                  {"namespace", "sectionName"},
                                  Append(to, "parentRefs"))
           parents == name \cup where
<1>1. /\ IsPath(<<"apiserver">>) /\ IsPath(to)
      /\ to = Append(<<"apiserver">>, "httpRoute") /\ IsPath(Append(to, "parentRefs"))
  BY PathSteps, LongerPath
<1>2. HTTPRouteValues(s) \subseteq own \cup parents
  <2>1. HTTPRouteValues(s) = IF ~Enabled(s, <<"httpRoute">>) THEN {}
                             ELSE own \cup name \cup where
    BY DEF HTTPRouteValues
  <2> HIDE DEF own, name, where
  <2> QED
    BY <2>1
<1> HIDE DEF to
<1>3. /\ Branch(own, to, {"enabled", "annotations"})
      /\ Branch(name, Append(to, "parentRefs"), {"name"})
      /\ Branch(where, Append(to, "parentRefs"), {"namespace", "sectionName"})
  BY <1>1, SetBranch, FiniteNames
<1>4. Branch(parents, to, {"parentRefs"})
  <2> HIDE DEF name, where
  <2>1. Branch(parents, Append(to, "parentRefs"),
               {"name"} \cup {"namespace", "sectionName"})
    BY <1>3, Join
  <2> HIDE DEF parents
  <2> QED
    BY <1>1, <2>1, Above
<1> HIDE DEF own, parents
<1>5. Branch(own \cup parents, to, {"enabled", "annotations"} \cup {"parentRefs"})
  BY <1>3, <1>4, Join
<1>6. Branch(own \cup parents, <<"apiserver">>, {"httpRoute"})
  BY <1>1, <1>5, AboveAs
<1> QED
  BY <1>2, <1>6, Within

LEMMA APIServerBranch ==
  ASSUME NEW s, NEW profile
  PROVE  Branch(APIServerValues(s, profile), << >>, {"apiserver"})
<1> DEFINE to == <<"apiserver">>
           work   == WorkloadValues(s, APIServer, to)
           config == apiServerConfigToMap(s)
           level  == setIfNotEmpty(s, Config(APIServer) \o <<"logging">>,
                                   {"verbosity"}, <<"apiserver", "logging">>)
           tls    == TLSValues(s, profile)
           route  == HTTPRouteValues(s)
           scrape == Scraped(s, <<"apiserver", "serviceMonitor">>)
<1>1. /\ IsPath(<< >>) /\ IsPath(to) /\ to = Append(<< >>, "apiserver")
      /\ IsPath(<<"apiserver", "logging">>)
      /\ <<"apiserver", "logging">> = Append(to, "logging")
  BY PathSteps
<1>2. APIServerValues(s, profile) =
        work \cup config \cup level \cup tls \cup route \cup scrape
  BY DEF APIServerValues
<1>3. Branch(work, to, {"replicaCount", "image", "resources"})
  BY <1>1, WorkloadBranch
<1>4. Branch(config, to, {"config"}) /\ Branch(tls, to, {"tls"})
  BY APIServerConfigBranch, TLSBranch
<1>5. Branch(route, to, {"httpRoute"}) /\ Branch(scrape, to, {"serviceMonitor"})
  BY HTTPRouteBranch, ScrapedBranch
<1>6. Branch(level, to, {"logging"})
  <2>1. Branch(level, <<"apiserver", "logging">>, {"verbosity"})
    BY <1>1, SetBranch, FiniteNames
  <2> HIDE DEF level, to
  <2> QED
    BY <1>1, <2>1, AboveAs
<1> HIDE DEF to, work, config, level, tls, route, scrape
<1>7. Branch(work \cup config \cup level, to,
             {"replicaCount", "image", "resources"} \cup {"config"} \cup {"logging"})
  BY <1>3, <1>4, <1>6, Join
<1>8. Branch(work \cup config \cup level \cup tls \cup route \cup scrape, to,
             {"replicaCount", "image", "resources"} \cup {"config"} \cup {"logging"}
               \cup {"tls"} \cup {"httpRoute"} \cup {"serviceMonitor"})
  BY <1>4, <1>5, <1>7, Join
<1>9. Branch(work \cup config \cup level \cup tls \cup route \cup scrape, << >>,
             {"apiserver"})
  BY <1>1, <1>8, AboveAs
<1> QED
  BY <1>2, <1>9

LEMMA ProcessorConfigBranch ==
  ASSUME NEW s
  PROVE  Branch(mergeProcessorConfig(s), <<"processor", "config">>,
                {"numWorkers", "inputFileDiskBudgetPercent",
                 "defaultOutputExpirationSeconds", "progressUpdateInterval",
                 "routeKeyMethod", "enablePprof"}
                  \cup {"extraEndpoints", "sendFairnessHeader"}
                  \cup {"concurrency"} \cup {"resumable"})
<1> DEFINE at == Config(Processor)
           to == <<"processor", "config">>
           under == Append(to, "concurrency")
           own    == setIfNotEmpty(s, at, {"numWorkers", "inputFileDiskBudgetPercent",
                                           "defaultOutputExpirationSeconds",
                                           "progressUpdateInterval",
                                           "routeKeyMethod", "enablePprof"}, to)
           nils   == SetIfNotNil(s, at, {"extraEndpoints", "sendFairnessHeader"}, to)
           limits == setIfNotEmpty(s, at \o <<"concurrency">>,
                                   {"global", "perEndpoint", "recovery"}, under)
           aimd   == AIMDValues(s, at \o <<"concurrency", "aimd">>,
                                to \o <<"concurrency", "aimd">>)
           leases == setIfNotEmpty(s, at \o <<"resumable">>,
                                   {"leaseDuration", "finalizeConcurrency",
                                    "finalizeTimeout"}, Append(to, "resumable"))
           bounds == limits \cup aimd
<1>1. /\ IsPath(to) /\ IsPath(under) /\ IsPath(Append(to, "resumable"))
      /\ to \o <<"concurrency", "aimd">> = Append(under, "aimd")
      /\ IsPath(to \o <<"concurrency", "aimd">>)
  <2>1. IsPath(to)
    BY PathSteps
  <2> HIDE DEF to
  <2> QED
    BY <2>1, LongerPath, JoinedSteps
<1>2. mergeProcessorConfig(s) = own \cup nils \cup bounds \cup leases
  <2>1. mergeProcessorConfig(s) = own \cup nils \cup limits \cup aimd \cup leases
    BY DEF mergeProcessorConfig
  <2> HIDE DEF own, nils, limits, aimd, leases
  <2> QED
    BY <2>1
<1> HIDE DEF at, to, under
<1>3. /\ Branch(own, to, {"numWorkers", "inputFileDiskBudgetPercent",
                          "defaultOutputExpirationSeconds",
                          "progressUpdateInterval", "routeKeyMethod", "enablePprof"})
      /\ Branch(nils, to, {"extraEndpoints", "sendFairnessHeader"})
      /\ Branch(limits, under, {"global", "perEndpoint", "recovery"})
  BY <1>1, SetBranch, FiniteNames
<1>4. Branch(leases, to, {"resumable"})
  <2>1. Branch(leases, Append(to, "resumable"),
               {"leaseDuration", "finalizeConcurrency", "finalizeTimeout"})
    BY <1>1, SetBranch, FiniteNames
  <2> HIDE DEF leases
  <2> QED
    BY <1>1, <2>1, Above
<1>5. Branch(aimd, under, {"aimd"})
  <2> DEFINE q == to \o <<"concurrency", "aimd">>
             p == at \o <<"concurrency", "aimd">>
             on == SetIfNotNil(s, p, {"enabled"}, q)
             steps == setIfNotEmpty(s, p, {"min", "backoffFactor",
                                           "additiveIncrease"}, q)
  <2>1. aimd = on \cup steps
    BY DEF AIMDValues
  <2>2. IsPath(q) /\ q = Append(under, "aimd")
    BY <1>1
  <2> HIDE DEF q, p
  <2>3. /\ Branch(on, q, {"enabled"})
        /\ Branch(steps, q, {"min", "backoffFactor", "additiveIncrease"})
    BY <2>2, SetBranch, FiniteNames
  <2> HIDE DEF on, steps, aimd
  <2>4. Branch(on \cup steps, q,
               {"enabled"} \cup {"min", "backoffFactor", "additiveIncrease"})
    BY <2>3, Join
  <2>5. Branch(on \cup steps, under, {"aimd"})
    BY <1>1, <2>2, <2>4, AboveAs
  <2> QED
    BY <2>1, <2>5
<1>6. Branch(bounds, to, {"concurrency"})
  <2> HIDE DEF limits, aimd
  <2>1. Branch(bounds, under, {"global", "perEndpoint", "recovery"} \cup {"aimd"})
    BY <1>3, <1>5, Join
  <2> HIDE DEF bounds
  <2> QED
    BY <1>1, <2>1, Above DEF under
<1> HIDE DEF own, nils, bounds, leases
<1>7. Branch(own \cup nils \cup bounds \cup leases, to,
             {"numWorkers", "inputFileDiskBudgetPercent",
              "defaultOutputExpirationSeconds", "progressUpdateInterval",
              "routeKeyMethod", "enablePprof"}
               \cup {"extraEndpoints", "sendFairnessHeader"}
               \cup {"concurrency"} \cup {"resumable"})
  BY <1>3, <1>4, <1>6, Join
<1> QED
  BY <1>2, <1>7 DEF to

LEMMA ProcessorBranch ==
  ASSUME NEW s
  PROVE  Branch(ProcessorValues(s), << >>, {"processor"})
<1> DEFINE root == <<"processor">>
           config == <<"processor", "config">>
           to  == <<"processor", "config", "asyncDispatch">>
           sql == Async \o <<"sql">>
           work   == WorkloadValues(s, Processor, root)
           poll   == SetAlways(s, Async, {"resultPollTimeout"}, to)
           kind   == {<<Append(to, "transport"), IF sql \in DOMAIN s THEN "sql"
                                                 ELSE "redis-sortedset">>}
           pool   == SetIfNotNil(s, sql, {"maxConnections"}, to)
           models == setIfNotEmpty(s, <<"processor", "modelGateways">>,
                                   {"inferenceObjective"}, Append(to, "models"))
           merged == mergeProcessorConfig(s)
           level  == setIfNotEmpty(s, Config(Processor) \o <<"logging">>,
                                   {"verbosity"}, <<"processor", "logging">>)
           scrape == Scraped(s, <<"processor", "podMonitor">>)
           names  == {"numWorkers", "inputFileDiskBudgetPercent",
                      "defaultOutputExpirationSeconds", "progressUpdateInterval",
                      "routeKeyMethod", "enablePprof"}
                       \cup {"extraEndpoints", "sendFairnessHeader"}
                       \cup {"concurrency"} \cup {"resumable"}
           dispatch == poll \cup kind \cup pool \cup models
           settled  == dispatch \cup merged
<1>1. /\ IsPath(<< >>) /\ IsPath(root) /\ IsPath(config) /\ IsPath(to)
      /\ IsPath(<<"processor", "logging">>)
      /\ root = Append(<< >>, "processor") /\ config = Append(root, "config")
      /\ to = Append(config, "asyncDispatch")
      /\ <<"processor", "logging">> = Append(root, "logging")
  BY PathSteps
<1>2. ProcessorValues(s) = work \cup settled \cup level \cup scrape
  <2>1. ProcessorValues(s) = work \cup poll \cup kind \cup pool \cup models
                               \cup merged \cup level \cup scrape
    BY DEF ProcessorValues
  <2> HIDE DEF work, poll, kind, pool, models, merged, level, scrape
  <2> QED
    BY <2>1
<1>3. Branch(merged, config, names)
  BY ProcessorConfigBranch
<1>4. Branch(work, root, {"replicaCount", "image", "resources"})
  BY <1>1, WorkloadBranch
<1>5. Branch(scrape, root, {"podMonitor"})
  BY ScrapedBranch
<1>6. "asyncDispatch" \notin names
  OBVIOUS
<1> HIDE DEF root, config, to, sql, names
<1>7. Branch(level, root, {"logging"})
  <2>1. Branch(level, <<"processor", "logging">>, {"verbosity"})
    BY <1>1, SetBranch, FiniteNames
  <2> HIDE DEF level
  <2> QED
    BY <1>1, <2>1, AboveAs
<1>8. Branch(dispatch, config, {"asyncDispatch"})
  <2>1. /\ Branch(poll, to, {"resultPollTimeout"})
        /\ Branch(pool, to, {"maxConnections"})
    BY <1>1, SetBranch, FiniteNames
  <2>2. Branch(kind, to, {"transport"})
    BY <1>1, Leaf
  <2>3. Branch(models, to, {"models"})
    <3>1. IsPath(Append(to, "models"))
      BY <1>1, LongerPath
    <3>2. Branch(models, Append(to, "models"), {"inferenceObjective"})
      BY <3>1, SetBranch, FiniteNames
    <3> HIDE DEF models
    <3> QED
      BY <1>1, <3>2, Above
  <2> HIDE DEF poll, kind, pool, models
  <2>4. Branch(dispatch, to, {"resultPollTimeout"} \cup {"transport"}
                               \cup {"maxConnections"} \cup {"models"})
    BY <2>1, <2>2, <2>3, Join
  <2> HIDE DEF dispatch
  <2> QED
    BY <1>1, <2>4, AboveAs
<1>9. Branch(settled, root, {"config"})
  <2> HIDE DEF dispatch, merged
  <2>1. Branch(settled, config, {"asyncDispatch"} \cup names)
    BY <1>3, <1>6, <1>8, Join
  <2> HIDE DEF settled
  <2> QED
    BY <1>1, <2>1, AboveAs
<1> HIDE DEF work, settled, level, scrape
<1>10. Branch(work \cup settled \cup level \cup scrape, root,
              {"replicaCount", "image", "resources"} \cup {"config"}
                \cup {"logging"} \cup {"podMonitor"})
  BY <1>4, <1>5, <1>7, <1>9, Join
<1>11. Branch(work \cup settled \cup level \cup scrape, << >>, {"processor"})
  BY <1>1, <1>10, AboveAs
<1> QED
  BY <1>2, <1>11

LEMMA GCBranch ==
  ASSUME NEW s
  PROVE  Branch(GCValues(s), << >>, {"gc"})
<1> DEFINE root == <<"gc">>
           to == <<"gc", "config">>
           at == Config(GC) \o <<"reconciler">>
           work  == WorkloadValues(s, GC, root)
           every == setIfNotEmpty(s, GC, {"interval"}, Append(to, "collector"))
           dry   == setIfNotEmpty(s, Config(GC), {"dryRun"}, to)
           most  == setIfNotEmpty(s, Config(GC), {"maxConcurrency"},
                                  Append(to, "collector"))
           level == setIfNotEmpty(s, Config(GC) \o <<"logging">>, {"verbosity"},
                                  <<"gc", "logging">>)
           on    == SetAlways(s, at, {"enabled"}, Append(to, "reconciler"))
           again == setIfNotEmpty(s, at, {"interval"}, Append(to, "reconciler"))
           scrape == Scraped(s, <<"gc", "podMonitor">>)
           collector  == every \cup most
           reconciler == on \cup again
           config     == dry \cup collector \cup reconciler
<1>1. /\ IsPath(<< >>) /\ IsPath(root) /\ IsPath(to) /\ IsPath(<<"gc", "logging">>)
      /\ root = Append(<< >>, "gc") /\ to = Append(root, "config")
      /\ <<"gc", "logging">> = Append(root, "logging")
      /\ IsPath(Append(to, "collector")) /\ IsPath(Append(to, "reconciler"))
  BY PathSteps, LongerPath
<1>2. GCValues(s) = work \cup config \cup level \cup scrape
  <2>1. GCValues(s) = work \cup every \cup dry \cup most \cup level
                        \cup (on \cup again) \cup scrape
    BY DEF GCValues, GCReconcilerValues
  <2> HIDE DEF work, every, dry, most, level, on, again, scrape
  <2> QED
    BY <2>1
<1>3. Branch(work, root, {"replicaCount", "image", "resources"})
  BY <1>1, WorkloadBranch
<1>4. Branch(scrape, root, {"podMonitor"})
  BY ScrapedBranch
<1> HIDE DEF root, to, at
<1>5. Branch(level, root, {"logging"})
  <2>1. Branch(level, <<"gc", "logging">>, {"verbosity"})
    BY <1>1, SetBranch, FiniteNames
  <2> HIDE DEF level
  <2> QED
    BY <1>1, <2>1, AboveAs
<1>6. /\ Branch(dry, to, {"dryRun"})
      /\ Branch(every, Append(to, "collector"), {"interval"})
      /\ Branch(most, Append(to, "collector"), {"maxConcurrency"})
      /\ Branch(on, Append(to, "reconciler"), {"enabled"})
      /\ Branch(again, Append(to, "reconciler"), {"interval"})
  BY <1>1, SetBranch, FiniteNames
<1> HIDE DEF dry, every, most, on, again
<1>7. Branch(collector, to, {"collector"})
  <2>1. Branch(collector, Append(to, "collector"), {"interval"} \cup {"maxConcurrency"})
    BY <1>6, Join
  <2> HIDE DEF collector
  <2> QED
    BY <1>1, <2>1, Above
<1>8. Branch(reconciler, to, {"reconciler"})
  <2>1. Branch(reconciler, Append(to, "reconciler"), {"enabled"} \cup {"interval"})
    BY <1>6, Join
  <2> HIDE DEF reconciler
  <2> QED
    BY <1>1, <2>1, Above
<1>9. Branch(config, root, {"config"})
  <2> HIDE DEF collector, reconciler
  <2>1. Branch(config, to, {"dryRun"} \cup {"collector"} \cup {"reconciler"})
    BY <1>6, <1>7, <1>8, Join
  <2> HIDE DEF config
  <2> QED
    BY <1>1, <2>1, AboveAs
<1> HIDE DEF work, config, level, scrape
<1>10. Branch(work \cup config \cup level \cup scrape, root,
              {"replicaCount", "image", "resources"} \cup {"config"}
                \cup {"logging"} \cup {"podMonitor"})
  BY <1>3, <1>4, <1>5, <1>9, Join
<1>11. Branch(work \cup config \cup level \cup scrape, << >>, {"gc"})
  BY <1>1, <1>10, AboveAs
<1> QED
  BY <1>2, <1>11

LEMMA QueuesBranch ==
  ASSUME NEW s, NEW transport, NEW to, IsPath(to)
  PROVE  Branch(asyncQueueValues(s, transport, to), to,
                {"queue_name"} \cup {"worker_pool_id"} \cup {"request_path_url"}
                  \cup {"gate_type"} \cup {"gate_params"} \cup {"igw_base_url"})
<1> DEFINE queue   == Append(transport, "queuesConfig")
           gateway == Async \o <<"inferenceGateway">>
           derived == IF Last(transport) = "redis"
                      THEN {"requestPathURL", "gateType", "gateParams"} ELSE {}
           own     == setIfNotEmpty(s, queue, {"igwBaseURL"}, to)
           fields  == {"name", "workerPoolID", "requestPathURL", "gateType",
                       "gateParams"}
           Of(f)   == FieldAs(IF queue \in DOMAIN s
                              THEN setIfNotEmpty(s, queue, {f}, to)
                              ELSE setIfNotEmpty(s, transport, {f} \cap derived, to),
                              QueueKey(f))
           mine    == FieldAs(own, "igw_base_url")
           taken   == {<<Append(to, "igw_base_url"), "inherited">> :
                         v \in setIfNotEmpty(s, gateway, {"url"}, to)}
           url     == IF own # {} THEN mine ELSE taken
<1>1. asyncQueueValues(s, transport, to) =
        Of("name") \cup Of("workerPoolID") \cup Of("requestPathURL")
          \cup Of("gateType") \cup Of("gateParams") \cup url
  <2>1. asyncQueueValues(s, transport, to) = (UNION {Of(f) : f \in fields}) \cup url
    BY DEF asyncQueueValues
  <2> HIDE DEF Of, url
  <2> QED
    BY <2>1
<1>2. ASSUME NEW f PROVE Branch(Of(f), to, {QueueKey(f)})
  <2> DEFINE key == QueueKey(f)
  <2> HIDE DEF key, queue, derived
  <2>1. \A g, at : Branch(FieldAs(setIfNotEmpty(s, at, {g}, to), key), to, {key})
    BY SetRenamed
  <2>2. \A at : Branch(FieldAs(setIfNotEmpty(s, at, {f} \cap derived, to), key),
                       to, {key})
    BY SetRenamed
  <2> QED
    BY <2>1, <2>2 DEF key
<1>3. /\ QueueKey("name") = "queue_name"
      /\ QueueKey("workerPoolID") = "worker_pool_id"
      /\ QueueKey("requestPathURL") = "request_path_url"
      /\ QueueKey("gateType") = "gate_type"
      /\ QueueKey("gateParams") = "gate_params"
  BY DEF QueueKey
<1>4. Branch(url, to, {"igw_base_url"})
  <2>1. Branch(mine, to, {"igw_base_url"})
    BY SetRenamed
  <2>2. Branch({<<Append(to, "igw_base_url"), "inherited">>}, to, {"igw_base_url"})
    BY Leaf
  <2>3. taken \subseteq {<<Append(to, "igw_base_url"), "inherited">>}
    OBVIOUS
  <2> HIDE DEF mine, taken, own
  <2>4. Branch(taken, to, {"igw_base_url"})
    BY <2>2, <2>3, Within
  <2> QED
    BY <2>1, <2>4
<1> HIDE DEF Of, url
<1>5. /\ Branch(Of("name"), to, {"queue_name"})
      /\ Branch(Of("workerPoolID"), to, {"worker_pool_id"})
      /\ Branch(Of("requestPathURL"), to, {"request_path_url"})
      /\ Branch(Of("gateType"), to, {"gate_type"})
      /\ Branch(Of("gateParams"), to, {"gate_params"})
  BY <1>2, <1>3
<1>6. Branch(Of("name") \cup Of("workerPoolID") \cup Of("requestPathURL"), to,
             {"queue_name"} \cup {"worker_pool_id"} \cup {"request_path_url"})
  BY <1>5, Join
<1>7. Branch(Of("name") \cup Of("workerPoolID") \cup Of("requestPathURL")
               \cup Of("gateType") \cup Of("gateParams") \cup url, to,
             {"queue_name"} \cup {"worker_pool_id"} \cup {"request_path_url"}
               \cup {"gate_type"} \cup {"gate_params"} \cup {"igw_base_url"})
  BY <1>4, <1>5, <1>6, Join
<1> QED
  BY <1>1, <1>7

LEMMA TransportBranch ==
  ASSUME NEW s, NEW secretName
  PROVE  Branch(TransportValues(s, secretName), <<"ap">>,
                {"transport"} \cup {"transportConfig"})
<1> DEFINE transport == IF Async \o <<"redis">> \in DOMAIN s
                        THEN Async \o <<"redis">> ELSE Async \o <<"sql">>
           to        == <<"ap", "transportConfig">>
           numbers   == DOMAIN s[transport] \cap
                          {"pollIntervalMs", "batchSize", "resultBatchSize",
                           "leaseTTLSeconds", "handoffTimeoutSeconds"}
           Of(f)     == FieldAs(SetIfNotNil(s, transport, {f}, to), TransportKey(f))
           traces    == IF Last(transport) = "redis" THEN {"redisTracing"} ELSE {}
           traced    == FieldAs(setIfNotEmpty(s, <<"otel">>, traces, to),
                                "enable_tracing")
           queues    == asyncQueueValues(s, transport, Append(to, "queues"))
           kind      == {<<<<"ap", "transport">>, Last(transport)>>}
           url       == {<<Append(to, "urlSecret"), secretName>>}
           polling   == Of("pollIntervalMs") \cup Of("batchSize")
           leasing   == Of("resultBatchSize") \cup Of("leaseTTLSeconds")
                          \cup Of("handoffTimeoutSeconds")
           config    == url \cup polling \cup leasing \cup traced \cup queues
<1>1. /\ IsPath(<<"ap">>) /\ IsPath(to) /\ IsPath(Append(to, "queues"))
      /\ to = Append(<<"ap">>, "transportConfig")
      /\ <<"ap", "transport">> = Append(<<"ap">>, "transport")
  BY PathSteps, LongerPath
<1>2. TransportValues(s, secretName) \subseteq kind \cup config
  <2>1. TransportValues(s, secretName) =
          {<<<<"ap", "transport">>, Last(transport)>>,
           <<Append(to, "urlSecret"), secretName>>}
            \cup (UNION {Of(f) : f \in numbers}) \cup traced \cup queues
    BY DEF TransportValues
  <2>2. {<<<<"ap", "transport">>, Last(transport)>>,
         <<Append(to, "urlSecret"), secretName>>} = kind \cup url
    OBVIOUS
  <2>3. \A f \in numbers : Of(f) \subseteq polling \cup leasing
    <3> HIDE DEF Of
    <3> QED
      OBVIOUS
  <2> HIDE DEF kind, url, Of, numbers, transport, to, traced, queues, polling, leasing
  <2>4. TransportValues(s, secretName) =
          (kind \cup url) \cup (UNION {Of(f) : f \in numbers}) \cup traced \cup queues
    BY <2>1, <2>2
  <2> QED
    BY <2>3, <2>4
<1>3. ASSUME NEW f PROVE Branch(Of(f), to, {TransportKey(f)})
  <2> DEFINE key == TransportKey(f)
  <2> HIDE DEF key, transport, to
  <2> QED
    BY <1>1, SetRenamed DEF key
<1>4. traces \subseteq {"redisTracing"}
  OBVIOUS
<1> HIDE DEF transport, to, traces, numbers
<1>5. Branch(traced, to, {"enable_tracing"})
  BY <1>1, <1>4, SetRenamed
<1>6. Branch(queues, to, {"queues"})
  <2>1. Branch(queues, Append(to, "queues"),
               {"queue_name"} \cup {"worker_pool_id"} \cup {"request_path_url"}
                 \cup {"gate_type"} \cup {"gate_params"} \cup {"igw_base_url"})
    BY <1>1, QueuesBranch
  <2> HIDE DEF queues
  <2> QED
    BY <1>1, <2>1, Above
<1>7. Branch(kind, <<"ap">>, {"transport"})
  BY <1>1, Leaf
<1>8. Branch(url, to, {"urlSecret"})
  BY <1>1, Leaf
<1>9. /\ TransportKey("pollIntervalMs") = "poll_interval_ms"
      /\ TransportKey("batchSize") = "batch_size"
      /\ TransportKey("resultBatchSize") = "result_batch_size"
      /\ TransportKey("leaseTTLSeconds") = "lease_ttl_seconds"
      /\ TransportKey("handoffTimeoutSeconds") = "handoff_timeout_seconds"
  BY DEF TransportKey
<1> HIDE DEF Of, kind, url, traced, queues
<1>10. Branch(polling, to, {"poll_interval_ms"} \cup {"batch_size"})
  <2>1. /\ Branch(Of("pollIntervalMs"), to, {"poll_interval_ms"})
        /\ Branch(Of("batchSize"), to, {"batch_size"})
    BY <1>3, <1>9
  <2> QED
    BY <2>1, Join
<1>11. Branch(leasing, to, {"result_batch_size"} \cup {"lease_ttl_seconds"}
                             \cup {"handoff_timeout_seconds"})
  <2>1. /\ Branch(Of("resultBatchSize"), to, {"result_batch_size"})
        /\ Branch(Of("leaseTTLSeconds"), to, {"lease_ttl_seconds"})
        /\ Branch(Of("handoffTimeoutSeconds"), to, {"handoff_timeout_seconds"})
    BY <1>3, <1>9
  <2> QED
    BY <2>1, Join
<1> HIDE DEF polling, leasing
<1>12. Branch(url \cup polling \cup leasing, to,
              {"urlSecret"} \cup ({"poll_interval_ms"} \cup {"batch_size"})
                \cup ({"result_batch_size"} \cup {"lease_ttl_seconds"}
                         \cup {"handoff_timeout_seconds"}))
  BY <1>8, <1>10, <1>11, Join
<1>13. Branch(config, to,
              {"urlSecret"} \cup ({"poll_interval_ms"} \cup {"batch_size"})
                \cup ({"result_batch_size"} \cup {"lease_ttl_seconds"}
                         \cup {"handoff_timeout_seconds"})
                \cup {"enable_tracing"} \cup {"queues"})
  BY <1>5, <1>6, <1>12, Join
<1> HIDE DEF config
<1>14. Branch(config, <<"ap">>, {"transportConfig"})
  <2>1. PICK names : Branch(config, to, names)
    BY <1>13
  <2> QED
    BY <1>1, <2>1, AboveAs
<1>15. Branch(kind \cup config, <<"ap">>, {"transport"} \cup {"transportConfig"})
  BY <1>7, <1>14, Join
<1> QED
  BY <1>2, <1>15, Within

LEMMA JSONBranch ==
  ASSUME NEW values, NEW to, NEW names, Branch(values, to, names)
  PROVE  Branch(toJSONAwareMap(values), to, names)
<1> DEFINE F == [v \in values |->
                   <<v[1], IF v[2] = "literal" THEN "parsed" ELSE v[2]>>]
           T == {F[v] : v \in values}
<1>1. toJSONAwareMap(values) = T
  BY DEF toJSONAwareMap
<1>2. \A v \in values : F[v][1] = v[1]
  OBVIOUS
<1>3. DOMAIN F = values
  OBVIOUS
<1> HIDE DEF F
<1>4. IsFiniteSet(T)
  BY <1>3, Image DEF Branch
<1>5. \A t \in T : \E v \in values : t = F[v]
  OBVIOUS
<1> HIDE DEF T
<1>6. ASSUME NEW t \in T, NEW u \in T, t[1] = u[1] PROVE t = u
  <2>1. PICK v \in values : t = F[v]
    BY <1>5
  <2>2. PICK w \in values : u = F[w]
    BY <1>5
  <2>3. v = w
    BY <1>2, <1>6, <2>1, <2>2 DEF Branch
  <2> QED
    BY <2>1, <2>2, <2>3
<1>7. \A t \in T : SameStart(t[1], to) /\ t[1][Len(to) + 1] \in names
  BY <1>2, <1>5 DEF Branch
<1> QED
  BY <1>1, <1>4, <1>6, <1>7 DEF Branch

LEMMA ExtrasBranch ==
  ASSUME NEW s
  PROVE  Branch(AsyncExtras(s), <<"ap">>,
                {"workerPools"} \cup {"tls"} \cup {"transforms"}
                  \cup {"modelServerMonitor"})
<1> DEFINE tls   == Async \o <<"tls">>
           pools == Async \o <<"workerPools">>
           trans == Async \o <<"transformConfig", "requestTransforms">>
           msm   == Async \o <<"modelServerMonitor">>
           toPools == <<"ap", "workerPools">>
           toTLS   == <<"ap", "tls">>
           toTrans == <<"ap", "transforms">>
           toMSM   == <<"ap", "modelServerMonitor">>
           id      == FieldAs(SetAlways(s, pools, {"name"}, toPools), "id")
           workers == SetAlways(s, pools, {"workers"}, toPools)
           gate    == FieldAs(setIfNotEmpty(s, pools, {"gateType"}, toPools),
                              "gate_type")
           params  == FieldAs(setIfNotEmpty(s, pools, {"gateParams"}, toPools),
                              "gate_params")
           keys    == setIfNotEmpty(s, tls, {"secretName", "caCertKey", "certKey",
                                             "keyKey"}, toTLS)
           skip    == SetAlways(s, tls, {"insecureSkipVerify"}, toTLS)
           what    == SetAlways(s, trans, {"name", "type"}, toTrans)
           how     == toJSONAwareMap(setIfNotEmpty(s, trans, {"parameters"}, toTrans))
           monitor == setIfNotEmpty(s, msm, {"enabled", "selector", "port", "path",
                                             "interval"}, toMSM)
           pooled  == id \cup workers \cup gate \cup params
           secured == keys \cup skip
           changed == what \cup how
<1>1. /\ IsPath(<<"ap">>) /\ IsPath(toPools) /\ IsPath(toTLS) /\ IsPath(toTrans)
      /\ IsPath(toMSM)
      /\ toPools = Append(<<"ap">>, "workerPools") /\ toTLS = Append(<<"ap">>, "tls")
      /\ toTrans = Append(<<"ap">>, "transforms")
      /\ toMSM = Append(<<"ap">>, "modelServerMonitor")
  BY PathSteps
<1>2. AsyncExtras(s) \subseteq pooled \cup secured \cup changed \cup monitor
  <2>1. AsyncExtras(s) =
          id \cup workers \cup gate \cup params \cup keys \cup skip \cup what \cup how
            \cup IF ~Enabled(s, msm) THEN {} ELSE monitor
    BY DEF AsyncExtras
  <2> HIDE DEF id, workers, gate, params, keys, skip, what, how, monitor
  <2> QED
    BY <2>1
<1> HIDE DEF tls, pools, trans, msm, toPools, toTLS, toTrans, toMSM
<1>3. Branch(pooled, <<"ap">>, {"workerPools"})
  <2>1. /\ Branch(id, toPools, {"id"}) /\ Branch(gate, toPools, {"gate_type"})
        /\ Branch(params, toPools, {"gate_params"})
    BY <1>1, SetRenamed
  <2>2. Branch(workers, toPools, {"workers"})
    BY <1>1, SetBranch, FiniteNames
  <2> HIDE DEF id, workers, gate, params
  <2>3. Branch(pooled, toPools,
               {"id"} \cup {"workers"} \cup {"gate_type"} \cup {"gate_params"})
    BY <2>1, <2>2, Join
  <2> HIDE DEF pooled
  <2> QED
    BY <1>1, <2>3, AboveAs
<1>4. Branch(secured, <<"ap">>, {"tls"})
  <2>1. /\ Branch(keys, toTLS, {"secretName", "caCertKey", "certKey", "keyKey"})
        /\ Branch(skip, toTLS, {"insecureSkipVerify"})
    BY <1>1, SetBranch, FiniteNames
  <2> HIDE DEF keys, skip
  <2>2. Branch(secured, toTLS, {"secretName", "caCertKey", "certKey", "keyKey"}
                                 \cup {"insecureSkipVerify"})
    BY <2>1, Join
  <2> HIDE DEF secured
  <2> QED
    BY <1>1, <2>2, AboveAs
<1>5. Branch(changed, <<"ap">>, {"transforms"})
  <2>1. Branch(what, toTrans, {"name", "type"})
    BY <1>1, SetBranch, FiniteNames
  <2>2. Branch(how, toTrans, {"parameters"})
    BY <1>1, SetBranch, FiniteNames, JSONBranch
  <2> HIDE DEF what, how
  <2>3. Branch(changed, toTrans, {"name", "type"} \cup {"parameters"})
    BY <2>1, <2>2, Join
  <2> HIDE DEF changed
  <2> QED
    BY <1>1, <2>3, AboveAs
<1>6. Branch(monitor, <<"ap">>, {"modelServerMonitor"})
  <2>1. Branch(monitor, toMSM, {"enabled", "selector", "port", "path", "interval"})
    BY <1>1, SetBranch, FiniteNames
  <2> HIDE DEF monitor
  <2> QED
    BY <1>1, <2>1, AboveAs
<1> HIDE DEF pooled, secured, changed, monitor
<1>7. Branch(pooled \cup secured \cup changed \cup monitor, <<"ap">>,
             {"workerPools"} \cup {"tls"} \cup {"transforms"}
               \cup {"modelServerMonitor"})
  BY <1>3, <1>4, <1>5, <1>6, Join
<1> QED
  BY <1>2, <1>7, Within

LEMMA AsyncBranch ==
  ASSUME NEW s, NEW secretName
  PROVE  Branch(specToAsyncHelmValues(s, secretName), << >>, {"ap"})
<1> DEFINE ap == <<"ap">>
           toOTEL  == <<"ap", "otel">>
           toGraph == <<"ap", "grafana">>
           toRules == <<"ap", "prometheusRule">>
           replicas == FieldAs(SetIfNotNil(s, Async, {"replicas"}, ap),
                               "replicaCount")
           workers  == SetIfNotNil(s, Async, {"concurrency"}, ap)
           plain    == setIfNotEmpty(s, Async, {"imagePullPolicy", "drainTimeout",
                                                "prometheusURL",
                                                "prometheusCacheTTL"}, ap)
           url      == FieldAs(SetAlways(s, Async \o <<"inferenceGateway">>,
                                         {"url"}, ap), "igwBaseURL")
           limits   == resourceRequirementsToMap(s, Async, ap)
           queues   == TransportValues(s, secretName)
           extras   == AsyncExtras(s)
           traces   == setIfNotEmpty(s, <<"otel">>, {"endpoint", "sampler",
                                                     "samplerArg"}, toOTEL)
           tracing  == SetAlways(s, <<"otel">>, {"insecure", "redisTracing"}, toOTEL)
           pull     == setIfNotEmpty(s, << >>, {"imagePullSecrets"}, ap)
           scraped  == Scraped(s, <<"ap", "podMonitor">>)
           grafana  == setIfNotEmpty(s, <<"grafana">>, {"enabled"}, toGraph)
           rules    == setIfNotEmpty(s, <<"prometheusRule">>, {"enabled", "labels"},
                                     toRules)
           otel     == traces \cup tracing
           own      == replicas \cup workers \cup plain \cup url
           sections == limits \cup queues \cup extras
           watched  == scraped \cup grafana \cup rules
<1>1. /\ IsPath(<< >>) /\ IsPath(ap) /\ IsPath(toOTEL) /\ IsPath(toGraph)
      /\ IsPath(toRules) /\ ap = Append(<< >>, "ap")
      /\ toOTEL = Append(ap, "otel") /\ toGraph = Append(ap, "grafana")
      /\ toRules = Append(ap, "prometheusRule")
  BY PathSteps
<1>2. specToAsyncHelmValues(s, secretName)
        \subseteq own \cup sections \cup (otel \cup pull) \cup watched
  <2>1. specToAsyncHelmValues(s, secretName) =
          replicas \cup workers \cup plain \cup url \cup limits \cup queues
            \cup extras \cup traces \cup tracing \cup pull \cup scraped \cup grafana
            \cup IF ~Enabled(s, <<"prometheusRule">>) THEN {} ELSE rules
    BY DEF specToAsyncHelmValues
  <2> HIDE DEF replicas, workers, plain, url, limits, queues, extras, traces,
               tracing, pull, scraped, grafana, rules
  <2> QED
    BY <2>1
<1>3. /\ Branch(queues, ap, {"transport"} \cup {"transportConfig"})
      /\ Branch(extras, ap, {"workerPools"} \cup {"tls"} \cup {"transforms"}
                              \cup {"modelServerMonitor"})
  BY TransportBranch, ExtrasBranch
<1>4. Branch(scraped, ap, {"podMonitor"})
  BY ScrapedBranch
<1> HIDE DEF ap, toOTEL, toGraph, toRules, queues, extras, scraped
<1>5. Branch(limits, ap, {"resources"})
  BY <1>1, ResourcesBranch
<1>6. /\ Branch(workers, ap, {"concurrency"}) /\ Branch(pull, ap, {"imagePullSecrets"})
      /\ Branch(plain, ap, {"imagePullPolicy", "drainTimeout", "prometheusURL",
                            "prometheusCacheTTL"})
  BY <1>1, SetBranch, FiniteNames
<1>7. Branch(replicas, ap, {"replicaCount"}) /\ Branch(url, ap, {"igwBaseURL"})
  BY <1>1, SetRenamed
<1>8. Branch(grafana, ap, {"grafana"}) /\ Branch(rules, ap, {"prometheusRule"})
  <2>1. /\ Branch(grafana, toGraph, {"enabled"})
        /\ Branch(rules, toRules, {"enabled", "labels"})
    BY <1>1, SetBranch, FiniteNames
  <2> HIDE DEF grafana, rules
  <2> QED
    BY <1>1, <2>1, AboveAs
<1>9. Branch(otel, ap, {"otel"})
  <2>1. /\ Branch(traces, toOTEL, {"endpoint", "sampler", "samplerArg"})
        /\ Branch(tracing, toOTEL, {"insecure", "redisTracing"})
    BY <1>1, SetBranch, FiniteNames
  <2> HIDE DEF traces, tracing
  <2>2. Branch(otel, toOTEL, {"endpoint", "sampler", "samplerArg"}
                               \cup {"insecure", "redisTracing"})
    BY <2>1, Join
  <2> HIDE DEF otel
  <2> QED
    BY <1>1, <2>2, AboveAs
<1> HIDE DEF replicas, workers, plain, url, limits, otel, pull, grafana, rules
<1> DEFINE N1 == {"replicaCount"} \cup {"concurrency"}
                   \cup {"imagePullPolicy", "drainTimeout", "prometheusURL",
                         "prometheusCacheTTL"} \cup {"igwBaseURL"}
           N2 == {"resources"} \cup ({"transport"} \cup {"transportConfig"})
                   \cup ({"workerPools"} \cup {"tls"} \cup {"transforms"}
                           \cup {"modelServerMonitor"})
           N3 == {"otel"} \cup {"imagePullSecrets"}
           N4 == {"podMonitor"} \cup {"grafana"} \cup {"prometheusRule"}
<1>10. Branch(own, ap, N1)
  BY <1>6, <1>7, Join
<1>11. Branch(sections, ap, N2)
  BY <1>3, <1>5, Join
<1>12. Branch(otel \cup pull, ap, N3)
  BY <1>6, <1>9, Join
<1>13. Branch(watched, ap, N4)
  BY <1>4, <1>8, Join
<1>14. /\ \A x \in N1 : x \notin N2 \cup N3 \cup N4
       /\ \A x \in N2 : x \notin N3 \cup N4
       /\ \A x \in N3 : x \notin N4
  OBVIOUS
<1> HIDE DEF N1, N2, N3, N4, own, sections, watched
<1>15. Branch(own \cup sections \cup (otel \cup pull) \cup watched, ap,
              N1 \cup N2 \cup N3 \cup N4)
  <2> DEFINE more == otel \cup pull
  <2> HIDE DEF more
  <2>1. Branch(own \cup sections \cup more \cup watched, ap, N1 \cup N2 \cup N3 \cup N4)
    BY <1>10, <1>11, <1>12, <1>13, <1>14, Join DEF more
  <2> QED
    BY <2>1 DEF more
<1>16. Branch(own \cup sections \cup (otel \cup pull) \cup watched, << >>, {"ap"})
  BY <1>1, <1>15, AboveAs
<1> QED
  BY <1>2, <1>16, Within

LEMMA BatchBranch ==
  ASSUME NEW s, NEW secretName, NEW profile,
         ~(<<"fileStorage", "s3">> \in DOMAIN s /\ <<"fileStorage", "fs">> \in DOMAIN s)
  PROVE  Branch(specToBatchHelmValues(s, secretName, profile), << >>,
                {"global"} \cup {"apiserver"} \cup {"processor"} \cup {"gc"}
                  \cup {"grafana"} \cup {"prometheusRule"})
<1> DEFINE toGraph == <<"grafana", "dashboards">>
           toRules == <<"prometheusRule">>
           global == GlobalValues(s, secretName)
           api    == APIServerValues(s, profile)
           proc   == ProcessorValues(s)
           gc     == GCValues(s)
           graph  == SetAlways(s, <<"grafana">>, {"enabled"}, toGraph)
           on     == SetAlways(s, <<"prometheusRule">>, {"enabled"}, toRules)
           labels == setIfNotEmpty(s, <<"prometheusRule">>, {"labels"}, toRules)
           rules  == on \cup labels
<1>1. /\ IsPath(<< >>) /\ IsPath(<<"grafana">>) /\ IsPath(toGraph) /\ IsPath(toRules)
      /\ <<"grafana">> = Append(<< >>, "grafana")
      /\ toGraph = Append(<<"grafana">>, "dashboards")
      /\ toRules = Append(<< >>, "prometheusRule")
  BY PathSteps
<1>2. specToBatchHelmValues(s, secretName, profile) =
        global \cup api \cup proc \cup gc \cup graph \cup rules
  <2>1. specToBatchHelmValues(s, secretName, profile) =
          global \cup api \cup proc \cup gc \cup graph \cup on \cup labels
    BY DEF specToBatchHelmValues
  <2> HIDE DEF global, api, proc, gc, graph, on, labels
  <2> QED
    BY <2>1
<1>3. /\ Branch(global, << >>, {"global"}) /\ Branch(api, << >>, {"apiserver"})
      /\ Branch(proc, << >>, {"processor"}) /\ Branch(gc, << >>, {"gc"})
  BY GlobalBranch, APIServerBranch, ProcessorBranch, GCBranch
<1> HIDE DEF toGraph, toRules
<1>4. Branch(graph, << >>, {"grafana"})
  <2>1. Branch(graph, toGraph, {"enabled"})
    BY <1>1, SetBranch, FiniteNames
  <2> HIDE DEF graph
  <2>2. Branch(graph, <<"grafana">>, {"dashboards"})
    BY <1>1, <2>1, AboveAs
  <2> QED
    BY <1>1, <2>2, AboveAs
<1>5. Branch(rules, << >>, {"prometheusRule"})
  <2>1. Branch(on, toRules, {"enabled"}) /\ Branch(labels, toRules, {"labels"})
    BY <1>1, SetBranch, FiniteNames
  <2> HIDE DEF on, labels
  <2>2. Branch(rules, toRules, {"enabled"} \cup {"labels"})
    BY <2>1, Join
  <2> HIDE DEF rules
  <2> QED
    BY <1>1, <2>2, AboveAs
<1> HIDE DEF global, api, proc, gc, graph, rules
<1>6. Branch(global \cup api \cup proc, << >>,
             {"global"} \cup {"apiserver"} \cup {"processor"})
  BY <1>3, Join
<1>7. Branch(global \cup api \cup proc \cup gc \cup graph \cup rules, << >>,
             {"global"} \cup {"apiserver"} \cup {"processor"} \cup {"gc"}
               \cup {"grafana"} \cup {"prometheusRule"})
  BY <1>3, <1>4, <1>5, <1>6, Join
<1> QED
  BY <1>2, <1>7

\* A finite set of values with one for each key has as many keys as values.
LEMMA AsManyKeys ==
  ASSUME NEW values, NEW path, NEW names, Branch(values, path, names)
  PROVE  Cardinality({v[1] : v \in values}) = Cardinality(values)
<1> DEFINE keys == {v[1] : v \in values}
           F == [v \in values |-> v[1]]
<1>1. F \in [values -> keys]
  OBVIOUS
<1>2. \A v, w \in values : F[v] = F[w] => v = w
  BY DEF Branch
<1>3. \A k \in keys : \E v \in values : F[v] = k
  OBVIOUS
<1> HIDE DEF F, keys
<1>4. F \in Bijection(values, keys)
  BY <1>1, <1>2, <1>3, Fun_IsBij
<1>5. ExistsBijection(values, keys)
  BY <1>4 DEF ExistsBijection
<1>6. Cardinality(keys) = Cardinality(values)
  BY <1>5, FS_Bijection DEF Branch
<1> QED
  BY <1>6 DEF keys

-------------------------------------------------------------------------------
\* The manifest of the last rendering was an admitted one.
SeenAdmitted == seen = << >> \/ Admitted(seen)

LEMMA SeenAlways == Spec => []SeenAdmitted
<1>1. Init => SeenAdmitted
  BY DEF Init, SeenAdmitted
<1>2. StoredInv /\ SeenAdmitted /\ [Next]_vars => SeenAdmitted'
  <2> SUFFICES ASSUME StoredInv, SeenAdmitted, [Next]_vars PROVE SeenAdmitted'
    OBVIOUS
  <2>1. CASE Render
    <3>1. seen' = manifest /\ Admitted(manifest)
      BY <2>1 DEF Render, StoredInv
    <3> QED
      BY <3>1 DEF SeenAdmitted
  <2>2. ASSUME NEW m, Submit(m) PROVE SeenAdmitted'
    BY <2>2 DEF Submit, SeenAdmitted
  <2>3. ASSUME NEW p, DropSection(p) \/ AddSection(p) PROVE SeenAdmitted'
    BY <2>2, <2>3 DEF DropSection, AddSection
  <2>4. ASSUME NEW p, NEW f, SetField(p, f) PROVE SeenAdmitted'
    BY <2>2, <2>4 DEF SetField
  <2>5. CASE UNCHANGED vars
    BY <2>5 DEF vars, SeenAdmitted
  <2> QED
    BY <2>1, <2>3, <2>4, <2>5 DEF Next
<1> QED
  BY <1>1, <1>2, ManifestsStored, PTL DEF Spec

(***************************************************************************)
(* For every manifest and after every series of edits, the conversions     *)
(* give no chart key two values.  It takes the CRD's rule that a gateway   *)
(* has one storage: with two, the file client's type would be set twice.   *)
(***************************************************************************)
THEOREM NoKeyTwice == Spec => []KeysUnique
<1>1. ASSUME SeenAdmitted, SettingsInv PROVE KeysUnique
  <2>1. CASE seen = << >> /\ settings = {}
    <3>1. {v[1] : v \in settings} = settings
      BY <2>1
    <3> QED
      BY <3>1 DEF KeysUnique
  <2>2. CASE settings =
               specToBatchHelmValues(Decode(seen), start.secret, start.profile)
                 \cup specToAsyncHelmValues(Decode(seen), start.secret)
    <3> DEFINE s == Decode(seen)
               batch == specToBatchHelmValues(s, start.secret, start.profile)
               async == specToAsyncHelmValues(s, start.secret)
    <3>1. ~(<<"fileStorage", "s3">> \in DOMAIN s /\ <<"fileStorage", "fs">> \in DOMAIN s)
      <4>1. DOMAIN s = DOMAIN seen
        BY DEF Decode
      <4>2. CASE seen = << >>
        <5>1. DOMAIN seen = {}
          BY <4>2
        <5> QED
          BY <4>1, <5>1
      <4>3. CASE Admitted(seen)
        <5>1. (<<"fileStorage", "s3">> \in DOMAIN seen)
                # (<<"fileStorage", "fs">> \in DOMAIN seen)
          BY <4>3, Zenon DEF Admitted, OneStorage
        <5> HIDE DEF s
        <5> QED
          BY <4>1, <5>1
      <4> QED
        BY <1>1, <4>2, <4>3 DEF SeenAdmitted
    <3> HIDE DEF s
    <3>2. Branch(batch, << >>, {"global"} \cup {"apiserver"} \cup {"processor"}
                                 \cup {"gc"} \cup {"grafana"}
                                 \cup {"prometheusRule"})
      BY <3>1, BatchBranch
    <3>3. Branch(async, << >>, {"ap"})
      BY AsyncBranch
    <3> HIDE DEF batch, async
    <3>4. PICK names : Branch(batch \cup async, << >>, names)
      <4>1. Branch(batch \cup async, << >>,
                   {"global"} \cup {"apiserver"} \cup {"processor"} \cup {"gc"}
                     \cup {"grafana"} \cup {"prometheusRule"} \cup {"ap"})
        BY <3>2, <3>3, Join
      <4> QED
        BY <4>1
    <3>5. settings = batch \cup async
      BY <2>2 DEF batch, async, s
    <3>6. Cardinality({v[1] : v \in batch \cup async}) = Cardinality(batch \cup async)
      BY <3>4, AsManyKeys
    <3> QED
      BY <3>5, <3>6 DEF KeysUnique
  <2> QED
    BY <1>1, <2>1, <2>2 DEF SettingsInv
<1> QED
  BY <1>1, SeenAlways, SettingsAlways, PTL
================================================================================
