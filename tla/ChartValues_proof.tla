--------------------------- MODULE ChartValues_proof ---------------------------
(***************************************************************************)
(* Proofs, for every manifest and every image reference, that the rendered *)
(* workloads run the platform's images and are found under their labels,   *)
(* that API server and processor get the endpoint lists that were written, *)
(* and that nothing the manifest leaves out is passed on.                  *)
(***************************************************************************)
EXTENDS ChartValues, FiniteSetTheorems, SequenceTheorems,
        WellFoundedInduction, TLAPS

(***************************************************************************)
(* A nonempty set of positions has a last one.                             *)
(***************************************************************************)
LEMMA LastPosition ==
  ASSUME NEW n \in Nat, NEW S \in SUBSET (1..n), S # {}
  PROVE  Max(S) \in S /\ \A j \in S : j <= Max(S)
<1> DEFINE T == {n - i : i \in S}
<1>1. T \in SUBSET Nat /\ T # {}
  <2>1. \A i \in S : i \in 1..n
    OBVIOUS
  <2>2. \A i \in 1..n : n - i \in Nat
    OBVIOUS
  <2>3. T \in SUBSET Nat
    BY <2>1, <2>2
  <2>4. T # {}
    OBVIOUS
  <2> QED
    BY <2>3, <2>4
<1>2. PICK d \in T : \A e \in T : ~(<<e, d>> \in OpToRel(<, Nat))
  BY <1>1, NatLessThanWellFounded, WFMin
<1>3. PICK i \in S : d = n - i
  BY <1>2
<1>4. \A j \in S : i >= j
  <2> TAKE j \in S
  <2>1. n - j \in T /\ n - j \in Nat /\ n - i \in Nat
    OBVIOUS
  <2>2. ~(n - j < n - i)
    BY <1>1, <1>2, <1>3, <2>1 DEF OpToRel
  <2> QED
    BY <2>2
<1>5. \E x \in S : \A y \in S : x >= y
  BY <1>4
<1>6. Max(S) \in S /\ \A y \in S : Max(S) >= y
  BY <1>5 DEF Max
<1> QED
  BY <1>6

\* The provers do not know that a literal is a STRING.
LEMMA WiderSeq ==
  ASSUME NEW X, NEW Y, NEW s \in Seq(X) PROVE s \in Seq(X \cup Y)
  OBVIOUS

(***************************************************************************)
(* splitImage and the chart's template put a reference together again.     *)
(***************************************************************************)
LEMMA JoinedAgain ==
  ASSUME NEW X, NEW image \in Seq(X), NEW k \in 1..Len(image)
  PROVE  SubSeq(image, 1, k - 1) \o <<image[k]>> \o SubSeq(image, k + 1, Len(image))
           = image
<1>1. SubSeq(image, 1, k) = SubSeq(image, 1, k - 1) \o <<image[k]>>
  BY SubSeqRecursiveSecond
<1>2. SubSeq(image, 1, k) \o SubSeq(image, k + 1, Len(image))
        = SubSeq(image, 1, Len(image))
  BY ConcatAdjacentSubSeq
<1>3. SubSeq(image, 1, Len(image)) = image
  BY SubSeqFull
<1> QED
  BY <1>1, <1>2, <1>3

\* The positions of a separator in the rest of a reference.
LEMMA RestContains ==
  ASSUME NEW X, NEW image \in Seq(X), NEW i \in 1..(Len(image) + 1), NEW word
  PROVE  Contains(SubSeq(image, i, Len(image)), word)
           <=> \E j \in i..Len(image) : image[j] = word
<1> DEFINE rest == SubSeq(image, i, Len(image))
<1>1. /\ Len(rest) = Len(image) - i + 1
      /\ \A j \in 1..(Len(image) - i + 1) : rest[j] = image[i + j - 1]
  <2>1. \A j \in i..Len(image) : image[j] \in X
    OBVIOUS
  <2> QED
    BY <2>1, SubSeqProperties
<1> HIDE DEF rest
<1>2. ASSUME NEW j \in 1..Len(rest), rest[j] = word
      PROVE  \E l \in i..Len(image) : image[l] = word
  <2>1. i + j - 1 \in i..Len(image) /\ image[i + j - 1] = word
    BY <1>1, <1>2
  <2> QED
    BY <2>1
<1>3. ASSUME NEW l \in i..Len(image), image[l] = word
      PROVE  \E j \in 1..Len(rest) : rest[j] = word
  <2>1. l - i + 1 \in 1..Len(rest) /\ rest[l - i + 1] = image[l]
    BY <1>1, <1>3
  <2> QED
    BY <1>3, <2>1
<1>4. Contains(rest, word) <=> \E j \in i..Len(image) : image[j] = word
  BY <1>2, <1>3 DEF Contains
<1> QED
  BY <1>4 DEF rest

LEMMA JoinedAt ==
  ASSUME NEW X, NEW image \in Seq(X), NEW k \in 1..Len(image), image[k] = ":",
         NEW split,
         split = <<SubSeq(image, 1, k - 1), SubSeq(image, k + 1, Len(image))>>
  PROVE  ChartImage(split[1], split[2]) = image
  BY JoinedAgain DEF ChartImage

LEMMA SplitJoined ==
  ASSUME NEW X, ":" \in X, "latest" \in X, NEW image \in Seq(X)
  PROVE  ChartImage(splitImage(image)[1], splitImage(image)[2])
           = IF Tagged(image) THEN image ELSE image \o <<":", "latest">>
<1> DEFINE colons == {i \in DOMAIN image : image[i] = ":"}
           k == Max(colons)
           after == SubSeq(image, k + 1, Len(image))
<1>0. DOMAIN image = 1..Len(image) /\ Len(image) \in Nat
  OBVIOUS
<1>1. image \o <<":">> \o <<"latest">> = image \o <<":", "latest">>
  <2>1. <<":">> \in Seq(X) /\ <<"latest">> \in Seq(X)
    OBVIOUS
  <2>2. (image \o <<":">>) \o <<"latest">> = image \o (<<":">> \o <<"latest">>)
    BY <2>1, ConcatAssociative
  <2>3. <<":">> \o <<"latest">> = <<":", "latest">>
    <3> DEFINE both == <<":">> \o <<"latest">>
    <3>1. /\ both \in Seq(X) /\ Len(both) = 2
          /\ both[1] = ":" /\ both[2] = "latest"
      BY <2>1, ConcatProperties
    <3> HIDE DEF both
    <3>2. <<":", "latest">> \in Seq(X)
      OBVIOUS
    <3>3. both = <<":", "latest">>
      BY <3>1, <3>2, SeqEqual
    <3> QED
      BY <3>3 DEF both
  <2> QED
    BY <2>2, <2>3
<1>2. CASE colons = {}
  <2>1. ~Tagged(image)
    BY <1>2 DEF Tagged
  <2>2. splitImage(image) = <<image, <<"latest">>>>
    BY <1>2 DEF splitImage
  <2> QED
    BY <1>1, <2>1, <2>2 DEF ChartImage
<1>3. ASSUME colons # {}
      PROVE  /\ k \in 1..Len(image) /\ image[k] = ":"
             /\ \A i \in colons : i <= k
  <2>1. colons \in SUBSET (1..Len(image))
    BY <1>0
  <2>2. Max(colons) \in colons /\ \A j \in colons : j <= Max(colons)
    BY <1>0, <1>3, <2>1, LastPosition
  <2> QED
    BY <1>0, <2>2
<1>4. CASE colons # {} /\ Contains(after, "/")
  <2>1. PICK j \in (k + 1)..Len(image) : image[j] = "/"
    <3>1. k + 1 \in 1..(Len(image) + 1) /\ Contains(after, "/")
      BY <1>3, <1>4
    <3> HIDE DEF k, colons
    <3> QED
      BY <3>1, RestContains
  <2>2. ASSUME NEW i \in DOMAIN image, image[i] = ":"
        PROVE  Contains(SubSeq(image, i, Len(image)), "/")
    <3>1. i \in 1..(Len(image) + 1) /\ i <= k
      BY <1>0, <1>3, <1>4, <2>2
    <3>2. j \in i..Len(image)
      BY <1>3, <1>4, <2>1, <3>1
    <3> QED
      BY <2>1, <3>1, <3>2, RestContains
  <2>3. ~Tagged(image)
    BY <2>2 DEF Tagged
  <2>4. splitImage(image) = <<image, <<"latest">>>>
    BY <1>4 DEF splitImage
  <2> QED
    BY <1>1, <2>3, <2>4 DEF ChartImage
<1>5. CASE colons # {} /\ ~Contains(after, "/")
  <2>1. \A j \in k..Len(image) : image[j] # "/"
    <3>0. k + 1 \in 1..(Len(image) + 1) /\ ~Contains(after, "/")
      BY <1>3, <1>5
    <3> HIDE DEF k, colons
    <3>1. \A j \in (k + 1)..Len(image) : image[j] # "/"
      BY <3>0, RestContains
    <3>2. \A j \in k..Len(image) : j = k \/ j \in (k + 1)..Len(image)
      BY <1>3, <1>5
    <3> QED
      BY <1>3, <1>5, <3>1, <3>2
  <2>2. ~Contains(SubSeq(image, k, Len(image)), "/")
    BY <1>3, <1>5, <2>1, RestContains
  <2>3. Tagged(image)
    BY <1>0, <1>3, <1>5, <2>2 DEF Tagged
  <2>4. splitImage(image) = <<SubSeq(image, 1, k - 1), after>>
    BY <1>5 DEF splitImage
  <2>5. k \in 1..Len(image) /\ image[k] = ":"
    BY <1>3, <1>5
  <2> HIDE DEF k, colons
  <2>6. ChartImage(splitImage(image)[1], splitImage(image)[2]) = image
    BY <2>4, <2>5, JoinedAt
  <2> QED
    BY <2>3, <2>6
<1> QED
  BY <1>2, <1>4, <1>5

(***************************************************************************)
(* The rendered workloads: four documents, each under the label by which   *)
(* updateStatus counts it.                                                 *)
(***************************************************************************)
Workload(name, kind, label, image) ==
  [name |-> name, kind |-> kind, label |-> label,
   image |-> ChartImage(splitImage(image)[1], splitImage(image)[2])]

RenderedObjects(images) ==
  {Workload("apiserver", "Deployment", "apiserver", images.apiserver),
   Workload("processor", "StatefulSet", "processor", images.processor),
   Workload("gc", "Deployment", "gc", images.gc),
   Workload("async", "Deployment", "async-processor", images.async)}

LEMMA Relabelled ==
  ASSUME NEW d, NEW name, NEW kind, NEW label, NEW image, NEW new,
         d = [name |-> name, kind |-> kind, label |-> label, image |-> image]
  PROVE  [d EXCEPT !.label = new]
           = [name |-> name, kind |-> kind, label |-> new, image |-> image]
  OBVIOUS

LEMMA RenderedSet ==
  ASSUME NEW images
  PROVE  RenderBatchChart(images) \cup RenderAsyncChart(images)
           = RenderedObjects(images)
<1> DEFINE a == Document("apiserver", "Deployment", "apiserver",
                         splitImage(images.apiserver))
           p == Document("processor", "StatefulSet", "processor",
                         splitImage(images.processor))
           g == Document("gc", "Deployment", "gc", splitImage(images.gc))
           d == Document("async", "Deployment", "", splitImage(images.async))
<1>1. RenderBatchChart(images) =
        {[e EXCEPT !.label = e.label] : e \in {a, p, g}}
  <2>1. Notes.kind = "" /\ Blank.kind = ""
    BY DEF Notes, Blank, Document
  <2>2. /\ a.kind # "" /\ a.name # "NOTES.txt"
        /\ p.kind # "" /\ p.name # "NOTES.txt"
        /\ g.kind # "" /\ g.name # "NOTES.txt"
    BY DEF Document
  <2> HIDE DEF a, p, g
  <2>3. BatchChart(images) = {Notes, Blank, a, p, g}
    BY DEF BatchChart, a, p, g
  <2>4. {e \in BatchChart(images) : e.kind # "" /\ e.name # "NOTES.txt"} = {a, p, g}
    BY <2>1, <2>2, <2>3
  <2> QED
    BY <2>4 DEF RenderBatchChart, renderChart
<1>2. RenderAsyncChart(images) = {[d EXCEPT !.label = "async-processor"]}
  <2>1. Notes.kind = "" /\ Blank.kind = ""
    BY DEF Notes, Blank, Document
  <2>2. d.kind # "" /\ d.name # "NOTES.txt"
    BY DEF Document
  <2> HIDE DEF d
  <2>3. AsyncChart(images) = {Notes, Blank, d}
    BY DEF AsyncChart, d
  <2>4. {e \in AsyncChart(images) : e.kind # "" /\ e.name # "NOTES.txt"} = {d}
    BY <2>1, <2>2, <2>3
  <2> QED
    BY <2>4 DEF RenderAsyncChart, renderChart
<1>3. /\ [a EXCEPT !.label = a.label]
           = Workload("apiserver", "Deployment", "apiserver", images.apiserver)
      /\ [p EXCEPT !.label = p.label]
           = Workload("processor", "StatefulSet", "processor", images.processor)
      /\ [g EXCEPT !.label = g.label]
           = Workload("gc", "Deployment", "gc", images.gc)
      /\ [d EXCEPT !.label = "async-processor"]
           = Workload("async", "Deployment", "async-processor", images.async)
  <2>1. /\ a.label = "apiserver" /\ p.label = "processor" /\ g.label = "gc"
    BY DEF Document
  <2>2. [a EXCEPT !.label = a.label]
           = Workload("apiserver", "Deployment", "apiserver", images.apiserver)
    BY <2>1, Relabelled DEF Document, Workload
  <2>3. [p EXCEPT !.label = p.label]
           = Workload("processor", "StatefulSet", "processor", images.processor)
    BY <2>1, Relabelled DEF Document, Workload
  <2>4. [g EXCEPT !.label = g.label]
           = Workload("gc", "Deployment", "gc", images.gc)
    BY <2>1, Relabelled DEF Document, Workload
  <2>5. [d EXCEPT !.label = "async-processor"]
           = Workload("async", "Deployment", "async-processor", images.async)
    <3> DEFINE run == ChartImage(splitImage(images.async)[1],
                                 splitImage(images.async)[2])
    <3>1. PICK unlabelled :
            d = [name |-> "async", kind |-> "Deployment", label |-> unlabelled,
                 image |-> run]
      BY DEF Document
    <3> HIDE DEF d
    <3>2. Workload("async", "Deployment", "async-processor", images.async)
            = [name |-> "async", kind |-> "Deployment",
               label |-> "async-processor", image |-> run]
      BY DEF Workload
    <3> HIDE DEF run
    <3> QED
      BY <3>1, <3>2, Relabelled
  <2> QED
    BY <2>2, <2>3, <2>4, <2>5
<1> HIDE DEF a, p, g, d
<1> QED
  BY <1>1, <1>2, <1>3 DEF RenderedObjects

LEMMA OneWorkloadEach ==
  ASSUME NEW images, NEW c \in {"apiserver", "processor", "gc", "async"}
  PROVE  \E name, kind, label :
           {o \in RenderedObjects(images) : setComponentStatus(o.label) = c}
             = {Workload(name, kind, label, images[c])}
<1> DEFINE a == Workload("apiserver", "Deployment", "apiserver", images.apiserver)
           p == Workload("processor", "StatefulSet", "processor", images.processor)
           g == Workload("gc", "Deployment", "gc", images.gc)
           d == Workload("async", "Deployment", "async-processor", images.async)
<1>1. /\ a.label = "apiserver" /\ p.label = "processor" /\ g.label = "gc"
      /\ d.label = "async-processor"
  BY DEF Workload
<1>2. RenderedObjects(images) = {a, p, g, d}
  BY DEF RenderedObjects
<1> HIDE DEF a, p, g, d
<1>3. /\ setComponentStatus(a.label) = "apiserver"
      /\ setComponentStatus(p.label) = "processor"
      /\ setComponentStatus(g.label) = "gc"
      /\ setComponentStatus(d.label) = "async"
  BY <1>1 DEF setComponentStatus
<1> DEFINE own == {o \in RenderedObjects(images) : setComponentStatus(o.label) = c}
<1>4. CASE c = "apiserver"
  <2>1. own = {a}
    BY <1>2, <1>3, <1>4
  <2> QED
    BY <1>4, <2>1 DEF a
<1>5. CASE c = "processor"
  <2>1. own = {p}
    BY <1>2, <1>3, <1>5
  <2> QED
    BY <1>5, <2>1 DEF p
<1>6. CASE c = "gc"
  <2>1. own = {g}
    BY <1>2, <1>3, <1>6
  <2> QED
    BY <1>6, <2>1 DEF g
<1>7. CASE c = "async"
  <2>1. own = {d}
    BY <1>2, <1>3, <1>7
  <2> QED
    BY <1>7, <2>1 DEF d
<1> QED
  BY <1>4, <1>5, <1>6, <1>7

-------------------------------------------------------------------------------
ObjectsInv ==
  /\ start \in Starts
  /\ seen # << >> =>
       objects = RenderBatchChart(start.images) \cup RenderAsyncChart(start.images)

LEMMA ObjectsAlways == Spec => []ObjectsInv
<1>1. Init => ObjectsInv
  BY DEF Init, ObjectsInv
<1>2. ObjectsInv /\ [Next]_vars => ObjectsInv'
  <2> SUFFICES ASSUME ObjectsInv, [Next]_vars PROVE ObjectsInv'
    OBVIOUS
  <2>1. CASE Render
    BY <2>1 DEF Render, ObjectsInv
  <2>2. ASSUME NEW m, Submit(m) PROVE ObjectsInv'
    BY <2>2 DEF Submit, ObjectsInv
  <2>3. ASSUME NEW p, DropSection(p) \/ AddSection(p) PROVE ObjectsInv'
    BY <2>2, <2>3 DEF DropSection, AddSection
  <2>4. ASSUME NEW p, NEW f, SetField(p, f) PROVE ObjectsInv'
    BY <2>2, <2>4 DEF SetField
  <2>5. CASE UNCHANGED vars
    BY <2>5 DEF vars, ObjectsInv
  <2> QED
    BY <2>1, <2>3, <2>4, <2>5 DEF Next
<1> QED
  BY <1>1, <1>2, PTL DEF Spec

(***************************************************************************)
(* Whatever references the platform configures (with a tag, a digest, both *)
(* or neither, behind a registry with a port or not), each component's     *)
(* workload is rendered once, found under its own label and runs exactly   *)
(* the configured image, or its latest tag where none is given.            *)
(***************************************************************************)
THEOREM ImagesArrive == Spec => []WorkloadsIdentified
<1>1. ASSUME ObjectsInv, seen # << >>,
             NEW c \in {"apiserver", "processor", "gc", "async"}
      PROVE  LET own == {o \in objects : setComponentStatus(o.label) = c}
             IN /\ Cardinality(own) = 1
                /\ \A o \in own :
                     o.image = IF Tagged(start.images[c]) THEN start.images[c]
                               ELSE start.images[c] \o <<":", "latest">>
  <2> DEFINE own == {o \in objects : setComponentStatus(o.label) = c}
             image == start.images[c]
  <2>1. objects = RenderedObjects(start.images)
    BY <1>1, RenderedSet DEF ObjectsInv
  <2>2. PICK name, kind, label : own = {Workload(name, kind, label, image)}
    BY <2>1, OneWorkloadEach
  <2>3. Cardinality(own) = 1
    BY <2>2, FS_Singleton
  <2>4. image \in Seq(STRING)
    <3>1. start.images \in [apiserver : Seq(STRING), processor : Seq(STRING),
                            gc : Seq(STRING), async : Seq(STRING)]
      BY <1>1, ChartAssumption DEF ObjectsInv
    <3>2. CASE c = "apiserver"
      BY <3>1, <3>2
    <3>3. CASE c = "processor"
      BY <3>1, <3>3
    <3>4. CASE c = "gc"
      BY <3>1, <3>4
    <3>5. CASE c = "async"
      BY <3>1, <3>5
    <3> QED
      BY <3>2, <3>3, <3>4, <3>5
  <2> HIDE DEF image
  <2>5. image \in Seq(STRING \cup {":", "latest"})
    BY <2>4, WiderSeq
  <2>6. ChartImage(splitImage(image)[1], splitImage(image)[2])
          = IF Tagged(image) THEN image ELSE image \o <<":", "latest">>
    BY <2>5, SplitJoined
  <2>7. Workload(name, kind, label, image).image
          = ChartImage(splitImage(image)[1], splitImage(image)[2])
    BY DEF Workload
  <2> HIDE DEF own
  <2>8. \A o \in own : o.image = IF Tagged(image) THEN image
                                 ELSE image \o <<":", "latest">>
    BY <2>2, <2>6, <2>7
  <2> QED
    BY <2>3, <2>8 DEF own, image
<1>2. ObjectsInv => WorkloadsIdentified
  BY <1>1 DEF WorkloadsIdentified
<1> QED
  BY <1>2, ObjectsAlways, PTL

-------------------------------------------------------------------------------
(***************************************************************************)
(* Setting a field to a writable value, adding empty sections and dropping *)
(* sections keep a manifest well formed.                                   *)
(***************************************************************************)
LEMMA FieldSet ==
  ASSUME NEW m, WellFormed(m), NEW p \in DOMAIN m, NEW f \in DOMAIN m[p],
         NEW v \in Writable(Fields[p][f])
  PROVE  WellFormed([m EXCEPT ![p][f] = v])
<1> DEFINE n == [m EXCEPT ![p][f] = v]
<1>1. /\ DOMAIN n = DOMAIN m
      /\ \A q \in DOMAIN m : DOMAIN n[q] = DOMAIN m[q]
      /\ \A q \in DOMAIN m : \A g \in DOMAIN m[q] :
           n[q][g] = IF q = p /\ g = f THEN v ELSE m[q][g]
  OBVIOUS
<1> HIDE DEF n
<1>2. WellFormed(n)
  BY <1>1 DEF WellFormed
<1> QED
  BY <1>2 DEF n

LEMMA EmptyWritable ==
  ASSUME NEW p \in Sections, NEW f \in DOMAIN Fields[p]
  PROVE  EmptySection(p)[f] \in Writable(Fields[p][f])
<1>1. Fields[p][f] \in Kinds
  BY FieldKinds
<1>2. EmptySection(p)[f] = IF Fields[p][f] = "required" THEN "set" ELSE "absent"
  BY DEF EmptySection
<1> QED
  BY <1>1, <1>2 DEF Kinds, Writable

LEMMA SectionsAdded ==
  ASSUME NEW m, WellFormed(m), NEW added \in SUBSET Sections
  PROVE  WellFormed([q \in added \cup DOMAIN m |->
                       IF q \in added THEN EmptySection(q) ELSE m[q]])
<1>1. \A q \in added : DOMAIN EmptySection(q) = DOMAIN Fields[q]
  BY DEF EmptySection
<1> QED
  BY <1>1, EmptyWritable DEF WellFormed

LEMMA SectionsDropped ==
  ASSUME NEW m, WellFormed(m), NEW kept \in SUBSET DOMAIN m
  PROVE  WellFormed([q \in kept |-> m[q]])
  BY DEF WellFormed

\* What the API server stores, and what the operator has read of it.
StoredInv ==
  /\ start \in Starts
  /\ WellFormed(manifest) /\ Admitted(manifest)
  /\ WellFormed(seen)
  /\ edits \in 0..start.maxEdits

LEMMA SubmitTyped ==
  ASSUME StoredInv, NEW m, WellFormed(m), Submit(m)
  PROVE  StoredInv'
<1>1. /\ manifest' = m /\ Admitted(m) /\ edits' = edits + 1
      /\ edits < start.maxEdits /\ UNCHANGED <<seen, start>>
  BY DEF Submit
<1>2. WellFormed(manifest)' /\ Admitted(manifest)'
  BY <1>1
<1>3. WellFormed(seen)' /\ start' \in Starts
  BY <1>1 DEF StoredInv
<1>4. edits' \in 0..start'.maxEdits
  BY <1>1, ChartAssumption DEF StoredInv
<1> QED
  BY <1>2, <1>3, <1>4 DEF StoredInv

(***************************************************************************)
(* Whatever manifest the API server stores, edits that set a field, add a  *)
(* section or drop one lead to manifests of the API's sections and fields  *)
(* that its validation rules accept.                                       *)
(***************************************************************************)
LEMMA ManifestsStored == Spec => []StoredInv
<1>1. Init => StoredInv
  <2> SUFFICES ASSUME Init PROVE StoredInv
    OBVIOUS
  <2>1. start \in Starts /\ manifest = start.manifest /\ seen = << >> /\ edits = 0
    BY DEF Init
  <2>2. WellFormed(manifest) /\ Admitted(manifest) /\ start.maxEdits \in Nat
    BY <2>1, ChartAssumption
  <2>3. WellFormed(seen)
    BY <2>1 DEF WellFormed
  <2>4. edits \in 0..start.maxEdits
    BY <2>1, <2>2
  <2> QED
    BY <2>1, <2>2, <2>3, <2>4 DEF StoredInv
<1>2. StoredInv /\ [Next]_vars => StoredInv'
  <2> SUFFICES ASSUME StoredInv, [Next]_vars PROVE StoredInv'
    OBVIOUS
  <2>0. WellFormed(manifest)
    BY DEF StoredInv
  <2>1. CASE Render
    <3>1. seen' = manifest /\ UNCHANGED <<manifest, start, edits>>
      BY <2>1 DEF Render
    <3> QED
      BY <3>1 DEF StoredInv
  <2>2. ASSUME NEW p \in DOMAIN manifest, NEW f \in DOMAIN manifest[p],
               SetField(p, f)
        PROVE  StoredInv'
    <3>1. PICK v \in Writable(Fields[p][f]) :
            Submit([manifest EXCEPT ![p][f] = v])
      BY <2>2 DEF SetField
    <3> QED
      BY <2>0, <3>1, FieldSet, SubmitTyped
  <2>3. ASSUME NEW p \in DOMAIN manifest, DropSection(p)
        PROVE  StoredInv'
    <3> DEFINE kept == {q \in DOMAIN manifest : ~IsPrefix(p, q)}
    <3>1. Submit([q \in kept |-> manifest[q]])
      BY <2>3 DEF DropSection
    <3>2. kept \in SUBSET DOMAIN manifest
      OBVIOUS
    <3> HIDE DEF kept
    <3> QED
      BY <2>0, <3>1, <3>2, SectionsDropped, SubmitTyped
  <2>4. ASSUME NEW p \in Sections, AddSection(p)
        PROVE  StoredInv'
    <3> DEFINE added == {q \in Sections \ DOMAIN manifest : IsPrefix(q, p)}
    <3>1. Submit([q \in added \cup DOMAIN manifest |->
                    IF q \in added THEN EmptySection(q) ELSE manifest[q]])
      BY <2>4 DEF AddSection
    <3>2. added \in SUBSET Sections
      OBVIOUS
    <3> HIDE DEF added
    <3> QED
      BY <2>0, <3>1, <3>2, SectionsAdded, SubmitTyped
  <2>5. CASE UNCHANGED vars
    BY <2>5 DEF vars, StoredInv
  <2> QED
    BY <2>1, <2>2, <2>3, <2>4, <2>5 DEF Next
<1> QED
  BY <1>1, <1>2, PTL DEF Spec

-------------------------------------------------------------------------------
(***************************************************************************)
(* Where a chart gets endpoint lists from.  A set of chart values is quiet *)
(* if no value in it is one; all that the conversions pass on is quiet but *)
(* for the three lists themselves.                                         *)
(***************************************************************************)
IsPath(p) == \E X : p \in Seq(X)

Pathed(values) == \A v \in values : IsPath(v[1])
Quiet(values)  == \A v \in values :
                    IsPath(v[1]) /\ Last(v[1]) # "extraEndpoints"

LEMMA LiteralPath ==
  /\ \A a : IsPath(<<a>>)
  /\ \A a, b : IsPath(<<a, b>>)
  /\ \A a, b, c : IsPath(<<a, b, c>>)
<1>1. ASSUME NEW a PROVE IsPath(<<a>>)
  <2>1. <<a>> \in Seq({a})
    OBVIOUS
  <2> QED
    BY <2>1 DEF IsPath
<1>2. ASSUME NEW a, NEW b PROVE IsPath(<<a, b>>)
  <2>1. <<a, b>> \in Seq({a, b})
    OBVIOUS
  <2> QED
    BY <2>1 DEF IsPath
<1>3. ASSUME NEW a, NEW b, NEW c PROVE IsPath(<<a, b, c>>)
  <2>1. <<a, b, c>> \in Seq({a, b, c})
    OBVIOUS
  <2> QED
    BY <2>1 DEF IsPath
<1> QED
  BY <1>1, <1>2, <1>3

LEMMA LongerPath ==
  ASSUME NEW p, IsPath(p), NEW f
  PROVE  /\ IsPath(Append(p, f)) /\ Len(Append(p, f)) = Len(p) + 1
         /\ Last(Append(p, f)) = f /\ Len(p) \in Nat
<1>1. PICK X : p \in Seq(X)
  BY DEF IsPath
<1> DEFINE Y == X \cup {f}
<1>2. p \in Seq(Y) /\ f \in Y
  BY <1>1, WiderSeq
<1> HIDE DEF Y
<1>3. /\ Append(p, f) \in Seq(Y)
      /\ Len(Append(p, f)) = Len(p) + 1
      /\ Append(p, f)[Len(p) + 1] = f
      /\ Len(p) \in Nat
  BY <1>2
<1> QED
  BY <1>3 DEF IsPath, Last

LEMMA JoinedPath ==
  ASSUME NEW p, IsPath(p), NEW q, IsPath(q)
  PROVE  IsPath(p \o q)
<1>1. PICK X : p \in Seq(X)
  BY DEF IsPath
<1>2. PICK Y : q \in Seq(Y)
  BY DEF IsPath
<1>3. p \in Seq(X \cup Y) /\ q \in Seq(Y \cup X) /\ X \cup Y = Y \cup X
  BY <1>1, <1>2, WiderSeq
<1>4. p \o q \in Seq(X \cup Y)
  BY <1>3
<1> QED
  BY <1>4 DEF IsPath

LEMMA FrontPath ==
  ASSUME NEW p, IsPath(p)
  PROVE  IsPath(Front(p))
<1>1. PICK X : p \in Seq(X)
  BY DEF IsPath
<1>2. Front(p) \in Seq(X)
  BY <1>1 DEF Front
<1> QED
  BY <1>2 DEF IsPath

LEMMA ValuesPathed ==
  ASSUME NEW s, NEW at, NEW fs, NEW to, IsPath(to), NEW unless
  PROVE  /\ Pathed(Values(s, at, fs, to, unless))
         /\ "extraEndpoints" \notin fs => Quiet(Values(s, at, fs, to, unless))
<1>1. ASSUME NEW v \in Values(s, at, fs, to, unless)
      PROVE  IsPath(v[1]) /\ Last(v[1]) \in fs
  <2>1. PICK f \in fs : v = <<Append(to, f), s[at][f]>>
    BY <1>1 DEF Values
  <2> QED
    BY <2>1, LongerPath
<1> QED
  BY <1>1 DEF Pathed, Quiet

LEMMA SetPathed ==
  ASSUME NEW s, NEW at, NEW fs, NEW to, IsPath(to)
  PROVE  /\ Pathed(setIfNotEmpty(s, at, fs, to))
         /\ Pathed(SetIfNotNil(s, at, fs, to))
         /\ Pathed(SetAlways(s, at, fs, to))
  BY ValuesPathed DEF setIfNotEmpty, SetIfNotNil, SetAlways

LEMMA SetQuiet ==
  ASSUME NEW s, NEW at, NEW fs, NEW to, IsPath(to), "extraEndpoints" \notin fs
  PROVE  /\ Quiet(setIfNotEmpty(s, at, fs, to))
         /\ Quiet(SetIfNotNil(s, at, fs, to))
         /\ Quiet(SetAlways(s, at, fs, to))
  BY ValuesPathed DEF setIfNotEmpty, SetIfNotNil, SetAlways

LEMMA RenamedQuiet ==
  ASSUME NEW values, Pathed(values), NEW key, key # "extraEndpoints"
  PROVE  Quiet(FieldAs(values, key))
<1> SUFFICES ASSUME NEW w \in FieldAs(values, key)
             PROVE  IsPath(w[1]) /\ Last(w[1]) # "extraEndpoints"
  BY DEF Quiet
<1>1. PICK v \in values : w = <<Append(Front(v[1]), key), v[2]>>
  BY DEF FieldAs
<1>2. IsPath(Front(v[1]))
  BY <1>1, FrontPath DEF Pathed
<1> QED
  BY <1>1, <1>2, LongerPath

LEMMA QuietUnion ==
  ASSUME NEW A, NEW B, Quiet(A), Quiet(B)
  PROVE  Quiet(A \cup B)
  BY DEF Quiet

LEMMA QuietEmpty == Quiet({})
  BY DEF Quiet

LEMMA OneQuiet ==
  ASSUME NEW to, IsPath(to), NEW f, f # "extraEndpoints", NEW value
  PROVE  Quiet({<<Append(to, f), value>>})
<1>1. IsPath(Append(to, f)) /\ Last(Append(to, f)) = f
  BY LongerPath
<1>2. ASSUME NEW p, IsPath(p), Last(p) = f PROVE Quiet({<<p, value>>})
  BY <1>2 DEF Quiet
<1> QED
  BY <1>1, <1>2

LEMMA LiteralsQuiet ==
  \A a, b, x : b # "extraEndpoints" => Quiet({<<<<a, b>>, x>>})
<1> SUFFICES ASSUME NEW a, NEW b, NEW x, b # "extraEndpoints"
             PROVE  Quiet({<<<<a, b>>, x>>})
  OBVIOUS
<1>1. <<a, b>> = Append(<<a>>, b)
  OBVIOUS
<1> QED
  BY <1>1, LiteralPath, OneQuiet

LEMMA JSONQuiet ==
  ASSUME NEW values, Quiet(values)
  PROVE  Quiet(toJSONAwareMap(values))
  BY DEF toJSONAwareMap, Quiet

LEMMA ResourcesQuiet ==
  ASSUME NEW s, NEW at, NEW to, IsPath(to)
  PROVE  Quiet(resourceRequirementsToMap(s, at, to))
<1>1. \A r : IsPath(to \o <<"resources", r>>)
  BY JoinedPath, LiteralPath
<1>2. \A r : Quiet(setIfNotEmpty(s, at \o <<"resources", r>>, {"cpu", "memory"},
                                 to \o <<"resources", r>>))
  BY <1>1, SetQuiet
<1> QED
  BY <1>2 DEF resourceRequirementsToMap, Quiet

LEMMA WorkloadQuiet ==
  ASSUME NEW s, NEW at, NEW to, IsPath(to)
  PROVE  Quiet(WorkloadValues(s, at, to))
<1>1. IsPath(to \o <<"image">>)
  BY JoinedPath, LiteralPath
<1>2. Quiet(FieldAs(SetIfNotNil(s, at, {"replicas"}, to), "replicaCount"))
  BY SetPathed, RenamedQuiet
<1>3. Quiet(FieldAs(setIfNotEmpty(s, at, {"imagePullPolicy"}, to \o <<"image">>),
                    "pullPolicy"))
  BY <1>1, SetPathed, RenamedQuiet
<1> QED
  BY <1>2, <1>3, ResourcesQuiet, QuietUnion DEF WorkloadValues

LEMMA ScrapedQuiet ==
  ASSUME NEW s, NEW a, NEW b, b # "extraEndpoints"
  PROVE  Quiet(Scraped(s, <<a, b>>))
  BY LiteralsQuiet, QuietEmpty DEF Scraped

LEMMA FileClientQuiet ==
  ASSUME NEW s
  PROVE  Quiet(FileClient(s))
<1> DEFINE to == <<"global", "fileClient">>
           s3 == <<"fileStorage", "s3">>
           fs == <<"fileStorage", "fs">>
           retry == <<"fileStorage", "retry">>
<1>1. IsPath(to)
  BY LiteralPath
<1>2. \A f : IsPath(Append(to, f))
  BY <1>1, LongerPath
<1>3. FileClient(s) =
        {<<Append(to, "type"), Last(p)>> : p \in {s3, fs} \cap DOMAIN s}
          \cup setIfNotEmpty(s, s3, {"region", "bucket", "endpoint", "accessKeyId",
                                     "prefix"}, Append(to, "s3"))
          \cup SetAlways(s, s3, {"usePathStyle"}, Append(to, "s3"))
          \cup SetIfNotNil(s, s3, {"autoCreateBucket"}, Append(to, "s3"))
          \cup setIfNotEmpty(s, fs, {"basePath"}, Append(to, "fs"))
          \cup FieldAs(setIfNotEmpty(s, fs, {"claimName"}, Append(to, "fs")),
                       "pvcName")
          \cup SetIfNotNil(s, retry, {"maxRetries"}, Append(to, "retry"))
          \cup setIfNotEmpty(s, retry, {"initialBackoff", "maxBackoff"},
                             Append(to, "retry"))
  BY DEF FileClient
<1>4. \A p : Quiet({<<Append(to, "type"), Last(p)>>})
  BY <1>1, OneQuiet
<1> HIDE DEF to, s3, fs, retry
<1>5. Quiet({<<Append(to, "type"), Last(p)>> : p \in {s3, fs} \cap DOMAIN s})
  <2> DEFINE types == {<<Append(to, "type"), Last(p)>> :
                         p \in {s3, fs} \cap DOMAIN s}
  <2>1. ASSUME NEW v \in types
        PROVE  \E p : v \in {<<Append(to, "type"), Last(p)>>}
    BY <2>1
  <2> HIDE DEF types
  <2>2. Quiet(types)
    BY <1>4, <2>1 DEF Quiet
  <2> QED
    BY <2>2 DEF types
<1>6. /\ Quiet(setIfNotEmpty(s, s3, {"region", "bucket", "endpoint", "accessKeyId",
                                     "prefix"}, Append(to, "s3")))
      /\ Quiet(SetAlways(s, s3, {"usePathStyle"}, Append(to, "s3")))
      /\ Quiet(SetIfNotNil(s, s3, {"autoCreateBucket"}, Append(to, "s3")))
      /\ Quiet(setIfNotEmpty(s, fs, {"basePath"}, Append(to, "fs")))
      /\ Quiet(SetIfNotNil(s, retry, {"maxRetries"}, Append(to, "retry")))
      /\ Quiet(setIfNotEmpty(s, retry, {"initialBackoff", "maxBackoff"},
                             Append(to, "retry")))
  BY <1>2, SetQuiet
<1>7. Quiet(FieldAs(setIfNotEmpty(s, fs, {"claimName"}, Append(to, "fs")),
                    "pvcName"))
  BY <1>2, SetPathed, RenamedQuiet
<1> QED
  BY <1>3, <1>5, <1>6, <1>7 DEF Quiet

\* Quiet but for the values in lists, which are all passed on.
QuietBut(values, lists) == lists \subseteq values /\ Quiet(values \ lists)

GatewayList(s) == SetIfNotNil(s, << >>, {"extraEndpoints"}, <<"global">>)

APIServerList(s) ==
  SetIfNotNil(s, Config(APIServer) \o <<"batchAPI">>, {"extraEndpoints"},
              Append(<<"apiserver", "config">>, "batchAPI"))

ProcessorList(s) ==
  SetIfNotNil(s, Config(Processor), {"extraEndpoints"}, <<"processor", "config">>)

LEMMA GlobalList ==
  ASSUME NEW s, NEW secretName
  PROVE  QuietBut(GlobalValues(s, secretName), GatewayList(s))
<1>1. IsPath(<<"global">>) /\ IsPath(<<"global", "otel">>)
  BY LiteralPath
<1>2. Quiet({<<<<"global", "secretName">>, secretName>>})
  BY LiteralsQuiet
<1>3. Quiet(FieldAs(setIfNotEmpty(s, Config(APIServer) \o <<"fileAPI">>,
                                  {"maxSizeBytes"}, <<"global">>),
                    "maxInputFileSizeBytes"))
  BY <1>1, SetPathed, RenamedQuiet
<1>4. /\ Quiet(setIfNotEmpty(s, <<"otel">>, {"endpoint", "sampler", "samplerArg"},
                             <<"global", "otel">>))
      /\ Quiet(SetAlways(s, <<"otel">>, {"insecure", "postgresqlTracing"},
                         <<"global", "otel">>))
      /\ Quiet(setIfNotEmpty(s, << >>, {"imagePullSecrets"}, <<"global">>))
  BY <1>1, SetQuiet
<1> QED
  BY <1>2, <1>3, <1>4, FileClientQuiet
     DEF GlobalValues, GatewayList, Quiet, QuietBut

LEMMA APIServerConfigList ==
  ASSUME NEW s
  PROVE  QuietBut(apiServerConfigToMap(s), APIServerList(s))
<1> DEFINE at == Config(APIServer)
           to == <<"apiserver", "config">>
<1>1. IsPath(to) /\ IsPath(Append(to, "batchAPI")) /\ IsPath(Append(to, "fileAPI"))
  BY LiteralPath, LongerPath
<1>2. apiServerConfigToMap(s) =
        setIfNotEmpty(s, at, {"port", "observabilityPort", "readTimeoutSeconds",
                              "writeTimeoutSeconds", "idleTimeoutSeconds",
                              "inputHeaders", "enablePprof"}, to)
          \cup (setIfNotEmpty(s, at \o <<"batchAPI">>,
                              {"eventTTLSeconds", "passThroughHeaders"},
                              Append(to, "batchAPI"))
                  \cup APIServerList(s))
          \cup setIfNotEmpty(s, at \o <<"fileAPI">>,
                             {"defaultExpirationSeconds", "maxLineCount"},
                             Append(to, "fileAPI"))
  BY DEF apiServerConfigToMap, BatchAPIValues, APIServerList
<1> HIDE DEF at, to
<1>3. /\ Quiet(setIfNotEmpty(s, at, {"port", "observabilityPort",
                                     "readTimeoutSeconds", "writeTimeoutSeconds",
                                     "idleTimeoutSeconds", "inputHeaders",
                                     "enablePprof"}, to))
      /\ Quiet(setIfNotEmpty(s, at \o <<"batchAPI">>,
                             {"eventTTLSeconds", "passThroughHeaders"},
                             Append(to, "batchAPI")))
      /\ Quiet(setIfNotEmpty(s, at \o <<"fileAPI">>,
                             {"defaultExpirationSeconds", "maxLineCount"},
                             Append(to, "fileAPI")))
  BY <1>1, SetQuiet
<1> QED
  BY <1>2, <1>3 DEF Quiet, QuietBut

LEMMA TLSQuiet ==
  ASSUME NEW s, NEW profile
  PROVE  Quiet(TLSValues(s, profile))
<1> DEFINE to == <<"apiserver", "tls">>
           cm == <<"tls", "certManager">>
           keys == IF profile = "" THEN {}
                   ELSE {"minVersion", "cipherSuites", "nextProtos"}
           fromProfile == {<<Append(to, k), profile>> : k \in keys}
           managed == {<<to \o <<"certManager", "enabled">>, "set">> :
                         p \in {cm} \cap DOMAIN s}
<1>1. IsPath(to) /\ IsPath(Append(to, "certManager"))
  BY LiteralPath, LongerPath
<1>2. Quiet(fromProfile)
  <2>1. \A k \in keys : k # "extraEndpoints"
    OBVIOUS
  <2> HIDE DEF keys, to
  <2>2. ASSUME NEW k \in keys PROVE Quiet({<<Append(to, k), profile>>})
    BY <1>1, <2>1, OneQuiet
  <2>3. ASSUME NEW v \in fromProfile
        PROVE  \E k \in keys : v \in {<<Append(to, k), profile>>}
    BY <2>3
  <2> HIDE DEF fromProfile
  <2> QED
    BY <2>2, <2>3 DEF Quiet
<1>3. Quiet(managed)
  <2>1. to \o <<"certManager", "enabled">> =
          Append(Append(to, "certManager"), "enabled")
    OBVIOUS
  <2>2. Quiet({<<Append(Append(to, "certManager"), "enabled"), "set">>})
    BY <1>1, OneQuiet
  <2>3. managed \subseteq {<<to \o <<"certManager", "enabled">>, "set">>}
    OBVIOUS
  <2> HIDE DEF managed, to
  <2> QED
    BY <2>1, <2>2, <2>3 DEF Quiet
<1>4. TLSValues(s, profile) =
        fromProfile \cup IF ~Enabled(s, <<"tls">>) THEN {}
          ELSE setIfNotEmpty(s, <<"tls">>, {"enabled", "secretName"}, to)
                 \cup managed
                 \cup setIfNotEmpty(s, cm, {"issuerName", "issuerKind",
                                            "dnsNames"},
                                    Append(to, "certManager"))
  BY DEF TLSValues
<1> HIDE DEF to, cm, managed, fromProfile
<1>5. /\ Quiet(setIfNotEmpty(s, <<"tls">>, {"enabled", "secretName"}, to))
      /\ Quiet(setIfNotEmpty(s, cm, {"issuerName", "issuerKind", "dnsNames"},
                             Append(to, "certManager")))
  BY <1>1, SetQuiet
<1> QED
  BY <1>2, <1>3, <1>4, <1>5 DEF Quiet

LEMMA HTTPRouteQuiet ==
  ASSUME NEW s
  PROVE  Quiet(HTTPRouteValues(s))
<1> DEFINE to == <<"apiserver", "httpRoute">>
<1>1. IsPath(to) /\ IsPath(Append(to, "parentRefs"))
  BY LiteralPath, LongerPath
<1>2. /\ Quiet(setIfNotEmpty(s, <<"httpRoute">>, {"enabled", "annotations"}, to))
      /\ Quiet(SetAlways(s, <<"httpRoute", "parentRefs">>, {"name"},
                         Append(to, "parentRefs")))
      /\ Quiet(setIfNotEmpty(s, <<"httpRoute", "parentRefs">>,
                             {"namespace", "sectionName"},
                             Append(to, "parentRefs")))
  BY <1>1, SetQuiet
<1> QED
  BY <1>2 DEF HTTPRouteValues, Quiet

LEMMA APIServerValuesList ==
  ASSUME NEW s, NEW profile
  PROVE  QuietBut(APIServerValues(s, profile), APIServerList(s))
<1>1. IsPath(<<"apiserver">>) /\ IsPath(<<"apiserver", "logging">>)
  BY LiteralPath
<1>2. Quiet(WorkloadValues(s, APIServer, <<"apiserver">>))
  BY <1>1, WorkloadQuiet
<1>3. Quiet(setIfNotEmpty(s, Config(APIServer) \o <<"logging">>, {"verbosity"},
                          <<"apiserver", "logging">>))
  BY <1>1, SetQuiet
<1>4. Quiet(Scraped(s, <<"apiserver", "serviceMonitor">>))
  BY ScrapedQuiet
<1> QED
  BY <1>2, <1>3, <1>4, APIServerConfigList, TLSQuiet, HTTPRouteQuiet
     DEF APIServerValues, Quiet, QuietBut

LEMMA ProcessorConfigList ==
  ASSUME NEW s
  PROVE  QuietBut(mergeProcessorConfig(s), ProcessorList(s))
<1> DEFINE at == Config(Processor)
           to == <<"processor", "config">>
           header == SetIfNotNil(s, at, {"sendFairnessHeader"}, to)
           own == setIfNotEmpty(s, at, {"numWorkers", "inputFileDiskBudgetPercent",
                                        "defaultOutputExpirationSeconds",
                                        "progressUpdateInterval",
                                        "routeKeyMethod", "enablePprof"}, to)
           limits == setIfNotEmpty(s, at \o <<"concurrency">>,
                                   {"global", "perEndpoint", "recovery"},
                                   Append(to, "concurrency"))
           aimd == AIMDValues(s, at \o <<"concurrency", "aimd">>,
                              to \o <<"concurrency", "aimd">>)
           leases == setIfNotEmpty(s, at \o <<"resumable">>,
                                   {"leaseDuration", "finalizeConcurrency",
                                    "finalizeTimeout"}, Append(to, "resumable"))
<1>1. /\ IsPath(to) /\ \A f : IsPath(Append(to, f))
      /\ IsPath(to \o <<"concurrency", "aimd">>)
  BY LiteralPath, LongerPath, JoinedPath
<1>2. SetIfNotNil(s, at, {"extraEndpoints", "sendFairnessHeader"}, to)
        = ProcessorList(s) \cup header
  BY DEF SetIfNotNil, Values, ProcessorList
<1>3. mergeProcessorConfig(s) =
        own \cup SetIfNotNil(s, at, {"extraEndpoints", "sendFairnessHeader"}, to)
          \cup limits \cup aimd \cup leases
  BY DEF mergeProcessorConfig
<1> HIDE DEF at, to
<1>4. Quiet(header) /\ Quiet(own) /\ Quiet(limits) /\ Quiet(leases)
  BY <1>1, SetQuiet
<1>5. Quiet(aimd)
  <2> DEFINE under == to \o <<"concurrency", "aimd">>
  <2>1. IsPath(under)
    BY <1>1
  <2> HIDE DEF under
  <2>2. \A p : Quiet(AIMDValues(s, p, under))
    BY <2>1, SetQuiet, QuietUnion DEF AIMDValues
  <2> QED
    BY <2>2 DEF under
<1> HIDE DEF own, header, limits, aimd, leases
<1> QED
  BY <1>2, <1>3, <1>4, <1>5 DEF Quiet, QuietBut

LEMMA ProcessorValuesList ==
  ASSUME NEW s
  PROVE  QuietBut(ProcessorValues(s), ProcessorList(s))
<1> DEFINE to  == <<"processor", "config", "asyncDispatch">>
           sql == Async \o <<"sql">>
           transport == {<<Append(to, "transport"), IF sql \in DOMAIN s THEN "sql"
                                                    ELSE "redis-sortedset">>}
           poll   == SetAlways(s, Async, {"resultPollTimeout"}, to)
           pool   == SetIfNotNil(s, sql, {"maxConnections"}, to)
           models == setIfNotEmpty(s, <<"processor", "modelGateways">>,
                                   {"inferenceObjective"}, Append(to, "models"))
           level  == setIfNotEmpty(s, Config(Processor) \o <<"logging">>,
                                   {"verbosity"}, <<"processor", "logging">>)
<1>1. /\ IsPath(to) /\ IsPath(Append(to, "models"))
      /\ IsPath(<<"processor">>) /\ IsPath(<<"processor", "logging">>)
  BY LiteralPath, LongerPath
<1>2. ProcessorValues(s) =
        WorkloadValues(s, Processor, <<"processor">>) \cup poll \cup transport
          \cup pool \cup models \cup mergeProcessorConfig(s) \cup level
          \cup Scraped(s, <<"processor", "podMonitor">>)
  BY DEF ProcessorValues
<1> HIDE DEF to, sql
<1>3. Quiet(poll) /\ Quiet(pool) /\ Quiet(models) /\ Quiet(level)
  BY <1>1, SetQuiet
<1>4. Quiet(transport)
  BY <1>1, OneQuiet
<1>5. /\ Quiet(WorkloadValues(s, Processor, <<"processor">>))
      /\ Quiet(Scraped(s, <<"processor", "podMonitor">>))
  BY <1>1, WorkloadQuiet, ScrapedQuiet
<1> HIDE DEF transport, poll, pool, models, level
<1> QED
  BY <1>2, <1>3, <1>4, <1>5, ProcessorConfigList DEF Quiet, QuietBut

LEMMA GCQuiet ==
  ASSUME NEW s
  PROVE  Quiet(GCValues(s))
<1> DEFINE to == <<"gc", "config">>
           every == setIfNotEmpty(s, GC, {"interval"}, Append(to, "collector"))
           dry   == setIfNotEmpty(s, Config(GC), {"dryRun"}, to)
           most  == setIfNotEmpty(s, Config(GC), {"maxConcurrency"},
                                  Append(to, "collector"))
           level == setIfNotEmpty(s, Config(GC) \o <<"logging">>, {"verbosity"},
                                  <<"gc", "logging">>)
           reconciler == GCReconcilerValues(s, Config(GC) \o <<"reconciler">>, to)
<1>1. /\ IsPath(to) /\ \A f : IsPath(Append(to, f))
      /\ IsPath(<<"gc">>) /\ IsPath(<<"gc", "logging">>)
  BY LiteralPath, LongerPath
<1>2. GCValues(s) =
        WorkloadValues(s, GC, <<"gc">>) \cup every \cup dry \cup most \cup level
          \cup reconciler \cup Scraped(s, <<"gc", "podMonitor">>)
  BY DEF GCValues
<1> HIDE DEF to
<1>3. Quiet(every) /\ Quiet(dry) /\ Quiet(most) /\ Quiet(level)
  BY <1>1, SetQuiet
<1>4. \A at : Quiet(GCReconcilerValues(s, at, to))
  BY <1>1, SetQuiet, QuietUnion DEF GCReconcilerValues
<1>5. Quiet(WorkloadValues(s, GC, <<"gc">>)) /\ Quiet(Scraped(s, <<"gc", "podMonitor">>))
  BY <1>1, WorkloadQuiet, ScrapedQuiet
<1>6. Quiet(reconciler)
  BY <1>4
<1> HIDE DEF every, dry, most, level, reconciler
<1> QED
  BY <1>2, <1>3, <1>5, <1>6 DEF Quiet

LEMMA BatchLists ==
  ASSUME NEW s, NEW secretName, NEW profile
  PROVE  QuietBut(specToBatchHelmValues(s, secretName, profile),
                  GatewayList(s) \cup APIServerList(s) \cup ProcessorList(s))
<1>1. IsPath(<<"grafana", "dashboards">>) /\ IsPath(<<"prometheusRule">>)
  BY LiteralPath
<1>2. /\ Quiet(SetAlways(s, <<"grafana">>, {"enabled"}, <<"grafana", "dashboards">>))
      /\ Quiet(SetAlways(s, <<"prometheusRule">>, {"enabled"}, <<"prometheusRule">>))
      /\ Quiet(setIfNotEmpty(s, <<"prometheusRule">>, {"labels"},
                             <<"prometheusRule">>))
  BY <1>1, SetQuiet
<1> QED
  BY <1>2, GlobalList, APIServerValuesList, ProcessorValuesList, GCQuiet
     DEF specToBatchHelmValues, Quiet, QuietBut

LEMMA QueuesQuiet ==
  ASSUME NEW s, NEW transport, NEW to, IsPath(to)
  PROVE  Quiet(asyncQueueValues(s, transport, to))
<1> DEFINE queue   == Append(transport, "queuesConfig")
           gateway == Async \o <<"inferenceGateway">>
           derived == IF Last(transport) = "redis"
                      THEN {"requestPathURL", "gateType", "gateParams"} ELSE {}
           own     == setIfNotEmpty(s, queue, {"igwBaseURL"}, to)
           fields  == {"name", "workerPoolID", "requestPathURL", "gateType",
                       "gateParams"}
           Of(f)   == FieldAs(IF queue \in DOMAIN s
                              THEN setIfNotEmpty(s, queue, {f}, to)
                              ELSE setIfNotEmpty(s, transport, {f} \cap derived, to),
                              QueueKey(f))
           url     == IF own # {} THEN FieldAs(own, "igw_base_url")
                      ELSE {<<Append(to, "igw_base_url"), "inherited">> :
                              v \in setIfNotEmpty(s, gateway, {"url"}, to)}
<1>1. \A v \in asyncQueueValues(s, transport, to) :
        v \in url \/ \E f \in fields : v \in Of(f)
  <2>1. asyncQueueValues(s, transport, to) = (UNION {Of(f) : f \in fields}) \cup url
    BY DEF asyncQueueValues
  <2> HIDE DEF Of, url, fields
  <2> QED
    BY <2>1
<1>2. ASSUME NEW f \in fields PROVE Quiet(Of(f))
  <2>1. QueueKey(f) # "extraEndpoints"
    BY DEF QueueKey
  <2>2. /\ Pathed(setIfNotEmpty(s, queue, {f}, to))
        /\ Pathed(setIfNotEmpty(s, transport, {f} \cap derived, to))
    BY SetPathed
  <2> HIDE DEF queue, derived
  <2> QED
    BY <2>1, <2>2, RenamedQuiet
<1>3. Quiet(url)
  <2>1. Quiet(FieldAs(own, "igw_base_url"))
    BY SetPathed, RenamedQuiet
  <2>2. Quiet({<<Append(to, "igw_base_url"), "inherited">>})
    BY OneQuiet
  <2>3. url \subseteq FieldAs(own, "igw_base_url")
                      \cup {<<Append(to, "igw_base_url"), "inherited">>}
    OBVIOUS
  <2> HIDE DEF own, url
  <2> QED
    BY <2>1, <2>2, <2>3 DEF Quiet
<1> HIDE DEF Of, url, fields
<1> QED
  BY <1>1, <1>2, <1>3 DEF Quiet

LEMMA TransportQuiet ==
  ASSUME NEW s, NEW secretName
  PROVE  Quiet(TransportValues(s, secretName))
<1> DEFINE transport == IF Async \o <<"redis">> \in DOMAIN s
                        THEN Async \o <<"redis">> ELSE Async \o <<"sql">>
           to        == <<"ap", "transportConfig">>
           numbers   == DOMAIN s[transport] \cap
                          {"pollIntervalMs", "batchSize", "resultBatchSize",
                           "leaseTTLSeconds", "handoffTimeoutSeconds"}
           Of(f)     == FieldAs(SetIfNotNil(s, transport, {f}, to), TransportKey(f))
           traced    == setIfNotEmpty(s, <<"otel">>,
                                      IF Last(transport) = "redis"
                                      THEN {"redisTracing"} ELSE {}, to)
           queues    == asyncQueueValues(s, transport, Append(to, "queues"))
           kind      == {<<<<"ap", "transport">>, Last(transport)>>}
           url       == {<<Append(to, "urlSecret"), secretName>>}
           tracing   == FieldAs(traced, "enable_tracing")
<1>1. IsPath(to) /\ IsPath(Append(to, "queues"))
  BY LiteralPath, LongerPath
<1>2. \A v \in TransportValues(s, secretName) :
        \/ v \in {<<<<"ap", "transport">>, Last(transport)>>,
                  <<Append(to, "urlSecret"), secretName>>}
        \/ v \in tracing \cup queues
        \/ \E f \in numbers : v \in Of(f)
  <2>1. TransportValues(s, secretName) =
          {<<<<"ap", "transport">>, Last(transport)>>,
           <<Append(to, "urlSecret"), secretName>>}
            \cup (UNION {Of(f) : f \in numbers}) \cup tracing \cup queues
    BY DEF TransportValues
  <2> HIDE DEF transport, to, Of, tracing, queues, numbers
  <2> QED
    BY <2>1
<1>3. ASSUME NEW f \in numbers PROVE Quiet(Of(f))
  <2>1. TransportKey(f) # "extraEndpoints"
    BY DEF TransportKey
  <2> HIDE DEF transport, to
  <2> QED
    BY <1>1, <2>1, SetPathed, RenamedQuiet
<1> HIDE DEF transport, to
<1>4. Quiet(tracing)
  BY <1>1, SetPathed, RenamedQuiet
<1>5. Quiet(queues)
  BY <1>1, QueuesQuiet
<1>6. Quiet(kind)
  BY LiteralsQuiet
<1>7. Quiet(url)
  BY <1>1, OneQuiet
<1>8. {<<<<"ap", "transport">>, Last(transport)>>,
       <<Append(to, "urlSecret"), secretName>>} = kind \cup url
  OBVIOUS
<1> HIDE DEF Of, traced, queues, numbers, kind, url
<1> HIDE DEF tracing
<1> QED
  BY <1>2, <1>3, <1>4, <1>5, <1>6, <1>7, <1>8 DEF Quiet

LEMMA ExtrasQuiet ==
  ASSUME NEW s
  PROVE  Quiet(AsyncExtras(s))
<1> DEFINE tls   == Async \o <<"tls">>
           pools == Async \o <<"workerPools">>
           trans == Async \o <<"transformConfig", "requestTransforms">>
           msm   == Async \o <<"modelServerMonitor">>
           id      == FieldAs(SetAlways(s, pools, {"name"}, <<"ap", "workerPools">>),
                              "id")
           workers == SetAlways(s, pools, {"workers"}, <<"ap", "workerPools">>)
           gate    == FieldAs(setIfNotEmpty(s, pools, {"gateType"},
                                            <<"ap", "workerPools">>), "gate_type")
           params  == FieldAs(setIfNotEmpty(s, pools, {"gateParams"},
                                            <<"ap", "workerPools">>), "gate_params")
           keys    == setIfNotEmpty(s, tls, {"secretName", "caCertKey", "certKey",
                                             "keyKey"}, <<"ap", "tls">>)
           skip    == SetAlways(s, tls, {"insecureSkipVerify"}, <<"ap", "tls">>)
           what    == SetAlways(s, trans, {"name", "type"}, <<"ap", "transforms">>)
           how     == setIfNotEmpty(s, trans, {"parameters"}, <<"ap", "transforms">>)
           monitor == setIfNotEmpty(s, msm, {"enabled", "selector", "port", "path",
                                             "interval"},
                                    <<"ap", "modelServerMonitor">>)
<1>1. \A a, b : IsPath(<<a, b>>)
  BY LiteralPath
<1>2. AsyncExtras(s) =
        id \cup workers \cup gate \cup params \cup keys \cup skip \cup what
          \cup toJSONAwareMap(how)
          \cup IF ~Enabled(s, msm) THEN {} ELSE monitor
  BY DEF AsyncExtras
<1> HIDE DEF tls, pools, trans, msm
<1>3. /\ Quiet(workers) /\ Quiet(keys) /\ Quiet(skip) /\ Quiet(what)
      /\ Quiet(how) /\ Quiet(monitor)
  BY <1>1, SetQuiet
<1>4. Quiet(id) /\ Quiet(gate) /\ Quiet(params)
  BY <1>1, SetPathed, RenamedQuiet
<1>5. Quiet(toJSONAwareMap(how))
  BY <1>3, JSONQuiet
<1> HIDE DEF id, workers, gate, params, keys, skip, what, how, monitor
<1> QED
  BY <1>2, <1>3, <1>4, <1>5 DEF Quiet

LEMMA AsyncQuiet ==
  ASSUME NEW s, NEW secretName
  PROVE  Quiet(specToAsyncHelmValues(s, secretName))
<1> DEFINE ap == <<"ap">>
           replicas == FieldAs(SetIfNotNil(s, Async, {"replicas"}, ap),
                               "replicaCount")
           workers  == SetIfNotNil(s, Async, {"concurrency"}, ap)
           plain    == setIfNotEmpty(s, Async, {"imagePullPolicy", "drainTimeout",
                                                "prometheusURL",
                                                "prometheusCacheTTL"}, ap)
           url      == FieldAs(SetAlways(s, Async \o <<"inferenceGateway">>,
                                         {"url"}, ap), "igwBaseURL")
           otel     == setIfNotEmpty(s, <<"otel">>, {"endpoint", "sampler",
                                                     "samplerArg"},
                                     <<"ap", "otel">>)
           tracing  == SetAlways(s, <<"otel">>, {"insecure", "redisTracing"},
                                 <<"ap", "otel">>)
           pull     == setIfNotEmpty(s, << >>, {"imagePullSecrets"}, ap)
           scraped  == Scraped(s, <<"ap", "podMonitor">>)
           grafana  == setIfNotEmpty(s, <<"grafana">>, {"enabled"},
                                     <<"ap", "grafana">>)
           rules    == setIfNotEmpty(s, <<"prometheusRule">>, {"enabled", "labels"},
                                     <<"ap", "prometheusRule">>)
<1>1. IsPath(ap) /\ \A a, b : IsPath(<<a, b>>)
  BY LiteralPath
<1>2. specToAsyncHelmValues(s, secretName) =
        replicas \cup workers \cup plain \cup url
          \cup resourceRequirementsToMap(s, Async, ap)
          \cup TransportValues(s, secretName) \cup AsyncExtras(s)
          \cup otel \cup tracing \cup pull \cup scraped \cup grafana
          \cup IF ~Enabled(s, <<"prometheusRule">>) THEN {} ELSE rules
  BY DEF specToAsyncHelmValues
<1> HIDE DEF ap
<1>3. /\ Quiet(workers) /\ Quiet(plain) /\ Quiet(otel) /\ Quiet(tracing)
      /\ Quiet(pull) /\ Quiet(grafana) /\ Quiet(rules)
  BY <1>1, SetQuiet
<1>4. Quiet(replicas) /\ Quiet(url)
  BY <1>1, SetPathed, RenamedQuiet
<1>5. Quiet(scraped) /\ Quiet(resourceRequirementsToMap(s, Async, ap))
  BY <1>1, ScrapedQuiet, ResourcesQuiet
<1> HIDE DEF replicas, workers, plain, url, otel, tracing, pull, scraped, grafana,
             rules
<1> QED
  BY <1>2, <1>3, <1>4, <1>5, TransportQuiet, ExtrasQuiet DEF Quiet

(***************************************************************************)
(* A list is passed on exactly when the manifest writes it, empty or not,  *)
(* and a chart's setting is the list passed on under its key.              *)
(***************************************************************************)
Lists == {<< >>, Config(APIServer) \o <<"batchAPI">>, Config(Processor)}

Under(key, values) == {<<key, x>> : x \in values}

LEMMA ListDecoded ==
  ASSUME NEW m, WellFormed(m), NEW at \in Lists, NEW to
  PROVE  SetIfNotNil(Decode(m), at, {"extraEndpoints"}, to)
           = Under(Append(to, "extraEndpoints"), Written(m, at, "extraEndpoints"))
<1> DEFINE f == "extraEndpoints"
           s == Decode(m)
<1>1. DOMAIN s = DOMAIN m
  BY DEF Decode
<1>2. f \in DOMAIN Fields[at] /\ Fields[at][f] = "optional"
  BY EndpointLists DEF Lists
<1>3. CASE at \notin DOMAIN m
  <2>1. SetIfNotNil(s, at, {f}, to) = {}
    BY <1>1, <1>3 DEF SetIfNotNil, Values
  <2>2. Written(m, at, f) = {}
    BY <1>3 DEF Written
  <2> QED
    BY <2>1, <2>2 DEF Under
<1>4. CASE at \in DOMAIN m
  <2>1. m[at][f] \in {"absent", "zero", "set"}
    <3>1. m[at][f] \in Writable("optional")
      BY <1>2, <1>4 DEF WellFormed
    <3> QED
      BY <3>1 DEF Writable
  <2>2. s[at][f] = IF m[at][f] = "absent" THEN "nil" ELSE m[at][f]
    <3>1. s[at][f] = Decoded("optional", m[at][f])
      BY <1>2, <1>4 DEF Decode
    <3> QED
      BY <3>1 DEF Decoded
  <2>3. SetIfNotNil(s, at, {f}, to) =
          IF s[at][f] = "nil" THEN {} ELSE {<<Append(to, f), s[at][f]>>}
    <3> HIDE DEF s
    <3>1. {g \in {f} : s[at][g] \notin {"nil"}} =
            IF s[at][f] = "nil" THEN {} ELSE {f}
      OBVIOUS
    <3> QED
      BY <1>1, <1>4, <3>1 DEF SetIfNotNil, Values
  <2>4. Written(m, at, f) = IF m[at][f] = "absent" THEN {} ELSE {m[at][f]}
    BY <1>4 DEF Written
  <2>5. CASE m[at][f] = "absent"
    <3>1. SetIfNotNil(s, at, {f}, to) = {} /\ Written(m, at, f) = {}
      BY <2>2, <2>3, <2>4, <2>5
    <3> QED
      BY <3>1 DEF Under
  <2>6. CASE m[at][f] # "absent"
    <3>1. s[at][f] = m[at][f] /\ s[at][f] # "nil"
      BY <2>1, <2>2, <2>6
    <3>2. /\ SetIfNotNil(s, at, {f}, to) = {<<Append(to, f), m[at][f]>>}
          /\ Written(m, at, f) = {m[at][f]}
      BY <2>3, <2>4, <2>6, <3>1
    <3> QED
      BY <3>2 DEF Under
  <2> QED
    BY <2>5, <2>6
<1> QED
  BY <1>3, <1>4

LEMMA ListSetting ==
  ASSUME NEW values, NEW lists, QuietBut(values, lists),
         NEW key, Last(key) = "extraEndpoints", NEW written,
         NEW own, own \subseteq lists, own = Under(key, written),
         \A v \in lists \ own : v[1] # key
  PROVE  {v[2] : v \in {w \in values : w[1] = key}} = written
<1>1. {w \in values : w[1] = key} = own
  <2>1. ASSUME NEW w \in values, w[1] = key PROVE w \in own
    BY <2>1 DEF QuietBut, Quiet
  <2>2. ASSUME NEW w \in own PROVE w \in values /\ w[1] = key
    <3>1. PICK x \in written : w = <<key, x>>
      BY <2>2 DEF Under
    <3> QED
      BY <3>1 DEF QuietBut
  <2> QED
    BY <2>1, <2>2
<1>2. {v[2] : v \in own} = written
  <2>1. ASSUME NEW x \in written PROVE \E v \in own : v[2] = x
    <3>1. <<key, x>> \in own /\ <<key, x>>[2] = x
      BY <2>1 DEF Under
    <3> QED
      BY <3>1
  <2>2. ASSUME NEW v \in own PROVE v[2] \in written
    BY <2>2 DEF Under
  <2> QED
    BY <2>1, <2>2
<1> QED
  BY <1>1, <1>2

LEMMA ListsServed ==
  ASSUME NEW m, WellFormed(m), NEW secretName, NEW profile, NEW values,
         values = specToBatchHelmValues(Decode(m), secretName, profile)
                    \cup specToAsyncHelmValues(Decode(m), secretName)
  PROVE  LET Given(key) == {v[2] : v \in {w \in values : w[1] = key}}
         IN /\ Given(<<"global", "extraEndpoints">>)
                  = Written(m, << >>, "extraEndpoints")
            /\ Given(<<"apiserver", "config", "batchAPI", "extraEndpoints">>)
                  = Written(m, Config(APIServer) \o <<"batchAPI">>, "extraEndpoints")
            /\ Given(<<"processor", "config", "extraEndpoints">>)
                  = Written(m, Config(Processor), "extraEndpoints")
<1> DEFINE s == Decode(m)
           f == "extraEndpoints"
           lists == GatewayList(s) \cup APIServerList(s) \cup ProcessorList(s)
           g == <<"global", "extraEndpoints">>
           a == <<"apiserver", "config", "batchAPI", "extraEndpoints">>
           p == <<"processor", "config", "extraEndpoints">>
           Wg == Written(m, << >>, f)
           Wa == Written(m, Config(APIServer) \o <<"batchAPI">>, f)
           Wp == Written(m, Config(Processor), f)
<1>1. QuietBut(values, lists)
  <2>1. QuietBut(specToBatchHelmValues(s, secretName, profile), lists)
    BY BatchLists
  <2>2. Quiet(specToAsyncHelmValues(s, secretName))
    BY AsyncQuiet
  <2> HIDE DEF s, lists
  <2>3. values = specToBatchHelmValues(s, secretName, profile)
                   \cup specToAsyncHelmValues(s, secretName)
    BY DEF s
  <2> QED
    BY <2>1, <2>2, <2>3 DEF QuietBut, Quiet
<1>2. /\ g = Append(<<"global">>, f)
      /\ a = Append(Append(<<"apiserver", "config">>, "batchAPI"), f)
      /\ p = Append(<<"processor", "config">>, f)
  OBVIOUS
<1>3. /\ GatewayList(s) = Under(g, Wg)
      /\ APIServerList(s) = Under(a, Wa)
      /\ ProcessorList(s) = Under(p, Wp)
  <2>1. /\ << >> \in Lists /\ Config(APIServer) \o <<"batchAPI">> \in Lists
        /\ Config(Processor) \in Lists
    BY DEF Lists
  <2>2. GatewayList(s) = Under(Append(<<"global">>, f), Wg)
    BY <2>1, ListDecoded DEF GatewayList
  <2>3. APIServerList(s) =
          Under(Append(Append(<<"apiserver", "config">>, "batchAPI"), f), Wa)
    BY <2>1, ListDecoded DEF APIServerList
  <2>4. ProcessorList(s) = Under(Append(<<"processor", "config">>, f), Wp)
    BY <2>1, ListDecoded DEF ProcessorList
  <2> QED
    BY <1>2, <2>2, <2>3, <2>4
<1>4. g # a /\ g # p /\ a # p
  OBVIOUS
<1>5. Last(g) = f /\ Last(a) = f /\ Last(p) = f
  BY DEF Last
<1> HIDE DEF g, a, p, s, Wg, Wa, Wp
<1>6. {v[2] : v \in {w \in values : w[1] = g}} = Wg
  <2>1. \A v \in lists \ GatewayList(s) : v[1] # g
    BY <1>3, <1>4 DEF Under
  <2> QED
    BY <1>1, <1>3, <1>5, <2>1, ListSetting
<1>7. {v[2] : v \in {w \in values : w[1] = a}} = Wa
  <2>1. \A v \in lists \ APIServerList(s) : v[1] # a
    BY <1>3, <1>4 DEF Under
  <2> QED
    BY <1>1, <1>3, <1>5, <2>1, ListSetting
<1>8. {v[2] : v \in {w \in values : w[1] = p}} = Wp
  <2>1. \A v \in lists \ ProcessorList(s) : v[1] # p
    BY <1>3, <1>4 DEF Under
  <2> QED
    BY <1>1, <1>3, <1>5, <2>1, ListSetting
<1> QED
  BY <1>6, <1>7, <1>8 DEF g, a, p, Wg, Wa, Wp

-------------------------------------------------------------------------------
\* The chart values are those of the manifest that was rendered last.
SettingsInv ==
  \/ seen = << >> /\ settings = {}
  \/ settings = specToBatchHelmValues(Decode(seen), start.secret, start.profile)
                  \cup specToAsyncHelmValues(Decode(seen), start.secret)

LEMMA SettingsAlways == Spec => []SettingsInv
<1>1. Init => SettingsInv
  BY DEF Init, SettingsInv
<1>2. SettingsInv /\ [Next]_vars => SettingsInv'
  <2> SUFFICES ASSUME SettingsInv, [Next]_vars PROVE SettingsInv'
    OBVIOUS
  <2>1. CASE Render
    BY <2>1 DEF Render, SettingsInv
  <2>2. ASSUME NEW m, Submit(m) PROVE SettingsInv'
    BY <2>2 DEF Submit, SettingsInv
  <2>3. ASSUME NEW p, DropSection(p) \/ AddSection(p) PROVE SettingsInv'
    BY <2>2, <2>3 DEF DropSection, AddSection
  <2>4. ASSUME NEW p, NEW f, SetField(p, f) PROVE SettingsInv'
    BY <2>2, <2>4 DEF SetField
  <2>5. CASE UNCHANGED vars
    BY <2>5 DEF vars, SettingsInv
  <2> QED
    BY <2>1, <2>3, <2>4, <2>5 DEF Next
<1> QED
  BY <1>1, <1>2, PTL DEF Spec

(***************************************************************************)
(* For every manifest and after every series of edits, the API server and  *)
(* the processor are served by their own endpoint list if they write one,  *)
(* even an empty one, else by the gateway's, else by the chart's: no other *)
(* conversion writes one of the three keys.                                *)
(***************************************************************************)
THEOREM ListsInherited == Spec => []EndpointsInherited
<1>1. ASSUME StoredInv, SettingsInv PROVE EndpointsInherited
  <2> DEFINE g == Setting(<<"global", "extraEndpoints">>)
             a == Setting(<<"apiserver", "config", "batchAPI", "extraEndpoints">>)
             p == Setting(<<"processor", "config", "extraEndpoints">>)
             Wg == Written(seen, << >>, "extraEndpoints")
             Wa == Written(seen, Config(APIServer) \o <<"batchAPI">>,
                           "extraEndpoints")
             Wp == Written(seen, Config(Processor), "extraEndpoints")
  <2>1. g = Wg /\ a = Wa /\ p = Wp
    <3>1. CASE seen = << >> /\ settings = {}
      <4>1. g = {} /\ a = {} /\ p = {}
        BY <3>1 DEF Setting
      <4>2. Wg = {} /\ Wa = {} /\ Wp = {}
        BY <3>1 DEF Written
      <4> QED
        BY <4>1, <4>2
    <3>2. CASE settings =
                 specToBatchHelmValues(Decode(seen), start.secret, start.profile)
                   \cup specToAsyncHelmValues(Decode(seen), start.secret)
      <4>1. WellFormed(seen)
        BY <1>1 DEF StoredInv
      <4> QED
        BY <3>2, <4>1, ListsServed DEF Setting
    <3> QED
      BY <1>1, <3>1, <3>2 DEF SettingsInv
  <2> QED
    BY <2>1 DEF EndpointsInherited
<1> QED
  BY <1>1, ManifestsStored, SettingsAlways, PTL

-------------------------------------------------------------------------------
(***************************************************************************)
(* Nothing that the conversions pass on is nil.  They test most fields;    *)
(* the others cannot be nil in a manifest that is well formed.             *)
(***************************************************************************)
NilFree(values) == \A v \in values : v[2] # "nil"

Untested(s) ==
  \A p, fs, to : NeverNil(p, fs) => NilFree(SetAlways(s, p, fs, to))

LEMMA TestedNilFree ==
  \A s, at, fs, to : /\ NilFree(setIfNotEmpty(s, at, fs, to))
                     /\ NilFree(SetIfNotNil(s, at, fs, to))
  BY DEF NilFree, setIfNotEmpty, SetIfNotNil, Values

LEMMA RenamedNilFree ==
  \A values, key : NilFree(values) => NilFree(FieldAs(values, key))
  BY DEF NilFree, FieldAs

LEMMA UnionNilFree ==
  \A A, B : NilFree(A) /\ NilFree(B) => NilFree(A \cup B)
  BY DEF NilFree

LEMMA EmptyNilFree == NilFree({})
  BY DEF NilFree

LEMMA OneNilFree ==
  ASSUME NEW p, NEW x, x # "nil"
  PROVE  NilFree({<<p, x>>})
  BY DEF NilFree

LEMMA JSONNilFree ==
  ASSUME NEW values, NilFree(values)
  PROVE  NilFree(toJSONAwareMap(values))
  BY DEF NilFree, toJSONAwareMap

LEMMA DecodedUntested ==
  ASSUME NEW m, WellFormed(m)
  PROVE  Untested(Decode(m))
<1> SUFFICES ASSUME NEW p, NEW fs, NEW to, NeverNil(p, fs),
                    NEW v \in SetAlways(Decode(m), p, fs, to)
             PROVE  v[2] # "nil"
  BY DEF Untested, NilFree
<1>1. PICK f \in fs : p \in DOMAIN m /\ v[2] = Decode(m)[p][f]
  BY DEF SetAlways, Values, Decode
<1>2. /\ f \in DOMAIN Fields[p] /\ f \in DOMAIN m[p]
      /\ Fields[p][f] \in {"plain", "required", "defaulted"}
      /\ m[p][f] \in Writable(Fields[p][f])
  BY <1>1 DEF NeverNil, WellFormed
<1>3. v[2] = Decoded(Fields[p][f], m[p][f])
  BY <1>1, <1>2 DEF Decode
<1> QED
  BY <1>2, <1>3 DEF Decoded, Writable

LEMMA ResourcesNilFree ==
  \A s, at, to : NilFree(resourceRequirementsToMap(s, at, to))
  BY TestedNilFree DEF resourceRequirementsToMap, NilFree

LEMMA WorkloadNilFree ==
  \A s, at, to : NilFree(WorkloadValues(s, at, to))
  BY TestedNilFree, RenamedNilFree, UnionNilFree, ResourcesNilFree, Zenon
     DEF WorkloadValues

LEMMA ScrapedNilFree ==
  \A s, to : NilFree(Scraped(s, to))
  BY DEF Scraped, NilFree

LEMMA FileClientNilFree ==
  ASSUME NEW s, Untested(s)
  PROVE  NilFree(FileClient(s))
<1> DEFINE to == <<"global", "fileClient">>
           s3 == <<"fileStorage", "s3">>
           fs == <<"fileStorage", "fs">>
           types == {<<Append(to, "type"), Last(p)>> : p \in {s3, fs} \cap DOMAIN s}
<1>1. NilFree(types)
  <2>1. Last(s3) = "s3" /\ Last(fs) = "fs"
    BY DEF Last
  <2> HIDE DEF s3, fs
  <2> QED
    BY <2>1 DEF NilFree
<1>2. NilFree(SetAlways(s, s3, {"usePathStyle"}, Append(to, "s3")))
  BY UntestedFields DEF Untested
<1> HIDE DEF types
<1> QED
  BY <1>1, <1>2, TestedNilFree, RenamedNilFree, UnionNilFree, Zenon
     DEF FileClient, types

LEMMA GlobalNilFree ==
  ASSUME NEW s, Untested(s), NEW secretName, secretName # "nil"
  PROVE  NilFree(GlobalValues(s, secretName))
<1>1. NilFree(SetAlways(s, <<"otel">>, {"insecure", "postgresqlTracing"},
                        <<"global", "otel">>))
  BY UntestedFields DEF Untested
<1>2. NilFree({<<<<"global", "secretName">>, secretName>>})
  BY OneNilFree
<1> QED
  BY <1>1, <1>2, TestedNilFree, RenamedNilFree, UnionNilFree, FileClientNilFree,
     Zenon DEF GlobalValues

LEMMA APIServerNilFree ==
  ASSUME NEW s, Untested(s), NEW profile, profile # "nil"
  PROVE  NilFree(APIServerValues(s, profile))
<1>1. NilFree(apiServerConfigToMap(s))
  BY TestedNilFree, UnionNilFree, Zenon DEF apiServerConfigToMap, BatchAPIValues
<1>2. NilFree(TLSValues(s, profile))
  <2> DEFINE to == <<"apiserver", "tls">>
             cm == <<"tls", "certManager">>
             cluster == {<<Append(to, k), profile>> :
                           k \in IF profile = "" THEN {}
                                 ELSE {"minVersion", "cipherSuites", "nextProtos"}}
             issued == {<<to \o <<"certManager", "enabled">>, "set">> :
                          p \in {cm} \cap DOMAIN s}
  <2>1. NilFree(cluster) /\ NilFree(issued)
    <3>1. \A p, ks : \A v \in {<<Append(to, k), p>> : k \in ks} : v[2] = p
      OBVIOUS
    <3>2. \A v \in cluster : v[2] = profile
      BY <3>1, Zenon
    <3>3. \A p : \A v \in {<<p, "set">> : q \in {cm} \cap DOMAIN s} : v[2] = "set"
      OBVIOUS
    <3>4. \A v \in issued : v[2] = "set"
      BY <3>3, Zenon
    <3> HIDE DEF cluster, issued
    <3> QED
      BY <3>2, <3>4 DEF NilFree
  <2> HIDE DEF cluster, issued
  <2>2. TLSValues(s, profile) =
          cluster \cup IF ~Enabled(s, <<"tls">>) THEN {}
            ELSE setIfNotEmpty(s, <<"tls">>, {"enabled", "secretName"}, to)
                   \cup issued
                   \cup setIfNotEmpty(s, cm, {"issuerName", "issuerKind",
                                              "dnsNames"},
                                      Append(to, "certManager"))
    BY Zenon DEF TLSValues, cluster, issued
  <2> QED
    BY <2>1, <2>2, TestedNilFree, UnionNilFree, EmptyNilFree, Zenon
<1>3. NilFree(HTTPRouteValues(s))
  <2>1. NilFree(SetAlways(s, <<"httpRoute", "parentRefs">>, {"name"},
                          Append(<<"apiserver", "httpRoute">>, "parentRefs")))
    BY UntestedFields DEF Untested
  <2> QED
    BY <2>1, TestedNilFree, UnionNilFree, EmptyNilFree, Zenon DEF HTTPRouteValues
<1> QED
  BY <1>1, <1>2, <1>3, TestedNilFree, UnionNilFree, WorkloadNilFree,
     ScrapedNilFree, Zenon DEF APIServerValues

LEMMA ProcessorNilFree ==
  ASSUME NEW s, Untested(s)
  PROVE  NilFree(ProcessorValues(s))
<1> DEFINE to == <<"processor", "config", "asyncDispatch">>
           sql == Async \o <<"sql">>
           transport == {<<Append(to, "transport"),
                           IF sql \in DOMAIN s THEN "sql" ELSE "redis-sortedset">>}
<1>1. NilFree(mergeProcessorConfig(s))
  BY TestedNilFree, UnionNilFree, Zenon DEF mergeProcessorConfig, AIMDValues
<1>2. NilFree(SetAlways(s, Async, {"resultPollTimeout"}, to))
  BY UntestedFields DEF Untested
<1>3. NilFree(transport)
  BY DEF NilFree
<1> HIDE DEF transport
<1> QED
  BY <1>1, <1>2, <1>3, TestedNilFree, UnionNilFree, WorkloadNilFree,
     ScrapedNilFree, Zenon DEF ProcessorValues, transport

LEMMA GCNilFree ==
  ASSUME NEW s, Untested(s)
  PROVE  NilFree(GCValues(s))
<1>1. \A to : NilFree(SetAlways(s, Config(GC) \o <<"reconciler">>, {"enabled"}, to))
  BY UntestedFields DEF Untested
<1> QED
  BY <1>1, TestedNilFree, UnionNilFree, WorkloadNilFree, ScrapedNilFree, Zenon
     DEF GCValues, GCReconcilerValues

LEMMA BatchNilFree ==
  ASSUME NEW s, Untested(s), NEW secretName, secretName # "nil",
         NEW profile, profile # "nil"
  PROVE  NilFree(specToBatchHelmValues(s, secretName, profile))
<1>1. /\ NilFree(SetAlways(s, <<"grafana">>, {"enabled"},
                           <<"grafana", "dashboards">>))
      /\ NilFree(SetAlways(s, <<"prometheusRule">>, {"enabled"},
                           <<"prometheusRule">>))
  BY UntestedFields DEF Untested
<1> QED
  BY <1>1, TestedNilFree, UnionNilFree, GlobalNilFree, APIServerNilFree,
     ProcessorNilFree, GCNilFree, Zenon DEF specToBatchHelmValues

LEMMA QueuesNilFree ==
  \A s, transport, to : NilFree(asyncQueueValues(s, transport, to))
<1> SUFFICES ASSUME NEW s, NEW transport, NEW to
             PROVE  NilFree(asyncQueueValues(s, transport, to))
  OBVIOUS
<1> DEFINE queue   == Append(transport, "queuesConfig")
           gateway == Async \o <<"inferenceGateway">>
           derived == IF Last(transport) = "redis"
                      THEN {"requestPathURL", "gateType", "gateParams"} ELSE {}
           own     == setIfNotEmpty(s, queue, {"igwBaseURL"}, to)
           fields  == {"name", "workerPoolID", "requestPathURL", "gateType",
                       "gateParams"}
           Of(f)   == FieldAs(IF queue \in DOMAIN s
                              THEN setIfNotEmpty(s, queue, {f}, to)
                              ELSE setIfNotEmpty(s, transport, {f} \cap derived, to),
                              QueueKey(f))
           inherited == {<<Append(to, "igw_base_url"), "inherited">> :
                           v \in setIfNotEmpty(s, gateway, {"url"}, to)}
<1>1. asyncQueueValues(s, transport, to) =
        (UNION {Of(f) : f \in fields})
          \cup IF own # {} THEN FieldAs(own, "igw_base_url") ELSE inherited
  BY DEF asyncQueueValues
<1>2. NilFree(inherited)
  BY DEF NilFree
<1>3. \A f : NilFree(Of(f))
  BY TestedNilFree, RenamedNilFree, Zenon
<1>4. NilFree(FieldAs(own, "igw_base_url"))
  BY TestedNilFree, RenamedNilFree, Zenon
<1> HIDE DEF Of, own, inherited, fields
<1> QED
  BY <1>1, <1>2, <1>3, <1>4 DEF NilFree

LEMMA TransportNilFree ==
  ASSUME NEW s, NEW secretName, secretName # "nil"
  PROVE  NilFree(TransportValues(s, secretName))
<1> DEFINE transport == IF Async \o <<"redis">> \in DOMAIN s
                        THEN Async \o <<"redis">> ELSE Async \o <<"sql">>
           to        == <<"ap", "transportConfig">>
           numbers   == DOMAIN s[transport] \cap
                          {"pollIntervalMs", "batchSize", "resultBatchSize",
                           "leaseTTLSeconds", "handoffTimeoutSeconds"}
           Of(f)     == FieldAs(SetIfNotNil(s, transport, {f}, to), TransportKey(f))
           tracing   == FieldAs(setIfNotEmpty(s, <<"otel">>,
                                              IF Last(transport) = "redis"
                                              THEN {"redisTracing"} ELSE {}, to),
                                "enable_tracing")
           queues    == asyncQueueValues(s, transport, Append(to, "queues"))
           named     == {<<<<"ap", "transport">>, Last(transport)>>,
                         <<Append(to, "urlSecret"), secretName>>}
<1>1. TransportValues(s, secretName) =
        named \cup (UNION {Of(f) : f \in numbers}) \cup tracing \cup queues
  BY DEF TransportValues
<1>2. NilFree(named)
  <2>1. Last(transport) \in {"redis", "sql"}
    BY DEF Async, Last
  <2> HIDE DEF transport
  <2> QED
    BY <2>1 DEF NilFree
<1>3. \A f : NilFree(Of(f))
  BY TestedNilFree, RenamedNilFree, Zenon
<1>4. NilFree(tracing) /\ NilFree(queues)
  BY TestedNilFree, RenamedNilFree, QueuesNilFree, Zenon
<1> HIDE DEF named, Of, numbers, tracing, queues
<1> QED
  BY <1>1, <1>2, <1>3, <1>4 DEF NilFree

LEMMA ExtrasNilFree ==
  ASSUME NEW s, Untested(s)
  PROVE  NilFree(AsyncExtras(s))
<1>1. \A to :
        /\ NilFree(SetAlways(s, Async \o <<"workerPools">>, {"name"}, to))
        /\ NilFree(SetAlways(s, Async \o <<"workerPools">>, {"workers"}, to))
        /\ NilFree(SetAlways(s, Async \o <<"tls">>, {"insecureSkipVerify"}, to))
        /\ NilFree(SetAlways(s, Async \o <<"transformConfig", "requestTransforms">>,
                             {"name", "type"}, to))
  BY UntestedFields DEF Untested
<1> QED
  BY <1>1, TestedNilFree, RenamedNilFree, UnionNilFree, EmptyNilFree, JSONNilFree,
     Zenon DEF AsyncExtras

LEMMA AsyncNilFree ==
  ASSUME NEW s, Untested(s), NEW secretName, secretName # "nil"
  PROVE  NilFree(specToAsyncHelmValues(s, secretName))
<1>1. /\ NilFree(SetAlways(s, Async \o <<"inferenceGateway">>, {"url"}, <<"ap">>))
      /\ NilFree(SetAlways(s, <<"otel">>, {"insecure", "redisTracing"},
                           <<"ap", "otel">>))
  BY UntestedFields DEF Untested
<1> QED
  BY <1>1, TestedNilFree, RenamedNilFree, UnionNilFree, EmptyNilFree,
     ResourcesNilFree, ScrapedNilFree, TransportNilFree, ExtrasNilFree, Zenon
     DEF specToAsyncHelmValues

(***************************************************************************)
(* For every manifest the API server stores, and after every series of     *)
(* edits, no conversion passes on, and so dereferences, what the manifest  *)
(* leaves out.                                                             *)
(***************************************************************************)
THEOREM NothingNilPassed == Spec => []NoNilPassed
<1>1. ASSUME StoredInv, SettingsInv PROVE NoNilPassed
  <2>1. /\ Untested(Decode(seen))
        /\ start.secret # "nil" /\ start.profile # "nil"
    BY <1>1, DecodedUntested, ChartAssumption DEF StoredInv
  <2>2. NilFree(settings)
    <3>1. /\ NilFree(specToBatchHelmValues(Decode(seen), start.secret, start.profile))
          /\ NilFree(specToAsyncHelmValues(Decode(seen), start.secret))
      BY <2>1, BatchNilFree, AsyncNilFree
    <3> QED
      BY <1>1, <3>1, EmptyNilFree, UnionNilFree, Zenon DEF SettingsInv
  <2> QED
    BY <2>2 DEF NilFree, NoNilPassed
<1> QED
  BY <1>1, ManifestsStored, SettingsAlways, PTL
================================================================================
