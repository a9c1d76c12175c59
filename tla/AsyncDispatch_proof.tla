-------------------------- MODULE AsyncDispatch_proof --------------------------
(***************************************************************************)
(* Proof, for every set of specs and models, that the processor and the    *)
(* dispatcher of an accepted spec meet in the same queues and that no      *)
(* request is stranded in them.                                            *)
(***************************************************************************)
EXTENDS AsyncDispatch, FiniteSetTheorems, WellFoundedInduction, TLAPS

(***************************************************************************)
(* A set of positions has a first one.                                     *)
(***************************************************************************)
LEMMA FirstPosition ==
  ASSUME NEW S \in SUBSET Nat, S # {}
  PROVE  \E i \in S : \A j \in S : ~(j < i)
<1>1. \E i \in S : \A j \in S : ~(<<j, i>> \in OpToRel(<, Nat))
  BY NatLessThanWellFounded, WFMin
<1> QED
  BY <1>1 DEF OpToRel

(***************************************************************************)
(* defaultAsyncQueues: each published name once, without a URL of its own. *)
(***************************************************************************)
NamedOnce(qs) == \A i, j \in DOMAIN qs : i # j => qs[i].name # qs[j].name

LEMMA DerivedQueues ==
  ASSUME NEW s \in Specs, NEW gate
  PROVE  LET qs == defaultAsyncQueues(s, gate)
         IN  QueueNames(qs) = Published(s) /\ NamedOnce(qs)
<1> DEFINE at == sortedModelNames(s)
           NameAt(i) == requestQueueNameFor(s.models[ModelOrder[i]])
           unseen == {i \in at : \A j \in at : j < i => NameAt(j) # NameAt(i)}
           qs == defaultAsyncQueues(s, gate)
<1>1. DOMAIN qs = unseen /\ \A i \in unseen : qs[i].name = NameAt(i)
  BY DEF defaultAsyncQueues, Queue
<1>2. at \subseteq Nat /\ Len(ModelOrder) \in Nat
  BY DispatchAssumption DEF sortedModelNames
<1>3. Published(s) = {NameAt(i) : i \in at}
  <2>1. \A m \in DOMAIN s.models : \E i \in at : ModelOrder[i] = m
    BY DispatchAssumption DEF sortedModelNames
  <2>2. \A i \in at : ModelOrder[i] \in DOMAIN s.models
    BY DEF sortedModelNames
  <2> QED
    BY <2>1, <2>2 DEF Published
<1>4. ASSUME NEW i \in at PROVE \E k \in unseen : NameAt(k) = NameAt(i)
  <2> DEFINE same == {j \in at : NameAt(j) = NameAt(i)}
  <2>1. PICK k \in same : \A j \in same : ~(j < k)
    <3>1. same \in SUBSET Nat /\ same # {}
      BY <1>2, <1>4
    <3> HIDE DEF same
    <3> QED
      BY <3>1, FirstPosition
  <2> QED
    BY <2>1
<1>5. QueueNames(qs) = {NameAt(i) : i \in unseen}
  BY <1>1 DEF QueueNames
<1>6. \A i, j \in unseen : i # j => NameAt(i) # NameAt(j)
  BY <1>2
<1> HIDE DEF NameAt, qs, at
<1>7. QueueNames(qs) = Published(s)
  BY <1>3, <1>4, <1>5
<1>8. NamedOnce(qs)
  BY <1>1, <1>6 DEF NamedOnce
<1> QED
  BY <1>7, <1>8 DEF qs

(***************************************************************************)
(* What validateSpec establishes of the queues the dispatcher gets: they   *)
(* are the published ones, each once, with a URL from somewhere, and no    *)
(* gate in front of them waits for a Prometheus that is not configured.    *)
(***************************************************************************)
DispatcherQueues(s) ==
  IF "redis" \in s.transports THEN redisQueues(s) ELSE sqlQueues(s)

LEMMA OneTransport ==
  ASSUME NEW s \in Specs, validateSpec(s)
  PROVE  ("sql" \in s.transports) = ("redis" \notin s.transports)
<1>1. s.transports \subseteq {"redis", "sql"} /\ Cardinality(s.transports) = 1
  BY DispatchAssumption DEF validateSpec
<1>2. IsFiniteSet({"redis", "sql"})
  <2>1. IsFiniteSet({"redis"} \cup {"sql"})
    BY FS_Singleton, FS_AddElement
  <2>2. {"redis"} \cup {"sql"} = {"redis", "sql"}
    OBVIOUS
  <2> QED
    BY <2>1, <2>2
<1>3. IsFiniteSet(s.transports)
  BY <1>1, <1>2, FS_Subset
<1>4. PICK x : s.transports = {x}
  BY <1>1, <1>3, FS_Singleton
<1> QED
  BY <1>1, <1>4

LEMMA AcceptedQueues ==
  ASSUME NEW s \in Specs, validateSpec(s)
  PROVE  LET qs == DispatcherQueues(s)
         IN  /\ QueueNames(qs) = Published(s) /\ NamedOnce(qs)
             /\ validateAsyncQueueGatewayURL(qs, s)
             /\ validateAsyncPrometheusGates(qs, s)
<1> DEFINE qs == DispatcherQueues(s)
<1>1. /\ validateAsyncQueueGatewayURL(qs, s)
      /\ validateAsyncPrometheusGates(qs, s)
      /\ s.queues # << >> => validateAsyncQueueCoverage(s)
  BY OneTransport DEF validateSpec, validateAsyncRedisConfig,
     validateAsyncSQLConfig, DispatcherQueues
<1>2. CASE s.queues # << >>
  <2>1. qs = s.queues
    BY <1>2 DEF DispatcherQueues, redisQueues, sqlQueues
  <2>2. QueueNames(s.queues) = Published(s) /\ NamedOnce(s.queues)
    BY <1>1, <1>2 DEF validateAsyncQueueCoverage, NamedOnce
  <2> QED
    BY <1>1, <2>1, <2>2
<1>3. CASE s.queues = << >>
  <2>1. \E gate : qs = defaultAsyncQueues(s, gate)
    BY <1>3 DEF DispatcherQueues, redisQueues, sqlQueues
  <2>2. QueueNames(qs) = Published(s) /\ NamedOnce(qs)
    BY <2>1, DerivedQueues
  <2> QED
    BY <1>1, <2>2
<1> QED
  BY <1>2, <1>3

(***************************************************************************)
(* The values of the charts: the processor names the queues as the         *)
(* operator does, and the dispatcher gets the queues with their URLs.      *)
(***************************************************************************)
Rendered == /\ validateSpec(spec)
            /\ processor = specToBatchHelmValues(spec)
            /\ dispatcher = specToAsyncHelmValues(spec)

LEMMA ProcessorNames ==
  ASSUME spec \in Specs, Rendered, NEW m \in DOMAIN spec.models
  PROVE  /\ RequestQueue(m) = requestQueueNameFor(spec.models[m])
         /\ ResultQueue(m) = sqlResultQueueNameFor(spec.models[m])
<1> DEFINE g == spec.models[m]
<1>1. processor.models[m] = asyncModelGatewayToMap(g)
  BY DEF Rendered, specToBatchHelmValues
<1>2. g.pool # ""
  BY DEF Rendered, validateSpec
<1>3. g \in ModelGateway
  BY DispatchAssumption
<1>4. DOMAIN asyncModelGatewayToMap(g) =
        {"pool"} \cup {k \in {"request", "result"} : g[k] # << >>}
  BY <1>2 DEF asyncModelGatewayToMap
<1>5. \A k \in DOMAIN asyncModelGatewayToMap(g) :
        asyncModelGatewayToMap(g)[k] = g[k]
  BY DEF asyncModelGatewayToMap
<1>6. RequestQueue(m) = requestQueueNameFor(g)
  BY <1>1, <1>4, <1>5 DEF RequestQueue, requestQueueNameFor
<1>7. ResultQueue(m) = sqlResultQueueNameFor(g)
  BY <1>1, <1>4, <1>5 DEF ResultQueue, sqlResultQueueNameFor
<1> QED
  BY <1>6, <1>7

LEMMA ProcessorModels ==
  ASSUME Rendered PROVE DOMAIN processor.models = DOMAIN spec.models
  BY DEF Rendered, specToBatchHelmValues

LEMMA DispatcherFields ==
  ASSUME spec \in Specs, Rendered
  PROVE  /\ dispatcher.transport = processor.transport
         /\ dispatcher.workerPools = spec.workerPools
         /\ dispatcher.prometheusURL = spec.prometheusURL
         /\ dispatcher.queues =
              asyncQueueValues(DispatcherQueues(spec), spec.gatewayURL)
         /\ processor.transport = "sql" => "sql" \in spec.transports
<1>1. ("sql" \in spec.transports) = ("redis" \notin spec.transports)
  BY OneTransport DEF Rendered
<1>2. processor.transport = IF "sql" \in spec.transports THEN "sql"
                            ELSE "redis-sortedset"
  BY DEF Rendered, specToBatchHelmValues
<1>3. CASE "redis" \in spec.transports
  BY <1>1, <1>2, <1>3 DEF Rendered, specToAsyncHelmValues, DispatcherQueues
<1>4. CASE "redis" \notin spec.transports
  BY <1>1, <1>2, <1>4 DEF Rendered, specToAsyncHelmValues, DispatcherQueues
<1> QED
  BY <1>3, <1>4

(***************************************************************************)
(* asyncQueueValues keeps the names and the gates.                         *)
(***************************************************************************)
LEMMA DerivedShape ==
  ASSUME NEW q, NEW name, NEW gate,
         q = [name |-> name, url |-> FALSE, gate |-> gate, workerPool |-> ""]
  PROVE  q = [name |-> q.name, url |-> q.url, gate |-> q.gate,
              workerPool |-> q.workerPool]
  OBVIOUS

LEMMA QueueShape ==
  ASSUME NEW s \in Specs, NEW i \in DOMAIN DispatcherQueues(s)
  PROVE  LET q == DispatcherQueues(s)[i]
         IN  q = [name |-> q.name, url |-> q.url, gate |-> q.gate,
                  workerPool |-> q.workerPool]
<1> DEFINE q == DispatcherQueues(s)[i]
<1>1. CASE s.queues # << >>
  <2>1. DispatcherQueues(s) = s.queues /\ s.queues \in Seq(QueueConfig)
    BY <1>1, DispatchAssumption DEF DispatcherQueues, redisQueues, sqlQueues
  <2>2. q \in QueueConfig
    BY <2>1
  <2> QED
    BY <2>2 DEF QueueConfig
<1>2. CASE s.queues = << >>
  <2>1. \/ DispatcherQueues(s) = defaultAsyncQueues(s, s.redisGate)
        \/ DispatcherQueues(s) = defaultAsyncQueues(s, "")
    BY <1>2 DEF DispatcherQueues, redisQueues, sqlQueues
  <2>2. PICK name, gate : q = Queue(name, gate)
    BY <2>1 DEF defaultAsyncQueues
  <2>3. q = [name |-> name, url |-> FALSE, gate |-> gate, workerPool |-> ""]
    BY <2>2 DEF Queue
  <2> QED
    BY <2>3, DerivedShape
<1> QED
  BY <1>1, <1>2

LEMMA UrlSet ==
  ASSUME NEW q, NEW name, NEW url, NEW gate, NEW pool,
         q = [name |-> name, url |-> url, gate |-> gate, workerPool |-> pool]
  PROVE  LET z == [q EXCEPT !.url = TRUE]
         IN  /\ z.name = q.name /\ z.gate = q.gate
             /\ z.workerPool = q.workerPool /\ z.url
  OBVIOUS

LEMMA DispatcherEntries ==
  ASSUME spec \in Specs, Rendered
  PROVE  /\ DOMAIN dispatcher.queues = DOMAIN DispatcherQueues(spec)
         /\ \A i \in DOMAIN dispatcher.queues :
              LET q == DispatcherQueues(spec)[i]
              IN  /\ dispatcher.queues[i].name = q.name
                  /\ dispatcher.queues[i].gate = q.gate
                  /\ dispatcher.queues[i].workerPool = q.workerPool
                  /\ dispatcher.queues[i].url
<1> DEFINE qs == DispatcherQueues(spec)
<1>1. dispatcher.queues =
        [i \in DOMAIN qs |-> [qs[i] EXCEPT !.url = qs[i].url \/ spec.gatewayURL]]
  BY DispatcherFields DEF asyncQueueValues
<1>2. validateAsyncQueueGatewayURL(qs, spec)
  BY AcceptedQueues DEF Rendered
<1>3. ASSUME NEW i \in DOMAIN qs
      PROVE  /\ dispatcher.queues[i].name = qs[i].name
             /\ dispatcher.queues[i].gate = qs[i].gate
             /\ dispatcher.queues[i].workerPool = qs[i].workerPool
             /\ dispatcher.queues[i].url
  <2>1. qs[i] = [name |-> qs[i].name, url |-> qs[i].url, gate |-> qs[i].gate,
                 workerPool |-> qs[i].workerPool]
    BY QueueShape
  <2>2. (qs[i].url \/ spec.gatewayURL) = TRUE
    BY <1>2 DEF validateAsyncQueueGatewayURL
  <2>3. dispatcher.queues[i] = [qs[i] EXCEPT !.url = TRUE]
    BY <1>1, <2>2
  <2> QED
    BY <2>1, <2>3, UrlSet
<1>4. DOMAIN dispatcher.queues = DOMAIN qs
  BY <1>1
<1> QED
  BY <1>3, <1>4

(***************************************************************************)
(* A queue the operator derives falls back to the default worker pool; one *)
(* the user wrote names a pool that is there.                              *)
(***************************************************************************)
LEMMA PoolsThere ==
  ASSUME NEW s \in Specs, PoolsNamed(s), NEW i \in DOMAIN DispatcherQueues(s)
  PROVE  PoolOf(DispatcherQueues(s)[i])
           \in {"default"} \cup {p.name : p \in s.workerPools}
<1>1. CASE s.queues # << >>
  <2>1. DispatcherQueues(s) = s.queues
    BY <1>1 DEF DispatcherQueues, redisQueues, sqlQueues
  <2> QED
    BY <2>1 DEF PoolsNamed
<1>2. CASE s.queues = << >>
  <2>1. \/ DispatcherQueues(s) = defaultAsyncQueues(s, s.redisGate)
        \/ DispatcherQueues(s) = defaultAsyncQueues(s, "")
    BY <1>2 DEF DispatcherQueues, redisQueues, sqlQueues
  <2>2. PICK name, gate : DispatcherQueues(s)[i] = Queue(name, gate)
    BY <2>1 DEF defaultAsyncQueues
  <2>3. PoolOf(Queue(name, gate)) = "default"
    BY DEF PoolOf, Queue
  <2> QED
    BY <2>2, <2>3
<1> QED
  BY <1>1, <1>2

(***************************************************************************)
(* The operator's two derivations agree: any request a model publishes is  *)
(* taken by some queue of the dispatcher.                                  *)
(***************************************************************************)
LEMMA EveryRequestServed ==
  ASSUME spec \in Specs, Rendered, PoolsNamed(spec),
         NEW m \in DOMAIN spec.models, NEW r,
         r.queue = RequestQueue(m), r.transport = processor.transport
  PROVE  \E i \in DOMAIN dispatcher.queues : Serves(i, r)
<1> DEFINE qs == DispatcherQueues(spec)
<1>1. r.queue \in QueueNames(qs)
  BY ProcessorNames, AcceptedQueues DEF Rendered, Published
<1>2. PICK i \in DOMAIN qs : r.queue = qs[i].name
  BY <1>1 DEF QueueNames
<1>3. i \in DOMAIN dispatcher.queues
  BY DispatcherEntries
<1>4. validateAsyncPrometheusGates(qs, spec)
  BY AcceptedQueues DEF Rendered
<1>5. Open(dispatcher.queues[i].gate)
  BY <1>3, <1>4, DispatcherEntries, DispatcherFields
  DEF Open, validateAsyncPrometheusGates
<1>6. \A p \in dispatcher.workerPools : Open(p.gate)
  BY <1>4, DispatcherFields DEF Open, validateAsyncPrometheusGates
<1>7. /\ r.transport = dispatcher.transport
      /\ r.queue = dispatcher.queues[i].name
      /\ dispatcher.queues[i].url
  BY <1>2, <1>3, DispatcherEntries, DispatcherFields
<1>8. PoolOf(dispatcher.queues[i]) = PoolOf(qs[i])
  BY <1>3, DispatcherEntries DEF PoolOf
<1>9. PoolOf(qs[i]) \in {"default"} \cup {p.name : p \in dispatcher.workerPools}
  BY <1>2, DispatcherFields, PoolsThere
<1> QED
  BY <1>3, <1>5, <1>6, <1>7, <1>8, <1>9 DEF Serves

-------------------------------------------------------------------------------
(***************************************************************************)
(* What is in the queues was put there for a published model, under the    *)
(* names of that model, and what is published and unanswered is there.     *)
(***************************************************************************)
Request(m) == [model |-> m, queue |-> RequestQueue(m),
               result |-> ResultQueue(m), transport |-> processor.transport]
Result(m)  == [model |-> m, queue |-> ResultQueue(m)]

DispatchInv ==
  /\ spec \in Specs
  /\ phase = "running" => Rendered
  /\ phase # "running" => published = {}
  /\ published \subseteq DOMAIN spec.models
  /\ requests \subseteq {Request(m) : m \in published}
  /\ results \subseteq {Result(m) : m \in published}
  /\ \A m \in published \ answered : Request(m) \in requests \/ Result(m) \in results

LEMMA DispatchInit == Init => DispatchInv
  BY DEF Init, DispatchInv

(***************************************************************************)
(* Over SQL two models never share a result queue, so a model that polls   *)
(* its queue finds only its own result.                                    *)
(***************************************************************************)
LEMMA OwnResults ==
  ASSUME DispatchInv, phase = "running", NEW m \in published, NEW r \in results,
         r.queue = ResultQueue(m), processor.transport = "sql" \/ r.model = m
  PROVE  r = Result(m)
<1>1. PICK n \in published : r = Result(n)
  BY DEF DispatchInv
<1>2. n \in DOMAIN spec.models /\ m \in DOMAIN spec.models
  BY DEF DispatchInv
<1>3. r.model = n /\ r.queue = ResultQueue(n)
  BY <1>1 DEF Result
<1>4. CASE r.model = m
  BY <1>1, <1>3, <1>4
<1>5. CASE processor.transport = "sql" /\ n # m
  <2>1. "sql" \in spec.transports
    BY <1>5, DispatcherFields DEF DispatchInv
  <2>2. sqlResultQueueNameFor(spec.models[m]) # sqlResultQueueNameFor(spec.models[n])
    BY <1>2, <1>5, <2>1 DEF DispatchInv, Rendered, validateSpec,
                            validateAsyncSQLConfig
  <2>3. ResultQueue(m) # ResultQueue(n)
    BY <1>2, <2>2, ProcessorNames DEF DispatchInv
  <2> QED
    BY <1>3, <2>3
<1> QED
  BY <1>1, <1>3, <1>4, <1>5

LEMMA DispatchStep ==
  ASSUME DispatchInv, [Next]_vars
  PROVE  DispatchInv'
<1>1. CASE Reject
  BY <1>1 DEF Reject, DispatchInv, Rendered, Request, Result, RequestQueue,
              ResultQueue
<1>2. CASE Render
  <2>1. Rendered' /\ spec' = spec /\ phase' = "running"
    BY <1>2 DEF Render, Rendered
  <2>2. published' = {} /\ requests' = {} /\ results' = {}
    BY <1>2 DEF Render, DispatchInv
  <2> QED
    BY <2>1, <2>2 DEF DispatchInv
<1>3. ASSUME NEW n \in ModelNames, Publish(n) PROVE DispatchInv'
  <2>1. /\ UNCHANGED <<spec, phase, processor, dispatcher, results, answered>>
        /\ phase = "running" /\ Rendered /\ n \in DOMAIN spec.models
        /\ published' = published \cup {n}
        /\ requests' = requests \cup {Request(n)}
    BY <1>3, ProcessorModels DEF Publish, DispatchInv, Request
  <2>2. \A m : Request(m)' = Request(m) /\ Result(m)' = Result(m)
    BY <2>1 DEF Request, Result, RequestQueue, ResultQueue
  <2>3. Rendered'
    BY <2>1 DEF Rendered
  <2> HIDE DEF Request, Result
  <2> QED
    BY <2>1, <2>2, <2>3 DEF DispatchInv
<1>4. ASSUME NEW n \in ModelNames, Dispatch(n) PROVE DispatchInv'
  <2>1. PICK r \in requests :
          /\ r.model = n /\ requests' = requests \ {r}
          /\ results' = results \cup {[model |-> n, queue |-> r.result]}
          /\ UNCHANGED <<spec, phase, processor, dispatcher, published, answered>>
    BY <1>4 DEF Dispatch
  <2>2. r = Request(n) /\ n \in published
    BY <2>1 DEF DispatchInv, Request
  <2>3. results' = results \cup {Result(n)}
    BY <2>1, <2>2 DEF Request, Result
  <2>4. \A m : Request(m)' = Request(m) /\ Result(m)' = Result(m)
    BY <2>1 DEF Request, Result, RequestQueue, ResultQueue
  <2>5. \A m \in published : Request(m) = r => m = n
    BY <2>2 DEF Request
  <2>6. Rendered' <=> Rendered
    BY <2>1 DEF Rendered
  <2> QED
    BY <2>1, <2>2, <2>3, <2>4, <2>5, <2>6 DEF DispatchInv
<1>5. ASSUME NEW n \in ModelNames, PollResult(n) PROVE DispatchInv'
  <2>1. PICK r \in results :
          /\ r.queue = ResultQueue(n)
          /\ processor.transport = "sql" \/ r.model = n
          /\ results' = results \ {r}
          /\ answered' = answered \cup ({r.model} \cap {n})
          /\ n \in published /\ phase = "running"
          /\ UNCHANGED <<spec, phase, processor, dispatcher, published, requests>>
    BY <1>5 DEF PollResult
  <2>2. r = Result(n)
    BY <2>1, OwnResults
  <2>3. answered' = answered \cup {n}
    BY <2>1, <2>2 DEF Result
  <2>4. \A m : Request(m)' = Request(m) /\ Result(m)' = Result(m)
    BY <2>1 DEF Request, Result, RequestQueue, ResultQueue
  <2>5. \A m \in published : Result(m) = r => m = n
    BY <2>2 DEF Result
  <2>6. Rendered' <=> Rendered
    BY <2>1 DEF Rendered
  <2> QED
    BY <2>1, <2>3, <2>4, <2>5, <2>6 DEF DispatchInv
<1>6. CASE UNCHANGED vars
  BY <1>6 DEF vars, DispatchInv, Rendered, Request, Result, RequestQueue,
              ResultQueue
<1> QED
  BY <1>1, <1>2, <1>3, <1>4, <1>5, <1>6 DEF Next

LEMMA DispatchAlways == Spec => []DispatchInv
  BY DispatchInit, DispatchStep, PTL DEF Spec

(***************************************************************************)
(* For every spec that validateSpec accepts, the dispatcher polls exactly  *)
(* the queues the processor publishes to, each once, over one transport,   *)
(* whether the queues are configured or derived.                           *)
(***************************************************************************)
THEOREM QueuesAgree == Spec => []QueuesOneForOne
<1>1. ASSUME DispatchInv, phase = "running"
      PROVE  /\ dispatcher.transport = processor.transport
             /\ QueueNames(dispatcher.queues) =
                  {RequestQueue(m) : m \in DOMAIN processor.models}
             /\ \A i, j \in DOMAIN dispatcher.queues :
                  i # j => dispatcher.queues[i].name # dispatcher.queues[j].name
  <2> DEFINE qs == DispatcherQueues(spec)
  <2>1. spec \in Specs /\ Rendered /\ validateSpec(spec)
    BY <1>1 DEF DispatchInv, Rendered
  <2>2. QueueNames(qs) = Published(spec) /\ NamedOnce(qs)
    BY <2>1, AcceptedQueues
  <2>3. /\ DOMAIN dispatcher.queues = DOMAIN qs
        /\ \A i \in DOMAIN qs : dispatcher.queues[i].name = qs[i].name
    BY <2>1, DispatcherEntries
  <2>4. QueueNames(dispatcher.queues) = QueueNames(qs)
    BY <2>3 DEF QueueNames
  <2>5. Published(spec) = {RequestQueue(m) : m \in DOMAIN processor.models}
    BY <2>1, ProcessorNames, ProcessorModels DEF Published
  <2> QED
    BY <2>1, <2>2, <2>3, <2>4, <2>5, DispatcherFields DEF NamedOnce
<1>2. DispatchInv => QueuesOneForOne
  BY <1>1 DEF QueuesOneForOne
<1> QED
  BY <1>2, DispatchAlways, PTL

(***************************************************************************)
(* For every spec that validateSpec accepts and whose queues name worker   *)
(* pools that are there, a published request that is not answered can      *)
(* still be: it waits in a queue the dispatcher serves, or its result      *)
(* waits where only its own model takes it.                                *)
(***************************************************************************)
THEOREM NothingStranded == Spec => []NoneStranded
<1>1. ASSUME DispatchInv, PoolsNamed(spec), NEW m \in published \ answered
      PROVE  \/ \E r \in requests, i \in DOMAIN dispatcher.queues :
                  r.model = m /\ Serves(i, r)
             \/ [model |-> m, queue |-> ResultQueue(m)] \in results
  <2>1. spec \in Specs /\ Rendered /\ m \in DOMAIN spec.models
    BY <1>1 DEF DispatchInv
  <2>2. CASE Result(m) \in results
    BY <2>2 DEF Result
  <2>3. CASE Request(m) \in requests
    <3>1. /\ Request(m).model = m /\ Request(m).queue = RequestQueue(m)
          /\ Request(m).transport = processor.transport
      BY DEF Request
    <3>2. \E i \in DOMAIN dispatcher.queues : Serves(i, Request(m))
      BY <1>1, <2>1, <3>1, EveryRequestServed
    <3> QED
      BY <2>3, <3>1, <3>2
  <2> QED
    BY <1>1, <2>2, <2>3 DEF DispatchInv
<1>2. DispatchInv => NoneStranded
  BY <1>1 DEF NoneStranded
<1> QED
  BY <1>2, DispatchAlways, PTL
================================================================================
