----------------------------- MODULE AsyncDispatch -----------------------------
(***************************************************************************)
(* What the operator makes of spec.processor: validateSpec, the values of  *)
(* the two charts, and, on top of them, the processor and the dispatcher   *)
(* that the charts deploy.  The two programs only meet in queues whose     *)
(* names each side derives on its own, so a spec that is accepted must     *)
(* make them agree.  Queue names are sequences: << >> is not set,          *)
(* <<"requests", p>> and <<"results", p>> are derived from the pool p,     *)
(* anything else was written by the user.                                  *)
(***************************************************************************)
EXTENDS Integers, Sequences, FiniteSets, FiniteSetsExt

CONSTANTS
  ModelOrder,  \* all model names, sorted
  Specs        \* the specs that may be submitted, records of
               \*   dbBackend, dispatchMode, pollTimeout, gatewayURL,
               \*   prometheusURL (the last three: set or not),
               \*   transports    which of redis and sql asyncConfig sets
               \*   models        a function from models to modelGateways
               \*   queues        a sequence of queuesConfig entries
               \*   redisGate     redis.gateType
               \*   workerPools   a set of worker pools

\* ModelGatewaySpec, AsyncQueueConfig and AsyncWorkerPool.
Names        == Seq(STRING)
ModelGateway == [pool : STRING, request : Names, result : Names]
QueueConfig  == [name : Names, url : BOOLEAN, gate : STRING, workerPool : STRING]
WorkerPool   == [name : STRING, gate : STRING]

ASSUME DispatchAssumption ==
  /\ ModelOrder \in Seq(STRING)
  /\ \A i, j \in 1..Len(ModelOrder) : i # j => ModelOrder[i] # ModelOrder[j]
  /\ \A s \in Specs :
       /\ DOMAIN s.models \subseteq {ModelOrder[i] : i \in 1..Len(ModelOrder)}
       /\ \A m \in DOMAIN s.models : s.models[m] \in ModelGateway
       /\ s.queues \in Seq(QueueConfig)
       /\ s.workerPools \subseteq WorkerPool
       /\ s.transports \subseteq {"redis", "sql"}
       /\ {s.pollTimeout, s.gatewayURL, s.prometheusURL} \subseteq BOOLEAN

VARIABLES
  spec,        \* spec.processor and what validateSpec looks at
  phase,       \* "submitted", "rejected" or "running"
  processor,   \* the queues of each model, from the batch-gateway chart
  dispatcher,  \* the transport and the queues, from the llm-d-async chart
  published,   \* models whose request has been published
  requests,    \* requests in the request queues
  results,     \* results in the result queues
  answered     \* models whose request has been answered

vars == <<spec, phase, processor, dispatcher, published, requests, results,
          answered>>

(***************************************************************************)
(* The names of the queues.                                                *)
(***************************************************************************)
asyncRequestQueueName(pool) == <<"requests", pool>>
asyncResultQueueName(pool)  == <<"results", pool>>

requestQueueNameFor(g) ==
  IF g.request # << >> THEN g.request ELSE asyncRequestQueueName(g.pool)

sqlResultQueueNameFor(g) ==
  IF g.result # << >> THEN g.result ELSE asyncResultQueueName(g.pool)

\* A sorted list of models, as their positions in ModelOrder.
sortedModelNames(s) ==
  {i \in 1..Len(ModelOrder) : ModelOrder[i] \in DOMAIN s.models}

sqlResultQueueName(s) ==
  IF DOMAIN s.models = {} THEN << >>
  ELSE sqlResultQueueNameFor(s.models[ModelOrder[Min(sortedModelNames(s))]])

(***************************************************************************)
(* The queues of the dispatcher: the configured ones, or one for each      *)
(* distinct request queue of the models, at the position of the first      *)
(* model that has it.                                                      *)
(***************************************************************************)
Queue(name, gate) == [name |-> name, url |-> FALSE, gate |-> gate,
                      workerPool |-> ""]

\* Mutant: models that share a request queue get it once each.
MutQueuesRepeated(s, gate) ==
  [i \in sortedModelNames(s) |->
     Queue(requestQueueNameFor(s.models[ModelOrder[i]]), gate)]

defaultAsyncQueues(s, gate) ==
  LET NameAt(i) == requestQueueNameFor(s.models[ModelOrder[i]])
      unseen == {i \in sortedModelNames(s) :
                   \A j \in sortedModelNames(s) : j < i => NameAt(j) # NameAt(i)}
  IN [i \in unseen |-> Queue(NameAt(i), gate)]

redisQueues(s) ==
  IF s.queues # << >> THEN s.queues ELSE defaultAsyncQueues(s, s.redisGate)

sqlQueues(s) ==
  IF s.queues # << >> THEN s.queues ELSE defaultAsyncQueues(s, "")

(***************************************************************************)
(* Validation.  Only acceptance is kept: the order of the checks decides   *)
(* nothing but the wording of the refusal.                                 *)
(***************************************************************************)
Published(s) == {requestQueueNameFor(s.models[m]) : m \in DOMAIN s.models}
QueueNames(qs) == {qs[i].name : i \in DOMAIN qs}

validateAsyncQueueCoverage(s) ==
  /\ \A i, j \in DOMAIN s.queues :
       i # j => s.queues[i].name # s.queues[j].name
  /\ Published(s) \subseteq QueueNames(s.queues)
  /\ QueueNames(s.queues) \subseteq Published(s)

validateAsyncQueueGatewayURL(qs, s) ==
  s.gatewayURL \/ \A i \in DOMAIN qs : qs[i].url

isPrometheusGate(gate) ==
  gate \in {"prometheus-budget", "prometheus-query", "prometheus-saturation"}

\* Mutant: the gates of the worker pools are not looked at.
MutQueueGatesOnly(qs, s) ==
  s.prometheusURL \/ \A i \in DOMAIN qs : ~isPrometheusGate(qs[i].gate)

validateAsyncPrometheusGates(qs, s) ==
  \/ s.prometheusURL
  \/ /\ \A i \in DOMAIN qs : ~isPrometheusGate(qs[i].gate)
     /\ \A p \in s.workerPools : ~isPrometheusGate(p.gate)

validateAsyncRedisConfig(s) ==
  /\ s.queues # << >> => validateAsyncQueueCoverage(s)
  /\ validateAsyncQueueGatewayURL(redisQueues(s), s)
  /\ validateAsyncPrometheusGates(redisQueues(s), s)

\* Mutant: only the pools are compared, not the result queues they resolve to.
MutPoolsOnly(s) ==
  /\ \A m, n \in DOMAIN s.models :
       m # n => s.models[m].pool # s.models[n].pool
  /\ s.queues # << >> => validateAsyncQueueCoverage(s)
  /\ validateAsyncQueueGatewayURL(sqlQueues(s), s)
  /\ validateAsyncPrometheusGates(sqlQueues(s), s)

validateAsyncSQLConfig(s) ==
  /\ \A m, n \in DOMAIN s.models : m # n =>
       /\ s.models[m].pool # s.models[n].pool
       /\ sqlResultQueueNameFor(s.models[m]) # sqlResultQueueNameFor(s.models[n])
  /\ s.queues # << >> => validateAsyncQueueCoverage(s)
  /\ validateAsyncQueueGatewayURL(sqlQueues(s), s)
  /\ validateAsyncPrometheusGates(sqlQueues(s), s)

validateSpec(s) ==
  /\ s.dbBackend \in {"", "postgresql"}
  /\ s.dispatchMode # "sync"
  /\ Cardinality(s.transports) = 1
  /\ s.pollTimeout
  /\ DOMAIN s.models # {}
  /\ \A m \in DOMAIN s.models :
       /\ s.models[m].pool # ""
       /\ (s.models[m].request = << >>) = (s.models[m].result = << >>)
  /\ "redis" \in s.transports => validateAsyncRedisConfig(s)
  /\ "sql" \in s.transports => validateAsyncSQLConfig(s)

(***************************************************************************)
(* The values of the two charts.  The names a model sets go to the         *)
(* processor; the ones it leaves out the processor derives itself.         *)
(***************************************************************************)
\* Only the keys that are not empty are set.
asyncModelGatewayToMap(g) ==
  [k \in (IF g.pool = "" THEN {} ELSE {"pool"})
           \cup {k \in {"request", "result"} : g[k] # << >>} |-> g[k]]

specToBatchHelmValues(s) ==
  [transport |-> IF "sql" \in s.transports THEN "sql" ELSE "redis-sortedset",
   models |-> [m \in DOMAIN s.models |-> asyncModelGatewayToMap(s.models[m])]]

asyncQueueValues(qs, gatewayURL) ==
  [i \in DOMAIN qs |-> [qs[i] EXCEPT !.url = qs[i].url \/ gatewayURL]]

specToAsyncHelmValues(s) ==
  IF "redis" \in s.transports
    THEN [transport |-> "redis-sortedset", resultQueue |-> << >>,
          queues |-> asyncQueueValues(redisQueues(s), s.gatewayURL),
          workerPools |-> s.workerPools, prometheusURL |-> s.prometheusURL]
    ELSE [transport |-> "sql", resultQueue |-> sqlResultQueueName(s),
          queues |-> asyncQueueValues(sqlQueues(s), s.gatewayURL),
          workerPools |-> s.workerPools, prometheusURL |-> s.prometheusURL]

NoProcessor  == [transport |-> "", models |-> << >>]
NoDispatcher == [transport |-> "", resultQueue |-> << >>, queues |-> << >>,
                 workerPools |-> {}, prometheusURL |-> FALSE]

Reject ==
  /\ phase = "submitted" /\ ~validateSpec(spec)
  /\ phase' = "rejected"
  /\ UNCHANGED <<spec, processor, dispatcher, published, requests, results,
                 answered>>

Render ==
  /\ phase = "submitted" /\ validateSpec(spec)
  /\ phase' = "running"
  /\ processor' = specToBatchHelmValues(spec)
  /\ dispatcher' = specToAsyncHelmValues(spec)
  /\ UNCHANGED <<spec, published, requests, results, answered>>

(***************************************************************************)
(* The deployed programs, as far as the operator's code relies on them.    *)
(* The processor stamps every request with its model's result queue.  It   *)
(* polls the result queue of each model; a SQL read takes whatever result  *)
(* is there, and one for another model is dropped.                         *)
(***************************************************************************)
RequestQueue(m) ==
  LET g == processor.models[m]
  IN IF "request" \in DOMAIN g THEN g.request ELSE asyncRequestQueueName(g.pool)

ResultQueue(m) ==
  LET g == processor.models[m]
  IN IF "result" \in DOMAIN g THEN g.result ELSE asyncResultQueueName(g.pool)

Publish(m) ==
  /\ phase = "running" /\ m \in DOMAIN processor.models \ published
  /\ published' = published \cup {m}
  /\ requests' = requests \cup {[model |-> m, queue |-> RequestQueue(m),
                                 result |-> ResultQueue(m),
                                 transport |-> processor.transport]}
  /\ UNCHANGED <<spec, phase, processor, dispatcher, results, answered>>

\* A gate that queries Prometheus never opens without its URL.
Open(gate) == ~isPrometheusGate(gate) \/ dispatcher.prometheusURL

\* A queue that names no worker pool belongs to the pool "default", which is
\* there without being configured.
PoolOf(q) == IF q.workerPool = "" THEN "default" ELSE q.workerPool

\* The queue at i of the dispatcher's list takes the request and lets it pass.
\* A queue of a pool that is not there has no workers.
Serves(i, r) ==
  /\ r.transport = dispatcher.transport
  /\ r.queue = dispatcher.queues[i].name
  /\ dispatcher.queues[i].url
  /\ Open(dispatcher.queues[i].gate)
  /\ LET pool == PoolOf(dispatcher.queues[i])
     IN /\ pool \in {"default"} \cup {p.name : p \in dispatcher.workerPools}
        /\ \A p \in dispatcher.workerPools : p.name = pool => Open(p.gate)

Dispatch(m) ==
  /\ phase = "running"
  /\ \E r \in requests, i \in DOMAIN dispatcher.queues :
       /\ r.model = m /\ Serves(i, r)
       /\ requests' = requests \ {r}
       /\ results' = results \cup {[model |-> m, queue |-> r.result]}
  /\ UNCHANGED <<spec, phase, processor, dispatcher, published, answered>>

PollResult(m) ==
  /\ phase = "running" /\ m \in published
  /\ \E r \in results :
       /\ r.queue = ResultQueue(m)
       /\ processor.transport = "sql" \/ r.model = m
       /\ results' = results \ {r}
       /\ answered' = answered \cup ({r.model} \cap {m})
  /\ UNCHANGED <<spec, phase, processor, dispatcher, published, requests>>

-------------------------------------------------------------------------------
Init ==
  /\ spec \in Specs /\ phase = "submitted"
  /\ processor = NoProcessor /\ dispatcher = NoDispatcher
  /\ published = {} /\ requests = {} /\ results = {} /\ answered = {}

ModelNames == {ModelOrder[i] : i \in 1..Len(ModelOrder)}

Next ==
  \/ Reject \/ Render
  \/ \E m \in ModelNames : Publish(m) \/ Dispatch(m) \/ PollResult(m)

Spec == Init /\ [][Next]_vars

\* The dispatcher polls its queues and the processor its result queues.
Fairness ==
  \A m \in ModelNames : WF_vars(Dispatch(m)) /\ WF_vars(PollResult(m))

FairSpec == Spec /\ Fairness

-------------------------------------------------------------------------------
(***************************************************************************)
(* "Match ... one for one: a missing queue leaves results stranded, and an *)
(* extra queue polls a queue that nothing writes to": once rendered, the   *)
(* dispatcher polls exactly the queues the processor publishes to, each    *)
(* once, over the same transport.                                          *)
(***************************************************************************)
QueuesOneForOne ==
  phase = "running" =>
    /\ dispatcher.transport = processor.transport
    /\ QueueNames(dispatcher.queues) =
         {RequestQueue(m) : m \in DOMAIN processor.models}
    /\ \A i, j \in DOMAIN dispatcher.queues :
         i # j => dispatcher.queues[i].name # dispatcher.queues[j].name

\* What workerPoolID asks of the manifest and validateSpec does not check:
\* "Must match a workerPools[].name entry".
PoolsNamed(s) ==
  \A i \in DOMAIN s.queues :
    PoolOf(s.queues[i]) \in {"default"} \cup {p.name : p \in s.workerPools}

(***************************************************************************)
(* No request of an accepted gateway whose queues name worker pools that   *)
(* are there is stranded: one that is not answered yet waits in a queue    *)
(* that the dispatcher takes it from, through gates that open, or its      *)
(* result waits in the queue that its model polls and no other model has   *)
(* taken it away.                                                          *)
(***************************************************************************)
NoneStranded ==
  PoolsNamed(spec) => \A m \in published \ answered :
    \/ \E r \in requests, i \in DOMAIN dispatcher.queues :
         r.model = m /\ Serves(i, r)
    \/ [model |-> m, queue |-> ResultQueue(m)] \in results

(***************************************************************************)
(* A spec that is accepted works, if its queues name worker pools that are *)
(* there: every request that its processor publishes is answered, to the   *)
(* model that asked.                                                       *)
(***************************************************************************)
RequestsAnswered ==
  \A m \in ModelNames :
    (m \in published /\ PoolsNamed(spec)) ~> (m \in answered)
================================================================================
