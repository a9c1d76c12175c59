--------------------------- MODULE MCAsyncDispatch ---------------------------
(***************************************************************************)
(* The submitted specs: all combinations of models and queues, and, for    *)
(* one model, all combinations of everything else validateSpec looks at.   *)
(* The user may write a name of their own or the name that another pool    *)
(* would derive.                                                           *)
(***************************************************************************)
EXTENDS AsyncDispatch

Order == <<"llama", "qwen">>

Gateways(pools) ==
  [pool : pools, request : {<< >>, <<"mine">>, <<"requests", "q">>},
   result : {<< >>, <<"mine">>, <<"results", "q">>}]

\* Every model with every gateway, the pool possibly left out.
TwoModels == (UNION {[ms -> Gateways({"p", "q"})] : ms \in SUBSET {"llama", "qwen"}})
                \cup [{"llama"} -> Gateways({""})]

Queues == [name : {<<"mine">>, <<"requests", "p">>, <<"requests", "q">>},
           url : BOOLEAN, gate : {""}, workerPool : {""}]
UpToTwo == {<< >>} \cup {<<a>> : a \in Queues}
                \cup {<<a, b>> : a \in Queues, b \in Queues}

QueueSpecs ==
  [dbBackend : {""}, dispatchMode : {""}, transports : {{"redis"}, {"sql"}},
   pollTimeout : {TRUE}, models : TwoModels, queues : UpToTwo,
   redisGate : {""}, workerPools : {{}}, gatewayURL : BOOLEAN,
   prometheusURL : {FALSE}]

OneModel == {[m \in {"llama"} |->
                [pool |-> "p", request |-> << >>, result |-> << >>]]}
GatedQueues == {<< >>} \cup
  {<<[name |-> <<"requests", "p">>, url |-> FALSE, gate |-> g,
      workerPool |-> w]>> :
     g \in {"", "redis-quota", "prometheus-query"}, w \in {"", "fast"}}
\* No pool, one the queue may name, the one it falls back to; gated or not.
Pools == {{}} \cup {{[name |-> n, gate |-> g]} :
                     n \in {"default", "fast"}, g \in {"", "prometheus-budget"}}

GateSpecs ==
  [dbBackend : {"", "postgresql", "redis"},
   dispatchMode : {"", "async", "sync"}, transports : SUBSET {"redis", "sql"},
   pollTimeout : BOOLEAN, models : OneModel, queues : GatedQueues,
   redisGate : {"", "prometheus-saturation"}, workerPools : Pools,
   gatewayURL : BOOLEAN, prometheusURL : BOOLEAN]

AllSpecs == QueueSpecs \cup GateSpecs
==============================================================================
