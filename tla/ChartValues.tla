------------------------------ MODULE ChartValues ------------------------------
(***************************************************************************)
(* From the manifest a user writes to the workloads the charts render:     *)
(* what the API server makes of the manifest, specToBatchHelmValues and    *)
(* specToAsyncHelmValues with their helpers, renderChart, and the label    *)
(* and images by which the operator finds its workloads again.             *)
(*                                                                         *)
(* A section of the spec is the path of an optional struct, or of a list   *)
(* with one entry; a manifest is a function from the sections it writes to *)
(* their fields.  Of a value only this matters: left out, zero (0, false,  *)
(* an empty list) or one of two others.  Chart values are pairs of a path  *)
(* and a value; keys that are the same for every spec are left out, and so *)
(* are empty maps, which Helm merges without effect.                       *)
(***************************************************************************)
EXTENDS Integers, Sequences, FiniteSets, SequencesExt

CONSTANT
  Starts   \* the gateways to start from, records of
           \*   manifest  the spec as created
           \*   images    the platform's image for each component
           \*   profile   the cluster's TLS profile, "" if there is none
           \*   secret    the name resolveSecret returns
           \*   maxEdits  bound: edits of the manifest

(***************************************************************************)
(* The API types: the fields of every section and how they are declared.   *)
(*   plain      omitted and zero are the same Go value                     *)
(*   optional   a pointer, or a list of which nil and empty differ         *)
(*   positive   a pointer to a number of at least 1                        *)
(*   defaulted  the API server fills in a default; zero can be written     *)
(*   tuned      the API server fills in a default; zero is refused         *)
(*   required   always written                                             *)
(*   paired     plain, but only to be written together with another        *)
(*   json       a map of strings, each read as JSON where it is JSON       *)
(***************************************************************************)
Plain(fs)     == [f \in fs |-> "plain"]
Optional(fs)  == [f \in fs |-> "optional"]
Positive(fs)  == [f \in fs |-> "positive"]
Defaulted(fs) == [f \in fs |-> "defaulted"]
Tuned(fs)     == [f \in fs |-> "tuned"]
Required(fs)  == [f \in fs |-> "required"]

APIServer == <<"apiServer">>
Processor == <<"processor">>
GC        == <<"gc">>
Async     == <<"processor", "asyncConfig">>
Workloads == {APIServer, Processor, GC, Async}
Config(w) == w \o <<"config">>

RootFields ==
  << >> :> (Optional({"extraEndpoints"}) @@ Plain({"imagePullSecrets"}))

ObservabilityFields ==
     <<"monitoring">> :> Plain({"enabled"})
  @@ <<"grafana">>    :> Plain({"enabled"})
  @@ <<"prometheusRule">> :> Plain({"enabled", "labels"})
  @@ <<"otel">> :> Plain({"endpoint", "insecure", "sampler", "samplerArg",
                          "redisTracing", "postgresqlTracing"})

ServingFields ==
     <<"tls">> :> Plain({"enabled", "secretName"})
  @@ <<"tls", "certManager">> :>
       (Required({"issuerName"}) @@ Tuned({"issuerKind"}) @@ Plain({"dnsNames"}))
  @@ <<"httpRoute">> :> Plain({"enabled", "annotations"})
  @@ <<"httpRoute", "parentRefs">> :>
       (Required({"name"}) @@ Plain({"namespace", "sectionName"}))

StorageFields ==
     <<"fileStorage">> :> << >>
  @@ <<"fileStorage", "s3">> :>
       (Required({"bucket"}) @@ Optional({"autoCreateBucket"})
          @@ Plain({"region", "endpoint", "accessKeyId", "prefix",
                    "usePathStyle"}))
  @@ <<"fileStorage", "fs">> :> (Required({"claimName"}) @@ Plain({"basePath"}))
  @@ <<"fileStorage", "retry">> :>
       (Defaulted({"maxRetries"}) @@ Tuned({"initialBackoff", "maxBackoff"}))

APIServerFields ==
     APIServer :> (Defaulted({"replicas"}) @@ Plain({"imagePullPolicy"}))
  @@ Config(APIServer) :>
       Plain({"port", "observabilityPort", "readTimeoutSeconds",
              "writeTimeoutSeconds", "idleTimeoutSeconds", "inputHeaders",
              "enablePprof"})
  @@ Config(APIServer) \o <<"batchAPI">> :>
       (Plain({"eventTTLSeconds", "passThroughHeaders"})
          @@ Optional({"extraEndpoints"}))
  @@ Config(APIServer) \o <<"fileAPI">> :>
       Plain({"defaultExpirationSeconds", "maxSizeBytes", "maxLineCount"})
  @@ Config(APIServer) \o <<"logging">> :> Plain({"verbosity"})

ProcessorFields ==
     Processor :> (Defaulted({"replicas"})
                     @@ Plain({"imagePullPolicy", "dispatchMode"}))
  @@ <<"processor", "modelGateways">> :> Plain({"inferenceObjective"})

ProcessorConfigFields ==
     Config(Processor) :>
       (Optional({"extraEndpoints", "sendFairnessHeader"})
          @@ Plain({"numWorkers", "inputFileDiskBudgetPercent",
                    "defaultOutputExpirationSeconds", "progressTTLSeconds",
                    "progressUpdateInterval", "routeKeyMethod", "enablePprof"}))
  @@ Config(Processor) \o <<"concurrency">> :>
       Plain({"global", "perEndpoint", "recovery"})
  @@ Config(Processor) \o <<"concurrency", "aimd">> :>
       (Optional({"enabled"}) @@ Plain({"min", "backoffFactor",
                                        "additiveIncrease"}))
  @@ Config(Processor) \o <<"resumable">> :>
       Plain({"leaseDuration", "finalizeConcurrency", "finalizeTimeout"})
  @@ Config(Processor) \o <<"logging">> :> Plain({"verbosity"})

GCFields ==
     GC :> (Defaulted({"replicas"}) @@ Tuned({"interval"})
              @@ Plain({"imagePullPolicy"}))
  @@ Config(GC) :> Plain({"dryRun", "maxConcurrency"})
  @@ Config(GC) \o <<"logging">> :> Plain({"verbosity"})
  @@ Config(GC) \o <<"reconciler">> :>
       (Defaulted({"enabled"}) @@ Tuned({"interval"}))

QueueFields == Required({"name"})
                 @@ Plain({"workerPoolID", "igwBaseURL", "requestPathURL",
                           "gateType", "gateParams"})

AsyncFields ==
     Async :> (Defaulted({"replicas"}) @@ Required({"resultPollTimeout"})
                 @@ Tuned({"concurrency", "drainTimeout"})
                 @@ Plain({"imagePullPolicy", "prometheusURL",
                           "prometheusCacheTTL"}))
  @@ Async \o <<"inferenceGateway">> :> Plain({"url"})
  @@ Async \o <<"redis">> :>
       (Defaulted({"requestPathURL"}) @@ Tuned({"pollIntervalMs", "batchSize"})
          @@ Plain({"gateType", "gateParams"}))
  @@ Async \o <<"redis", "queuesConfig">> :> QueueFields
  @@ Async \o <<"sql">> :>
       (Tuned({"pollIntervalMs", "batchSize"})
          @@ Positive({"maxConnections", "resultBatchSize", "leaseTTLSeconds",
                       "handoffTimeoutSeconds"}))
  @@ Async \o <<"sql", "queuesConfig">> :> QueueFields

DispatchFields ==
     Async \o <<"workerPools">> :>
       (Required({"name"}) @@ Plain({"workers", "gateType", "gateParams"}))
  @@ Async \o <<"tls">> :>
       (Plain({"secretName", "insecureSkipVerify", "caCertKey"})
          @@ [f \in {"certKey", "keyKey"} |-> "paired"])
  @@ Async \o <<"transformConfig">> :> << >>
  @@ Async \o <<"transformConfig", "requestTransforms">> :>
       (Required({"name", "type"}) @@ [parameters |-> "json"])
  @@ Async \o <<"modelServerMonitor">> :>
       (Plain({"enabled", "selector"}) @@ Tuned({"interval"})
          @@ Defaulted({"port", "path"}))

\* corev1.ResourceRequirements; "other" is any other resource name.
ResourceFields ==
  [p \in {w \o r : w \in Workloads,
                   r \in {<<"resources">>, <<"resources", "limits">>,
                          <<"resources", "requests">>}}
     |-> IF Last(p) = "resources" THEN << >>
                                  ELSE Plain({"cpu", "memory", "other"})]

Fields == RootFields @@ ObservabilityFields @@ ServingFields @@ StorageFields
            @@ APIServerFields @@ ProcessorFields @@ ProcessorConfigFields
            @@ GCFields @@ AsyncFields @@ DispatchFields @@ ResourceFields

Sections == DOMAIN Fields

Kinds == {"plain", "optional", "positive", "defaulted", "tuned", "required",
          "paired", "json"}

Writable(kind) ==
  CASE kind \in {"plain", "positive", "tuned"} -> {"absent", "set"}
    [] kind \in {"optional", "defaulted"}      -> {"absent", "zero", "set"}
    [] kind = "required"                       -> {"set", "other"}
    [] kind = "paired"                         -> {"absent", "set", "other"}
    [] kind = "json"            -> {"absent", "text", "quoted", "literal"}

\* The Go value the operator reads for what the manifest says.
Decoded(kind, v) ==
  IF v # "absent" THEN v
  ELSE CASE kind \in {"plain", "paired"}              -> "zero"
         [] kind \in {"optional", "positive", "json"} -> "nil"
         [] kind \in {"defaulted", "tuned"}           -> "default"

Decode(m) == [p \in DOMAIN m |->
                [f \in DOMAIN Fields[p] |-> Decoded(Fields[p][f], m[p][f])]]

(***************************************************************************)
(* The CRD's validation rules, as far as they relate sections and fields.  *)
(***************************************************************************)
Writes(m, p, f) == p \in DOMAIN m /\ m[p][f] # "absent"

SectionsNested(m)   == \A p \in DOMAIN m : p = << >> \/ Front(p) \in DOMAIN m
RequiredSections(m) == Workloads \cup {<<"fileStorage">>} \subseteq DOMAIN m

OneStorage(m) ==
  (<<"fileStorage", "s3">> \in DOMAIN m) # (<<"fileStorage", "fs">> \in DOMAIN m)

SomeTransport(m) ==
  Async \o <<"redis">> \in DOMAIN m \/ Async \o <<"sql">> \in DOMAIN m

OneTransport(m) ==
  ~(Async \o <<"redis">> \in DOMAIN m /\ Async \o <<"sql">> \in DOMAIN m)

ServingCertificate(m) ==
  LET certManager == <<"tls", "certManager">> \in DOMAIN m
  IN /\ Writes(m, <<"tls">>, "enabled") =>
          Writes(m, <<"tls">>, "secretName") \/ certManager
     /\ ~(Writes(m, <<"tls">>, "secretName") /\ certManager)

AsyncCertificate(m) ==
  LET tls == Async \o <<"tls">>
  IN /\ (\E f \in {"caCertKey", "certKey", "keyKey"} : Writes(m, tls, f)) =>
          Writes(m, tls, "secretName")
     /\ Writes(m, tls, "certKey") = Writes(m, tls, "keyKey")

Admitted(m) ==
  /\ SectionsNested(m) /\ RequiredSections(m)
  /\ OneStorage(m)
  /\ SomeTransport(m) /\ OneTransport(m)
  /\ ServingCertificate(m) /\ AsyncCertificate(m)

\* The CRD's schema: known sections, each with all its fields.
WellFormed(m) ==
  \A p \in DOMAIN m :
    /\ p \in Sections /\ DOMAIN m[p] = DOMAIN Fields[p]
    /\ \A f \in DOMAIN m[p] : m[p][f] \in Writable(Fields[p][f])

\* What the API server has stored is well formed and admitted.
ASSUME ChartAssumption ==
  \A s \in Starts :
    /\ WellFormed(s.manifest) /\ Admitted(s.manifest)
    /\ s.images \in [apiserver : Seq(STRING), processor : Seq(STRING),
                      gc : Seq(STRING), async : Seq(STRING)]
    /\ s.secret # "nil" /\ s.profile # "nil"   \* names, or ""
    /\ s.maxEdits \in Nat

\* Three facts of the table of fields: every field has a kind, the three
\* endpoint lists tell nil from empty, and the fields that the conversions pass
\* on without a test cannot be nil.
ASSUME FieldKinds ==
  \A p \in Sections : \A f \in DOMAIN Fields[p] : Fields[p][f] \in Kinds

ASSUME EndpointLists ==
  \A p \in {<< >>, Config(APIServer) \o <<"batchAPI">>, Config(Processor)} :
    /\ "extraEndpoints" \in DOMAIN Fields[p]
    /\ Fields[p]["extraEndpoints"] = "optional"

NeverNil(p, fs) ==
  \A f \in fs : /\ f \in DOMAIN Fields[p]
               /\ Fields[p][f] \in {"plain", "required", "defaulted"}

ASSUME UntestedFields ==
  /\ NeverNil(<<"fileStorage", "s3">>, {"usePathStyle"})
  /\ NeverNil(<<"otel">>, {"insecure", "postgresqlTracing"})
  /\ NeverNil(<<"otel">>, {"insecure", "redisTracing"})
  /\ NeverNil(<<"httpRoute", "parentRefs">>, {"name"})
  /\ NeverNil(<<"grafana">>, {"enabled"})
  /\ NeverNil(<<"prometheusRule">>, {"enabled"})
  /\ NeverNil(Config(GC) \o <<"reconciler">>, {"enabled"})
  /\ NeverNil(Async, {"resultPollTimeout"})
  /\ NeverNil(Async \o <<"inferenceGateway">>, {"url"})
  /\ NeverNil(Async \o <<"workerPools">>, {"name"})
  /\ NeverNil(Async \o <<"workerPools">>, {"workers"})
  /\ NeverNil(Async \o <<"tls">>, {"insecureSkipVerify"})
  /\ NeverNil(Async \o <<"transformConfig", "requestTransforms">>, {"name", "type"})

VARIABLES
  manifest,  \* the spec as its user wrote it
  seen,      \* the manifest of the last rendering
  settings,  \* the chart values of the last rendering that come from the spec
  objects,   \* the workloads of the last rendering
  start,     \* where this behaviour started
  edits      \* how often the manifest was edited

vars == <<manifest, seen, settings, objects, start, edits>>

(***************************************************************************)
(* How a field becomes a chart value: setIfNotEmpty and the comparisons    *)
(* with 0 and len(), the comparisons with nil, and unconditionally.        *)
(* Fields keep their name; FieldAs gives one another.                      *)
(***************************************************************************)
Values(s, at, fs, to, unless) ==
  IF at \notin DOMAIN s THEN {}
  ELSE {<<Append(to, f), s[at][f]>> : f \in {g \in fs : s[at][g] \notin unless}}

setIfNotEmpty(s, at, fs, to) == Values(s, at, fs, to, {"nil", "zero"})
SetAlways(s, at, fs, to)     == Values(s, at, fs, to, {})

\* Mutant: the pointer is passed on without the test for nil.
MutNilPassed(s, at, fs, to) == SetAlways(s, at, fs, to)

SetIfNotNil(s, at, fs, to) == Values(s, at, fs, to, {"nil"})

FieldAs(values, key) == {<<Append(Front(v[1]), key), v[2]>> : v \in values}

Enabled(s, at) == at \in DOMAIN s /\ s[at].enabled \notin {"nil", "zero"}

resourceRequirementsToMap(s, at, to) ==
  UNION {setIfNotEmpty(s, at \o <<"resources", r>>, {"cpu", "memory"},
                       to \o <<"resources", r>>) : r \in {"limits", "requests"}}

\* replicaCount, image.pullPolicy and resources, the same for three workloads.
WorkloadValues(s, at, to) ==
  FieldAs(SetIfNotNil(s, at, {"replicas"}, to), "replicaCount")
    \cup FieldAs(setIfNotEmpty(s, at, {"imagePullPolicy"}, to \o <<"image">>),
                 "pullPolicy")
    \cup resourceRequirementsToMap(s, at, to)

Scraped(s, to) ==
  IF Enabled(s, <<"monitoring">>) THEN {<<to, "set">>} ELSE {}

FileClient(s) ==
  LET to == <<"global", "fileClient">>
      s3 == <<"fileStorage", "s3">>
      fs == <<"fileStorage", "fs">>
  IN {<<Append(to, "type"), Last(p)>> : p \in {s3, fs} \cap DOMAIN s}
       \cup setIfNotEmpty(s, s3, {"region", "bucket", "endpoint", "accessKeyId",
                                  "prefix"}, Append(to, "s3"))
       \cup SetAlways(s, s3, {"usePathStyle"}, Append(to, "s3"))
       \cup SetIfNotNil(s, s3, {"autoCreateBucket"}, Append(to, "s3"))
       \cup setIfNotEmpty(s, fs, {"basePath"}, Append(to, "fs"))
       \cup FieldAs(setIfNotEmpty(s, fs, {"claimName"}, Append(to, "fs")),
                    "pvcName")
       \cup SetIfNotNil(s, <<"fileStorage", "retry">>, {"maxRetries"},
                        Append(to, "retry"))
       \cup setIfNotEmpty(s, <<"fileStorage", "retry">>,
                          {"initialBackoff", "maxBackoff"}, Append(to, "retry"))

GlobalValues(s, secretName) ==
  {<<<<"global", "secretName">>, secretName>>}
    \cup SetIfNotNil(s, << >>, {"extraEndpoints"}, <<"global">>)
    \cup FieldAs(setIfNotEmpty(s, Config(APIServer) \o <<"fileAPI">>,
                               {"maxSizeBytes"}, <<"global">>),
                 "maxInputFileSizeBytes")
    \cup FileClient(s)
    \cup setIfNotEmpty(s, <<"otel">>, {"endpoint", "sampler", "samplerArg"},
                       <<"global", "otel">>)
    \cup SetAlways(s, <<"otel">>, {"insecure", "postgresqlTracing"},
                   <<"global", "otel">>)
    \cup setIfNotEmpty(s, << >>, {"imagePullSecrets"}, <<"global">>)

\* Mutant: an empty list of the API server's own counts as none.
MutEmptyListDropped(s, at, to) ==
  setIfNotEmpty(s, at, {"eventTTLSeconds", "passThroughHeaders",
                        "extraEndpoints"}, to)

BatchAPIValues(s, at, to) ==
  setIfNotEmpty(s, at, {"eventTTLSeconds", "passThroughHeaders"}, to)
    \cup SetIfNotNil(s, at, {"extraEndpoints"}, to)

apiServerConfigToMap(s) ==
  LET at == Config(APIServer)
      to == <<"apiserver", "config">>
  IN setIfNotEmpty(s, at, {"port", "observabilityPort", "readTimeoutSeconds",
                           "writeTimeoutSeconds", "idleTimeoutSeconds",
                           "inputHeaders", "enablePprof"}, to)
       \cup BatchAPIValues(s, at \o <<"batchAPI">>, Append(to, "batchAPI"))
       \cup setIfNotEmpty(s, at \o <<"fileAPI">>,
                          {"defaultExpirationSeconds", "maxLineCount"},
                          Append(to, "fileAPI"))

\* The cluster's TLS profile applies whether or not the spec enables TLS.
TLSValues(s, profile) ==
  LET to == <<"apiserver", "tls">>
      cm == <<"tls", "certManager">>
  IN {<<Append(to, k), profile>> :
        k \in IF profile = "" THEN {}
              ELSE {"minVersion", "cipherSuites", "nextProtos"}}
       \cup IF ~Enabled(s, <<"tls">>) THEN {}
            ELSE setIfNotEmpty(s, <<"tls">>, {"enabled", "secretName"}, to)
                   \cup {<<to \o <<"certManager", "enabled">>, "set">> :
                           p \in {cm} \cap DOMAIN s}
                   \cup setIfNotEmpty(s, cm, {"issuerName", "issuerKind",
                                              "dnsNames"},
                                      Append(to, "certManager"))

HTTPRouteValues(s) ==
  LET to == <<"apiserver", "httpRoute">>
  IN IF ~Enabled(s, <<"httpRoute">>) THEN {}
     ELSE setIfNotEmpty(s, <<"httpRoute">>, {"enabled", "annotations"}, to)
            \cup SetAlways(s, <<"httpRoute", "parentRefs">>, {"name"},
                           Append(to, "parentRefs"))
            \cup setIfNotEmpty(s, <<"httpRoute", "parentRefs">>,
                               {"namespace", "sectionName"},
                               Append(to, "parentRefs"))

APIServerValues(s, profile) ==
  WorkloadValues(s, APIServer, <<"apiserver">>)
    \cup apiServerConfigToMap(s)
    \cup setIfNotEmpty(s, Config(APIServer) \o <<"logging">>, {"verbosity"},
                       <<"apiserver", "logging">>)
    \cup TLSValues(s, profile)
    \cup HTTPRouteValues(s)
    \cup Scraped(s, <<"apiserver", "serviceMonitor">>)

\* Mutant: the pointer to false is taken for nil.
MutFalseDropped(s, at, to) ==
  setIfNotEmpty(s, at, {"enabled", "min", "backoffFactor", "additiveIncrease"}, to)

AIMDValues(s, at, to) ==
  SetIfNotNil(s, at, {"enabled"}, to)
    \cup setIfNotEmpty(s, at, {"min", "backoffFactor", "additiveIncrease"}, to)

mergeProcessorConfig(s) ==
  LET at == Config(Processor)
      to == <<"processor", "config">>
  IN setIfNotEmpty(s, at, {"numWorkers", "inputFileDiskBudgetPercent",
                           "defaultOutputExpirationSeconds",
                           "progressUpdateInterval", "routeKeyMethod",
                           "enablePprof"}, to)
       \cup SetIfNotNil(s, at, {"extraEndpoints", "sendFairnessHeader"}, to)
       \cup setIfNotEmpty(s, at \o <<"concurrency">>,
                          {"global", "perEndpoint", "recovery"},
                          Append(to, "concurrency"))
       \cup AIMDValues(s, at \o <<"concurrency", "aimd">>,
                       to \o <<"concurrency", "aimd">>)
       \cup setIfNotEmpty(s, at \o <<"resumable">>,
                          {"leaseDuration", "finalizeConcurrency",
                           "finalizeTimeout"}, Append(to, "resumable"))

ProcessorValues(s) ==
  LET to  == <<"processor", "config", "asyncDispatch">>
      sql == Async \o <<"sql">>
  IN WorkloadValues(s, Processor, <<"processor">>)
       \cup SetAlways(s, Async, {"resultPollTimeout"}, to)
       \cup {<<Append(to, "transport"), IF sql \in DOMAIN s THEN "sql"
                                        ELSE "redis-sortedset">>}
       \cup SetIfNotNil(s, sql, {"maxConnections"}, to)
       \cup setIfNotEmpty(s, <<"processor", "modelGateways">>,
                          {"inferenceObjective"}, Append(to, "models"))
       \cup mergeProcessorConfig(s)
       \cup setIfNotEmpty(s, Config(Processor) \o <<"logging">>, {"verbosity"},
                          <<"processor", "logging">>)
       \cup Scraped(s, <<"processor", "podMonitor">>)

\* Mutant: the reconciler's interval is written into the collector's map.
MutOneInterval(s, at, to) ==
  SetAlways(s, at, {"enabled"}, Append(to, "reconciler"))
    \cup setIfNotEmpty(s, at, {"interval"}, Append(to, "collector"))

GCReconcilerValues(s, at, to) ==
  SetAlways(s, at, {"enabled"}, Append(to, "reconciler"))
    \cup setIfNotEmpty(s, at, {"interval"}, Append(to, "reconciler"))

GCValues(s) ==
  LET to == <<"gc", "config">>
  IN WorkloadValues(s, GC, <<"gc">>)
       \cup setIfNotEmpty(s, GC, {"interval"}, Append(to, "collector"))
       \cup setIfNotEmpty(s, Config(GC), {"dryRun"}, to)
       \cup setIfNotEmpty(s, Config(GC), {"maxConcurrency"},
                          Append(to, "collector"))
       \cup setIfNotEmpty(s, Config(GC) \o <<"logging">>, {"verbosity"},
                          <<"gc", "logging">>)
       \cup GCReconcilerValues(s, Config(GC) \o <<"reconciler">>, to)
       \cup Scraped(s, <<"gc", "podMonitor">>)

specToBatchHelmValues(s, secretName, profile) ==
  GlobalValues(s, secretName) \cup APIServerValues(s, profile)
    \cup ProcessorValues(s) \cup GCValues(s)
    \cup SetAlways(s, <<"grafana">>, {"enabled"}, <<"grafana", "dashboards">>)
    \cup SetAlways(s, <<"prometheusRule">>, {"enabled"}, <<"prometheusRule">>)
    \cup setIfNotEmpty(s, <<"prometheusRule">>, {"labels"}, <<"prometheusRule">>)

(***************************************************************************)
(* The queues of the dispatcher: the configured one, or the one derived    *)
(* from the model, which takes its settings from the Redis section.  Their *)
(* names are AsyncDispatch's matter.                                       *)
(***************************************************************************)
QueueKey(f) ==
  CASE f = "name" -> "queue_name"   [] f = "workerPoolID" -> "worker_pool_id"
    [] f = "gateType" -> "gate_type" [] f = "gateParams"  -> "gate_params"
    [] f = "requestPathURL" -> "request_path_url"

asyncQueueValues(s, transport, to) ==
  LET queue   == Append(transport, "queuesConfig")
      gateway == Async \o <<"inferenceGateway">>
      derived == IF Last(transport) = "redis"
                 THEN {"requestPathURL", "gateType", "gateParams"} ELSE {}
      own     == setIfNotEmpty(s, queue, {"igwBaseURL"}, to)
  IN (UNION {FieldAs(IF queue \in DOMAIN s THEN setIfNotEmpty(s, queue, {f}, to)
                     ELSE setIfNotEmpty(s, transport, {f} \cap derived, to),
                     QueueKey(f)) : f \in {"name", "workerPoolID", "requestPathURL",
                                           "gateType", "gateParams"}})
       \cup IF own # {} THEN FieldAs(own, "igw_base_url")
            ELSE {<<Append(to, "igw_base_url"), "inherited">> :
                    v \in setIfNotEmpty(s, gateway, {"url"}, to)}

TransportKey(f) ==
  CASE f = "pollIntervalMs"  -> "poll_interval_ms"
    [] f = "batchSize"       -> "batch_size"
    [] f = "resultBatchSize" -> "result_batch_size"
    [] f = "leaseTTLSeconds" -> "lease_ttl_seconds"
    [] f = "handoffTimeoutSeconds" -> "handoff_timeout_seconds"

TransportValues(s, secretName) ==
  LET transport == IF Async \o <<"redis">> \in DOMAIN s THEN Async \o <<"redis">>
                   ELSE Async \o <<"sql">>
      to        == <<"ap", "transportConfig">>
      numbers   == DOMAIN s[transport] \cap
                     {"pollIntervalMs", "batchSize", "resultBatchSize",
                      "leaseTTLSeconds", "handoffTimeoutSeconds"}
  IN {<<<<"ap", "transport">>, Last(transport)>>,
      <<Append(to, "urlSecret"), secretName>>}
       \cup (UNION {FieldAs(SetIfNotNil(s, transport, {f}, to), TransportKey(f)) :
                      f \in numbers})
       \cup FieldAs(setIfNotEmpty(s, <<"otel">>, IF Last(transport) = "redis"
                                                 THEN {"redisTracing"} ELSE {},
                                  to), "enable_tracing")
       \cup asyncQueueValues(s, transport, Append(to, "queues"))

\* Mutant: parameters are passed on as the strings they are.
MutLiteralsQuoted(values) == values

\* A parameter that is a JSON value other than a string is passed on parsed.
toJSONAwareMap(values) ==
  {<<v[1], IF v[2] = "literal" THEN "parsed" ELSE v[2]>> : v \in values}

AsyncExtras(s) ==
  LET tls    == Async \o <<"tls">>
      pools  == Async \o <<"workerPools">>
      trans  == Async \o <<"transformConfig", "requestTransforms">>
      msm    == Async \o <<"modelServerMonitor">>
  IN FieldAs(SetAlways(s, pools, {"name"}, <<"ap", "workerPools">>), "id")
       \cup SetAlways(s, pools, {"workers"}, <<"ap", "workerPools">>)
       \cup FieldAs(setIfNotEmpty(s, pools, {"gateType"}, <<"ap", "workerPools">>),
                    "gate_type")
       \cup FieldAs(setIfNotEmpty(s, pools, {"gateParams"},
                                  <<"ap", "workerPools">>), "gate_params")
       \cup setIfNotEmpty(s, tls, {"secretName", "caCertKey", "certKey",
                                   "keyKey"}, <<"ap", "tls">>)
       \cup SetAlways(s, tls, {"insecureSkipVerify"}, <<"ap", "tls">>)
       \cup SetAlways(s, trans, {"name", "type"}, <<"ap", "transforms">>)
       \cup toJSONAwareMap(setIfNotEmpty(s, trans, {"parameters"},
                                         <<"ap", "transforms">>))
       \cup IF ~Enabled(s, msm) THEN {}
            ELSE setIfNotEmpty(s, msm, {"enabled", "selector", "port", "path",
                                        "interval"}, <<"ap", "modelServerMonitor">>)

specToAsyncHelmValues(s, secretName) ==
  FieldAs(SetIfNotNil(s, Async, {"replicas"}, <<"ap">>), "replicaCount")
    \cup SetIfNotNil(s, Async, {"concurrency"}, <<"ap">>)
    \cup setIfNotEmpty(s, Async, {"imagePullPolicy", "drainTimeout",
                                  "prometheusURL", "prometheusCacheTTL"}, <<"ap">>)
    \cup FieldAs(SetAlways(s, Async \o <<"inferenceGateway">>, {"url"}, <<"ap">>),
                 "igwBaseURL")
    \cup resourceRequirementsToMap(s, Async, <<"ap">>)
    \cup TransportValues(s, secretName)
    \cup AsyncExtras(s)
    \cup setIfNotEmpty(s, <<"otel">>, {"endpoint", "sampler", "samplerArg"},
                       <<"ap", "otel">>)
    \cup SetAlways(s, <<"otel">>, {"insecure", "redisTracing"}, <<"ap", "otel">>)
    \cup setIfNotEmpty(s, << >>, {"imagePullSecrets"}, <<"ap">>)
    \cup Scraped(s, <<"ap", "podMonitor">>)
    \cup setIfNotEmpty(s, <<"grafana">>, {"enabled"}, <<"ap", "grafana">>)
    \cup IF ~Enabled(s, <<"prometheusRule">>) THEN {}
         ELSE setIfNotEmpty(s, <<"prometheusRule">>, {"enabled", "labels"},
                            <<"ap", "prometheusRule">>)

(***************************************************************************)
(* Images.  A reference is the sequence of its words and separators; it is *)
(* split at its last colon, unless that belongs to a registry's port, and  *)
(* the charts print the two parts with a colon between them.               *)
(***************************************************************************)
\* Mutant: the reference is split at its first colon.
MutSplitFirst(image) ==
  LET colons == {i \in DOMAIN image : image[i] = ":"}
  IN IF colons = {} THEN <<image, <<"latest">>>>
     ELSE <<SubSeq(image, 1, Min(colons) - 1),
            SubSeq(image, Min(colons) + 1, Len(image))>>

splitImage(image) ==
  LET colons == {i \in DOMAIN image : image[i] = ":"}
      after  == SubSeq(image, Max(colons) + 1, Len(image))
  IN IF colons = {} \/ (colons # {} /\ Contains(after, "/"))
     THEN <<image, <<"latest">>>>
     ELSE <<SubSeq(image, 1, Max(colons) - 1), after>>

ChartImage(repository, tag) == repository \o <<":">> \o tag

(***************************************************************************)
(* Rendering.  A chart's templates come out as documents: workloads, blank *)
(* ones and the notes for the person who installs it.  The batch-gateway   *)
(* chart labels its workloads with their component, llm-d-async does not.  *)
(***************************************************************************)
Document(name, kind, label, split) ==
  [name |-> name, kind |-> kind, label |-> label,
   image |-> ChartImage(split[1], split[2])]

Notes == Document("NOTES.txt", "", "", << << >>, << >> >>)
Blank == Document("blank", "", "", << << >>, << >> >>)

BatchChart(images) ==
  {Notes, Blank,
   Document("apiserver", "Deployment", "apiserver", splitImage(images.apiserver)),
   Document("processor", "StatefulSet", "processor", splitImage(images.processor)),
   Document("gc", "Deployment", "gc", splitImage(images.gc))}

AsyncChart(images) ==
  {Notes, Blank,
   Document("async", "Deployment", "", splitImage(images.async))}

renderChart(documents, label) ==
  {[d EXCEPT !.label = IF label = "" THEN d.label ELSE label] :
     d \in {e \in documents : e.kind # "" /\ e.name # "NOTES.txt"}}

RenderBatchChart(images) == renderChart(BatchChart(images), "")

\* Mutant: the objects of the async chart keep their labels.
MutAsyncUnlabelled(images) == renderChart(AsyncChart(images), "")

RenderAsyncChart(images) == renderChart(AsyncChart(images), "async-processor")

(***************************************************************************)
(* A user submits another manifest; the operator renders the stored one,   *)
(* on every reconcile anew.  (An edit before the first rendering is just   *)
(* another start.)                                                         *)
(***************************************************************************)
Submit(m) ==
  /\ seen # << >> /\ edits < start.maxEdits
  /\ m # manifest /\ Admitted(m)
  /\ manifest' = m /\ edits' = edits + 1
  /\ UNCHANGED <<seen, settings, objects, start>>

SetField(p, f) ==
  \E v \in Writable(Fields[p][f]) : Submit([manifest EXCEPT ![p][f] = v])

EmptySection(p) ==
  [f \in DOMAIN Fields[p] |-> IF Fields[p][f] = "required" THEN "set"
                                                           ELSE "absent"]

AddSection(p) ==
  /\ p \notin DOMAIN manifest
  /\ LET added == {q \in Sections \ DOMAIN manifest : IsPrefix(q, p)}
     IN Submit([q \in added \cup DOMAIN manifest |->
                  IF q \in added THEN EmptySection(q) ELSE manifest[q]])

DropSection(p) ==
  Submit([q \in {q \in DOMAIN manifest : ~IsPrefix(p, q)} |-> manifest[q]])

Render ==
  /\ seen' = manifest
  /\ LET s == Decode(manifest)
     IN settings' = specToBatchHelmValues(s, start.secret, start.profile)
                      \cup specToAsyncHelmValues(s, start.secret)
  /\ objects' = RenderBatchChart(start.images) \cup RenderAsyncChart(start.images)
  /\ UNCHANGED <<manifest, start, edits>>

-------------------------------------------------------------------------------
Init ==
  /\ start \in Starts
  /\ manifest = start.manifest /\ seen = << >>
  /\ settings = {} /\ objects = {} /\ edits = 0

Next ==
  \/ Render
  \/ \E p \in DOMAIN manifest :
       DropSection(p) \/ \E f \in DOMAIN manifest[p] : SetField(p, f)
  \/ \E p \in Sections : AddSection(p)

Spec == Init /\ [][Next]_vars

-------------------------------------------------------------------------------
Part(values, part) == {v \in values : v[1][1] = part}
Parts == {"global", "apiserver", "processor", "gc", "grafana",
          "prometheusRule", "ap"}

\* The component for which updateStatus counts a workload with this label.
setComponentStatus(label) ==
  CASE label = "apiserver" -> "apiserver" [] label = "processor" -> "processor"
    [] label = "gc" -> "gc"               [] label = "async-processor" -> "async"
    [] OTHER -> ""

(***************************************************************************)
(* The values and the objects are of the kinds that the charts and the     *)
(* cluster take: every value is under a key of one of the charts, no       *)
(* transform parameter is left a string where it is another JSON value     *)
(* (toJSONAwareMap), and what renderChart keeps of the charts' documents   *)
(* are workloads of a known component.                                     *)
(***************************************************************************)
TypeOK ==
  /\ start \in Starts /\ edits \in 0..start.maxEdits
  /\ WellFormed(manifest) /\ WellFormed(seen)
  /\ \A v \in settings : v[1][1] \in Parts /\ v[2] # "literal"
  /\ \A o \in objects : /\ o.kind \in {"Deployment", "StatefulSet"}
                        /\ setComponentStatus(o.label) # ""

(***************************************************************************)
(* What the manifest leaves out is not passed on, in whatever sections it  *)
(* leaves it out: the conversions dereference the pointers they pass, so   *)
(* a nil one would make every reconcile of the gateway panic, and a nil    *)
(* list would become an empty one, which switches inheritance off.  The    *)
(* fields passed without a test are never nil.                             *)
(***************************************************************************)
NoNilPassed == \A v \in settings : v[2] # "nil"

(***************************************************************************)
(* No chart key is given two values: the maps that the two conversions     *)
(* fill section by section never write over one another's keys.            *)
(***************************************************************************)
KeysUnique == Cardinality({v[1] : v \in settings}) = Cardinality(settings)

(***************************************************************************)
(* Which workloads a field is for, by the API documentation and, where     *)
(* that is silent or narrower, the tests: imagePullSecrets reaches the     *)
(* async processor as well (TestSpecToAsyncHelmValues_ImagePullSecrets).   *)
(* What a chart then does with a value is not the matter here: the async   *)
(* processor's replicaCount is passed although its chart ignores it.       *)
(***************************************************************************)
OwnPart(p) ==
  CASE IsPrefix(Async, p)     -> {"ap"}
    [] IsPrefix(Processor, p) -> {"processor"}
    [] IsPrefix(GC, p)        -> {"gc"}
    [] p[1] = "fileStorage"   -> {"global"}
    [] OTHER                  -> {"apiserver"}

Audience(p, f) ==
  CASE f \in {"dispatchMode", "progressTTLSeconds", "other"} -> {}
    [] p = << >> /\ f = "extraEndpoints"   -> {"global"}
    [] p = << >> /\ f = "imagePullSecrets" -> {"global", "ap"}
    [] p = <<"monitoring">>     -> {"apiserver", "processor", "gc", "ap"}
    [] p = <<"grafana">>        -> {"grafana", "ap"}
    [] p = <<"prometheusRule">> -> {"prometheusRule", "ap"}
    [] p = <<"otel">>           -> IF f = "redisTracing" THEN {"ap"}
                                   ELSE IF f = "postgresqlTracing" THEN {"global"}
                                   ELSE {"global", "ap"}
    [] f = "maxSizeBytes"       -> {"global"}
    [] f \in {"resultPollTimeout", "maxConnections"} -> {"processor"}
    [] OTHER                    -> OwnPart(p)

\* A section with a switch counts only while it is on, and the settings that
\* the Redis section holds for derived queues only while none is configured.
Switches == {<<"tls">>, <<"httpRoute">>, Async \o <<"modelServerMonitor">>}

InForce(m, p, f, part) ==
  /\ \A sw \in Switches :
       IsPrefix(sw, p) /\ ~(p = sw /\ f = "enabled") => m[sw].enabled = "set"
  /\ p = <<"prometheusRule">> /\ f = "labels" /\ part = "ap" =>
       m[p].enabled = "set"
  /\ p = Async \o <<"redis">> /\ f \in {"requestPathURL", "gateType", "gateParams"} =>
       Append(p, "queuesConfig") \notin DOMAIN m

Edited(m, n) == {e \in UNION {{p} \X DOMAIN Fields[p] : p \in DOMAIN m} :
                   m[e[1]][e[2]] # n[e[1]][e[2]]}

(***************************************************************************)
(* Between two renderings of the same sections, the values for a workload  *)
(* change exactly when a field that is for that workload has been edited   *)
(* while it was in force: no setting is lost on its way, an explicit zero  *)
(* is not taken for "left out", a deprecated or switched-off setting has   *)
(* no effect, and no setting ends up in another workload's values.         *)
(***************************************************************************)
EditsArrive ==
  [][ (seen' # seen /\ DOMAIN seen' = DOMAIN seen) =>
        \A part \in Parts :
          (Part(settings', part) # Part(settings, part)) =
            (\E e \in Edited(seen, seen') :
               /\ part \in Audience(e[1], e[2])
               /\ \/ InForce(seen, e[1], e[2], part)
                  \/ InForce(seen', e[1], e[2], part)) ]_vars

(***************************************************************************)
(* "Leave unset to inherit spec.extraEndpoints; an explicit empty list     *)
(* disables deployment-specific endpoints": what the API server and the    *)
(* processor get is the override if one is written, even an empty one,     *)
(* else the gateway's list, else the chart's.                              *)
(***************************************************************************)
Setting(path) == {v[2] : v \in {w \in settings : w[1] = path}}

FirstOf(a, b) == IF a # {} THEN a ELSE b

Written(m, p, f) ==
  IF p \in DOMAIN m /\ m[p][f] # "absent" THEN {m[p][f]} ELSE {}

EndpointsInherited ==
  LET Serves(override, key) ==
        FirstOf(Setting(key), Setting(<<"global", "extraEndpoints">>)) =
          FirstOf(Written(seen, override, "extraEndpoints"),
                  Written(seen, << >>, "extraEndpoints"))
  IN /\ Serves(Config(APIServer) \o <<"batchAPI">>,
               <<"apiserver", "config", "batchAPI", "extraEndpoints">>)
     /\ Serves(Config(Processor), <<"processor", "config", "extraEndpoints">>)

(***************************************************************************)
(* Every component's workload is rendered once, runs the image that the    *)
(* platform configured for it, to the tag or digest, and carries the label *)
(* under which updateStatus counts it for that component.                  *)
(***************************************************************************)
Tagged(image) ==
  \E i \in DOMAIN image : image[i] = ":" /\ ~Contains(SubSeq(image, i, Len(image)), "/")

WorkloadsIdentified ==
  seen # << >> =>
    \A c \in {"apiserver", "processor", "gc", "async"} :
      LET own == {o \in objects : setComponentStatus(o.label) = c}
      IN /\ Cardinality(own) = 1
         /\ \A o \in own :
              o.image = IF Tagged(start.images[c]) THEN start.images[c]
                        ELSE start.images[c] \o <<":", "latest">>
================================================================================
