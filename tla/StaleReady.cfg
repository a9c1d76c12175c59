SPECIFICATION Spec
CONSTANTS
  Components = {"apiserver"}
  StatefulSets = {}
  Extras = {"route"}
  managedGVKs <- OneGVKs
  KindOf <- OneKindOf
  Missing = {}
  Watched = {"apiserver"}
  Specs = {"routed", "plain"}
  Accepted = {"routed", "plain"}
  Renderable = {"routed", "plain"}
  Rendered <- OneRendered
  ReplicasOf <- SingleReplicas
  SecretFailures = {}
  GrantsWatched = TRUE
  SyncPeriod = 1
  MaxGeneration = 2
  MaxFaults = 0
  MaxRestarts = 0
  MaxOutages = 0
  MaxDrifts = 0
  MaxDeletes = 0
  MaxDisruptions = 1
INVARIANT NonZeroMeansRolledOut
