SPECIFICATION FairSpec
CONSTANTS
  Components = {"apiserver"}
  StatefulSets = {}
  Extras = {"route"}
  managedGVKs <- OneGVKs
  KindOf <- OneKindOf
  Missing = {}
  Watched = {"apiserver"}
  Specs = {"routed", "plain", "invalid", "unrenderable"}
  Accepted = {"routed", "plain", "unrenderable"}
  Renderable = {"routed", "plain", "invalid"}
  Rendered <- OneRendered
  ReplicasOf <- SingleReplicas
  SecretFailures = {}
  GrantsWatched = TRUE
  SyncPeriod = 1
  MaxGeneration = 2
  MaxFaults = 1
  MaxRestarts = 1
  MaxOutages = 0
  MaxDrifts = 0
  MaxDeletes = 0
  MaxDisruptions = 1
INVARIANTS TypeOK ObservedMeansApplied ReadyIsConjunction NothingOverlooked
PROPERTIES StatusIsCurrent ReplacedBeforeDeleted Convergence
PROPERTIES ImplementsContract AnswersGenerations
CHECK_DEADLOCK FALSE
