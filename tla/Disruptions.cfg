SPECIFICATION FairSpec
CONSTANTS
  Components = {"processor"}
  StatefulSets = {"processor"}
  Extras = {"route", "monitor"}
  managedGVKs <- ThreeGVKs
  KindOf <- ThreeKindOf
  Missing = {"monitor"}
  Watched = {"processor", "route"}
  Specs = {"plain", "unrenderable"}
  Accepted = {"plain", "unrenderable"}
  Renderable = {"plain"}
  Rendered <- ThreeRendered
  ReplicasOf <- SingleReplicas
  SecretFailures = {"ReferenceNotPermitted", "SecretRefImmutable"}
  GrantsWatched = TRUE
  SyncPeriod = 1
  MaxGeneration = 1
  MaxFaults = 1
  MaxRestarts = 1
  MaxOutages = 1
  MaxDrifts = 1
  MaxDeletes = 1
  MaxDisruptions = 1
INVARIANTS NothingOverlooked
PROPERTIES Convergence DeletedIsCollected
CHECK_DEADLOCK FALSE
