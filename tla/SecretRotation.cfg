SPECIFICATION FairSpec
CONSTANTS
  GatewayNamespace = "apps"
  Refs <- OneRef
  GrantPool <- AnyGrant
  SyncPeriod = 1
  CRDAtStart = {TRUE}
  MaxEdits = 0
  MaxRecreations = 1
  MaxRotations = 2
  MaxGrantChanges = 1
  MaxCopyLosses = 1
  MaxFaults = 1
  MaxRestarts = 1
PROPERTY RotationArrives
PROPERTY CopyCollected
CHECK_DEADLOCK FALSE
PROPERTY ImplementsCopyContract
