SPECIFICATION Spec
CONSTANTS
  GatewayNamespace = "apps"
  Refs <- TwoRefs
  GrantPool <- AnyGrant
  SyncPeriod = 1
  CRDAtStart = {TRUE}
  MaxEdits = 1
  MaxRecreations = 0
  MaxRotations = 1
  MaxGrantChanges = 1
  MaxCopyLosses = 0
  MaxFaults = 0
  MaxRestarts = 0
PROPERTY CopyKeepsSource
CHECK_DEADLOCK FALSE
