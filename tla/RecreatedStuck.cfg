SPECIFICATION Spec
CONSTANTS
  GatewayNamespace = "apps"
  Refs <- TwoRefs
  GrantPool <- AnyGrant
  SyncPeriod = 1
  CRDAtStart = {TRUE}
  MaxEdits = 0
  MaxRecreations = 1
  MaxRotations = 1
  MaxGrantChanges = 1
  MaxCopyLosses = 0
  MaxFaults = 0
  MaxRestarts = 0
INVARIANT ImmutableStillHolds
CHECK_DEADLOCK FALSE
