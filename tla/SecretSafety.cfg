SPECIFICATION Spec
CONSTANTS
  GatewayNamespace = "apps"
  Refs <- AllRefs
  GrantPool <- AllGrants
  SyncPeriod = 1
  CRDAtStart = {TRUE, FALSE}
  MaxEdits = 1
  MaxRecreations = 0
  MaxRotations = 1
  MaxGrantChanges = 2
  MaxCopyLosses = 0
  MaxFaults = 1
  MaxRestarts = 0
INVARIANTS TypeOK CopiedOnlyWithGrant RefusalStillHolds NobodyForgotten
CHECK_DEADLOCK FALSE
