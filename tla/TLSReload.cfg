SPECIFICATION FairSpec
CONSTANTS
  Profiles <- SmallProfiles
  LaterProfiles <- ChangedProfiles
  Intermediate <- IntermediateProfile
  Policies = {"", "strict"}
  Clusters = {"present", "notfound", "nomatch"}
  SuiteName <- Names
  SecureSuites = {"TLS_ECDHE_RSA", "TLS_AES"}
  TLS12Suites = {"TLS_ECDHE_RSA"}
  MaxFaults = 2
  MaxChanges = 2
INVARIANTS ConversionExact NoChangeMissed
PROPERTY SettingsInForce
CHECK_DEADLOCK FALSE
