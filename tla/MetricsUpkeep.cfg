SPECIFICATION FairSpec
CONSTANTS
  CRDsAtStart <- EarlyOrLate
  MaxDrifts = 1
  MaxFaults = 2
  MaxRestarts = 1
INVARIANT RestsOnlyWhenDone
PROPERTY AlwaysPresent
CHECK_DEADLOCK FALSE
