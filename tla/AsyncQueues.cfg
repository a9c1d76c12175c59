SPECIFICATION FairSpec
CONSTANTS
  ModelOrder <- Order
  Specs <- AllSpecs
INVARIANTS QueuesOneForOne NoneStranded
PROPERTY RequestsAnswered
CHECK_DEADLOCK FALSE
