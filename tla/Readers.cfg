SPECIFICATION FairReadersSpec
CONSTANTS
  Last = 2
  MaxVersion = 2
  Limit = 1
CHECK_DEADLOCK FALSE
INVARIANTS
  AppliedInOrder
  DrainedIsComplete
  ReceivedInOrder
PROPERTIES
  EveryEventArrives
  ShownBecomesDurable
