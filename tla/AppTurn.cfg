SPECIFICATION FairSpec
CONSTANTS
  QueueSize = 2
  MaxLink = 2
  Setups <- MCSetups
CHECK_DEADLOCK FALSE
INVARIANTS
  ReportIsTrue
  AckedWasForwarded
PROPERTY
  RelayctlEnds
