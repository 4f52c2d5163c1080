SPECIFICATION ThreadFairSpec
CONSTANTS
  r1 = r1
  s1 = s1
  k1 = k1
  Null = Null
  Run = {r1}
  Session = {s1}
  Key = {k1}
  ClaimLimit = 2
  MaxSequence = 3
  MaxConn = 2
  SendQueueSize = 1
  Regimes <- CancelRegimes
CHECK_DEADLOCK FALSE
PROPERTY CancelEndsRun
