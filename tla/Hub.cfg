SPECIFICATION FairSpec
CONSTANTS
  p1 = p1
  p2 = p2
  a1 = a1
  a2 = a2
  Nil = Nil
  App = {p1, p2}
  Agent = {a1, a2}
  QueueSize = 1
  Setups <- MCSetups
CHECK_DEADLOCK FALSE
INVARIANTS
  NoneLingers
PROPERTIES
  ClosedIsUnregistered
  
  AgentGoneIsTold
  
