SPECIFICATION FairSpec
CONSTANTS
  c1 = c1
  c2 = c2
  c3 = c3
  a1 = a1
  a2 = a2
  Nil = Nil
  Call = {c1, c2}
  Agent = {a1, a2}
  MaxPending = 1
CHECK_DEADLOCK FALSE
INVARIANTS
  
  NothingLeaks
PROPERTY CallsEnd
