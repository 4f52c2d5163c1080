SPECIFICATION Spec
CONSTANTS
  r1 = r1
  r2 = r2
  s1 = s1
  k1 = k1
  k2 = k2
  th1 = th1
  tu1 = tu1
  tu2 = tu2
  Null = Null
  Run = {r1, r2}
  Session = {s1}
  Key = {k1, k2}
  Sequence = {1, 2, 3}
  Thread = {th1}
  Turn = {tu1}
  ClaimLimit = 1
SYMMETRY MCSymmetry
ACTION_CONSTRAINT MCStep
INVARIANTS
  ThroughIsGreatest
  TerminalHasEvent
  FeedGapFree
  FeedTracksStatus
  
  OutboxMatchesRuns
