SPECIFICATION Spec
CONSTANTS
  p1 = p1
  p2 = p2
  s1 = s1
  s2 = s2
  j1 = j1
  j2 = j2
  Null = Null
  Project = {p1, p2}
  Session = {s1, s2}
  ProjectOf <- MCProjectOf
  Known = {s1}
  Job = {j1}
  MaxDrops = 0
  MaxChanges = 1
CHECK_DEADLOCK FALSE
INVARIANTS
  ActiveProjectVisible
