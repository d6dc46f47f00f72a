CONSTANTS
  Worker = {w1, w2}
  Job = {j1, j2}
  Tasks = 1
  Children = 0
SPECIFICATION Spec
CHECK_DEADLOCK FALSE
INVARIANT FlagMeansInactive
