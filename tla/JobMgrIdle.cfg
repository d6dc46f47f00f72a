CONSTANTS
  Worker = {w1, w2}
  Job = {j1}
  Tasks = 2
  Children = 0
SPECIFICATION Spec
CHECK_DEADLOCK FALSE
INVARIANT IdleIsSignalled
