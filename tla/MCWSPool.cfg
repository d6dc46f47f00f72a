CONSTANTS
  nThreads = 3
  Task = {"root", "left", "right", "leaf", "leaf2", "leaf3",
          "g1", "g2", "g3", "g4", "h"}
  NoTask = NoTask
  Jobs <- TwoJobs
  Children <- Tree
SPECIFICATION Spec
INVARIANTS TypeOK CountIsExact OnePlace SleepersLeaveNothing IdleMeansDone
PROPERTIES AllJoined
