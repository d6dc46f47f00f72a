CONSTANTS
  nThreads = 2
  Task = {"root", "left", "right", "leaf", "leaf2", "leaf3"}
  NoTask = NoTask
  Jobs <- OneJob
  Children <- Tree
SPECIFICATION Spec
INVARIANT ActiveTasksTellsInactive
