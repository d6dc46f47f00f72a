CONSTANTS
  Thread = {t1, t2}
  Item = {a, b}
  NoItem = NoItem
  Capacities = {2, 3}
  Operations <- QueueAndResize
  ResizeAlone = FALSE
SPECIFICATION Spec
PROPERTY SetCapacityKeepsItems
CHECK_DEADLOCK FALSE
