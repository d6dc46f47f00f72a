CONSTANTS
  Thread = {t1, t2, t3}
  Queue = {q}
  Item = {a, b}
  NoItem = NoItem
  capacity = 2
  Operations <- AllOperations
SYMMETRY ThreadSymmetry
SPECIFICATION Spec
INVARIANTS TypeOK SleepersHaveReason
PROPERTIES ImplementsClosableFIFO
CHECK_DEADLOCK FALSE
