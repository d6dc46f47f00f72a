CONSTANTS
  Thread = {t1, t2, t3}
  Item = {a, b}
  NoItem = NoItem
  Capacities = {1, 2, 3}
  Operations <- AllOperations
  ResizeAlone = TRUE
SYMMETRY ThreadSymmetry
SPECIFICATION Spec
INVARIANTS TypeOK IndexInvariant
PROPERTIES ImplementsBoundedFIFO
CHECK_DEADLOCK FALSE
