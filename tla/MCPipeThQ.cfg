CONSTANTS
  BEG = 1
  END = 4
  size = 2
  numItems = 5
  NoItem = NoItem
SPECIFICATION Spec
INVARIANTS TypeOK InOrder ClosedBehind
PROPERTIES NothingDropped AllExit
