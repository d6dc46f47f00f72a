CONSTANTS
  t1 = t1
  t2 = t2
  t3 = t3
  i1 = i1
  i2 = i2
  NoItem = none
  Thread <- TwoThreads
  Item <- TwoItems
  Size = 3
  Reader <- TwoThreads
  Writer = t3
  Rounds = 3
  Beg = 1
  End = 3
  Passes = 3
  Adder <- TwoThreads
  Amount <- OneAndTen
  Updates = 2
  Address <- FourCells
  Worker <- TwoThreads
  Job <- TwoItems
  Tasks = 2
  Children = 1
  Client <- ThreeThreads
  Elements = 3
  CloseAfter = 2
SPECIFICATION Spec
CHECK_DEADLOCK FALSE
INVARIANTS TypeOK ReadsPerPost InStep SumIsExact EndOfJobMeansDone DequeKeepsElements
PROPERTIES ImplementsBoundedFIFO Finishes
