SPECIFICATION Spec
CONSTANTS
  Proc = {p1, p2, p3}
  Files <- AnyFile
  Written = 2
  MaxStarts = 5
  MaxFails = 1
INVARIANTS TypeOK WholePairs
PROPERTY SettledForGood
CHECK_DEADLOCK FALSE
