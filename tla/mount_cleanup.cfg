SPECIFICATION FairSpec
CONSTANTS
  Script = {s1, s2}
  Dev = {d1, d2}
  NoScript = NoScript
  MaxSignals = 1
INVARIANTS TypeOK LeavesNothing
PROPERTY InterruptEnds
CHECK_DEADLOCK FALSE
