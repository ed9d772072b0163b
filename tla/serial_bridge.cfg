SPECIFICATION FairSpec
CONSTANTS
  DevCap = 2
  NetCap = 1
  Chunks <- Chunks32
  MaxDrops = 1
  Fragile = {"share"}
  Stoppable = {"attach"}
INVARIANTS TypeOK NothingLost
PROPERTIES LineKept UnplugEnds ReadsFlow EioPasses
CHECK_DEADLOCK FALSE
