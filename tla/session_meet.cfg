SPECIFICATION FairSpec
CONSTANTS
  Holds = TRUE
  Ways = {"cut"}
  Fragile = {"home", "gate"}
  Users = {"gate"}
  Tables <- OpenOrHome
  Nobody = Nobody
  MaxFaults = 1
  MaxFrames = 1
INVARIANTS TypeOK ServesListed
PROPERTIES Reconnects Meet Accepts Stoppable
CHECK_DEADLOCK FALSE
