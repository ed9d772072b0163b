SPECIFICATION FairSpec
CONSTANTS
  Script = {r, t}
  Tests = {t}
  NoScript = NoScript
  MaxSignals = 1
INVARIANTS TypeOK NothingLeft
PROPERTIES CtrlCEnds TestEnds
CHECK_DEADLOCK FALSE
