SPECIFICATION Spec
CONSTANTS
  Script = {s1, s2}
  Dev = {d1}
  NoScript = NoScript
  MaxSignals = 0
PROPERTY DetachesOwn
CHECK_DEADLOCK FALSE
