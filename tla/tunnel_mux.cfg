SPECIFICATION ReadySpec
CONSTANTS
  c1 = c1
  c2 = c2
  Conn = {c1, c2}
  NoConn = NoConn
  NumIds = 2
  OutCap = 1
  ConnCap = 1
  Chunks <- Chunks20
  MaxDrops = 0
  MaxKills = 0
  Mortal = {}
  Fragile = {}
SYMMETRY Symmetry
INVARIANTS NoGap HalfClose CloseAfterAll RunningIsRouted
CHECK_DEADLOCK FALSE
