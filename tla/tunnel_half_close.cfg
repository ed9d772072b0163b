SPECIFICATION ReadySpec
CONSTANTS
  c1 = c1
  Conn = {c1}
  NoConn = NoConn
  NumIds = 1
  OutCap = 2
  ConnCap = 1
  Chunks <- Chunks20
  MaxDrops = 0
  MaxKills = 0
  Mortal = {}
  Fragile = {"gate"}
INVARIANT HalfClose
CHECK_DEADLOCK FALSE
