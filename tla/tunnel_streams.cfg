SPECIFICATION FairSpec
CONSTANTS
  c1 = c1
  Conn = {c1}
  NoConn = NoConn
  NumIds = 1
  OutCap = 4
  ConnCap = 1
  Chunks <- Chunks22
  MaxDrops = 1
  MaxKills = 1
  Mortal = {"gate"}
  Fragile = {"home", "gate"}
PROPERTIES IdsReleased StreamsKept
CHECK_DEADLOCK FALSE
