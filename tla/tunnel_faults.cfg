SPECIFICATION Spec
CONSTANTS
  c1 = c1
  c2 = c2
  Conn = {c1, c2}
  NoConn = NoConn
  NumIds = 1
  OutCap = 1
  ConnCap = 1
  Chunks <- Chunks10
  MaxDrops = 1
  MaxKills = 1
  Mortal = {"home", "gate"}
  Fragile = {"home", "gate"}
SYMMETRY Symmetry
INVARIANTS TypeOK OpenLeads EntriesLive
CHECK_DEADLOCK FALSE
