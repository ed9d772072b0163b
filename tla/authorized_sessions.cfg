SPECIFICATION Spec
CONSTANTS
  o1 = o1
  o2 = o2
  o3 = o3
  g1 = g1
  g2 = g2
  g3 = g3
  a1 = a1
  Owner = {o1, o2, o3}
  Nobody = Nobody
  Note = Note
  Gate = {g1, g2, g3}
  Admin = {a1}
  Tables <- AnyTable
  NoPinning = {g3}
  MaxFails = 1
  MaxRestarts = 2
INVARIANTS TypeOK SessionAuthorized Recorded
PROPERTY AuthorizationsKept
CHECK_DEADLOCK FALSE
