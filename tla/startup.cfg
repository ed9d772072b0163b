SPECIFICATION FairSpec
CONSTANTS
  Process <- ProcessNames
  Lines <- LinesOf
  Environs = {"C", None}
  Invite = {"A", "B", "C"}
  Device = {"tty"}
  Port = {"3240"}
  Target = {"host:1"}
  LinkPath = "L"
  None = None
  Pts = {"pts0", "pts1"}
  Watched = "p1"
  MaxStarts = 2
  MaxBytes = 1
INVARIANTS TypeOK LinkLeads
PROPERTIES Understood LedsFollow
CHECK_DEADLOCK FALSE
