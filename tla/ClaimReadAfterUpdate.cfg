CONSTANTS
  FarFuture = 9
  Stations = {s1}
  Requests = {r1}
  Boot = Boot
  MaxTime = 0
  MaxTurns = 1
  MaxMail = 1
  MaxExits = 1
SPECIFICATION MFairSpec
PROPERTIES
  ReadAfterUpdate
CHECK_DEADLOCK FALSE
