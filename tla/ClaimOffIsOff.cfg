CONSTANTS
  FarFuture = 9
  Stations = {s1}
  Requests = {r1}
  Boot = Boot
  MaxTime = 2
  MaxTurns = 2
  MaxMail = 1
  MaxExits = 0
SPECIFICATION MSpec
PROPERTIES
  OffIsOff
CHECK_DEADLOCK FALSE
