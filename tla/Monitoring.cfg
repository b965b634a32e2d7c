CONSTANTS
  FarFuture = 9
  Stations = {s1}
  Requests = {r1, r2}
  Boot = Boot
  MaxTime = 3
  MaxTurns = 4
  MaxMail = 1
  MaxExits = 1
SPECIFICATION MCSpec
INVARIANTS
  WatchedExactlyWhileOn
  CountsOnlyMonitoredTime

  
CHECK_DEADLOCK FALSE
