SPECIFICATION FairSpec
CONSTANTS
  Bindings = {b1}
  Cycles = {c1}
  Discovery = Discovery  MapPage = MapPage  Nothing = Nothing
  Happenings = {"start", "restore", "load"}
  MaxRestarts = 0
  MaxTime = 0
PROPERTIES
  RestoreResumes
