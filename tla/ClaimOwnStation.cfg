SPECIFICATION Spec
CONSTANTS
  Bindings = {b1, b2}
  Cycles = {c1, c2}
  Discovery = Discovery  MapPage = MapPage  Nothing = Nothing
  Happenings = {"start", "load"}
  MaxRestarts = 0
  MaxTime = 0
INVARIANTS
  ReadsItsOwnStation
