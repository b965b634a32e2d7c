SPECIFICATION MCSpec
CONSTANTS
  b1 = b1  b2 = b2  c1 = c1  c2 = c2
  Bindings = {b1, b2}
  Cycles = {c1, c2}
  Discovery = Discovery  MapPage = MapPage  Nothing = Nothing
  Happenings = {"start", "pause", "load", "refresh", "adapter crash", "network", "restore",
                "discovery", "sleep", "exit"}
  MaxRestarts = 2
  MaxTime = 3
INVARIANTS
  NeverStalls
  HeldCycleIsStopped
  PausesAreCovered
PROPERTIES
  RefreshServed
  CyclesEnd
  WantedRuns
