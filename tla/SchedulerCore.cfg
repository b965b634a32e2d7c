CONSTANTS
  chargepoint = chargepoint
  cycle = cycle
  discovery = discovery
  Callers = {cycle, discovery}
  Spacing = 3
  MaxLateness = 1
  MaxClock = 10
  MaxGrants = 5
  N = 2
  Sources = {chargepoint}
  SourceOf <- AllOnOne
  Eligible = {chargepoint}
  MinNav = 1
  MinInterval = 1
  Interval = 1
  MaxBackoff = 2
  Threshold = 2
  JitterPct = {100}
  RetryAfters = {3}
  Never = 1000
  FarFuture = 500
  StartTime = 0
  PastTime = 0
  LoadedDue = {0}
  LoadedSuccess = {0}
  Toggled = {}
  MaxTime = 2
  MaxReloads = 1
  MaxFailures = 3
SPECIFICATION MCSpec
VIEW Seen
INVARIANTS BreakerConsistent DueWithinReach RetryAfterKept PlanSpaced ManualNeverSpeedsUp SpreadWithinBudget InFlightExact
PROPERTY RateLimited
CHECK_DEADLOCK FALSE
