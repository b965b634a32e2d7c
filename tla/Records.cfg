CONSTANTS
  FarFuture = 100
  MaxPorts = 10
  HourLength = 2
  HoursInDay = 1
  ZoneOffset = 1
  MaxTrendPoints = 1
  Day = 2
  MinElapsedDays = 1
  MinStatusCoverage = 90
  MaxObservationGap = 1
  ShortFlip = 1
  LookBack = 8
  Stations = {1, 2}
  Touched = {1}
  PagesOf <- MCPagesOf
  PortsOf <- MCPortsOf
  Policy <- MCPolicy
  Requests <- MCRequests
  MaxTime = 3
  MaxEvents = 3
  None = None
  Files <- MCFiles
  Pastes <- MCPastes
  Discoveries <- MCDiscoveries
  MaxCatalogSteps = 4
  VisitFiles <- MCVisitFiles
  ManualRows <- MCManualRows
  Panels <- MCPanels
  MaxVisitSteps = 4
SPECIFICATION MCSpec
INVARIANTS
  FiguresArePointwise
  PortMinutesAddUp
  StartsAreArrivals
  RankingIsFair
  OneStationPerSite
  ImportsCountOnce
CHECK_DEADLOCK FALSE
