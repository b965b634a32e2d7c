-------------------------------- MODULE Metrics -------------------------------
(* The figures of a station, of a group of stations and of an hour of the day: *)
(* domain/reconcile.ts, domain/metrics.ts, the local hours of domain/time.ts   *)
(* and the trend of database/queries.ts.  A percentage is a share <<n, d>>, of *)
(* which nothing is known when d is 0; rounding and units are left out.        *)
EXTENDS Intervals

CONSTANTS
  MaxPorts,     \* the sanity bound of a reported count
  HourLength,   \* instants of an hour
  HoursInDay,
  ZoneOffset,   \* of the study's time zone, which keeps no summer time
  MaxTrendPoints

MetricsAssumption ==
  /\ MaxPorts \in Nat
  /\ HourLength \in Nat \ {0}
  /\ HoursInDay \in Nat \ {0}
  /\ ZoneOffset \in Int
  /\ MaxTrendPoints \in Nat
ASSUME MetricsAssumption

NoShare == <<0, 0>>
Share(n, d) == IF d <= 0 THEN NoShare ELSE <<n, d>>
AtLeast(share, percent) == share # NoShare /\ 100 * share[1] >= percent * share[2]
Exceeds(a, b) == a[1] * b[2] > b[1] * a[2]

Known(n) == IF n = Null THEN 0 ELSE n

-------------------------------------------------------------------------------
\* What the states named by a source add up to.
NamedStates(c) == <<c.available, c.occupied, c.reserved, c.outOfService>>
KnownSum(c) == Known(c.available) + Known(c.occupied) + Known(c.reserved) + Known(c.outOfService)
AllSum(c) == KnownSum(c) + Known(c.unknown)

\* Whether the counts can all be true at once.
Reconciles(c) ==
  /\ \A n \in {c.available, c.occupied, c.reserved, c.outOfService, c.unknown, c.total} :
       n = Null \/ n \in 0..MaxPorts
  /\ \E n \in {c.available, c.occupied, c.reserved, c.outOfService, c.unknown, c.total} : n # Null
  /\ c.total = Null \/ AllSum(c) <= c.total

\* What is left over is unknown, never in use; occupancy needs both counts.
ReconcileCounts(c) ==
  LET named == \E i \in 1..4 : NamedStates(c)[i] # Null
      both == c.available # Null /\ c.occupied # Null
      residual == IF c.total = Null THEN 0 ELSE c.total - AllSum(c)
  IN  [occupied     |-> c.occupied,
       reserved     |-> c.reserved,
       outOfService |-> c.outOfService,
       unknown      |-> CASE residual > 0 -> Known(c.unknown) + residual
                          [] /\ residual = 0 /\ c.unknown = Null
                             /\ c.total # Null /\ KnownSum(c) > 0 -> 0
                          [] OTHER -> c.unknown,
       total        |-> IF c.total = Null /\ named THEN AllSum(c) ELSE c.total,
       known        |-> IF named THEN KnownSum(c) ELSE Null,
       operational  |-> IF both THEN c.available + c.occupied ELSE Null,
       supports     |-> both]

-------------------------------------------------------------------------------
\* The figures of one scope over a window.
Weighed(intervals, count) ==
  MapThenSumSet(LAMBDA i : Known(ReconcileCounts(i.reading.counts)[count]) * (i.span.hi - i.span.lo), intervals)

\* The level in force when the interval begins: the capacity's, or else the reading's.
LevelOf(interval, capacity) ==
  LET inForce == CapacityAt(capacity, interval.span.lo)
  IN  IF inForce = {} THEN interval.reading.level ELSE (CHOOSE c \in inForce : TRUE).level

IntervalsOf(scope, window) ==
  ValidIntervals(scope.readings, Monitored(scope.windows, scope.gaps), scope.capacity, window,
                 {r \in scope.readings : Reconciles(r.counts)})

ComputeScopeMetrics(scope, window) ==
  LET intervals == IntervalsOf(scope, window)
      supporting == {i \in intervals : ReconcileCounts(i.reading.counts).supports}
      monitored == IntersectAll(window, Monitored(scope.windows, scope.gaps))
      expected == ExpectedPortMinutes(monitored, scope.capacity)
      known == Weighed(intervals, "known")
      unknown == Weighed(intervals, "unknown")
      seen == {r.at : r \in {q \in scope.readings : q.at < window.hi}}
  IN  [occupied    |-> Weighed(supporting, "occupied"),
       operational |-> Weighed(supporting, "operational"),
       supports    |-> supporting # {},
       known       |-> known,
       unknown     |-> unknown,
       offline     |-> Weighed(intervals, "outOfService"),
       reserved    |-> Weighed(intervals, "reserved"),
       expected    |-> expected,
       unobserved  |-> IF expected = Null THEN Null ELSE Higher(0, expected - known - unknown),
       monitored   |-> Minutes(monitored),
       level       |-> MixLevels({LevelOf(i, scope.capacity) : i \in intervals}),
       elapsed     |-> window.hi - window.lo,
       observations |-> Cardinality(intervals),
       latest      |-> IF seen = {} THEN Null ELSE CHOOSE t \in seen : \A u \in seen : u <= t]

OccupancyOf(m) == IF m.supports THEN Share(m.occupied, m.operational) ELSE NoShare
CoverageOf(m) == Share(m.known, m.expected)

\* Mutant of AggregateScopeMetrics: the occupancy of the group is that of its
\* first member.
AggregateByFirst(scopes) ==
  LET Total(some, Figure(_)) == MapThenSumSet(LAMBDA i : Figure(scopes[i]), some)
      known == Total(DOMAIN scopes, LAMBDA m : m.known)
  IN  [occupied |-> Total(DOMAIN scopes, LAMBDA m : m.occupied), known |-> known, expected |-> Null,
       occupancy |-> IF scopes = <<>> THEN NoShare ELSE OccupancyOf(scopes[1]), coverage |-> NoShare]
\* Port-minutes are added, shares never averaged; one unknown capacity makes
\* the capacity of the group unknown.
AggregateScopeMetrics(scopes) ==
  LET supporting == {i \in DOMAIN scopes : scopes[i].supports}
      Total(some, Figure(_)) == MapThenSumSet(LAMBDA i : Figure(scopes[i]), some)
      occupied == Total(supporting, LAMBDA m : m.occupied)
      known == Total(DOMAIN scopes, LAMBDA m : m.known)
      expected == IF \E i \in DOMAIN scopes : scopes[i].expected = Null THEN Null
                  ELSE Total(DOMAIN scopes, LAMBDA m : m.expected)
  IN  [occupied  |-> occupied,
       known     |-> known,
       expected  |-> expected,
       occupancy |-> IF supporting = {} THEN NoShare ELSE Share(occupied, Total(supporting, LAMBDA m : m.operational)),
       coverage  |-> Share(known, expected)]

-------------------------------------------------------------------------------
\* The local hour an instant lies in, counted from the first.
LocalHour(t) == (t + ZoneOffset) \div HourLength
LocalDay(t) == LocalHour(t) \div HoursInDay

\* The pieces of a span, one for each local hour it touches.
\* Mutant of SplitByLocalHour: a span goes whole to the hour it begins in.
SplitNowhere(span) == {span}
SplitByLocalHour(span) ==
  LET edges == {span.lo, span.hi}
               \cup {t \in span.lo..span.hi : (t + ZoneOffset) % HourLength = 0}
      Adjacent(a, b) == a < b /\ \A t \in edges : ~(a < t /\ t < b)
  IN  {Span(e[1], e[2]) : e \in {p \in edges \X edges : Adjacent(p[1], p[2])}}

HourOfWeek(t) == LocalHour(t) % (7 * HoursInDay)
PlaceOf(chart, t) == IF chart = "heatmap" THEN HourOfWeek(t) ELSE LocalDay(t)

\* What one bin of the heatmap, or one day of the trend, is made of: the pieces
\* of all intervals that report both counts and fall in it.  "sets" is a sequence
\* of sets of intervals, one for each scope.
BinOf(sets, chart, place) ==
  LET pieces == UNION {UNION {{[scope |-> n, counts |-> ReconcileCounts(i.reading.counts), span |-> p] :
                                 p \in SplitByLocalHour(i.span)} : i \in sets[n]} : n \in DOMAIN sets}
      here == {p \in pieces : p.counts.supports /\ PlaceOf(chart, p.span.lo) = place}
      Over(Count(_)) == MapThenSumSet(LAMBDA p : Count(p.counts) * (p.span.hi - p.span.lo), here)
  IN  [occupied |-> Over(LAMBDA c : c.occupied), operational |-> Over(LAMBDA c : c.operational), touched |-> here # {}]

\* Missing, never zero, where nothing was observed.
ShownIn(bin) == IF bin.touched THEN Share(bin.occupied, bin.operational) ELSE NoShare

ComputeHeatmap(sets) == [place \in 0..(7 * HoursInDay - 1) |-> BinOf(sets, "heatmap", place)]

\* The busiest band of three hours, of the weekdays or of the weekend, among the
\* bands observed in every hour of every one of their days: a set, empty when
\* there is none.  Days are counted from the Sunday.
FindPeakBand(bins) ==
  LET Band(days, hour) == {day * HoursInDay + h : day \in days, h \in hour..(hour + 2)}
      bands == {b \in {Band(days, hour) : days \in {1..5, {0, 6}}, hour \in 0..(HoursInDay - 3)} :
                  \A place \in b : bins[place].touched}
      ShareOf(b) == Share(MapThenSumSet(LAMBDA place : bins[place].occupied, b),
                          MapThenSumSet(LAMBDA place : bins[place].operational, b))
      shown == {b \in bands : ShareOf(b) # NoShare}
  IN  {b \in shown : \A c \in shown : ~Exceeds(ShareOf(c), ShareOf(b))}

\* The days the trend plots: one instant a day from the start of the window, the
\* last no later than its end, and no more of them than there may be points.
TrendDays(window) ==
  LET day == HourLength * HoursInDay
      points == Lower(MaxTrendPoints, ((window.hi - window.lo + day - 1) \div day) + 1)
  IN  {LocalDay(Lower(window.lo + n * day, window.hi - 1)) : n \in 0..(points - 1)}

BuildTrend(sets, window) == [d \in TrendDays(window) |-> ShownIn(BinOf(sets, "trend", d))]

-------------------------------------------------------------------------------
\* The reading shown as the current status: the newest, unless invalid.
CurrentStatus(readings) ==
  {r \in readings : /\ r.quality # "invalid"
                    /\ \A q \in readings : q.quality # "invalid" => q.at <= r.at}
=============================================================================
