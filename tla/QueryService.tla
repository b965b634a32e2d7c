------------------------------ MODULE QueryService ------------------------------
(* What the window shows of the stored study: database/queries.ts.  A row is a *)
(* site with what is stored about it,                                          *)
(*   [key, linked, enabled, durable, saved, catalogLevel,                      *)
(*    readings, windows, gaps, capacity],                                      *)
(* and rows is the set of them.  Names, addresses, labels and links are left   *)
(* out, and with them the filters on the text and the network.                 *)
EXTENDS Ranking, Episodes

CONSTANT LookBack    \* how far before a window readings are loaded

LookBackAssumption == LookBack \in Nat
ASSUME LookBackAssumption

\* Readings of one scope from one instant to another, in the order of time.
SnapshotsFor(readings, from, to) == {r \in readings : from <= r.at /\ r.at < to}
LatestFor(readings) == {r \in readings : \A q \in readings : q.at <= r.at}

StudyStart(rows) ==
  LET times == UNION {{r.at : r \in row.readings} : row \in rows}
  IN  IF times = {} THEN Null ELSE CHOOSE t \in times : \A u \in times : t <= u

SharedWindow(rows, request, now) == ResolveWindow(request, now, StudyStart(rows))

\* One scope as the figures see it, readings from before the window included.
ScopeOf(row, window) ==
  [readings |-> SnapshotsFor(row.readings, window.lo - LookBack, window.hi),
   windows  |-> row.windows, gaps |-> row.gaps, capacity |-> row.capacity]

MetricsOf(row, window) == ComputeScopeMetrics(ScopeOf(row, window), window)

GapSpans(row, window) == IntersectAll(window, Normalize(row.gaps))

\* How a site is shown: unlinked and unmonitored ones as the catalogue has them.
MonitoringState(row, eligible) ==
  LET stale == \E r \in LatestFor(row.readings) : ClassifySourceFreshness(r) = "stale"
  IN  CASE ~(row.linked /\ row.enabled)                       -> "catalog"
        [] row.linked /\ row.enabled /\ stale                 -> "stale"
        [] row.linked /\ row.enabled /\ ~stale /\ eligible    -> "monitored"
        [] row.linked /\ row.enabled /\ ~stale /\ ~eligible   -> "provisional"

ViewOf(row, m) ==
  [key        |-> row.key,
   linked     |-> row.linked,
   saved      |-> row.saved,
   monitoring |-> MonitoringState(row, row.linked /\ EvaluateEligibility(m)),
   eligible   |-> row.linked /\ EvaluateEligibility(m),
   level      |-> IF row.linked THEN m.level ELSE row.catalogLevel,
   occupancy  |-> IF row.linked THEN OccupancyOf(m) ELSE NoShare,
   coverage   |-> IF row.linked THEN CoverageOf(m) ELSE NoShare]
ToStationView(row, window) == ViewOf(row, MetricsOf(row, window))

\* A site the lists left out, put on the map without figures.
WithoutFigures(row) ==
  [key |-> row.key, linked |-> row.linked, saved |-> row.saved,
   monitoring |-> MonitoringState(row, FALSE), eligible |-> FALSE,
   level |-> row.catalogLevel, occupancy |-> NoShare, coverage |-> NoShare]

\* A type nobody can name is filtered as unknown; no states and no types mean all.
ApplyFilters(stations, filters) ==
  LET Type(v) == IF v.level \in {"level_1", "level_2", "dc_fast"} THEN v.level ELSE "unknown"
  IN  {v \in stations : /\ filters.savedOnly => v.saved
                        /\ filters.states # {} => v.monitoring \in filters.states
                        /\ filters.types # {} => Type(v) \in filters.types}

\* The lists of one cohort, over the same window for all of them.
ListsOf(window, charted, monitored, ranking) ==
  [window      |-> window,
   charted     |-> charted,
   monitored   |-> monitored,
   ranked      |-> [i \in DOMAIN ranking.primary |-> ranking.primary[i].key],
   provisional |-> [i \in DOMAIN ranking.provisional |-> ranking.provisional[i].key],
   excluded    |-> ranking.excluded,
   group       |-> AggregateScopeMetrics([i \in DOMAIN ranking.primary |-> ranking.primary[i].metrics])]
RankedListsIn(rows, window, filters, cohort, sort) ==
  LET filtered == {v.key : v \in ApplyFilters({ToStationView(row, window) : row \in rows}, filters)}
      linked == {row \in rows : row.linked /\ row.key \in filtered}
      entries == {[key |-> row.key, metrics |-> MetricsOf(row, window)] : row \in linked}
  IN  ListsOf(window, linked, Cardinality({row \in rows : row.linked /\ row.enabled}), RankScopes(entries, cohort, sort))
RankedLists(rows, request, filters, cohort, sort, now) ==
  RankedListsIn(rows, SharedWindow(rows, request, now), filters, cohort, sort)

GetOverview(rows, request, filters, cohort, sort, now) ==
  LET lists == RankedLists(rows, request, filters, cohort, sort, now)
      sets == SetToSeq({[key |-> row.key, of |-> IntervalsOf(ScopeOf(row, lists.window), lists.window)] :
                        row \in lists.charted})
      charted == [i \in DOMAIN sets |-> sets[i].of]
  IN  lists @@ [heatmap |-> ComputeHeatmap(charted), trend |-> BuildTrend(charted, lists.window)]

\* The lists, and every site they lack without its figures, filtered again.
GetMapMarkers(rows, request, filters, cohort, sort, now) ==
  LET overview == RankedLists(rows, request, filters, cohort, sort, now)
      listed == ToSet(overview.ranked) \cup ToSet(overview.provisional) \cup overview.excluded
      View(row) == IF row.key \in listed THEN ToStationView(row, overview.window) ELSE WithoutFigures(row)
  IN  ApplyFilters({View(row) : row \in rows}, filters)

\* Snapshots in the order of time.
InOrder(shots) ==
  [i \in 1..Cardinality(shots) |-> CHOOSE a \in shots : Cardinality({b \in shots : b.at <= a.at}) = i]

\* The snapshots of one port.
PortSeries(row, window, port) ==
  LET of(r) == {[at |-> r.at, id |-> r.id, state |-> p.state] : p \in {q \in r.ports : q.id = port}}
  IN  InOrder(UNION {of(r) : r \in SnapshotsFor(row.readings, window.lo, window.hi)})

PortsSeen(row, window) ==
  IF row.durable
  THEN UNION {{p.id : p \in r.ports} : r \in SnapshotsFor(row.readings, window.lo, window.hi)}
  ELSE {}

EpisodesOf(row, window, port) == DetectPortEpisodes(PortSeries(row, window, port), GapSpans(row, window))

\* The drawer of one station: episodes where ports have an identity, rises of
\* the count elsewhere.
GetStationDetail(row, window) ==
  LET m == MetricsOf(row, window)
      intervals == IntervalsOf(ScopeOf(row, window), window)
      ports == PortsSeen(row, window)
      capability == ActivityCapability(ports # {}, m.observations > 0)
  IN  [station    |-> ToStationView(row, window),
       badge      |-> CASE \E r \in LatestFor(row.readings) : ClassifySourceFreshness(r) = "stale" -> "stale_source"
                        [] OTHER -> IF EvaluateEligibility(m) THEN "reliable" ELSE "provisional",
       capability |-> capability,
       starts     |-> MapThenSumSet(LAMBDA p : Cardinality(DetectedStarts(EpisodesOf(row, window, p))), ports),
       increases  |-> IF capability = "aggregate_count_changes"
                      THEN ObservedOccupiedIncreases({i.reading : i \in intervals}, GapSpans(row, window)).increases
                      ELSE Null,
       trend      |-> BuildTrend(<<intervals>>, window)]

PeakBand(row, window) == FindPeakBand(ComputeHeatmap(<<IntervalsOf(ScopeOf(row, window), window)>>))

\* The line at the top: the first thing that is wrong, or that all is well.
GetCollectionStatus(rows, running, userPaused, online, unhealthy, queueLag) ==
  CASE userPaused                                    -> "paused"
    [] ~userPaused /\ ~running                       ->
         IF \E row \in rows : row.linked /\ row.enabled THEN "paused" ELSE "not_started"
    [] ~userPaused /\ running /\ ~online             -> "offline"
    [] ~userPaused /\ running /\ online /\ unhealthy -> "source_issue"
    [] OTHER -> IF queueLag > 0 THEN "catching_up" ELSE "collecting"
=============================================================================
