--------------------------------- MODULE Study ---------------------------------
(* What the database worker stores of the stations it watches, and what the    *)
(* window is shown of it: ingestRun, setMonitored, recordGap and               *)
(* deleteObservationsBefore of database/worker.ts under the queries of         *)
(* QueryService.  One instant is the interval of the schedule, a quarter of an *)
(* hour.  A reading keeps the page it was made from, as history.               *)
EXTENDS PageParser, QueryService

CONSTANTS
  Stations,      \* numbered in the order of their names
  PagesOf,       \* what the source may show of each
  PortsOf,       \* the ports the catalogue may give each, Null for none
  Policy,        \* interval, cap and limit in force
  Requests,      \* windows the user may ask for
  Touched,       \* bound: the stations the user and the catalogue change
  MaxTime,       \* bound: instants
  MaxEvents      \* bound: things that happen to the study

StudyAssumption ==
  /\ FarFuture \in Int /\ MaxTime \in 1..FarFuture
  /\ Policy.interval \in Int /\ Policy.cap \in Int /\ Policy.limit \in Int
  /\ Policy.cap <= LookBack /\ Policy.cap <= FarFuture
  /\ Stations \subseteq Nat /\ IsFiniteSet(Stations) /\ Touched \subseteq Stations
  /\ \A s \in Stations : /\ PortsOf[s] \subseteq Nat \cup {Null}
                        /\ \A page \in PagesOf[s] : /\ Len(page.rows) \in Nat
                                                   /\ DOMAIN page.rows = 1..Len(page.rows)
                                                   /\ page.summary \in [available : Int, total : Int]
  /\ \A q \in Requests : \/ q.preset = "days" /\ q.days \in Nat
                         \/ q.preset = "all"
                         \/ q.preset = "custom" /\ q.from \in 0..FarFuture /\ q.to \in 0..FarFuture
ASSUME StudyAssumption

VARIABLES
  now,
  rows,          \* for each station its site, binding, readings, windows and capacity
  gaps,          \* recorded interruptions of the whole study
  events

studyVars == <<now, rows, gaps, events>>

Capacity(station, at) == [lo |-> at, hi |-> Null, ports |-> rows[station].ports, level |-> rows[station].catalogLevel]

With(record, field, value) ==
  [f \in DOMAIN record \cup {field} |-> IF f = field THEN value ELSE record[f]]

Stored(station, page, at) ==
  With(Envelope(at, at, ParsePageReading(page, station, at), Policy, TRUE), "page", page)

\* Every station is linked, and was turned on and read in the first instant.
StudyInit ==
  /\ now = 1
  /\ gaps = {}
  /\ events = 0
  /\ \E ports \in [Stations -> UNION {PortsOf[s] : s \in Stations}],
        first \in [Stations -> UNION {PagesOf[s] : s \in Stations}] :
       /\ \A s \in Stations : ports[s] \in PortsOf[s] /\ first[s] \in PagesOf[s]
       /\ \A s \in Stations : ParsePageReading(first[s], s, 0).ok
       /\ rows = [s \in Stations |->
                    [key |-> s, linked |-> TRUE, enabled |-> TRUE, durable |-> TRUE, saved |-> FALSE,
                     catalogLevel |-> "level_2", ports |-> ports[s], readings |-> {Stored(s, first[s], 0)},
                     windows |-> {Span(0, Null)},
                     capacity |-> IF ports[s] = Null THEN {}
                                  ELSE {[lo |-> 0, hi |-> Null, ports |-> ports[s], level |-> "level_2"]}]]

Happens == events < MaxEvents /\ events' = events + 1 /\ UNCHANGED now

\* A page is read, parsed and stored; one reading of a station in an instant.
ReadPage(station, page) ==
  /\ ParsePageReading(page, station, now).ok
  /\ ~\E r \in rows[station].readings : r.at = now
  /\ rows' = [rows EXCEPT ![station].readings = @ \cup {Stored(station, page, now)}]
  /\ Happens /\ UNCHANGED gaps

\* A window opens unless one did in this instant, and the catalogue's ports hold
\* from now on.
TurnOn(station) ==
  LET row == rows[station]
      others == {c \in row.capacity : c.lo # now}
  IN  /\ rows' = [rows EXCEPT ![station] =
                    [row EXCEPT !.enabled = TRUE,
                                !.windows = @ \cup (IF \E w \in @ : w.lo = now THEN {} ELSE {Span(now, Null)}),
                                !.capacity = IF row.ports = Null THEN @ ELSE others \cup {Capacity(station, now)}]]
      /\ Happens /\ UNCHANGED gaps

\* Every open window closes but one that opened in this very instant.
TurnOff(station) ==
  /\ rows[station].enabled
  /\ rows' = [rows EXCEPT ![station].enabled = FALSE,
                          ![station].windows = {IF w.hi = Null /\ w.lo < now THEN Span(w.lo, now) ELSE w : w \in @}]
  /\ Happens /\ UNCHANGED gaps

\* A newer catalogue has other ports for the site.
CatalogueChanges(station, ports) ==
  /\ ports # rows[station].ports
  /\ rows' = [rows EXCEPT ![station].ports = ports]
  /\ Happens /\ UNCHANGED gaps

\* An interruption is recorded when it is over; an empty one is not.
RecordGap(start, end) ==
  /\ start < end /\ end <= now
  /\ gaps' = gaps \cup {Span(start, end)}
  /\ Happens /\ UNCHANGED rows

\* The readings go, with their ports; the windows, gaps and capacity stay.
DeleteObservationsBefore(cutoff) ==
  /\ \E s \in Stations : \E r \in rows[s].readings : r.at < cutoff
  /\ rows' = [s \in Stations |-> [rows[s] EXCEPT !.readings = {r \in @ : r.at >= cutoff}]]
  /\ Happens /\ UNCHANGED gaps

Wait == now < MaxTime /\ now' = now + 1 /\ UNCHANGED <<rows, gaps, events>>

StudyNext ==
  \/ \E s \in Stations : \E page \in PagesOf[s] : ReadPage(s, page)
  \/ \E s \in Touched : TurnOn(s) \/ TurnOff(s) \/ \E ports \in PortsOf[s] : CatalogueChanges(s, ports)
  \/ RecordGap(now - 1, now)
  \/ DeleteObservationsBefore(now)
  \/ Wait

StudySpec == StudyInit /\ [][StudyNext]_studyVars

-------------------------------------------------------------------------------
\* The rows of the queries, and the windows the user may look through.
RowOf(station) == With(rows[station], "gaps", gaps)
StudyRows == {RowOf(s) : s \in Stations}
Windows == {SharedWindow(StudyRows, request, now) : request \in Requests}

\* What the pages said, instant by instant: the newest reading made while the
\* station was watched without a break since, no longer ago than it may be
\* carried by the schedule, the cap of the product and the limit of the source,
\* and no change of capacity after it.
WatchedAt(row, t) ==
  /\ \E w \in row.windows : w.lo <= t /\ (w.hi = Null \/ t < w.hi)
  /\ ~\E g \in row.gaps : Holds(g, t)
Carried ==
  LET most == Lower(2 * Policy.interval, Policy.cap)
  IN  IF Policy.limit = Null THEN most ELSE Lower(most, Policy.limit)
Speaks(row, t) ==
  {r \in row.readings : /\ r.at <= t /\ t < r.at + Carried
                        /\ \A q \in row.readings : q.at <= r.at \/ t < q.at
                        /\ \A u \in r.at..t : WatchedAt(row, u)
                        /\ ~\E c \in row.capacity : r.at < c.lo /\ c.lo <= t}
\* A page counts unless it shows more ports than a station can have, or its own
\* clock was behind by more than the limit when it was read.
Believed(r) ==
  /\ Len(r.page.rows) <= MaxPorts
  /\ Policy.limit # Null /\ r.updated # Null => ~(r.at - r.updated > Policy.limit)
Shown(row, t, state) ==
  LET Of(page) == Cardinality({i \in DOMAIN page.rows : ClassifyRow(page.rows[i]) = state})
  IN  MapThenSumSet(LAMBDA r : Of(r.page), {r \in Speaks(row, t) : Believed(r)})
InUse(row, times) == MapThenSumSet(LAMBDA t : Shown(row, t, "occupied"), times)
Working(row, times) == InUse(row, times) + MapThenSumSet(LAMBDA t : Shown(row, t, "available"), times)

Figure(row, times) == IF Working(row, times) = 0 THEN NoShare ELSE <<InUse(row, times), Working(row, times)>>

ShowsThePages(row, window, intervals, detail) ==
  LET times == window.lo..(window.hi - 1)
      On(day) == {t \in times : LocalDay(t) = day}
      At(place) == {t \in times : HourOfWeek(t) = place}
  IN  /\ detail.station.occupancy = Figure(row, times)
      /\ {LocalDay(t) : t \in {u \in times : LocalDay(u) < LocalDay(window.lo) + MaxTrendPoints}} \subseteq DOMAIN detail.trend
      /\ \A day \in DOMAIN detail.trend : detail.trend[day] = Figure(row, On(day))
      /\ \A place \in {HourOfWeek(t) : t \in times} :
           ShownIn(BinOf(<<intervals>>, "heatmap", place)) = Figure(row, At(place))

\* The figures are what the pages showed: in every window the occupancy of a
\* station, of a day of its trend and of an hour of its week is that of the rows
\* shown in use and available in the instants they cover, nothing is counted
\* twice at a boundary or carried further than it may be, and nothing a page did
\* not show is counted; the trend lacks a day of the window only after as many as
\* it has points (domain/metrics.ts:87, domain/intervals.ts:213,
\* database/queries.ts:477, 501, collector/adapters/chargepoint/parse.ts:373).
FiguresArePointwise ==
  \A s \in Stations, window \in Windows :
    ShowsThePages(RowOf(s), window, IntervalsOf(ScopeOf(RowOf(s), window), window), GetStationDetail(RowOf(s), window))

PortsAt(row, t) == MapThenSumSet(LAMBDA c : c.ports, CapacityAt(row.capacity, t))
\* No page shows more ports than are installed when it is read.
Fits(row) ==
  \A r \in row.readings :
    Higher(Len(r.page.rows), Higher(r.page.summary.total, r.page.summary.available)) <= PortsAt(row, r.at)

\* As long as no page shows more ports than are installed, the ports known and
\* unknown never exceed the ports expected, so that no coverage is above the
\* whole and nothing unobserved is hidden (domain/metrics.ts:117).
PortMinutesAddUp ==
  \A s \in Stations, window \in Windows :
    LET m == MetricsOf(RowOf(s), window)
    IN  m.expected # Null /\ Fits(RowOf(s)) => m.known + m.unknown + m.unobserved = m.expected

\* Every spell of use counted as a start was seen to start: an arrival between
\* two readings close together with nothing missing between them, each counted
\* once; and every reading that shows a port in use belongs to one spell
\* (domain/episodes.ts:100).
StartsAreArrivals ==
  \A s \in Stations, window \in Windows :
    LET row == RowOf(s)
    IN  \A port \in PortsSeen(row, window) :
          LET series == PortSeries(row, window, port)
              episodes == EpisodesOf(row, window, port)
              arrivals == {i \in 2..Len(series) :
                             /\ series[i - 1].state = "available" /\ series[i].state = "occupied"
                             /\ series[i].at - series[i - 1].at <= MaxObservationGap
                             /\ \A t \in series[i - 1].at..(series[i].at - 1) : ~\E g \in gaps : Holds(g, t)}
          IN  /\ {e.startHi : e \in DetectedStarts(episodes)} = {series[i].at : i \in arrivals}
              /\ Cardinality(DetectedStarts(episodes)) = Cardinality(arrivals)
              /\ \A i \in DOMAIN series : series[i].state = "occupied" =>
                   Cardinality({e \in episodes : series[i].id \in e.ids}) = 1

Everything == [savedOnly |-> FALSE, states |-> {}, types |-> {}]

FairlyRanked(overview) ==
  LET ranked == DOMAIN overview.ranked
      times == overview.window.lo..(overview.window.hi - 1)
      Row(i) == RowOf(overview.ranked[i])
      PortTime(i, some) == MapThenSumSet(LAMBDA t : PortsAt(Row(i), t), some)
      Watched(i) == {t \in times : WatchedAt(Row(i), t)}
      Heard(i) == {t \in Watched(i) : Speaks(Row(i), t) # {}}
  IN  /\ \A i, j \in ranked : i < j => ~Exceeds(Figure(Row(j), times), Figure(Row(i), times))
      /\ \A i \in ranked : Fits(Row(i)) =>
           100 * PortTime(i, Heard(i)) >= MinStatusCoverage * PortTime(i, Watched(i))
      /\ ranked # {} => /\ Cardinality(times) >= MinElapsedDays * Day
                        /\ \E i \in ranked : ~Exceeds(overview.group.occupancy, Figure(Row(i), times))
                        /\ \E i \in ranked : ~Exceeds(Figure(Row(i), times), overview.group.occupancy)

\* The ranking is fair: every station ranked was watched long enough, and heard
\* in nine tenths of the port-minutes it was watched, in the one window all
\* share; none stands above a busier one; and the figure of the group lies
\* between those of its members (domain/ranking.ts:120, domain/metrics.ts:160).
RankingIsFair ==
  \A request \in Requests : FairlyRanked(RankedLists(StudyRows, request, Everything, "level_2", "occupancy", now))
=============================================================================
