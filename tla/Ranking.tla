-------------------------------- MODULE Ranking --------------------------------
(* The shared window of a study, who may be ranked, and in which order:        *)
(* domain/ranking.ts.  An entry is [key, metrics, eligible], keys in the order *)
(* of the names of the stations.                                               *)
EXTENDS Metrics

CONSTANTS
  Day,                \* instants of a day, for windows
  MinElapsedDays,
  MinStatusCoverage   \* in percent

RankingAssumption ==
  /\ Day \in Nat \ {0}
  /\ MinElapsedDays \in Nat
  /\ MinStatusCoverage \in 0..100
ASSUME RankingAssumption

\* The period asked for, cut at the first reading of the study: a number of days
\* up to now, everything, or two instants in either order.
Requested(request, now, studyStart) ==
  CASE request.preset = "days"   -> Span(now - request.days * Day, now)
    [] request.preset = "all"    -> Span(IF studyStart = Null THEN now ELSE studyStart, now)
    [] request.preset = "custom" -> Span(Lower(request.from, request.to), Higher(request.from, request.to))

ResolveWindow(request, now, studyStart) ==
  LET asked == Requested(request, now, studyStart)
      end == Higher(asked.lo, asked.hi)
      start == IF studyStart = Null THEN asked.lo ELSE Higher(asked.lo, studyStart)
  IN  Span(start, Higher(end, start))

\* The gates of the primary ranking that the figures of a scope fail.
Failures(m) ==
  {f \in {"insufficient_elapsed_days", "unknown_capacity", "occupancy_unsupported", "insufficient_status_coverage"} :
     \/ f = "insufficient_elapsed_days" /\ m.elapsed < MinElapsedDays * Day
     \/ f = "unknown_capacity" /\ m.expected = Null
     \/ f = "occupancy_unsupported" /\ OccupancyOf(m) = NoShare
     \/ f = "insufficient_status_coverage" /\ ~AtLeast(CoverageOf(m), MinStatusCoverage)}

EvaluateEligibility(m) == Failures(m) = {}

CohortMatches(mode, level) ==
  level \in CASE mode = "combined" -> {"level_2", "dc_fast", "mixed"}
              [] mode = "level_2"  -> {"level_2"}
              [] mode = "dc_fast"  -> {"dc_fast"}

\* By occupancy, the hours in use between equals, and what has no occupancy last;
\* or by the hours in use.
Before(a, b, sort) ==
  LET x == OccupancyOf(a.metrics)
      y == OccupancyOf(b.metrics)
      hours == a.metrics.occupied - b.metrics.occupied
  IN  IF sort = "occupancy"
      THEN \/ x # NoShare /\ y = NoShare
           \/ x # NoShare /\ y # NoShare /\ Exceeds(x, y)
           \/ x # NoShare /\ y # NoShare /\ ~Exceeds(x, y) /\ ~Exceeds(y, x)
              /\ (hours > 0 \/ (hours = 0 /\ a.key < b.key))
           \/ x = NoShare /\ y = NoShare /\ a.key < b.key
      ELSE hours > 0 \/ (hours = 0 /\ a.key < b.key)

\* Each has as many above it as come before it.
Ranked(entries, sort) ==
  [i \in 1..Cardinality(entries) |->
     CHOOSE e \in entries : Cardinality({d \in entries : Before(d, e, sort)}) = i - 1]

\* Mutant of RankScopes: whatever its figures, a scope is ranked.
RankScopesAll(entries, cohort, sort) ==
  [primary     |-> Ranked({e \in entries : CohortMatches(cohort, e.metrics.level)}, sort),
   provisional |-> <<>>,
   excluded    |-> {e.key : e \in {d \in entries : d.metrics.level = "unknown"}}]
\* The scopes of one cohort, the eligible ones ranked and the others after them;
\* a scope whose class is not known, or mixed, is not guessed into a class.
RankScopes(entries, cohort, sort) ==
  LET inCohort == {e \in entries : CohortMatches(cohort, e.metrics.level)}
      eligible == {e \in inCohort : EvaluateEligibility(e.metrics)}
  IN  [primary     |-> Ranked(eligible, sort),
       provisional |-> Ranked(inCohort \ eligible, sort),
       excluded    |-> {e.key : e \in {d \in entries \ inCohort :
                                         \/ d.metrics.level = "unknown"
                                         \/ d.metrics.level = "mixed" /\ cohort # "combined"}}]
=============================================================================
