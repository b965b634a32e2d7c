------------------------------ MODULE Intervals ------------------------------
(* How a series of readings becomes the time a station is known to have been   *)
(* in one state: domain/time.ts and domain/intervals.ts.  A span is half open, *)
(* [lo, hi), and a set of spans stands for the array the code keeps in order.  *)
(* One scope at a time: the filters on the scope key are the caller's.         *)
EXTENDS Integers, Sequences, SequencesExt, FiniteSets

CONSTANT FarFuture     \* the instant that ends a window still open

Null == -1

Lower(a, b) == IF a < b THEN a ELSE b
Higher(a, b) == IF a > b THEN a ELSE b

Span(lo, hi) == [lo |-> lo, hi |-> hi]
Holds(span, t) == span.lo <= t /\ t < span.hi

\* The piece two spans share, as a set of at most one span.
Intersect(a, b) ==
  LET lo == Higher(a.lo, b.lo)
      hi == Lower(a.hi, b.hi)
  IN  IF hi <= lo THEN {} ELSE {Span(lo, hi)}

IntersectAll(span, others) == UNION {Intersect(span, o) : o \in others}

\* Of spans in their order, the last.
Latest(spans) ==
  CHOOSE s \in spans : \A r \in spans : r.lo < s.lo \/ (r.lo = s.lo /\ r.hi <= s.hi)

\* Taken in their order, the empty ones dropped, the others merged when they touch.
Normalize(spans) ==
  LET Add(s, out) ==
        LET last == Latest(out)
        IN  IF out # {} /\ s.lo <= last.hi
            THEN (out \ {last}) \cup {Span(last.lo, Higher(last.hi, s.hi))}
            ELSE out \cup {s}
  IN  MapThenFoldSet(Add, {}, LAMBDA s : s, Latest, {s \in spans : s.lo < s.hi})

\* What a cut leaves of one span.
Remains(span, cut) ==
  IF cut.hi <= span.lo \/ cut.lo >= span.hi
  THEN {span}
  ELSE {s \in {Span(span.lo, cut.lo), Span(cut.hi, span.hi)} : s.lo < s.hi}

Subtract(base, cuts) ==
  LET Cut(cut, remaining) == UNION {Remains(s, cut) : s \in remaining}
  IN  Normalize(MapThenFoldSet(Cut, {base}, LAMBDA cut : cut, Latest, Normalize(cuts)))

Minutes(spans) == MapThenSumSet(LAMBDA s : s.hi - s.lo, spans)

-------------------------------------------------------------------------------
\* The monitored time of a scope: windows still open end in the far future, and
\* recorded gaps are taken out.
ToSpans(windows) ==
  Normalize({Span(w.lo, IF w.hi = Null THEN FarFuture ELSE w.hi) : w \in windows})

Monitored(windows, gaps) ==
  Normalize(UNION {Subtract(span, Normalize(gaps)) : span \in ToSpans(windows)})

\* The instants at which the recorded capacity starts or stops to hold.
Boundaries(capacity) == {c.lo : c \in capacity} \cup ({c.hi : c \in capacity} \ {Null})

\* The record in force at an instant, the one that began last: a set, empty
\* when the capacity is not known.
CapacityAt(capacity, t) ==
  LET inForce == {c \in capacity : c.lo <= t /\ (c.hi = Null \/ t < c.hi)}
  IN  {c \in inForce : \A d \in inForce : d.lo <= c.lo}

PortsInForce(capacity, t) == (CHOOSE c \in CapacityAt(capacity, t) : TRUE).ports

\* Monitored time, cut where the capacity starts or stops to hold.
Cuts(span, capacity) == {span.lo, span.hi} \cup {b \in Boundaries(capacity) : span.lo < b /\ b < span.hi}
Pieces(monitored, capacity) ==
  {p \in UNION {{Span(a, b) : a \in Cuts(s, capacity), b \in Cuts(s, capacity)} : s \in monitored} :
     /\ p.lo < p.hi
     /\ ~\E s \in monitored : \E c \in Cuts(s, capacity) : p.lo < c /\ c < p.hi
     /\ \E s \in monitored : Holds(s, p.lo)}

\* Installed ports over monitored time, or Null when a part has no capacity.
ExpectedPortMinutes(monitored, capacity) ==
  LET pieces == Pieces(monitored, capacity)
  IN  IF \E p \in pieces : CapacityAt(capacity, p.lo) = {}
      THEN Null
      ELSE MapThenSumSet(LAMBDA p : PortsInForce(capacity, p.lo) * (p.hi - p.lo), pieces)

\* One charging class, or mixed; what has no class does not mix.
MixLevels(levels) ==
  LET known == levels \ {"unknown"}
  IN  IF known = {} THEN "unknown" ELSE IF Cardinality(known) > 1 THEN "mixed" ELSE CHOOSE l \in known : TRUE

-------------------------------------------------------------------------------
\* Readings.  "at" is when the page was read; the source's own clock is judged
\* against the source's limit, when it has both.
ClassifySourceFreshness(r) ==
  CASE r.updated = Null                                  -> "unknown_source_clock"
    [] r.updated # Null /\ r.limit = Null                -> "fresh"
    [] r.updated # Null /\ r.limit # Null                ->
         IF r.at - r.updated > r.limit THEN "stale" ELSE "fresh"

\* How long a reading may be carried forward.
CarryForwardBudget(r) ==
  Higher(0, Lower(Lower(2 * r.interval, r.cap), IF r.limit = Null THEN FarFuture ELSE r.limit))

Precedes(a, b) == a.at < b.at \/ (a.at = b.at /\ a.id < b.id)

\* Why a reading contributes no time, or "used"; reconciles says whether the
\* counts it reports can all be true.
Verdict(r, monitored, reconciles) ==
  CASE r.quality \in {"invalid", "ambiguous_scope"}        -> "quality"
    [] \/ ClassifySourceFreshness(r) = "stale"
       \/ r.quality = "stale_source"                       -> "source_stale"
    [] ~reconciles                                         -> "reconcile_failed"
    [] ~\E s \in monitored : Holds(s, r.at)                -> "outside_monitoring"
    [] OTHER                                               -> "used"

\* Mutant of HoldsUntil: a reading is carried past the end of monitoring.
HoldsUntilNext(r, readings, monitored, capacity) ==
  LET ends == {r.at + CarryForwardBudget(r)}
              \cup {s.at : s \in {q \in readings : Precedes(r, q)}}
              \cup {b \in Boundaries(capacity) : b > r.at}
  IN  CHOOSE t \in ends : \A u \in ends : t <= u

\* Until when a reading holds: its budget, the end of the monitored span it was
\* made in, the next reading of whatever quality, the next capacity boundary.
HoldsUntil(r, readings, monitored, capacity) ==
  LET later == {s \in readings : Precedes(r, s)}
      ends == {r.at + CarryForwardBudget(r)}
              \cup {s.hi : s \in {m \in monitored : Holds(m, r.at)}}
              \cup {s.at : s \in later}
              \cup {b \in Boundaries(capacity) : b > r.at}
  IN  CHOOSE t \in ends : \A u \in ends : t <= u

\* The time each reading stands for inside the window; those whose counts can
\* all be true are reconciled.
ValidIntervals(readings, monitored, capacity, window, reconciled) ==
  UNION {{[span |-> s, reading |-> r] :
             s \in Intersect(Span(r.at, HoldsUntil(r, readings, monitored, capacity)), window)} :
         r \in {q \in readings : /\ q.at < window.hi
                                 /\ Verdict(q, monitored, q \in reconciled) = "used"}}
=============================================================================
