------------------------------- MODULE Episodes -------------------------------
(* The spells of use of one port and the rises of a count: domain/episodes.ts. *)
(* A series is the port's snapshots in the order of their times, breaks are    *)
(* the spans no episode is carried across.                                     *)
EXTENDS Intervals

CONSTANTS
  MaxObservationGap,   \* snapshots further apart than this are not joined
  ShortFlip            \* an episode no longer than this is uncertain

BreaksBetween(a, b, breaks) == a < b /\ \E brk \in breaks : Intersect(Span(a, b), brk) # {}

\* Whether the series runs on from its snapshot before i to snapshot i.
\* Mutant of Joined: only a recorded break separates two snapshots.
JoinedAnyway(series, i, breaks) == i > 1 /\ ~BreaksBetween(series[i - 1].at, series[i].at, breaks)
Joined(series, i, breaks) ==
  /\ i > 1
  /\ ~BreaksBetween(series[i - 1].at, series[i].at, breaks)
  /\ series[i].at - series[i - 1].at <= MaxObservationGap

NotOpen == [open |-> FALSE]

\* An open episode, when the snapshot that shows the port in use is met.
Opened(series, i, joined) ==
  LET arrival == joined /\ series[i - 1].state = "available"
  IN  [open |-> TRUE, startLo |-> IF arrival THEN series[i - 1].at ELSE Null, startHi |-> series[i].at,
       leftCensored |-> ~arrival, interrupted |-> i > 1 /\ ~joined, ids |-> {series[i].id}]

\* The episode it becomes: between which snapshots it ended, whether that end
\* was seen, and whether something cut it.
Closed(e, endLo, endHi, rightCensored, interrupted) ==
  LET start == IF e.startLo = Null THEN e.startHi ELSE e.startLo
      end == IF endHi = Null THEN endLo ELSE endHi
  IN  [startLo |-> e.startLo, startHi |-> e.startHi, endLo |-> endLo, endHi |-> endHi,
       leftCensored |-> e.leftCensored, rightCensored |-> rightCensored,
       interrupted |-> e.interrupted \/ interrupted, ids |-> e.ids,
       uncertain |-> /\ end # Null /\ end - start <= ShortFlip
                     /\ ~e.leftCensored /\ ~rightCensored]

\* One snapshot: a break closes what is open, and so does a state that is
\* neither in use nor available; a port in use opens an episode or goes on.
Met(series, i, breaks, before) ==
  LET joined == Joined(series, i, breaks)
      previous == IF i > 1 THEN series[i - 1].at ELSE Null
      cut == before.now.open /\ i > 1 /\ ~joined
      done == IF cut THEN before.done \cup {Closed(before.now, previous, Null, TRUE, TRUE)} ELSE before.done
      now == IF cut THEN NotOpen ELSE before.now
      at == series[i].at
  IN  CASE series[i].state = "occupied" ->
             [done |-> done, now |-> IF now.open THEN [now EXCEPT !.ids = @ \cup {series[i].id}]
                                     ELSE Opened(series, i, joined)]
        [] series[i].state = "available" ->
             [done |-> IF now.open THEN done \cup {Closed([now EXCEPT !.ids = @ \cup {series[i].id}], previous, at, FALSE, FALSE)}
                       ELSE done,
              now |-> NotOpen]
        [] OTHER ->
             [done |-> IF now.open THEN done \cup {Closed(now, previous, at, TRUE, TRUE)} ELSE done,
              now |-> NotOpen]

\* The episodes of the whole series; one still open is closed at its end.
DetectPortEpisodes(series, breaks) ==
  LET met == FoldLeftDomain(LAMBDA before, i : Met(series, i, breaks, before), [done |-> {}, now |-> NotOpen], series)
  IN  IF met.now.open THEN met.done \cup {Closed(met.now, Last(series).at, Null, TRUE, FALSE)} ELSE met.done

DetectedStarts(episodes) == {e \in episodes : ~e.leftCensored}

\* A site without ports of its own: how often, and by how much, a count rose.
ObservedOccupiedIncreases(readings, breaks) ==
  LET reported == SetToSortSeq({r \in readings : r.counts.occupied # Null}, Precedes)
      pairs == {i \in 2..Len(reported) : ~BreaksBetween(reported[i - 1].at, reported[i].at, breaks)}
      Rise(i) == reported[i].counts.occupied - reported[i - 1].counts.occupied
      rises == {i \in pairs : Rise(i) > 0}
  IN  [increases |-> Cardinality(rises), magnitude |-> MapThenSumSet(Rise, rises)]

ActivityCapability(durablePorts, counts) ==
  CASE durablePorts            -> "detected_port_episodes"
    [] ~durablePorts /\ counts -> "aggregate_count_changes"
    [] OTHER                   -> "none"
=============================================================================
