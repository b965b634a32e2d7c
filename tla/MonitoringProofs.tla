-------------------------- MODULE MonitoringProofs --------------------------
(* For any stations, requests, losses and restarts: the monitoring windows of  *)
(* a station are exactly the time it was on, and a reading counts for no other. *)
EXTENDS Monitoring, IntervalsProofs

-----------------------------------------------------------------------------
(* The windows of a station. *)

Open(w) == w.hi = Null
Covers(w, t) == w.lo <= t /\ (w.hi = Null \/ t < w.hi)

\* Of the windows of one station at an instant the clock was never set back to:
\* none begins after it, and those that have ended did so by then; one is open
\* exactly while they run, and one opened at the instant exactly if the station
\* was turned on then; together they are the instants they were to hold.
Exact(spans, runs, held, isNew, t) ==
  /\ held \subseteq 0..(t - 1)
  /\ spans \subseteq [lo : 0..t, hi : {Null} \cup 0..t]
  /\ \A w \in spans : ~Open(w) => w.lo < w.hi
  /\ isNew <=> \E w \in spans : Open(w) /\ w.lo = t
  /\ runs <=> \E w \in spans : Open(w)
  /\ \A u \in 0..(t - 1) : u \in held <=> \E w \in spans : Covers(w, u)

\* Once the clock has been set back to b, and never before b: what they hold of
\* the instants before b.
Past(spans, held, b) ==
  /\ spans \subseteq [lo : Nat, hi : {Null} \cup Nat]
  /\ \A u \in 0..(b - 1) : u \in held <=> \E w \in spans : Covers(w, u)

Runs(s) == on[s] \/ s \in hasty
HeldBy(s) == watched[s] \cup overrun[s]

StationOK(s) ==
  /\ IsFiniteSet(windows[s])
  /\ backTo = Null => Exact(windows[s], Runs(s), HeldBy(s), s \in fresh, clock)
  /\ backTo # Null => Past(windows[s], HeldBy(s), backTo)

IInv ==
  /\ clock \in Nat /\ backTo \in {Null} \cup 0..clock
  /\ on \in [Stations -> BOOLEAN]
  /\ \A s \in Stations : StationOK(s)

LEMMA ExactIsWatched == ASSUME IInv PROVE WatchedExactlyWhileOn
  <1>1. ASSUME NEW s \in Stations, NEW t \in 0..(Sure - 1)
        PROVE  t \in HeldBy(s) <=> \E w \in windows[s] : Covers(w, t)
    <2>1. StationOK(s) /\ clock \in Nat
      BY DEF IInv
    <2>2. CASE backTo = Null
      BY <2>1, <2>2 DEF StationOK, Exact, Sure
    <2>3. CASE backTo # Null
      BY <2>1, <2>3 DEF StationOK, Past, Sure
    <2> QED BY <2>2, <2>3
  <1> QED BY <1>1 DEF HeldBy, Covers, WatchedExactlyWhileOn

-----------------------------------------------------------------------------
\* An instant passes over a station.
LEMMA Lasting ==
  ASSUME NEW t \in Nat, NEW spans, NEW runs \in BOOLEAN, NEW held, NEW isNew,
         Exact(spans, runs, held, isNew, t)
  PROVE  Exact(spans, runs, held \cup {u \in {t} : runs}, FALSE, t + 1)
  <1> DEFINE after == held \cup {u \in {t} : runs}
  <1>1. spans \subseteq [lo : 0..(t + 1), hi : {Null} \cup 0..(t + 1)] /\ after \subseteq 0..t
    <2>1. spans \subseteq [lo : 0..(t + 1), hi : {Null} \cup 0..(t + 1)]
      BY DEF Exact, Null
    <2>2. held \subseteq 0..t
      BY DEF Exact
    <2>3. t \in 0..t
      OBVIOUS
    <2> QED BY <2>1, <2>2, <2>3, Zenon
  <1>2. t \in after <=> runs
    BY DEF Exact
  <1>3. \A w \in spans : (Covers(w, t) <=> Open(w)) /\ w.lo # t + 1
    BY DEF Exact, Covers, Open, Null
  <1>4. t \in after <=> \E w \in spans : Covers(w, t)
    BY <1>2, <1>3 DEF Exact
  <1>5. ASSUME NEW u \in 0..(t - 1)
        PROVE  u \in after <=> \E w \in spans : Covers(w, u)
    <2>1. u \in after <=> u \in held
      OBVIOUS
    <2> QED BY <2>1 DEF Exact
  <1>6. \A u \in 0..t : u = t \/ u \in 0..(t - 1)
    OBVIOUS
  <1>7. \A u \in 0..t : u \in after <=> \E w \in spans : Covers(w, u)
    BY <1>4, <1>5, <1>6
  <1>8. (t + 1) - 1 = t
    OBVIOUS
  <1>9. (\A w \in spans : ~Open(w) => w.lo < w.hi) /\ (runs <=> \E w \in spans : Open(w))
    BY DEF Exact
  <1> HIDE DEF after
  <1> QED BY <1>1, <1>3, <1>7, <1>8, <1>9 DEF Exact, after

\* The request that turns a station on leaves a window open that began at its
\* instant.
LEMMA TurningOn ==
  ASSUME NEW t \in Nat, NEW spans, NEW runs, NEW held, NEW isNew,
         Exact(spans, runs, held, isNew, t)
  PROVE  Exact(OpenMonitoring(spans, t), TRUE, held, TRUE, t)
  <1> DEFINE new == Span(t, Null)
             opened == OpenMonitoring(spans, t)
  <1>1. new \in [lo : 0..t, hi : {Null} \cup 0..t] /\ Open(new) /\ new.lo = t
    BY DEF Span, Open
  <1>2. \A u \in 0..(t - 1) : ~Covers(new, u)
    BY DEF Covers, Span
  <1>3. \A w \in spans : w.lo = t => Open(w)
    BY DEF Exact, Open, Null
  <1>4. (spans \subseteq opened) /\ (opened \subseteq spans \cup {new})
    BY DEF OpenMonitoring
  <1>5. \E w \in opened : Open(w) /\ w.lo = t
    <2>1. CASE \E w \in spans : w.lo = t
      BY <2>1, <1>3, <1>4
    <2>2. CASE ~\E w \in spans : w.lo = t
      BY <2>2, <1>1 DEF OpenMonitoring
    <2> QED BY <2>1, <2>2
  <1> HIDE DEF new, opened
  <1>6. opened \subseteq [lo : 0..t, hi : {Null} \cup 0..t] /\ \A w \in opened : ~Open(w) => w.lo < w.hi
    BY <1>1, <1>4 DEF Exact
  <1>7. \A u \in 0..(t - 1) : u \in held <=> \E w \in opened : Covers(w, u)
    BY <1>2, <1>4 DEF Exact
  <1>8. held \subseteq 0..(t - 1)
    BY DEF Exact
  <1>9. Exact(opened, TRUE, held, TRUE, t)
    BY <1>5, <1>6, <1>7, <1>8 DEF Exact
  <1> QED BY <1>9 DEF opened

\* The request that turns it off closes whatever window was open, but one that
\* was opened in its very instant.
LEMMA TurningOff ==
  ASSUME NEW t \in Nat, NEW spans, NEW runs, NEW held, NEW isNew,
         Exact(spans, runs, held, isNew, t)
  PROVE  Exact(CloseMonitoring(spans, t), isNew, held, isNew, t)
  <1> DEFINE closed == CloseMonitoring(spans, t)
             Close(w) == IF w.hi = Null /\ w.lo < t THEN Span(w.lo, t) ELSE w
  <1>1. closed = {Close(w) : w \in spans}
    BY DEF CloseMonitoring
  <1>2. \A w \in spans :
          /\ Close(w) \in [lo : 0..t, hi : {Null} \cup 0..t]
          /\ ~Open(Close(w)) => Close(w).lo < Close(w).hi
          /\ Open(Close(w)) <=> Open(w) /\ w.lo = t
          /\ Close(w).lo = w.lo
    BY DEF Exact, Open, Span, Null
  <1>3. \A w \in spans : \A u \in 0..(t - 1) : Covers(Close(w), u) <=> Covers(w, u)
    BY DEF Exact, Open, Span, Covers, Null
  <1>4. /\ \A u \in 0..(t - 1) : u \in held <=> \E w \in spans : Covers(w, u)
        /\ isNew <=> \E w \in spans : Open(w) /\ w.lo = t
        /\ held \subseteq 0..(t - 1)
    BY DEF Exact
  <1> HIDE DEF Close
  <1>5. \A u \in 0..(t - 1) : u \in held <=> \E w \in closed : Covers(w, u)
    BY <1>1, <1>3, <1>4
  <1>6. /\ isNew <=> \E w \in closed : Open(w)
        /\ isNew <=> \E w \in closed : Open(w) /\ w.lo = t
    BY <1>1, <1>2, <1>4
  <1>7. closed \subseteq [lo : 0..t, hi : {Null} \cup 0..t] /\ \A w \in closed : ~Open(w) => w.lo < w.hi
    BY <1>1, <1>2
  <1> HIDE DEF closed
  <1>8. Exact(closed, isNew, held, isNew, t)
    BY <1>4, <1>5, <1>6, <1>7 DEF Exact
  <1> QED BY <1>8 DEF closed

LEMMA Shorter ==
  ASSUME NEW a \in Nat, NEW b \in 0..a PROVE \A u \in 0..(b - 1) : u \in 0..(a - 1)
  OBVIOUS

\* After a set-back no request disturbs what lies before it.
LEMMA TurningLater ==
  ASSUME NEW t \in Nat, NEW b \in 0..t, NEW spans, NEW held, Past(spans, held, b)
  PROVE  /\ Past(OpenMonitoring(spans, t), held, b)
         /\ Past(CloseMonitoring(spans, t), held, b)
  <1>1. Past(OpenMonitoring(spans, t), held, b)
    <2> DEFINE new == Span(t, Null)
               opened == OpenMonitoring(spans, t)
    <2>1. new \in [lo : Nat, hi : {Null} \cup Nat] /\ \A u \in 0..(b - 1) : ~Covers(new, u)
      BY DEF Covers, Span
    <2>2. (spans \subseteq opened) /\ (opened \subseteq spans \cup {new})
      BY DEF OpenMonitoring
    <2> HIDE DEF new, opened
    <2>3. Past(opened, held, b)
      BY <2>1, <2>2 DEF Past
    <2> QED BY <2>3 DEF opened
  <1>2. Past(CloseMonitoring(spans, t), held, b)
    <2> DEFINE closed == CloseMonitoring(spans, t)
               Close(w) == IF w.hi = Null /\ w.lo < t THEN Span(w.lo, t) ELSE w
    <2>1. closed = {Close(w) : w \in spans}
      BY DEF CloseMonitoring
    <2>2. \A w \in spans : /\ Close(w) \in [lo : Nat, hi : {Null} \cup Nat]
                           /\ \A u \in 0..(b - 1) : Covers(Close(w), u) <=> Covers(w, u)
      BY DEF Past, Span, Covers, Null
    <2> HIDE DEF Close
    <2>3. Past(closed, held, b)
      BY <2>1, <2>2 DEF Past
    <2> QED BY <2>3
  <1> QED BY <1>1, <1>2

LEMMA StayFinite ==
  ASSUME NEW t, NEW spans, IsFiniteSet(spans)
  PROVE  IsFiniteSet(OpenMonitoring(spans, t)) /\ IsFiniteSet(CloseMonitoring(spans, t))
  <1>1. IsFiniteSet(OpenMonitoring(spans, t))
    <2>1. IsFiniteSet(spans \cup {Span(t, Null)})
      BY FS_AddElement
    <2> QED BY <2>1 DEF OpenMonitoring
  <1>2. IsFiniteSet(CloseMonitoring(spans, t))
    <2> DEFINE Close(w) == IF w.hi = Null /\ w.lo < t THEN Span(w.lo, t) ELSE w
               closed == {Close(w) : w \in spans}
               f == [w \in spans |-> Close(w)]
    <2>1. f \in Surjection(spans, closed)
      <3> HIDE DEF Close
      <3> QED BY DEF Surjection
    <2>2. IsFiniteSet(closed)
      <3> HIDE DEF closed, f
      <3> QED BY <2>1, FS_Surjection
    <2> QED BY <2>2 DEF CloseMonitoring
  <1> QED BY <1>1, <1>2

-----------------------------------------------------------------------------
LEMMA IInvInit == ASSUME MInit PROVE IInv
  <1>1. ASSUME NEW s \in Stations PROVE StationOK(s)
    <2>1. /\ windows[s] = {} /\ clock = 0 /\ backTo = Null /\ on[s] = FALSE
          /\ fresh = {} /\ hasty = {} /\ watched[s] = {} /\ overrun[s] = {}
      BY DEF MInit
    <2>2. IsFiniteSet(windows[s])
      BY <2>1, FS_EmptySet
    <2>3. Exact(windows[s], Runs(s), HeldBy(s), s \in fresh, clock)
      BY <2>1 DEF Exact, Runs, HeldBy
    <2> QED BY <2>1, <2>2, <2>3 DEF StationOK
  <1> QED BY <1>1 DEF IInv, MInit

\* The steps that neither pass an instant nor touch a window.
LEMMA StillKeeps == ASSUME IInv, UNCHANGED <<time, on, windows, hasty>> PROVE IInv'
  BY DEF IInv, StationOK, Exact, Past, Runs, HeldBy, Covers, Open, time

LEMMA TickKeeps == ASSUME IInv, Tick PROVE IInv'
  <1>1. /\ clock' = clock + 1 /\ on' = on /\ windows' = windows /\ backTo' = backTo
        /\ watched' = [s \in Stations |-> watched[s] \cup {t \in {clock} : on[s]}]
        /\ overrun' = [s \in Stations |-> overrun[s] \cup {t \in {clock} : ~on[s] /\ s \in hasty}]
        /\ fresh' = {} /\ hasty' = hasty
    BY DEF Tick, db
  <1>2. clock \in Nat /\ backTo \in {Null} \cup 0..clock /\ on \in [Stations -> BOOLEAN]
    BY DEF IInv
  <1>3. ASSUME NEW s \in Stations PROVE StationOK(s)'
    <2>1. StationOK(s) /\ on[s] \in BOOLEAN
      BY <1>2 DEF IInv
    <2>2. HeldBy(s)' = HeldBy(s) \cup {t \in {clock} : Runs(s)}
      BY <1>1 DEF HeldBy, Runs
    <2>3. Runs(s)' = Runs(s) /\ Runs(s) \in BOOLEAN /\ ~(s \in fresh')
      BY <1>1, <2>1 DEF Runs
    <2>4. CASE backTo = Null
      <3>1. Exact(windows[s], Runs(s), HeldBy(s), s \in fresh, clock)
        BY <2>1, <2>4 DEF StationOK
      <3>2. Exact(windows[s], Runs(s), HeldBy(s) \cup {t \in {clock} : Runs(s)}, FALSE, clock + 1)
        BY <1>2, <2>3, <3>1, Lasting
      <3>3. Exact(windows[s], Runs(s), HeldBy(s), s \in fresh, clock)'
        BY <1>1, <2>2, <2>3, <3>2 DEF Exact, Covers, Open
      <3> QED BY <1>1, <2>1, <2>4, <3>3 DEF StationOK
    <2>5. CASE backTo # Null
      <3>1. Past(windows[s], HeldBy(s), backTo) /\ backTo \in 0..clock
        BY <1>2, <2>1, <2>5 DEF StationOK
      <3>2. \A u \in 0..(backTo - 1) : u \in HeldBy(s)' <=> u \in HeldBy(s)
        BY <1>2, <2>2, <3>1
      <3>3. Past(windows[s], HeldBy(s), backTo)'
        BY <1>1, <3>1, <3>2 DEF Past, Covers
      <3> QED BY <1>1, <2>1, <2>5, <3>3 DEF StationOK
    <2> QED BY <2>4, <2>5
  <1> QED BY <1>1, <1>2, <1>3 DEF IInv, Null

LEMMA ClockSetBackKeeps == ASSUME IInv, ClockSetBack PROVE IInv'
  <1>1. /\ clock' \in 0..(clock - 1) /\ on' = on /\ windows' = windows
        /\ backTo' = IF backTo = Null THEN clock' ELSE Lower(backTo, clock')
        /\ watched' = watched /\ overrun' = overrun
    BY DEF ClockSetBack, db
  <1>2. clock \in Nat /\ backTo \in {Null} \cup 0..clock /\ on \in [Stations -> BOOLEAN]
    BY DEF IInv
  <1>3. clock' \in Nat /\ backTo' \in 0..clock' /\ backTo' # Null
    BY <1>1, <1>2 DEF Null, Lower
  <1>4. ASSUME NEW s \in Stations PROVE StationOK(s)'
    <2>1. StationOK(s) /\ HeldBy(s)' = HeldBy(s)
      BY <1>1 DEF IInv, HeldBy
    <2>2. CASE backTo = Null
      <3>1. Exact(windows[s], Runs(s), HeldBy(s), s \in fresh, clock) /\ backTo' \in 0..(clock - 1)
        BY <1>1, <2>1, <2>2 DEF StationOK
      <3>2. \A u \in 0..(backTo' - 1) : u \in 0..(clock - 1)
        <4>1. backTo' \in 0..clock
          BY <1>1, <1>2, <1>3
        <4> QED BY <1>2, <4>1, Shorter
      <3>3. windows[s] \subseteq [lo : Nat, hi : {Null} \cup Nat]
        BY <1>2, <3>1 DEF Exact
      <3>4. \A u \in 0..(clock - 1) : u \in HeldBy(s) <=> \E w \in windows[s] : Covers(w, u)
        BY <3>1 DEF Exact
      <3>5. Past(windows[s], HeldBy(s), backTo)'
        BY <1>1, <2>1, <3>2, <3>3, <3>4 DEF Past, Covers
      <3> QED BY <1>1, <1>3, <2>1, <3>5 DEF StationOK
    <2>3. CASE backTo # Null
      <3>1. Past(windows[s], HeldBy(s), backTo) /\ backTo \in Nat
        BY <1>2, <2>1, <2>3 DEF StationOK
      <3>2. \A u \in 0..(backTo' - 1) : u \in 0..(backTo - 1)
        <4>1. backTo' = Lower(backTo, clock') /\ clock' \in Nat
          BY <1>1, <1>3, <2>3
        <4>2. backTo' \in 0..backTo
          BY <3>1, <4>1 DEF Lower
        <4> QED BY <3>1, <4>2, Shorter
      <3>3. Past(windows[s], HeldBy(s), backTo)'
        BY <1>1, <2>1, <3>1, <3>2 DEF Past, Covers
      <3> QED BY <1>1, <1>3, <2>1, <3>3 DEF StationOK
    <2> QED BY <2>2, <2>3
  <1> QED BY <1>1, <1>2, <1>3, <1>4 DEF IInv

LEMMA SetMonitoredKeeps ==
  ASSUME IInv, NEW r, NEW stations \in SUBSET Stations, NEW enable \in BOOLEAN,
         SetMonitored(r, stations, enable)
  PROVE  IInv'
  <1> DEFINE changed == IF enable /\ ~eligible THEN {} ELSE stations
  <1>1. /\ clock' = clock /\ backTo' = backTo /\ watched' = watched /\ overrun' = overrun
        /\ on' = [s \in Stations |-> IF s \in changed THEN enable ELSE on[s]]
        /\ windows' = [s \in Stations |->
                         CASE s \in changed /\ enable  -> OpenMonitoring(windows[s], clock)
                           [] s \in changed /\ ~enable -> CloseMonitoring(windows[s], clock)
                           [] OTHER                    -> windows[s]]
        /\ fresh' = IF enable THEN fresh \cup changed ELSE fresh
        /\ hasty' = IF enable THEN hasty \ changed ELSE (hasty \ changed) \cup (fresh \cap changed)
    BY DEF SetMonitored
  <1> HIDE DEF changed
  <1>2. clock \in Nat /\ backTo \in {Null} \cup 0..clock /\ on \in [Stations -> BOOLEAN]
    BY DEF IInv
  <1>3. ASSUME NEW s \in Stations PROVE StationOK(s)'
    <2>1. StationOK(s) /\ HeldBy(s)' = HeldBy(s)
      BY <1>1 DEF IInv, HeldBy
    <2>2. CASE s \in changed /\ enable
      <3>1. windows'[s] = OpenMonitoring(windows[s], clock) /\ Runs(s)' = TRUE /\ s \in fresh'
        BY <1>1, <2>2 DEF Runs
      <3>2. IsFiniteSet(windows'[s])
        BY <2>1, <3>1, StayFinite DEF StationOK
      <3>3. ASSUME backTo = Null PROVE Exact(windows'[s], TRUE, HeldBy(s), TRUE, clock)
        BY <1>2, <2>1, <3>1, <3>3, TurningOn DEF StationOK
      <3>4. ASSUME backTo # Null PROVE Past(windows'[s], HeldBy(s), backTo)
        BY <1>2, <2>1, <3>1, <3>4, TurningLater DEF StationOK
      <3>5. backTo = Null => Exact(windows[s], Runs(s), HeldBy(s), s \in fresh, clock)'
        BY <1>1, <2>1, <3>1, <3>3 DEF Exact, Covers, Open
      <3>6. backTo # Null => Past(windows[s], HeldBy(s), backTo)'
        BY <1>1, <2>1, <3>4 DEF Past, Covers
      <3> QED BY <1>1, <3>2, <3>5, <3>6 DEF StationOK
    <2>3. CASE s \in changed /\ ~enable
      <3>1. /\ windows'[s] = CloseMonitoring(windows[s], clock)
            /\ Runs(s)' <=> s \in fresh
            /\ s \in fresh' <=> s \in fresh
        BY <1>1, <2>3 DEF Runs
      <3>2. IsFiniteSet(windows'[s])
        BY <2>1, <3>1, StayFinite DEF StationOK
      <3>3. ASSUME backTo = Null PROVE Exact(windows'[s], s \in fresh, HeldBy(s), s \in fresh, clock)
        <4>1. Exact(windows[s], Runs(s), HeldBy(s), s \in fresh, clock)
          BY <2>1, <3>3 DEF StationOK
        <4> QED BY <1>2, <3>1, <4>1, TurningOff
      <3>4. ASSUME backTo # Null PROVE Past(windows'[s], HeldBy(s), backTo)
        BY <1>2, <2>1, <3>1, <3>4, TurningLater DEF StationOK
      <3>5. backTo = Null => Exact(windows[s], Runs(s), HeldBy(s), s \in fresh, clock)'
        BY <1>1, <2>1, <3>1, <3>3 DEF Exact, Covers, Open
      <3>6. backTo # Null => Past(windows[s], HeldBy(s), backTo)'
        BY <1>1, <2>1, <3>4 DEF Past, Covers
      <3> QED BY <1>1, <3>2, <3>5, <3>6 DEF StationOK
    <2>4. CASE s \notin changed
      <3>1. /\ windows'[s] = windows[s] /\ Runs(s)' = Runs(s)
            /\ s \in fresh' <=> s \in fresh
        BY <1>1, <2>4 DEF Runs
      <3> QED BY <1>1, <2>1, <3>1 DEF StationOK, Exact, Past, Covers, Open
    <2> QED BY <2>2, <2>3, <2>4
  <1>4. on' \in [Stations -> BOOLEAN]
    BY <1>1, <1>2, Zenon
  <1> QED BY <1>1, <1>2, <1>3, <1>4 DEF IInv

LEMMA IInvNext == ASSUME IInv, [MNext]_mvars PROVE IInv'
  <1>1. CASE UNCHANGED <<time, on, windows, hasty>>
    BY <1>1, StillKeeps
  <1>2. CASE Tick \/ ClockSetBack
    BY <1>2, TickKeeps, ClockSetBackKeeps
  <1>3. ASSUME NEW r \in Requests, NEW s \in Stations, NEW enable \in BOOLEAN, SetMonitored(r, {s}, enable)
        PROVE  IInv'
    <2>1. {s} \in SUBSET Stations
      OBVIOUS
    <2> QED BY <1>3, <2>1, SetMonitoredKeeps
  <1>4. ASSUME NEW r \in Requests, NEW enable \in BOOLEAN, SetMonitoredAll(r, enable) PROVE IInv'
    <2>1. Stations \in SUBSET Stations
      OBVIOUS
    <2> QED BY <1>4, <2>1, SetMonitoredKeeps DEF SetMonitoredAll
  <1>5. \/ UNCHANGED <<time, on, windows, hasty>>
        \/ Tick \/ ClockSetBack
        \/ \E r \in Requests :
             \/ \E s \in Stations, enable \in BOOLEAN : SetMonitored(r, {s}, enable)
             \/ \E enable \in BOOLEAN : SetMonitoredAll(r, enable)
    <2>1. ASSUME NEW r \in Requests \cup {Boot}, Reload(r) \/ LoadCollectorState(r) \/ LoadFails(r)
          PROVE  UNCHANGED <<time, on, windows, hasty>>
      BY <2>1 DEF Reload, LoadCollectorState, LoadFails, db
    <2>2. ASSUME PersistQueue \/ LosesQueue \/ CollectorLoads
          PROVE  UNCHANGED <<time, on, windows, hasty>>
      BY <2>2 DEF PersistQueue, LosesQueue, CollectorLoads, db
    <2>3. ASSUME NEW batch, NEW paused, ReadPages(batch, paused)
          PROVE  UNCHANGED <<time, on, windows, hasty>>
      BY <2>3 DEF ReadPages, db
    <2>4. ASSUME SaveQueue \/ CollectorExits \/ CollectorRestarts \/ Relaunch
          PROVE  UNCHANGED <<time, on, windows, hasty>>
      BY <2>4 DEF SaveQueue, CollectorExits, CollectorRestarts, Relaunch, db
    <2>5. UNCHANGED mvars => UNCHANGED <<time, on, windows, hasty>>
      BY DEF mvars, db
    <2> QED BY <2>1, <2>2, <2>3, <2>4, <2>5 DEF MNext
  <1> QED BY <1>1, <1>2, <1>3, <1>4, <1>5

\* Whatever requests overlap or repeat, in one instant too, and whatever is lost or
\* restarted, the windows miss no instant a station was on, and add none but those
\* after a turning off in the instant of its turning on; of what came before a
\* set-back of the clock they stay right (worker.ts:1224-1298).
THEOREM WindowsAreExact == MSpec => []WatchedExactlyWhileOn
  <1>1. MInit => IInv
    BY IInvInit
  <1>2. IInv /\ [MNext]_mvars => IInv'
    BY IInvNext
  <1>3. IInv => WatchedExactlyWhileOn
    BY ExactIsWatched
  <1> QED BY <1>1, <1>2, <1>3, PTL DEF MSpec

-----------------------------------------------------------------------------
\* However long a reading may be carried forward, and whenever it was made, the
\* time it counts for is time its station was on, or had been turned off in the
\* instant it was turned on, before any set-back of the clock (intervals.ts:213-352).
THEOREM OnlyMonitoredTimeCounts ==
  ASSUME MonitoringAssumption PROVE MSpec => []CountsOnlyMonitoredTime
  <1>1. MInit => IInv
    BY IInvInit
  <1>2. IInv /\ [MNext]_mvars => IInv'
    BY IInvNext
  <1>3. ASSUME IInv, NEW s \in Stations, NEW at \in 0..clock
        PROVE  LET reading == [id |-> 1, at |-> at, quality |-> "reliable", updated |-> Null, limit |-> Null,
                               interval |-> MaxTime, cap |-> MaxTime]
                   counted == ValidIntervals({reading}, Monitored(windows[s], {}), {}, Span(0, clock), {reading})
               IN  \A i \in counted : (i.span.lo..(i.span.hi - 1)) \cap 0..(Sure - 1) \subseteq watched[s] \cup overrun[s]
    <2> DEFINE reading == [id |-> 1, at |-> at, quality |-> "reliable", updated |-> Null, limit |-> Null,
                           interval |-> MaxTime, cap |-> MaxTime]
               monitored == Monitored(windows[s], {})
    <2>1. clock \in Nat /\ Finite(windows[s]) /\ WatchedExactlyWhileOn
      <3>1. clock \in Nat /\ StationOK(s) /\ WatchedExactlyWhileOn
        BY <1>3, ExactIsWatched DEF IInv
      <3>2. windows[s] \in SUBSET Times
        <4>1. CASE backTo = Null
          BY <3>1, <4>1 DEF StationOK, Exact, Times, Null
        <4>2. CASE backTo # Null
          BY <3>1, <4>2 DEF StationOK, Past, Times, Null
        <4> QED BY <4>1, <4>2
      <3> QED BY <3>1, <3>2 DEF StationOK, Finite
    <2>2. /\ Finite(monitored)
          /\ \A t \in Int : Within(t, monitored) <=> Covered(windows[s], t) /\ ~Within(t, {})
      <3>1. Finite({})
        BY FS_EmptySet DEF Finite
      <3> QED BY <2>1, <3>1, MonitoredIsExact DEF MonitoringAssumption
    <2>3. at \in Int /\ 0 <= at
      BY <2>1
    <2> SUFFICES ASSUME NEW i \in ValidIntervals({reading}, monitored, {}, Span(0, clock), {reading}),
                        NEW u \in (i.span.lo..(i.span.hi - 1)) \cap 0..(Sure - 1)
                 PROVE  u \in watched[s] \cup overrun[s]
      OBVIOUS
    <2>4. Shots({reading}) /\ IsFiniteSet({reading}) /\ Dated({})
      <3>1. reading.at = at /\ reading.interval \in Int /\ reading.cap \in Int /\ reading.limit \in Int
        BY DEF MonitoringAssumption, Null
      <3> HIDE DEF reading
      <3> QED BY <2>3, <3>1, FS_Singleton DEF Shots, IsShot, Dated
    <2> DEFINE window == Span(0, clock)
               counted == ValidIntervals({reading}, monitored, {}, window, {reading})
    <2>5. window.lo = 0 /\ window.hi = clock /\ i \in counted
      BY DEF Span
    <2> HIDE DEF reading, monitored, window
    <2>6. /\ i.span.lo \in Int /\ i.span.hi \in Int
          /\ \A t \in Int : Holds(i.span, t) => Holds(window, t) /\ Within(t, monitored)
      <3>1. /\ Separate(counted, SpansOf(counted))
            /\ \A t \in Int : Holds(i.span, t) => Holds(window, t) /\ Within(t, monitored)
        <4> DEFINE readings == {reading}
                   capacity == {}
                   all == ValidIntervals(readings, monitored, capacity, window, readings)
        <4>1. /\ Shots(readings) /\ IsFiniteSet(readings) /\ FarFuture \in Int /\ monitored \in SUBSET Times
              /\ Dated(capacity) /\ window.lo \in Int /\ window.hi \in Int
          BY <2>1, <2>2, <2>4, <2>5 DEF Finite, MonitoringAssumption
        <4>2. i \in all
          BY <2>5
        <4> HIDE DEF readings, capacity
        <4>3. /\ Separate(all, SpansOf(all))
              /\ \A j \in all : \A t \in Int : Holds(j.span, t) => Holds(window, t) /\ Within(t, monitored)
          BY <4>1, IntervalsAre
        <4> QED BY <4>2, <4>3 DEF readings, capacity
      <3> HIDE DEF counted
      <3> QED BY <2>5, <3>1 DEF Separate, SpansOf
    <2>7. u \in Int /\ Holds(i.span, u)
      BY <2>6 DEF Holds
    <2>8. Within(u, monitored) /\ 0 <= u /\ u < clock
      BY <2>5, <2>6, <2>7 DEF Holds
    <2>9. Covered(windows[s], u)
      BY <2>2, <2>7, <2>8
    <2>10. PICK w \in windows[s] : Covers(w, u)
      BY <2>9 DEF Covered, Covers
    <2> QED BY <2>1, <2>10 DEF WatchedExactlyWhileOn, Covers
  <1>4. IInv => CountsOnlyMonitoredTime
    <2> HIDE DEF IInv
    <2> QED BY <1>3 DEF CountsOnlyMonitoredTime
  <1> QED BY <1>1, <1>2, <1>4, PTL DEF MSpec
=============================================================================
