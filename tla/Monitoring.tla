------------------------------ MODULE Monitoring ------------------------------
(* Turning the monitoring of stations on and off.  The database worker holds   *)
(* the monitoring windows and the stored queue; the collector worker holds a   *)
(* queue and the bindings it may read; the main process carries the state from *)
(* the one to the other.  What the database answers reaches the collector in   *)
(* order (loads), and so do the queues the collector wants stored (mail), each *)
(* of which may be lost: the main process swallows the refusal.  An instant is *)
(* a millisecond of the wall clock: several requests may fall within one, and  *)
(* the clock may be set back.  The stations are those of one source that Links *)
(* has linked, each with its one binding.                                      *)
EXTENDS Intervals, FiniteSets

CONSTANTS Stations,
          Requests,   \* requests of the user that may overlap
          Boot,       \* the load after a start of the collector
          MaxTime,    \* bound: instants
          MaxTurns,   \* bound: times the user turns stations on or off
          MaxMail,    \* bound: queues under way, and states under way
          MaxExits    \* bound: exits of the collector or of the application

ASSUME MonitoringAssumption == MaxTime \in Nat /\ FarFuture \in Nat

VARIABLES
  clock,
  on,         \* source_bindings.enabled
  eligible,   \* sources.eligibility_state = 'enabled'
  windows,    \* monitoring_intervals
  rows,       \* schedule_queue.next_due_ms
  mail,       \* queues under way to the database
  loads,      \* states under way to the collector
  request,    \* how far each request has come
  up,         \* whether the collector runs
  exits,
  healthy,    \* the source's state in the scheduler: whether it may be read
  queue,      \* the scheduler's entries: when each binding is due
              \*   "soon"    as the scheduler plans it
              \*   "never"   parked by a page that refused (MAX_SAFE_INTEGER)
              \*   "latest"  the same once stored: the last instant a row can hold
              \*   "absent"  in no queue
  known,      \* the collector's bindings
  unsaved,    \* whether the cycle has still to store its queue
  answered,   \* what the user was last told of the station
  backTo,     \* history: the earliest instant the clock was set back to
  turns,      \* how often the user has turned stations on or off
  fresh,      \* history: the stations turned on in the present instant
  hasty,      \* history: those last turned off in the instant they were turned on
  watched,    \* history: the instants a station was on
  overrun,    \* history: the instants it was off after a hasty turning off
  read        \* history: stations read since they were last turned on or off

db == <<on, eligible, windows, rows>>
collector == <<up, exits, healthy, queue, known, unsaved>>
time == <<clock, backTo, turns, fresh, watched, overrun>>
mvars == <<time, db, mail, loads, request, collector, answered, hasty, read>>

\* The stations of a request are those no later request has turned since.
Idle == [phase |-> "idle", stations |-> {}, enable |-> FALSE]
Asked(stations, enable) == [phase |-> "stored", stations |-> stations, enable |-> enable]

MInit ==
  /\ clock = 0 /\ backTo = Null /\ turns = 0
  /\ on = [s \in Stations |-> FALSE]
  /\ eligible \in BOOLEAN
  /\ windows = [s \in Stations |-> {}]
  /\ rows = [s \in Stations |-> "absent"]
  /\ mail = <<>> /\ loads = <<>>
  /\ request = [r \in Requests \cup {Boot} |-> Idle]
  /\ up = TRUE /\ exits = 0 /\ healthy = TRUE /\ queue = rows /\ known = {} /\ unsaved = FALSE
  /\ answered = [s \in Stations |-> "nothing"]
  /\ fresh = {} /\ hasty = {}
  /\ watched = [s \in Stations |-> {}] /\ overrun = watched
  /\ read = {}

-------------------------------------------------------------------------------
\* Time.  Each instant is lived through with the stations as they are at its end.
Tick ==
  /\ clock < MaxTime
  /\ clock' = clock + 1
  /\ watched' = [s \in Stations |-> watched[s] \cup {t \in {clock} : on[s]}]
  /\ overrun' = [s \in Stations |-> overrun[s] \cup {t \in {clock} : ~on[s] /\ s \in hasty}]
  /\ fresh' = {}
  /\ UNCHANGED <<backTo, turns, db, mail, loads, request, collector, answered, hasty, read>>

\* The clock is set back, by hand or by a time service.
ClockSetBack ==
  /\ clock' \in 0..(clock - 1)
  /\ backTo' = IF backTo = Null THEN clock' ELSE Lower(backTo, clock')
  /\ fresh' = {}
  /\ UNCHANGED <<turns, watched, overrun, db, mail, loads, request, collector, answered, hasty, read>>

-------------------------------------------------------------------------------
\* The database worker.
OpenMonitoring(spans, t) ==
  IF \E w \in spans : w.lo = t THEN spans ELSE spans \cup {Span(t, Null)}

\* Mutant of CloseMonitoring: only the window opened last is closed.
CloseMonitoringLatest(spans, t) ==
  {IF w.hi = Null /\ w.lo < t /\ \A v \in spans : v.lo <= w.lo THEN Span(w.lo, t) ELSE w : w \in spans}
CloseMonitoring(spans, t) ==
  {IF w.hi = Null /\ w.lo < t THEN Span(w.lo, t) ELSE w : w \in spans}

\* Turning on a station of a source that may not collect is refused.
SetMonitored(r, stations, enable) ==
  LET changed == IF enable /\ ~eligible THEN {} ELSE stations
  IN  /\ request[r] = Idle /\ turns < MaxTurns
      /\ turns' = turns + 1
      /\ on' = [s \in Stations |-> IF s \in changed THEN enable ELSE on[s]]
      /\ windows' = [s \in Stations |->
                       CASE s \in changed /\ enable  -> OpenMonitoring(windows[s], clock)
                         [] s \in changed /\ ~enable -> CloseMonitoring(windows[s], clock)
                         [] OTHER                    -> windows[s]]
      /\ rows' = [s \in Stations |-> IF s \in changed /\ ~enable THEN "absent" ELSE rows[s]]
      /\ request' = [q \in DOMAIN request |-> IF q = r THEN Asked(changed, enable)
                                              ELSE [request[q] EXCEPT !.stations = @ \ changed]]
      /\ answered' = [s \in Stations |-> IF s \in changed THEN "nothing" ELSE answered[s]]
      /\ fresh' = IF enable THEN fresh \cup changed ELSE fresh
      /\ hasty' = IF enable THEN hasty \ changed ELSE (hasty \ changed) \cup (fresh \cap changed)
      /\ read' = read \ changed
      /\ UNCHANGED <<clock, backTo, watched, overrun, eligible, mail, loads, collector>>

\* sites.setMonitoredAll names the stations of sources that may collect only.
SetMonitoredAll(r, enable) == eligible /\ SetMonitored(r, Stations, enable)

\* A link was pasted or discovered: the collector is given the state anew.
Reload(r) ==
  /\ request[r] = Idle
  /\ request' = [request EXCEPT ![r] = Asked({}, FALSE)]
  /\ UNCHANGED <<time, db, mail, loads, collector, answered, hasty, read>>

\* The last instant the column takes: as far as any run goes, still never.
Clamped(due) == IF due = "never" THEN "latest" ELSE due

\* Every entry is stored, whether its station is on or not.
PersistQueue ==
  LET entries == Head(mail)
  IN  /\ mail # <<>>
      /\ mail' = Tail(mail)
      /\ rows' = [s \in Stations |-> IF entries[s] = "absent" THEN rows[s] ELSE Clamped(entries[s])]
      /\ UNCHANGED <<time, on, eligible, windows, loads, request, collector, answered, hasty, read>>

LosesQueue ==
  /\ mail # <<>>
  /\ mail' = Tail(mail)
  /\ UNCHANGED <<time, db, loads, request, collector, answered, hasty, read>>

-------------------------------------------------------------------------------
Loaded == [due      |-> [s \in Stations |-> IF on[s] /\ rows[s] = "absent" THEN "soon" ELSE rows[s]],
           bindings |-> {s \in Stations : on[s]}]

LoadCollectorState(r) ==
  /\ request[r].phase = "stored"
  /\ Len(loads) < MaxMail
  /\ rows' = Loaded.due
  /\ IF up THEN /\ loads' = Append(loads, [from |-> r, state |-> Loaded])
                /\ request' = [request EXCEPT ![r].phase = "loading"]
           ELSE /\ request' = [request EXCEPT ![r] = Idle]
                /\ UNCHANGED loads
  /\ UNCHANGED <<time, on, eligible, windows, mail, collector, answered, hasty, read>>

\* The database is closed or too slow: the user is told, or the log.  After a
\* start of the collector nobody asks again.
LoadFails(r) ==
  /\ request[r].phase = "stored"
  /\ request' = [request EXCEPT ![r] = Idle]
  /\ answered' = IF r = Boot THEN [s \in Stations |-> "nothing"] ELSE answered
  /\ UNCHANGED <<time, db, mail, loads, collector, hasty, read>>

\* CollectorService.load and Scheduler.load only ever add.
CollectorLoads ==
  LET load == Head(loads)
      r == load.from
  IN  /\ loads # <<>>
      /\ loads' = Tail(loads)
      /\ queue' = [s \in Stations |-> IF load.state.due[s] = "absent" THEN queue[s] ELSE load.state.due[s]]
      /\ known' = known \cup load.state.bindings
      /\ request' = [request EXCEPT ![r] = Idle]
      /\ answered' = [s \in Stations |-> IF s \in request[r].stations
                                         THEN (IF on[s] THEN "on" ELSE "off") ELSE answered[s]]
      /\ UNCHANGED <<time, db, mail, up, exits, healthy, unsaved, hasty, read>>

-------------------------------------------------------------------------------
\* The collector.  A cycle reads the bindings it plans and knows, which become
\* due again an interval later; a page that refuses parks its station and pauses
\* the source, which nothing but another start of the collector resumes.
ReadPages(batch, paused) ==
  /\ up /\ eligible /\ healthy /\ ~unsaved
  /\ batch # {} /\ \A s \in batch : queue[s] = "soon"
  /\ queue' = [s \in Stations |-> IF s \notin batch \cap known THEN queue[s]
                                  ELSE IF s \in paused THEN "never" ELSE "soon"]
  /\ healthy' = (paused \cap known = {})
  /\ read' = read \cup (batch \cap known)
  /\ unsaved' = TRUE
  /\ UNCHANGED <<time, db, mail, loads, request, up, exits, known, answered, hasty>>

\* The end of the cycle: the queue as it is then goes to the database.
SaveQueue ==
  /\ up /\ unsaved
  /\ Len(mail) < MaxMail
  /\ unsaved' = FALSE
  /\ mail' = Append(mail, queue)
  /\ UNCHANGED <<time, db, loads, request, up, exits, healthy, queue, known, answered, hasty, read>>

Empty ==
  /\ healthy' = TRUE
  /\ queue' = [s \in Stations |-> "absent"]
  /\ known' = {}
  /\ unsaved' = FALSE
  /\ loads' = <<>>

CollectorExits ==
  /\ up /\ exits < MaxExits
  /\ up' = FALSE /\ exits' = exits + 1
  /\ Empty
  /\ request' = [r \in DOMAIN request |-> IF request[r].phase = "loading" THEN Idle ELSE request[r]]
  /\ UNCHANGED <<time, db, mail, answered, hasty, read>>

CollectorRestarts ==
  /\ ~up
  /\ up' = TRUE
  /\ request' = [request EXCEPT ![Boot] = Asked({}, FALSE)]
  /\ UNCHANGED <<time, db, mail, loads, exits, healthy, queue, known, unsaved, answered, hasty, read>>

\* Another start of the application, perhaps of a build that knows more, or
\* less, of the source: upsertSources stores what it knows.
Relaunch ==
  /\ eligible' \in BOOLEAN
  /\ exits < MaxExits
  /\ up' = TRUE /\ exits' = exits + 1
  /\ Empty
  /\ mail' = <<>>
  /\ request' = [r \in DOMAIN request |-> IF r = Boot THEN Asked({}, FALSE) ELSE Idle]
  /\ UNCHANGED <<time, on, windows, rows, answered, hasty, read>>

-------------------------------------------------------------------------------
MNext ==
  \/ Tick
  \/ ClockSetBack
  \/ \E r \in Requests :
       \/ \E s \in Stations, enable \in BOOLEAN : SetMonitored(r, {s}, enable)
       \/ \E enable \in BOOLEAN : SetMonitoredAll(r, enable)
       \/ Reload(r)
  \/ PersistQueue
  \/ LosesQueue
  \/ \E r \in Requests \cup {Boot} : LoadCollectorState(r) \/ LoadFails(r)
  \/ CollectorLoads
  \/ \E batch \in SUBSET Stations : \E paused \in SUBSET batch : ReadPages(batch, paused)
  \/ SaveQueue
  \/ CollectorExits
  \/ CollectorRestarts
  \/ Relaunch

MSpec == MInit /\ [][MNext]_mvars

\* The workers answer, an exited collector is started again, and the timer of
\* the cycles runs: a binding that stays due gets its turn.
MFairness ==
  /\ \A r \in Requests \cup {Boot} : WF_mvars(LoadCollectorState(r))
  /\ WF_mvars(CollectorLoads) /\ WF_mvars(PersistQueue) /\ WF_mvars(SaveQueue)
  /\ WF_mvars(CollectorRestarts)
  /\ \A s \in Stations : SF_mvars(\E batch \in SUBSET Stations : \E paused \in SUBSET batch : s \in batch /\ ReadPages(batch, paused))

MFairSpec == MSpec /\ MFairness

-------------------------------------------------------------------------------
\* The instants that have been lived through once.
Sure == IF backTo = Null THEN clock ELSE backTo

\* The monitoring windows of a station cover exactly the instants it was on: what
\* they miss is counted as not monitored, what they add as monitored with no
\* reading (worker.ts 1224-1298, repositories.ts 419-436).  They run on, beyond
\* that, after a station was turned off in the millisecond it was turned on, until
\* it is turned on or off again; and of the instants from the one the clock was
\* set back to nothing is said.
WatchedExactlyWhileOn ==
  \A s \in Stations : \A t \in 0..(Sure - 1) :
    t \in watched[s] \cup overrun[s] <=> \E w \in windows[s] : w.lo <= t /\ (w.hi = Null \/ t < w.hi)

\* However long a reading may be carried forward, and whenever it was made, the
\* time it counts for is time its station was on, or had been turned off in the
\* millisecond it was turned on, though the collector may read a station that is
\* off (intervals.ts 213-352).
CountsOnlyMonitoredTime ==
  \A s \in Stations : \A at \in 0..clock :
    LET reading == [id |-> 1, at |-> at, quality |-> "reliable", updated |-> Null, limit |-> Null,
                    interval |-> MaxTime, cap |-> MaxTime]
        counted == ValidIntervals({reading}, Monitored(windows[s], {}), {}, Span(0, clock), {reading})
    IN  \A i \in counted : (i.span.lo..(i.span.hi - 1)) \cap 0..(Sure - 1) \subseteq watched[s] \cup overrun[s]


\* Claim: once the collector has been started again, by an update for instance,
\* and its source is healthy, a station that is on is read again, though its page
\* had refused before (scheduler.ts:464: "Check for a ChargeWatch update that
\* supports the new page.").
ReadAfterUpdate ==
  \A s \in Stations :
    on[s] /\ s \in known /\ healthy ~> s \notin known \/ ~on[s] \/ ~eligible \/ ~healthy \/ queue[s] = "soon"

\* Claim: a station the user was told is off is not read any more
\* (README.md:52: "opens each monitored charger's public status page").
OffIsOff ==
  [][\A s \in read' \ read : answered[s] # "off"]_mvars
===============================================================================
