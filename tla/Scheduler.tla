------------------------------ MODULE Scheduler ------------------------------
(***************************************************************************)
(* The queue and the source health of src/collector/scheduler.ts.          *)
(*                                                                         *)
(* One behaviour is a life of a Scheduler object: its client asks for      *)
(* plans, reads the planned bindings in some order, and reports the        *)
(* outcome of each one later, dated with the instant the read finished.    *)
(* The client is arbitrary: outcomes come back in any order, and another   *)
(* plan (a manual refresh) may run while some are outstanding.  Whenever   *)
(* it likes the client saves the queue, fetches the rows that are stored,  *)
(* and loads the fetched rows over the live entries, as the application    *)
(* does at every change of the monitored set (main/index.ts:237-256).      *)
(*                                                                         *)
(* Times are wall-clock instants (nowMs), in an abstract unit; the wall    *)
(* clock may be set back.  A binding that two plans hand out while it is   *)
(* read counts as one read.  The entries are those of a whole life: a      *)
(* binding whose first row is loaded later is left out.  What is only      *)
(* shown to the user (detail, userActionRequired, lastAttemptMs,           *)
(* backoffMs, skip reasons) is left out, and so is inFlight: plan computes *)
(* it and then ignores it (NavigationBudget keeps it).                     *)
(***************************************************************************)
EXTENDS Integers, FiniteSets

CONSTANTS
  N,             \* number of bindings; they are 1..N, in the order of the Map
  Sources,       \* registered sources
  SourceOf,      \* the source of each binding
  Eligible,      \* the sources whose limits say eligible
  MinNav,        \* minNavigationIntervalMs
  MinInterval,   \* max(minIntervalMs, targetIntervalMs): both limits agree
  Interval,      \* intervalMs of the entries
  MaxBackoff,    \* maxBackoffMs, six hours
  Threshold,     \* circuitBreakerFailureThreshold
  JitterPct,     \* the jitter factors, in percent
  RetryAfters,   \* Retry-After values a provider may send
  Never,         \* Number.MAX_SAFE_INTEGER, the due time of a parked binding
  FarFuture,     \* 4_102_444_800_000, the latest due time a row may hold
  StartTime,     \* the instant the queue was loaded
  PastTime,      \* the latest instant the clock showed in earlier lives
  LoadedDue, LoadedSuccess,  \* nextDueMs and lastSuccessMs of a loaded queue
  Toggled,       \* bound: the bindings whose paused flag the user toggles
  MaxTime,       \* bound on the clock
  MaxReloads,    \* bound on the reloads of the queue
  MaxFailures    \* bound on the failure counters

Bindings == 1..N
Null == -1
SourceStates ==
  {"healthy", "degraded", "paused", "blocked", "circuit_open", "unverified"}

MaxOf(a, b) == IF a >= b THEN a ELSE b
MinOf(a, b) == IF a <= b THEN a ELSE b
\* Math.round(value * factor) for a positive value and a factor in percent.
Jittered(value, pct) == (value * pct + 50) \div 100

\* 2 ** k, for the exponents computeBackoffMs allows: it caps them at 12.
Pow2 == <<1, 2, 4, 8, 16, 32, 64, 128, 256, 512, 1024, 2048, 4096>>

\* Every delay the scheduler may impose on a binding that is not parked.
Delays == {Jittered(Interval, p) : p \in JitterPct} \cup RetryAfters
            \cup {MaxBackoff, N * MinNav}

ASSUME SchedulerAssumption ==
  /\ N \in Nat
  /\ SourceOf \in [Bindings -> Sources]
  /\ Eligible \subseteq Sources
  /\ MinNav \in Nat \ {0} /\ MinInterval \in Nat /\ Interval \in Nat
  /\ MaxBackoff \in Nat /\ Threshold \in Nat \ {0}
  /\ JitterPct \subseteq Nat /\ RetryAfters \subseteq Nat
  /\ StartTime \in Nat /\ LoadedDue \subseteq Nat /\ LoadedSuccess \subseteq Nat
  /\ PastTime \in Nat /\ FarFuture \in Nat /\ Never \in Nat /\ FarFuture <= Never
  /\ \A t \in LoadedDue : t = FarFuture \/ \E d \in Delays : t <= PastTime + d
  /\ Toggled \subseteq Bindings
  /\ MaxTime \in Nat /\ MaxFailures \in Nat /\ MaxReloads \in Nat

VARIABLES
  now,           \* the wall clock
  peak,          \* the latest instant the wall clock ever showed
  nextDue,       \* QueueEntry.nextDueMs
  lastSuccess,   \* QueueEntry.lastSuccessMs; 0 is "never", as `?? 0` reads it
  failures,      \* QueueEntry.consecutiveFailures
  paused,        \* QueueEntry.paused
  srcState,      \* SourceRuntime.state
  hold,          \* SourceRuntime.holdUntilMs
  lastNav,       \* SourceRuntime.lastNavigationMs
  srcFailures,   \* SourceRuntime.consecutiveFailures
  reading,       \* the client's: the bindings it is reading
  finished,      \* the client's: when a read not yet reported finished, or Null
  stored,        \* the rows of schedule_queue
  fetched,       \* the client's: rows it has fetched and will load
  reloads        \* fetches so far

entryVars  == <<nextDue, lastSuccess, failures, paused>>
sourceVars == <<srcState, hold, lastNav, srcFailures>>
clientVars == <<reading, finished>>
rowVars    == <<stored, fetched, reloads>>
vars == <<now, peak, entryVars, sourceVars, clientVars, rowVars>>

-----------------------------------------------------------------------------
(* Planning *)

\* Mutant of Open: the hold of an open circuit is not waited out.
OpenIgnoringHold(s) ==
  s \in Eligible /\ srcState[s] \notin {"paused", "unverified", "blocked"}

\* A source the loop of plan() lets through (it probes an expired circuit).
Open(s) ==
  /\ s \in Eligible
  /\ srcState[s] \notin {"paused", "unverified", "blocked"}
  /\ hold[s] = Null \/ hold[s] <= now

Due(b) == ~paused[b] /\ nextDue[b] <= now

Ready(manual) ==
  {b \in Bindings : (b \in manual \/ Due(b)) /\ Open(SourceOf[b])}

\* The candidates are sorted: manual first, then by due time; the sort is
\* stable, so equal keys stay in the order of the Map.
Before(a, b, manual) ==
  \/ a \in manual /\ b \notin manual
  \/ /\ (a \in manual) <=> (b \in manual)
     /\ \/ nextDue[a] < nextDue[b]
        \/ nextDue[a] = nextDue[b] /\ a < b

\* Mutant of Earlier: a manual refresh has a budget of its own.
EarlierOfItsKind(b, manual) ==
  {a \in Ready(manual) : /\ SourceOf[a] = SourceOf[b] /\ Before(a, b, manual)
                         /\ (a \in manual) <=> (b \in manual)}

Earlier(b, manual) ==
  {a \in Ready(manual) : SourceOf[a] = SourceOf[b] /\ Before(a, b, manual)}

\* Mutant of Cursor: the navigations of the previous cycle are forgotten.
CursorNow(s) == now

\* First permitted navigation instant of a source.
Cursor(s) ==
  IF lastNav[s] = Null \/ now - lastNav[s] >= MinNav
  THEN now ELSE MaxOf(lastNav[s] + MinNav, now)

\* The k-th admitted candidate of a source gets the k-th slot.  The loop skips
\* a scheduled candidate whose slot is past the horizon without consuming the
\* slot; manual candidates come first, so everything after it is skipped too.
Slot(b, manual) ==
  Cursor(SourceOf[b]) + MinNav * Cardinality(Earlier(b, manual))

Dispatch(manual) ==
  {b \in Ready(manual) : b \in manual \/ Slot(b, manual) < now + MinInterval}

\* An open circuit whose hold has expired becomes degraded as soon as plan()
\* meets one candidate of the source.
Probed(s, manual) ==
  srcState[s] = "circuit_open" /\ \E b \in Ready(manual) : SourceOf[b] = s

Plan(manual) ==
  /\ srcState' = [s \in Sources |->
                    IF Probed(s, manual) THEN "degraded" ELSE srcState[s]]
  /\ reading' = reading \cup Dispatch(manual)
  /\ UNCHANGED <<now, peak, entryVars, hold, lastNav, srcFailures, finished, rowVars>>

-----------------------------------------------------------------------------
(* Restaging overdue work *)

Overdue == {b \in Bindings : Due(b)}

\* Mutant of Staler: bindings equally stale are given the same slot.
StalerTied(a, b) == lastSuccess[a] < lastSuccess[b]

\* Oldest success first; stable.
Staler(a, b) ==
  \/ lastSuccess[a] < lastSuccess[b]
  \/ lastSuccess[a] = lastSuccess[b] /\ a < b

Restaged(b) ==
  now + MinNav * Cardinality({a \in Overdue : /\ SourceOf[a] = SourceOf[b]
                                              /\ Staler(a, b)})

SpreadOverdue ==
  /\ nextDue' = [b \in Bindings |->
                   IF b \in Overdue THEN Restaged(b) ELSE nextDue[b]]
  /\ UNCHANGED <<now, peak, lastSuccess, failures, paused, sourceVars, clientVars, rowVars>>

-----------------------------------------------------------------------------
(* Outcomes.  `at` is the finishedMs of the read, `ra` the Retry-After. *)

\* The client has finished a read; the outcome is reported later.
FinishRead(b) ==
  /\ b \in reading /\ finished[b] = Null
  /\ reading' = reading \ {b}
  /\ finished' = [finished EXCEPT ![b] = now]
  /\ UNCHANGED <<now, peak, entryVars, sourceVars, rowVars>>

ReadAt(b, at) ==
  /\ finished[b] = at
  /\ finished' = [finished EXCEPT ![b] = Null]
  /\ UNCHANGED <<now, peak, reading, rowVars>>

\* Bounds the counters: no failure is explored past MaxFailures.
Countable(b) ==
  failures[b] < MaxFailures /\ srcFailures[SourceOf[b]] < MaxFailures

RecordSuccess(b, at, pct) ==
  LET s == SourceOf[b]
      recovers == srcState[s] \in {"degraded", "circuit_open"}
  IN /\ ReadAt(b, at)
     /\ lastSuccess' = [lastSuccess EXCEPT ![b] = at]
     /\ failures' = [failures EXCEPT ![b] = 0]
     /\ nextDue' = [nextDue EXCEPT ![b] = at + Jittered(Interval, pct)]
     /\ srcFailures' = [srcFailures EXCEPT ![s] = 0]
     /\ srcState' = [srcState EXCEPT ![s] = IF recovers THEN "healthy" ELSE @]
     /\ hold' = [hold EXCEPT ![s] = IF recovers THEN Null ELSE @]
     /\ UNCHANGED <<paused, lastNav>>

RecordCancelled(b, at) ==
  /\ ReadAt(b, at)
  /\ nextDue' = [nextDue EXCEPT ![b] = MaxOf(@, at + MinNav)]
  /\ UNCHANGED <<lastSuccess, failures, paused, sourceVars>>

RefusedState(outcome) ==
  IF outcome = "source_blocked" THEN "blocked" ELSE "paused"

\* login_required, source_blocked (PAUSE_SOURCE_OUTCOMES) and layout_changed
\* (ADAPTER_FAULT_OUTCOMES): the source is parked, the binding never due.
RecordRefusal(b, at, outcome) ==
  LET s == SourceOf[b] IN
  /\ ReadAt(b, at)
  /\ Countable(b)
  /\ failures' = [failures EXCEPT ![b] = @ + 1]
  /\ srcFailures' = [srcFailures EXCEPT ![s] = @ + 1]
  /\ srcState' = [srcState EXCEPT ![s] = RefusedState(outcome)]
  /\ hold' = [hold EXCEPT ![s] = IF outcome = "layout_changed" THEN @ ELSE Null]
  /\ nextDue' = [nextDue EXCEPT ![b] = Never]
  /\ UNCHANGED <<lastSuccess, paused, lastNav>>

\* Mutant of Backoff: the six-hour cap is dropped.
BackoffUncapped(f, pct) ==
  MaxOf(MinInterval, Jittered(MinInterval * Pow2[MinOf(f, 12) + 1], pct))

\* computeBackoffMs after f consecutive failures.
Backoff(f, pct) ==
  MinOf(MaxBackoff,
        MaxOf(MinInterval, Jittered(MinInterval * Pow2[MinOf(f, 12) + 1], pct)))

\* timeout, offline, invalid_data, and rate_limited.
RecordTransient(b, at, outcome, ra, pct) ==
  LET s == SourceOf[b]
      backoff == MaxOf(Backoff(failures[b] + 1, pct), ra)
      opens == srcFailures[s] + 1 >= Threshold
      held == IF opens THEN at + backoff ELSE hold[s]
  IN /\ ReadAt(b, at)
     /\ Countable(b)
     /\ failures' = [failures EXCEPT ![b] = @ + 1]
     /\ srcFailures' = [srcFailures EXCEPT ![s] = @ + 1]
     /\ nextDue' = [nextDue EXCEPT ![b] = at + backoff]
     /\ srcState' = [srcState EXCEPT ![s] =
                       IF opens THEN "circuit_open" ELSE "degraded"]
     /\ hold' = [hold EXCEPT ![s] =
                   IF outcome = "rate_limited" /\ ra > 0
                   THEN MaxOf(held, at + ra) ELSE held]
     /\ UNCHANGED <<lastSuccess, paused, lastNav>>

-----------------------------------------------------------------------------
(* Saving and loading the queue *)

NoRow == [due |-> Null, success |-> 0, failures |-> 0, paused |-> FALSE]
NoRows == [b \in Bindings |-> NoRow]
FreshRow == [NoRow EXCEPT !.due = now]

\* Mutant of RowOf: the Retry-After of a failing binding is not saved.
RowDueNow(b) ==
  [due |-> IF failures[b] > 0 THEN now ELSE MinOf(nextDue[b], FarFuture),
   success |-> lastSuccess[b], failures |-> failures[b], paused |-> paused[b]]

RowOf(b) ==
  [due |-> MinOf(nextDue[b], FarFuture), success |-> lastSuccess[b],
   failures |-> failures[b], paused |-> paused[b]]

\* Nothing is saved for a reload that the bound leaves out.
Persist ==
  /\ reloads < MaxReloads
  /\ stored' = [b \in Bindings |-> RowOf(b)]
  /\ UNCHANGED <<now, peak, entryVars, sourceVars, clientVars, fetched, reloads>>

\* Monitoring of a station is turned off: its row is deleted, its entry stays.
Forget(b) ==
  /\ reloads < MaxReloads
  /\ stored' = [stored EXCEPT ![b] = NoRow]
  /\ UNCHANGED <<now, peak, entryVars, sourceVars, clientVars, fetched, reloads>>

\* loadCollectorState: the stored rows, and a row due now for each binding that
\* is enabled and has none.
Fetch(enabled) ==
  /\ reloads < MaxReloads /\ fetched = NoRows
  /\ reloads' = reloads + 1
  /\ stored' = [b \in Bindings |->
                  IF stored[b].due = Null /\ b \in enabled THEN FreshRow ELSE stored[b]]
  /\ fetched' = stored'
  /\ UNCHANGED <<now, peak, entryVars, sourceVars, clientVars>>

Loaded(b) == fetched[b].due # Null

\* Scheduler.load: the rows overwrite the live entries; the others stay.
Load ==
  /\ fetched # NoRows
  /\ nextDue' = [b \in Bindings |-> IF Loaded(b) THEN fetched[b].due ELSE nextDue[b]]
  /\ lastSuccess' = [b \in Bindings |->
                       IF Loaded(b) THEN fetched[b].success ELSE lastSuccess[b]]
  /\ failures' = [b \in Bindings |->
                    IF Loaded(b) THEN fetched[b].failures ELSE failures[b]]
  /\ paused' = [b \in Bindings |-> IF Loaded(b) THEN fetched[b].paused ELSE paused[b]]
  /\ fetched' = NoRows
  /\ UNCHANGED <<now, peak, sourceVars, clientVars, stored, reloads>>

-----------------------------------------------------------------------------
(* User operations, navigation, time *)

SetPaused(b, p) ==
  /\ paused' = [paused EXCEPT ![b] = p]
  /\ UNCHANGED <<now, peak, nextDue, lastSuccess, failures, sourceVars, clientVars, rowVars>>

PauseSource(s) ==
  /\ srcState' = [srcState EXCEPT ![s] = "paused"]
  /\ UNCHANGED <<now, peak, entryVars, hold, lastNav, srcFailures, clientVars, rowVars>>

ResumeSource(s) ==
  /\ srcState' = [srcState EXCEPT ![s] = "healthy"]
  /\ hold' = [hold EXCEPT ![s] = Null]
  /\ srcFailures' = [srcFailures EXCEPT ![s] = 0]
  /\ UNCHANGED <<now, peak, entryVars, lastNav, clientVars, rowVars>>

RecordNavigation(s) ==
  /\ lastNav' = [lastNav EXCEPT ![s] = now]
  /\ UNCHANGED <<now, peak, entryVars, srcState, hold, srcFailures, clientVars, rowVars>>

Tick ==
  /\ now < MaxTime
  /\ now' = now + 1
  /\ peak' = MaxOf(peak, now + 1)
  /\ UNCHANGED <<entryVars, sourceVars, clientVars, rowVars>>

\* The operating system's clock is set back, by hand or by a time service.
ClockSetBack ==
  /\ now > 0
  /\ now' \in 0..(now - 1)
  /\ UNCHANGED <<peak, entryVars, sourceVars, clientVars, rowVars>>

\* The sources are registered and a persisted queue is loaded.
Init ==
  /\ now = StartTime
  /\ peak = MaxOf(StartTime, PastTime)
  /\ nextDue \in [Bindings -> LoadedDue]
  /\ lastSuccess \in [Bindings -> LoadedSuccess]
  /\ failures = [b \in Bindings |-> 0]
  /\ paused = [b \in Bindings |-> FALSE]
  /\ srcState = [s \in Sources |->
                   IF s \in Eligible THEN "healthy" ELSE "unverified"]
  /\ hold = [s \in Sources |-> Null]
  /\ lastNav = [s \in Sources |-> Null]
  /\ srcFailures = [s \in Sources |-> 0]
  /\ reading = {}
  /\ finished = [b \in Bindings |-> Null]
  /\ stored = [b \in Bindings |-> RowOf(b)]
  /\ fetched = NoRows
  /\ reloads = 0

RecordOutcome ==
  \E b \in Bindings, at \in 0..MaxTime :
    \/ \E pct \in JitterPct : RecordSuccess(b, at, pct)
    \/ RecordCancelled(b, at)
    \/ \E o \in {"login_required", "source_blocked", "layout_changed"} :
         RecordRefusal(b, at, o)
    \/ \E o \in {"timeout", "rate_limited"}, ra \in RetryAfters \cup {0},
          pct \in JitterPct : RecordTransient(b, at, o, ra, pct)

Next ==
  \/ \E manual \in SUBSET Bindings : Plan(manual)
  \/ SpreadOverdue
  \/ \E b \in Bindings : FinishRead(b) \/ Forget(b)
  \/ RecordOutcome
  \/ Persist
  \/ \E enabled \in SUBSET Bindings : Fetch(enabled)
  \/ Load
  \/ \E b \in Toggled, p \in BOOLEAN : SetPaused(b, p)
  \/ \E s \in Sources : PauseSource(s) \/ ResumeSource(s) \/ RecordNavigation(s)
  \/ Tick
  \/ ClockSetBack

Spec == Init /\ [][Next]_vars

-----------------------------------------------------------------------------
(* Properties *)

Rows == [due : Nat \cup {Null}, success : Nat, failures : Nat, paused : BOOLEAN]

TypeOK ==
  /\ now \in Nat /\ peak \in Nat
  /\ nextDue \in [Bindings -> Nat]
  /\ lastSuccess \in [Bindings -> Nat]
  /\ failures \in [Bindings -> Nat]
  /\ paused \in [Bindings -> BOOLEAN]
  /\ srcState \in [Sources -> SourceStates]
  /\ hold \in [Sources -> Nat \cup {Null}]
  /\ lastNav \in [Sources -> Nat \cup {Null}]
  /\ srcFailures \in [Sources -> Nat]
  /\ reading \subseteq Bindings
  /\ finished \in [Bindings -> Nat \cup {Null}]
  /\ stored \in [Bindings -> Rows] /\ fetched \in [Bindings -> Rows]
  /\ reloads \in Nat

\* The health of a source agrees with its failure count and its hold.  A
\* healthy source carries neither; an open circuit has reached the threshold
\* and is waiting out a hold; and a source that is read again although it has
\* reached the threshold has waited its whole hold out, by the wall clock,
\* which may have been set back since.  The state, the counter
\* and the hold are written by plan, by four branches of recordOutcome and by
\* setSourcePaused, each of which touches only some of them
\* (scheduler.ts:162-175, 277-284, 395-491).
BreakerConsistent ==
  \A s \in Sources :
    /\ srcState[s] = "healthy" => srcFailures[s] = 0 /\ hold[s] = Null
    /\ srcState[s] = "circuit_open" =>
         srcFailures[s] >= Threshold /\ hold[s] # Null
    /\ srcState[s] = "degraded" /\ srcFailures[s] >= Threshold =>
         hold[s] # Null /\ hold[s] <= peak

\* Nothing is put off for ever by accident: a binding that was not parked by a
\* refusal falls due within the longest interval, backoff, Retry-After or
\* restaging delay, counted from the latest instant the wall clock has shown.
\* A clock set back therefore stalls a binding by what the clock lost and no
\* more, also when it comes back from a row stored before.  A parked binding
\* comes back from its row at the latest due time a row may hold.  Restaging,
\* cancellation, success and failure each compute the due time from a
\* different base, and saving clamps it (scheduler.ts:184-209, 412-475;
\* worker.ts:1053-1055).
DueWithinReach ==
  \A b \in Bindings :
    \/ nextDue[b] \in {Never, FarFuture}
    \/ \E d \in Delays : nextDue[b] <= peak + d

\* Whatever is asked of plan() in whatever state, two bindings of one source
\* get slots at least the minimum interval apart, no slot lies within that
\* interval of the last recorded navigation, and no source is planned that is
\* paused, blocked, held or not eligible (scheduler.ts:4-9, 258-320).
PlanSpaced ==
  \A manual \in SUBSET Bindings :
    \A b \in Dispatch(manual) :
      /\ Slot(b, manual) >= now
      /\ lastNav[SourceOf[b]] # Null =>
           Slot(b, manual) >= lastNav[SourceOf[b]] + MinNav
      /\ \A c \in Dispatch(manual) :
           b # c /\ SourceOf[b] = SourceOf[c] =>
             \/ Slot(b, manual) >= Slot(c, manual) + MinNav
             \/ Slot(c, manual) >= Slot(b, manual) + MinNav

\* A manual refresh takes slots of the same budget: it never makes a plan of a
\* source denser, it only pushes scheduled bindings back, and no scheduled
\* binding that is dispatched without it gets an earlier slot because of it
\* (scheduler.ts:8-9, 233-236, 245-256).
ManualNeverSpeedsUp ==
  \A manual \in SUBSET Bindings :
    \A b \in Dispatch(manual) \ manual :
      b \in Dispatch({}) /\ Slot(b, manual) >= Slot(b, {})

\* After a restaging, for any instant, the bindings of a source due by then are
\* no more than the source's budget allows up to then, and a binding read less
\* recently never comes after one read more recently (scheduler.ts:177-206).
SpreadWithinBudget ==
  \A b \in Overdue :
    LET upTo == {a \in Overdue : /\ SourceOf[a] = SourceOf[b]
                                 /\ Restaged(a) <= Restaged(b)}
    IN /\ MinNav * (Cardinality(upTo) - 1) <= Restaged(b) - now
       /\ \A a \in upTo : lastSuccess[a] <= lastSuccess[b]
=============================================================================
