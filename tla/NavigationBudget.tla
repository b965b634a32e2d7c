--------------------------- MODULE NavigationBudget ---------------------------
(***************************************************************************)
(* The token bucket of one source, and the callers that spend it           *)
(* (NavigationBudget of scheduler.ts; acquireNavigationSlot of service.ts).*)
(*                                                                         *)
(* acquire() computes the wait, sleeps, and only then writes the instant   *)
(* of the navigation: between the two another caller may do the same.  A   *)
(* caller is a piece of work that navigates the source one page at a time: *)
(* a collection cycle, or a station discovery.                             *)
(***************************************************************************)
EXTENDS Integers, FiniteSets

CONSTANTS
  Callers,       \* work that shares the budget
  Spacing,       \* minIntervalMs of the bucket, on the monotonic clock
  MaxLateness,   \* a timer fires on time or up to this much late
  MaxClock,      \* bound on the clock
  MaxGrants      \* bound on the navigations

Unspent == -1

ASSUME BudgetAssumption ==
  Spacing \in Nat \ {0} /\ MaxLateness \in Nat /\ MaxClock \in Nat /\ MaxGrants \in Nat

VARIABLES
  clock,      \* monotonicMs()
  last,       \* lastNavigationMonotonicMs
  grants,     \* the navigations so far: when, and by which caller
  pc,         \* per caller: "idle", "asleep" or "navigating"
  wakeAt,     \* per caller: when its sleep ends
  aborted,    \* per caller: its abort signal
  inFlight    \* Scheduler.inFlight of the source

budgetVars == <<clock, last, grants, pc, wakeAt, aborted, inFlight>>

\* NavigationBudget.waitMs
Wait ==
  IF last = Unspent \/ clock - last >= Spacing
  THEN 0 ELSE Spacing - (clock - last)

BudgetInit ==
  /\ clock = 0 /\ last = Unspent /\ grants = {}
  /\ pc = [c \in Callers |-> "idle"]
  /\ wakeAt = [c \in Callers |-> 0]
  /\ aborted = [c \in Callers |-> FALSE]
  /\ inFlight = 0

\* Mutant of Finish: an aborted wait spends the slot it waited for.
FinishSpends(c) ==
  /\ pc' = [pc EXCEPT ![c] = IF aborted[c] THEN "idle" ELSE "navigating"]
  /\ last' = clock
  /\ grants' = IF aborted[c] THEN grants ELSE grants \cup {[at |-> clock, by |-> c]}
  /\ aborted' = [aborted EXCEPT ![c] = FALSE]

\* The last lines of acquire: an aborted caller throws, any other spends the
\* slot.  Either way releaseNavigation runs in the finally block.
Finish(c) ==
  IF aborted[c]
  THEN /\ pc' = [pc EXCEPT ![c] = "idle"]
       /\ aborted' = [aborted EXCEPT ![c] = FALSE]
       /\ UNCHANGED <<last, grants>>
  ELSE /\ pc' = [pc EXCEPT ![c] = "navigating"]
       /\ last' = clock
       /\ grants' = grants \cup {[at |-> clock, by |-> c]}
       /\ UNCHANGED aborted

\* A caller with no wait runs acquire to its end in one go; any other sleeps.
\* recordNavigation has already counted it in flight.
Acquire(c) ==
  /\ pc[c] = "idle" /\ Cardinality(grants) < MaxGrants
  /\ IF Wait = 0
     THEN Finish(c) /\ UNCHANGED <<wakeAt, inFlight>>
     ELSE /\ pc' = [pc EXCEPT ![c] = "asleep"]
          /\ wakeAt' = [wakeAt EXCEPT ![c] = clock + Wait]
          /\ inFlight' = inFlight + 1
          /\ UNCHANGED <<last, grants, aborted>>
  /\ UNCHANGED clock

\* Mutant of Wake: the release is skipped when acquire throws.
WakeLeaking(c) ==
  /\ pc[c] = "asleep" /\ clock >= wakeAt[c]
  /\ Finish(c)
  /\ inFlight' = IF aborted[c] THEN inFlight ELSE inFlight - 1
  /\ UNCHANGED <<clock, wakeAt>>

Wake(c) ==
  /\ pc[c] = "asleep" /\ clock >= wakeAt[c]
  /\ Finish(c)
  /\ inFlight' = inFlight - 1
  /\ UNCHANGED <<clock, wakeAt>>

\* A pause or a suspend aborts the caller while it sleeps.
Abort(c) ==
  /\ pc[c] = "asleep" /\ ~aborted[c]
  /\ aborted' = [aborted EXCEPT ![c] = TRUE]
  /\ UNCHANGED <<clock, last, grants, pc, wakeAt, inFlight>>

\* The page has loaded and has been read.
Navigated(c) ==
  /\ pc[c] = "navigating"
  /\ pc' = [pc EXCEPT ![c] = "idle"]
  /\ UNCHANGED <<clock, last, grants, wakeAt, aborted, inFlight>>

\* No timer is more than MaxLateness late.
ClockTicks ==
  /\ clock < MaxClock
  /\ \A c \in Callers : pc[c] = "asleep" => clock < wakeAt[c] + MaxLateness
  /\ clock' = clock + 1
  /\ UNCHANGED <<last, grants, pc, wakeAt, aborted, inFlight>>

BudgetNext ==
  \/ \E c \in Callers : Acquire(c) \/ Wake(c) \/ Abort(c) \/ Navigated(c)
  \/ ClockTicks

BudgetSpec == BudgetInit /\ [][BudgetNext]_budgetVars

-----------------------------------------------------------------------------

BudgetTypeOK ==
  /\ clock \in Nat /\ inFlight \in Nat
  /\ last \in Nat \cup {Unspent}
  /\ grants \subseteq [at : Nat, by : Callers]
  /\ pc \in [Callers -> {"idle", "asleep", "navigating"}]
  /\ wakeAt \in [Callers -> Nat]
  /\ aborted \in [Callers -> BOOLEAN]

\* Every navigation counted in flight is one that is waiting for its slot: an
\* aborted wait releases what it took (service.ts:371-376, 468-475).
InFlightExact ==
  inFlight = Cardinality({c \in Callers : pc[c] = "asleep"})

Limit == INSTANCE RateLimit
           WITH Work <- Callers, last <- IF last = Unspent THEN 0 ELSE last

\* Whoever else spends the budget in between, and whichever of them are aborted,
\* the navigations of one caller are at least the minimum interval apart, and an
\* aborted wait does not consume a slot.  Two callers that wait for the same slot
\* are both given it: the interval holds between the navigations of each, and
\* the source sees at most one navigation of each per interval
\* (scheduler.ts:8-9, 508-515, 533-545; service.ts:362-377).
RateLimited == Limit!Spec
=============================================================================
