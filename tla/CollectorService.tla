--------------------------- MODULE CollectorService ---------------------------
(***************************************************************************)
(* The collection service of the collector process (src/collector/         *)
(* service.ts), the adapter's walk over the planned bindings               *)
(* (adapters/chargepoint/index.ts), station discovery, the one pooled page *)
(* they share (browser.ts), and what the main process asks of them.        *)
(*                                                                         *)
(* JavaScript runs one callback at a time, and the host callbacks only     *)
(* post a message, so start, pause, load, suspend and resume are atomic.   *)
(* A cycle is not: it waits for the budget, for a page load and for the    *)
(* page's content, and anything may happen between.  Nothing stops a       *)
(* second cycle from beginning while a first one waits.                    *)
(*                                                                         *)
(* The queue is abstracted to the set of due bindings and to whether the   *)
(* source lets candidates through (Scheduler has the rest); the budget to  *)
(* a wait of any length (NavigationBudget has the rest).  One source is    *)
(* registered (workers/collector.ts:104).  The supervisor is abstracted to  *)
(* the restarts it has left and to one that is pending (SupervisedWorker    *)
(* has the rest).                                                          *)
(***************************************************************************)
EXTENDS Integers, FiniteSets

CONSTANTS
  Bindings,      \* monitored bindings, one station each
  Cycles,        \* bound: cycles that may be in progress at once
  Discovery,     \* the discovery work
  MapPage,       \* the page discovery navigates to
  Nothing,       \* null
  Happenings,    \* what this instance lets the surroundings do
  MaxRestarts,   \* options.maxRestarts
  MaxTime        \* bound on the clock

Work == Cycles \cup {Discovery}
Stages == {"idle", "planned", "loading", "reading"}
Null == -1

ASSUME ServiceAssumption ==
  /\ Discovery \notin Cycles
  /\ MapPage \notin Bindings /\ Nothing \notin Bindings \cup {MapPage} \cup Work
  /\ MaxTime \in Nat /\ MaxRestarts \in Nat

VARIABLES
  now,         \* the wall clock
  alive,       \* the collector process is up
  reviving,    \* its supervisor will bring it up again
  restarts,    \* how often the supervisor has begun to do so
  loaded,      \* the process was given its bindings and its queue
  wanted,      \* the setting collection.running, kept by the main process
  asleep,      \* the computer has announced suspend and not yet resume
  running, userPaused, online, pausedAt,     \* CollectorService
  stopped,     \* history: why it does not run though it should, "no" if it does
  timer,       \* cycleTimer is armed
  active,      \* activeController: the cycle it would abort
  manual,      \* manualQueue
  due,         \* bindings the queue holds due and not paused
  open,        \* the source lets candidates through (Scheduler!Open)
  pc,          \* per work: what it waits for
  plan,        \* per cycle: the bindings of its plan
  todo,        \* per cycle: those it has not come to yet
  cur,         \* per work: what it navigates to
  aborted,     \* per cycle: its abort signal
  batch,       \* per cycle: <<binding, station read>> of its observations
  nav,         \* the work whose page load is in flight
  page,        \* what the pooled page shows
  missed,      \* instants at which collection was paused or asleep
  covered,     \* instants inside a recorded gap
  lost,        \* history: those missed ones whose beginning was forgotten
  blurred      \* history: the beginning of the pause or sleep under way was

switches == <<running, userPaused, online, pausedAt, stopped>>
queue    == <<manual, due, open>>
cycles   == <<pc, plan, todo, cur, batch>>
browser  == <<nav, page>>
coverage == <<missed, covered, lost, blurred>>
process  == <<alive, reviving, restarts, loaded>>
outside  == <<process, wanted, asleep>>
vars == <<now, outside, switches, timer, active, queue, cycles, aborted,
          browser, coverage>>

Init ==
  /\ now = 0 /\ wanted = FALSE /\ asleep = FALSE
  /\ alive = TRUE /\ reviving = FALSE /\ restarts = 0 /\ loaded = TRUE
  /\ running = FALSE /\ userPaused = FALSE /\ online = TRUE /\ pausedAt = Null
  /\ stopped = "no" /\ timer = FALSE /\ active = Nothing
  /\ manual = {} /\ due \in SUBSET Bindings /\ open = TRUE
  /\ pc = [w \in Work |-> "idle"]
  /\ plan = [c \in Cycles |-> {}] /\ todo = [c \in Cycles |-> {}]
  /\ cur = [w \in Work |-> Nothing]
  /\ aborted = [c \in Cycles |-> FALSE]
  /\ batch = [c \in Cycles |-> {}]
  /\ nav = Nothing /\ page = Nothing
  /\ missed = {} /\ covered = {} /\ lost = {} /\ blurred = FALSE

-----------------------------------------------------------------------------
(* What the operations have in common *)

\* spreadOverdue leaves the first overdue binding due now and puts the others
\* off, one navigation interval each.
Spread == IF due = {} THEN due' = due ELSE \E b \in due : due' = {b}

\* activeController?.abort()
AbortActive ==
  aborted' = [c \in Cycles |-> aborted[c] \/ c = active]

\* A gap from pausedAt to now, if a pause is remembered.
RecordPause ==
  /\ covered' = IF pausedAt = Null THEN covered ELSE covered \cup pausedAt..(now - 1)
  /\ pausedAt' = Null

\* start(), which cannot tell a pause from a sleep that is under way.
Start ==
  IF running
  THEN UNCHANGED <<switches, due, timer, covered, blurred>>
  ELSE /\ running' = TRUE /\ userPaused' = FALSE /\ stopped' = "no"
       /\ RecordPause /\ blurred' = asleep
       /\ IF loaded' THEN Spread ELSE UNCHANGED due
       /\ timer' = TRUE
       /\ UNCHANGED online

\* Mutant of Pause: the work in progress is left alone.
PauseLeavingWork(byUser) ==
  IF ~running
  THEN UNCHANGED <<switches, timer, aborted, blurred>>
  ELSE /\ running' = FALSE /\ userPaused' = byUser
       /\ stopped' = (IF byUser THEN "no" ELSE "restored") /\ blurred' = FALSE
       /\ pausedAt' = now
       /\ timer' = FALSE
       /\ UNCHANGED <<online, aborted>>

Pause(byUser) ==
  IF ~running
  THEN UNCHANGED <<switches, timer, aborted, blurred>>
  ELSE /\ running' = FALSE /\ userPaused' = byUser
       /\ stopped' = (IF byUser THEN "no" ELSE "restored") /\ blurred' = FALSE
       /\ pausedAt' = now
       /\ timer' = FALSE
       /\ AbortActive
       /\ UNCHANGED online

-----------------------------------------------------------------------------
(* The cycle *)

\* Mutant of Plans: a manual request waits until its binding is due.
PlansOfDue ==
  IF ~open \/ ~loaded THEN {{}} ELSE {p \in SUBSET due : p = {} => due = {}}

\* The plan: every manual request, and the due bindings that fit before the
\* horizon, at least one if there is any.  Nothing passes a closed source, and a
\* process that was not given its bindings plans nothing.
Plans ==
  IF ~open \/ ~loaded THEN {{}}
  ELSE {p \in SUBSET (manual \cup due) :
          manual \subseteq p /\ (p = {} => manual \cup due = {})}

\* runCycle, up to the adapter's first wait.  A paused service does nothing;
\* an offline one, or one with nothing to do, looks again later.
TimerFires ==
  /\ timer
  /\ \/ /\ ~running
        /\ timer' = FALSE
        /\ UNCHANGED <<active, cycles, aborted>>
     \/ /\ running /\ (~online \/ {} \in Plans)
        /\ timer' = TRUE
        /\ UNCHANGED <<active, cycles, aborted>>
     \/ /\ running /\ online
        /\ \E p \in Plans \ {{}}, c \in Cycles :
             /\ pc[c] = "idle"
             /\ timer' = FALSE
             /\ active' = c
             /\ pc' = [pc EXCEPT ![c] = "planned"]
             /\ plan' = [plan EXCEPT ![c] = p]
             /\ todo' = [todo EXCEPT ![c] = p]
             /\ UNCHANGED <<cur, batch, aborted>>
  /\ UNCHANGED <<now, outside, switches, queue, browser, coverage>>

\* The head of the adapter's loop, once the signal is aborted: every binding
\* left is cancelled before navigation.
CancelRest(c) ==
  /\ pc[c] = "planned" /\ aborted[c] /\ todo[c] # {}
  /\ todo' = [todo EXCEPT ![c] = {}]
  /\ UNCHANGED <<now, outside, switches, timer, active, queue, pc, plan, cur,
                 batch, aborted, browser, coverage>>

\* A binding that fails before its page load starts: a refused address, a
\* wait for the budget that ends in an abort, no page.
FailsEarly(c) ==
  /\ pc[c] = "planned"
  /\ \E b \in todo[c] : todo' = [todo EXCEPT ![c] = @ \ {b}]
  /\ UNCHANGED <<now, outside, switches, timer, active, queue, pc, plan, cur,
                 batch, aborted, browser, coverage>>

\* Mutant of Navigate: the address is not taken off the list.
NavigateAgain(c) ==
  /\ pc[c] = "planned" /\ ~aborted[c]
  /\ \E b \in todo[c] : cur' = [cur EXCEPT ![c] = b]
  /\ pc' = [pc EXCEPT ![c] = "loading"]
  /\ nav' = c
  /\ UNCHANGED <<now, outside, switches, timer, active, queue, plan, batch,
                 todo, aborted, page, coverage>>

\* The slot is granted and the load of the next binding begins, in the pooled
\* page: it interrupts a load that is in flight there.
Navigate(c) ==
  /\ pc[c] = "planned" /\ ~aborted[c]
  /\ \E b \in todo[c] : /\ cur' = [cur EXCEPT ![c] = b]
                        /\ todo' = [todo EXCEPT ![c] = @ \ {b}]
  /\ pc' = [pc EXCEPT ![c] = "loading"]
  /\ nav' = c
  /\ UNCHANGED <<now, outside, switches, timer, active, queue, plan, batch,
                 aborted, page, coverage>>

\* Discovery ends its work when its page is done; a cycle comes to the next
\* binding.
After(w) == IF w = Discovery THEN "idle" ELSE "planned"

\* The load ends well: finalUrl is the address asked for.
Loaded(w) ==
  /\ pc[w] = "loading" /\ nav = w
  /\ pc' = [pc EXCEPT ![w] = "reading"]
  /\ page' = cur[w] /\ nav' = Nothing
  /\ UNCHANGED <<now, outside, switches, timer, active, queue, plan, todo, cur,
                 batch, aborted, coverage>>

\* The load fails, times out, is interrupted or is stopped by an abort.
NotLoaded(w) ==
  /\ pc[w] = "loading"
  /\ pc' = [pc EXCEPT ![w] = After(w)]
  /\ nav' = IF nav = w THEN Nothing ELSE nav
  /\ page' \in {page, Nothing}
  /\ UNCHANGED <<now, outside, switches, timer, active, queue, plan, todo, cur,
                 batch, aborted, coverage>>

\* The content is awaited and extracted from whatever the page shows by then;
\* the identity check compares the expected station with finalUrl, taken when
\* the load ended, and so always agrees.  A map page has no status to read.
Read(c) ==
  /\ pc[c] = "reading" /\ page \in Bindings
  /\ batch' = [batch EXCEPT ![c] = @ \cup {<<cur[c], page>>}]
  /\ pc' = [pc EXCEPT ![c] = "planned"]
  /\ UNCHANGED <<now, outside, switches, timer, active, queue, plan, todo, cur,
                 aborted, browser, coverage>>

\* A page without status, or the end of a discovery.
ReadNothing(w) ==
  /\ pc[w] = "reading"
  /\ pc' = [pc EXCEPT ![w] = After(w)]
  /\ UNCHANGED <<now, outside, switches, timer, active, queue, plan, todo, cur,
                 batch, aborted, browser, coverage>>

\* The end of collectFromSource and of runCycle.  The outcomes are recorded:
\* none of the planned bindings stays due, and the source may open or close.
\* The timer is armed, running or not.
Finish(c) ==
  /\ active' = Nothing
  /\ due' = due \ plan[c] /\ manual' = manual \ plan[c] /\ open' \in BOOLEAN
  /\ timer' = TRUE
  /\ pc' = [pc EXCEPT ![c] = "idle"]
  /\ plan' = [plan EXCEPT ![c] = {}]
  /\ todo' = [todo EXCEPT ![c] = {}]
  /\ cur' = [cur EXCEPT ![c] = Nothing]
  /\ batch' = [batch EXCEPT ![c] = {}]
  /\ aborted' = [aborted EXCEPT ![c] = FALSE]
  /\ UNCHANGED <<now, outside, switches, browser, coverage>>

\* Mutant of BatchEnds: a cycle that was aborted leaves the timer to start().
BatchEndsUnarmed(c) ==
  /\ pc[c] = "planned" /\ todo[c] = {}
  /\ active' = Nothing
  /\ due' = due \ plan[c] /\ manual' = manual \ plan[c] /\ open' \in BOOLEAN
  /\ timer' = (timer \/ ~aborted[c])
  /\ pc' = [pc EXCEPT ![c] = "idle"]
  /\ plan' = [plan EXCEPT ![c] = {}]
  /\ todo' = [todo EXCEPT ![c] = {}]
  /\ cur' = [cur EXCEPT ![c] = Nothing]
  /\ batch' = [batch EXCEPT ![c] = {}]
  /\ aborted' = [aborted EXCEPT ![c] = FALSE]
  /\ UNCHANGED <<now, outside, switches, browser, coverage>>

BatchEnds(c) ==
  /\ pc[c] = "planned" /\ todo[c] = {}
  /\ Finish(c)

\* collect() itself throws: every planned binding gets a failed attempt.
CollectCrashes(c) ==
  /\ "adapter crash" \in Happenings
  /\ pc[c] = "planned" /\ todo[c] # {}
  /\ Finish(c)

CycleStep(c) ==
  \/ CancelRest(c) \/ FailsEarly(c) \/ Navigate(c)
  \/ Loaded(c) \/ NotLoaded(c) \/ Read(c) \/ ReadNothing(c)
  \/ BatchEnds(c)

-----------------------------------------------------------------------------
(* Discovery: a walk over the map's station list, with a signal of its own    *)
(* that nobody aborts.                                                        *)

Discover ==
  /\ "discovery" \in Happenings /\ alive /\ ~asleep
  /\ pc[Discovery] = "idle"
  /\ pc' = [pc EXCEPT ![Discovery] = "planned"]
  /\ cur' = [cur EXCEPT ![Discovery] = MapPage]
  /\ UNCHANGED <<now, outside, switches, timer, active, queue, plan, todo, batch,
                 aborted, browser, coverage>>

OpenMap ==
  /\ pc[Discovery] = "planned"
  /\ pc' = [pc EXCEPT ![Discovery] = "loading"]
  /\ nav' = Discovery
  /\ UNCHANGED <<now, outside, switches, timer, active, queue, plan, todo, cur,
                 batch, aborted, page, coverage>>

DiscoveryStep ==
  OpenMap \/ Loaded(Discovery) \/ NotLoaded(Discovery) \/ ReadNothing(Discovery)

-----------------------------------------------------------------------------
(* What the main process asks *)

\* A request reaches the service when the process is up; the user asks for
\* nothing while the computer sleeps.
Asked(what) == what \in Happenings /\ alive /\ ~asleep

\* collection.setRunning, and the tray: the setting is saved, then the service
\* is told.
UserStarts ==
  /\ Asked("start")
  /\ wanted' = TRUE
  /\ UNCHANGED process
  /\ Start
  /\ UNCHANGED <<now, asleep, active, manual, open, cycles, aborted,
                 browser, missed, lost>>

UserPauses ==
  /\ Asked("pause")
  /\ wanted' = FALSE
  /\ Pause(TRUE)
  /\ UNCHANGED <<now, process, asleep, active, queue, cycles, browser, missed,
                 covered, lost>>

\* load: bindings or queue changed.  A running service re-plans at once.
TakeIn ==
  /\ loaded' = TRUE
  /\ IF running THEN Spread /\ timer' = TRUE ELSE UNCHANGED <<due, timer>>

Load ==
  /\ Asked("load")
  /\ TakeIn
  /\ UNCHANGED <<now, alive, reviving, restarts, wanted, asleep, switches, active, manual,
                 open, cycles, aborted, browser, coverage>>

\* requestManualRefresh
Refresh ==
  /\ Asked("refresh")
  /\ IF loaded THEN \E b \in Bindings : manual' = manual \cup {b} ELSE UNCHANGED manual
  /\ timer' = (timer \/ running)
  /\ UNCHANGED <<now, outside, switches, active, due, open, cycles, aborted,
                 browser, coverage>>

\* restore.perform pauses the service, with a reason of its own, and loads the
\* restored queue afterwards: a paused service only takes it in.  Nothing starts
\* it again.
Restore ==
  /\ Asked("restore")
  /\ Pause(FALSE)
  /\ UNCHANGED <<now, outside, active, queue, cycles, browser, missed, covered,
                 lost>>

\* setOnline.  The gap it records is one millisecond long, less than an instant.
SetOnline ==
  /\ Asked("network")
  /\ online' = ~online
  /\ IF online THEN AbortActive ELSE UNCHANGED aborted
  /\ UNCHANGED <<now, outside, running, userPaused, pausedAt, stopped, timer, active,
                 queue, cycles, browser, coverage>>

\* Mutant of Suspend: only the work in progress is ended.
SuspendForgotten ==
  /\ Asked("sleep")
  /\ asleep' = TRUE
  /\ lost' = (IF userPaused THEN lost \cup (missed \ covered) ELSE lost) /\ blurred' = FALSE
  /\ AbortActive
  /\ UNCHANGED <<now, process, wanted, switches, timer, active, queue, cycles, browser,
                 missed, covered>>

\* onSuspend.  The process may still run a little after the announcement.  What
\* a pause has missed so far is forgotten.
Suspend ==
  /\ Asked("sleep")
  /\ asleep' = TRUE
  /\ pausedAt' = now
  /\ lost' = (IF userPaused THEN lost \cup (missed \ covered) ELSE lost) /\ blurred' = FALSE
  /\ AbortActive
  /\ UNCHANGED <<now, process, wanted, running, userPaused, online, stopped, timer, active,
                 queue, cycles, browser, missed, covered>>

\* onResume.  What a pause goes on missing has no beginning any more.
Resume ==
  /\ alive /\ asleep
  /\ asleep' = FALSE
  /\ RecordPause /\ blurred' = userPaused
  /\ IF ~running THEN UNCHANGED <<due, timer>>
     ELSE timer' = TRUE /\ IF loaded THEN Spread ELSE UNCHANGED due
  /\ UNCHANGED <<now, process, wanted, running, userPaused, online, stopped, active, manual,
                 open, cycles, aborted, browser, missed, lost>>

\* The process exits, after an error or because an install asked it to shut down,
\* and its browser with it: everything it held is gone.  Its supervisor will
\* bring it up again, as long as it has restarts left.
Dies ==
  /\ "exit" \in Happenings /\ alive
  /\ alive' = FALSE /\ loaded' = FALSE
  /\ reviving' = (reviving \/ restarts < MaxRestarts)
  /\ restarts' = IF restarts < MaxRestarts THEN restarts + 1 ELSE restarts
  /\ stopped' = IF reviving' THEN "no" ELSE "abandoned"
  /\ running' = FALSE /\ userPaused' = FALSE /\ online' = TRUE /\ pausedAt' = Null
  /\ timer' = FALSE /\ active' = Nothing /\ manual' = {}
  /\ pc' = [w \in Work |-> "idle"]
  /\ plan' = [c \in Cycles |-> {}] /\ todo' = [c \in Cycles |-> {}]
  /\ cur' = [w \in Work |-> Nothing]
  /\ aborted' = [c \in Cycles |-> FALSE]
  /\ batch' = [c \in Cycles |-> {}]
  /\ nav' = Nothing /\ page' = Nothing
  /\ lost' = lost \cup (missed \ covered) /\ blurred' = asleep
  /\ UNCHANGED <<now, wanted, asleep, due, open, missed, covered>>

\* A request finds no process and starts one, which knows nothing yet.
Spawned ==
  /\ ~alive /\ alive' = TRUE
  /\ open' = TRUE
  /\ UNCHANGED <<now, reviving, restarts, loaded, wanted, asleep, switches, timer, active,
                 manual, due, cycles, aborted, browser, coverage>>

\* Mutant of OnRestarted: the new process is not told to start.
OnRestartedIdle == TakeIn /\ UNCHANGED <<switches, covered, blurred>>

\* onRestarted: load, then start if the setting says so.  Whatever fails there is
\* logged and not tried again.
OnRestarted ==
  IF running \/ ~wanted
  THEN TakeIn /\ UNCHANGED <<switches, covered, blurred>>
  ELSE loaded' = TRUE /\ Start

OnRestartedFails ==
  /\ TakeIn \/ UNCHANGED <<loaded, due, timer>>
  /\ stopped' = "abandoned"
  /\ UNCHANGED <<running, userPaused, online, pausedAt, covered, blurred>>

\* The delay is over: the supervisor starts the process, unless a request has,
\* and brings it up.  A new scheduler takes its source for healthy.
Respawn ==
  /\ reviving /\ reviving' = FALSE
  /\ alive' = TRUE /\ open' = (open \/ ~alive)
  /\ OnRestarted \/ OnRestartedFails
  /\ UNCHANGED <<now, restarts, wanted, asleep, active, manual, cycles, aborted, browser,
                 missed, lost>>

-----------------------------------------------------------------------------
(* Time *)

\* A binding's time comes, or it is switched on.
FallsDue ==
  /\ \E b \in Bindings \ due : due' = due \cup {b}
  /\ UNCHANGED <<now, outside, switches, timer, active, manual, open, cycles,
                 aborted, browser, coverage>>

\* The hold of the source expires.
Reopens ==
  /\ ~open /\ open' = TRUE
  /\ UNCHANGED <<now, outside, switches, timer, active, manual, due, cycles,
                 aborted, browser, coverage>>

Tick ==
  /\ now < MaxTime
  /\ now' = now + 1
  /\ missed' = IF userPaused \/ asleep THEN missed \cup {now} ELSE missed
  /\ lost' = IF blurred /\ (userPaused \/ asleep) THEN lost \cup {now} ELSE lost
  /\ UNCHANGED <<outside, switches, timer, active, queue, cycles, aborted,
                 browser, covered, blurred>>

Requests ==
  \/ UserStarts \/ UserPauses \/ Load \/ Refresh \/ Restore \/ Discover
  \/ SetOnline \/ Suspend \/ Resume \/ Dies \/ Spawned \/ Respawn

Next ==
  \/ TimerFires
  \/ \E c \in Cycles : CycleStep(c) \/ CollectCrashes(c)
  \/ DiscoveryStep
  \/ Requests
  \/ FallsDue \/ Reopens \/ Tick

Spec == Init /\ [][Next]_vars

\* An armed timer fires, and every wait of a cycle ends: the waits for the budget,
\* for a page load and for its content have deadlines; the extraction has none of
\* its own (adapters/chargepoint/index.ts:411) and is taken to end.  So does the
\* delay of a restart.  A sleep of the computer only makes a step late.
Fairness ==
  /\ WF_vars(TimerFires)
  /\ \A c \in Cycles : WF_vars(CycleStep(c))
  /\ WF_vars(Respawn)

FairSpec == Spec /\ Fairness

-----------------------------------------------------------------------------
(* Properties *)

TypeOK ==
  /\ now \in Nat /\ pausedAt \in Nat \cup {Null}
  /\ alive \in BOOLEAN /\ reviving \in BOOLEAN /\ loaded \in BOOLEAN
  /\ restarts \in 0..MaxRestarts
  /\ wanted \in BOOLEAN /\ asleep \in BOOLEAN
  /\ stopped \in {"no", "restored", "abandoned"}
  /\ running \in BOOLEAN /\ userPaused \in BOOLEAN /\ online \in BOOLEAN
  /\ timer \in BOOLEAN /\ open \in BOOLEAN
  /\ active \in Cycles \cup {Nothing}
  /\ manual \subseteq Bindings /\ due \subseteq Bindings
  /\ pc \in [Work -> Stages]
  /\ plan \in [Cycles -> SUBSET Bindings] /\ todo \in [Cycles -> SUBSET Bindings]
  /\ cur \in [Work -> Bindings \cup {MapPage, Nothing}]
  /\ aborted \in [Cycles -> BOOLEAN]
  /\ batch \in [Cycles -> SUBSET ((Bindings \cup {MapPage, Nothing}) \X Bindings)]
  /\ nav \in Work \cup {Nothing}
  /\ page \in Bindings \cup {MapPage, Nothing}
  /\ missed \subseteq Nat /\ covered \subseteq Nat /\ lost \subseteq Nat
  /\ blurred \in BOOLEAN

\* Collection never falls silent (service.ts:383-437): while the service runs,
\* the next cycle is armed or a cycle that will arm it is in progress, whatever
\* was paused, aborted, reloaded or put to sleep while a cycle was waiting.
NeverStalls ==
  running => timer \/ \E c \in Cycles : pc[c] # "idle"

\* A pause, and a lost network, reach the cycle the service holds on to
\* (service.ts:284, 293): paused or offline, that cycle has been aborted.
HeldCycleIsStopped ==
  (~running \/ ~online) /\ active # Nothing => aborted[active]

\* Every instant at which collection was paused by the user or the computer
\* slept lies in a recorded gap once collection runs again (README.md:85-86,
\* service.ts:251-259, 310-324).  One variable remembers where a pause began and
\* where a sleep began, so what a pause missed before the computer fell asleep
\* in it, and what it misses after that sleep, is lost; so is what was missed
\* when the process exits, and the rest of a sleep in which it exits or is
\* started.  Everything else is covered, and what was slept always is.
PausesAreCovered ==
  running /\ ~asleep => missed \subseteq covered \cup lost

\* A manual refresh is served: the binding is part of a plan that ends, unless
\* collection stops or the source is closed (service.ts:332-360, 433).
RefreshServed ==
  \A b \in Bindings :
    b \in manual ~> (b \notin manual \/ ~running \/ ~online \/ ~open)

\* Every cycle ends and reports its outcomes, aborted or not: no wait is
\* without a deadline (service.ts:422-437).
CyclesEnd ==
  \A c \in Cycles : pc[c] # "idle" ~> pc[c] = "idle"

\* The setting collection.running is served: collection that should run does,
\* again after the process has exited, however often, for an error or an install,
\* and whether or not a request has started it in between, as long as the
\* supervisor has restarts left and brings it up without a failure, which nobody
\* repairs, and no restore has paused it (main/index.ts:1107-1110,
\* workers.ts:129, 145-153).
WantedRuns == wanted ~> (running \/ ~wanted \/ stopped # "no")

-----------------------------------------------------------------------------
(* What the comments promise *)

\* scheduler.ts:59 "Maximum concurrent navigations. One, for the initial
\* adapter."
OneNavigation == Cardinality({w \in Work : pc[w] = "loading"}) <= 1

\* parse.ts:389-390 "a redirect or stale SPA render must not write one
\* station's counts onto another binding."
ReadsItsOwnStation ==
  \A c \in Cycles : \A r \in batch[c] : r[1] = r[2]

\* service.ts:700 "Graceful stop: stop scheduling, cancel bounded browser
\* work": stop() pauses to do so.
PauseStopsAllWork ==
  ~running => \A c \in Cycles : pc[c] # "idle" => aborted[c]

\* docs/UPDATES_AND_RECOVERY.md:125 "Collection stops before the database is
\* touched and resumes afterwards."
RestoreResumes == wanted /\ stopped = "restored" ~> (running \/ ~wanted)

\* service.ts:273 "The pause is visible and recorded as missing coverage."
EveryPauseIsCovered == running /\ ~asleep => missed \subseteq covered
=============================================================================
