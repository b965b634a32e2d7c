------------------------ MODULE CollectorServiceProofs ------------------------
(***************************************************************************)
(* Collection never falls silent, a pause reaches the cycle the service    *)
(* holds on to, and what is missed is recorded or was forgotten, for any   *)
(* number of bindings and of cycles in progress.  The first two are        *)
(* inductive together with the type invariant: every step that disarms the *)
(* timer either leaves a cycle in progress or stops the service, and the   *)
(* last step of a cycle arms it.  The third is Remembered, below.          *)
(***************************************************************************)
EXTENDS CollectorService, TLAPS

LEMMA InitType == ASSUME ServiceAssumption, Init PROVE TypeOK
<1>1. now \in Nat /\ pausedAt \in Nat \cup {Null} /\ restarts \in 0..MaxRestarts
  BY DEF Init, ServiceAssumption
<1>2. manual \subseteq Bindings /\ due \subseteq Bindings
  BY DEF Init
<1>3. pc \in [Work -> Stages] /\ aborted \in [Cycles -> BOOLEAN]
  BY DEF Init, Stages
<1>4. plan \in [Cycles -> SUBSET Bindings] /\ todo \in [Cycles -> SUBSET Bindings]
  BY DEF Init
<1>5. cur \in [Work -> Bindings \cup {MapPage, Nothing}]
  BY DEF Init
<1>6. batch \in [Cycles -> SUBSET ((Bindings \cup {MapPage, Nothing}) \X Bindings)]
  BY DEF Init
<1>7. active \in Cycles \cup {Nothing} /\ nav \in Work \cup {Nothing}
      /\ page \in Bindings \cup {MapPage, Nothing}
  BY DEF Init
<1>8. missed \subseteq Nat /\ covered \subseteq Nat /\ lost \subseteq Nat
  BY DEF Init
<1> QED
  BY <1>1, <1>2, <1>3, <1>4, <1>5, <1>6, <1>7, <1>8 DEF Init, TypeOK

LEMMA PauseType ==
  ASSUME TypeOK, NEW byUser \in BOOLEAN, Pause(byUser)
  PROVE  /\ running' \in BOOLEAN /\ userPaused' \in BOOLEAN /\ online' \in BOOLEAN
         /\ pausedAt' \in Nat \cup {Null} /\ timer' \in BOOLEAN
         /\ stopped' \in {"no", "restored", "abandoned"} /\ blurred' \in BOOLEAN
         /\ aborted' \in [Cycles -> BOOLEAN]
BY DEF Pause, TypeOK, AbortActive, switches

LEMMA RecordType ==
  ASSUME TypeOK, RecordPause
  PROVE  pausedAt' \in Nat \cup {Null} /\ covered' \subseteq Nat
<1>1. CASE pausedAt = Null
  BY <1>1 DEF RecordPause, TypeOK
<1>2. CASE pausedAt # Null
  <2>1. pausedAt \in Nat /\ now \in Nat
    BY <1>2 DEF TypeOK
  <2>2. pausedAt..(now - 1) \subseteq Nat
    BY <2>1
  <2> QED
    BY <1>2, <2>2 DEF RecordPause, TypeOK
<1> QED
  BY <1>1, <1>2

LEMMA SpreadType ==
  ASSUME TypeOK, Spread
  PROVE  due' \subseteq Bindings
BY DEF Spread, TypeOK

LEMMA StartType ==
  ASSUME TypeOK, Start
  PROVE  /\ running' \in BOOLEAN /\ userPaused' \in BOOLEAN /\ online' \in BOOLEAN
         /\ pausedAt' \in Nat \cup {Null} /\ timer' \in BOOLEAN
         /\ stopped' \in {"no", "restored", "abandoned"} /\ blurred' \in BOOLEAN
         /\ due' \subseteq Bindings /\ covered' \subseteq Nat
<1>1. CASE running
  BY <1>1 DEF Start, TypeOK, switches
<1>2. CASE ~running
  BY <1>2, RecordType, SpreadType DEF Start, TypeOK
<1> QED
  BY <1>1, <1>2

-----------------------------------------------------------------------------

LEMMA FinishType ==
  ASSUME TypeOK, NEW c \in Cycles, Finish(c)
  PROVE  TypeOK'
BY DEF Finish, TypeOK, process, outside, switches, browser, coverage, Stages, Work

\* What a firing timer starts: nothing, or one cycle.
LEMMA TimerStarts ==
  ASSUME TimerFires, UNCHANGED <<active, cycles, aborted>> => FALSE
  PROVE  \E p \in Plans, c \in Cycles :
           /\ running /\ online
           /\ timer' = FALSE /\ active' = c
           /\ pc' = [pc EXCEPT ![c] = "planned"]
           /\ plan' = [plan EXCEPT ![c] = p]
           /\ todo' = [todo EXCEPT ![c] = p]
           /\ UNCHANGED <<cur, batch, aborted>>
BY DEF TimerFires

LEMMA TimerType ==
  ASSUME TypeOK, TimerFires
  PROVE  TypeOK'
<1>0. Plans \subseteq SUBSET Bindings
  BY DEF Plans, TypeOK
<1>1. CASE UNCHANGED <<active, cycles, aborted>>
  <2>1. timer' \in BOOLEAN
    BY <1>1 DEF TimerFires
  <2>2. UNCHANGED <<now, outside, switches, queue, browser, coverage>>
    BY DEF TimerFires
  <2> QED
    BY <1>1, <2>1, <2>2 DEF TypeOK, process, outside, switches, queue, cycles, browser,
                            coverage
<1>2. CASE ~UNCHANGED <<active, cycles, aborted>>
  <2>1. PICK p \in Plans, c \in Cycles :
           /\ timer' = FALSE /\ active' = c
           /\ pc' = [pc EXCEPT ![c] = "planned"]
           /\ plan' = [plan EXCEPT ![c] = p]
           /\ todo' = [todo EXCEPT ![c] = p]
           /\ UNCHANGED <<cur, batch, aborted>>
    BY <1>2, TimerStarts
  <2>2. UNCHANGED <<now, outside, switches, queue, browser, coverage>>
    BY DEF TimerFires
  <2>3. p \subseteq Bindings
    BY <1>0
  <2>4. pc' \in [Work -> Stages] /\ plan' \in [Cycles -> SUBSET Bindings]
        /\ todo' \in [Cycles -> SUBSET Bindings]
    BY <2>1, <2>3 DEF Stages, TypeOK
  <2>5. timer' \in BOOLEAN /\ active' \in Cycles \cup {Nothing}
    BY <2>1
  <2>6. UNCHANGED <<cur, batch, aborted>>
    BY <2>1
  <2> QED
    BY <2>2, <2>4, <2>5, <2>6 DEF TypeOK, process, outside, switches, queue, browser,
                                  coverage
<1> QED
  BY <1>1, <1>2

LEMMA StepType ==
  ASSUME ServiceAssumption, TypeOK, NEW c \in Cycles, CycleStep(c)
  PROVE  TypeOK'
<1> USE DEF process, outside, switches, queue, coverage, Stages, Work
<1>1. CASE CancelRest(c)
  BY <1>1 DEF CancelRest, TypeOK, browser
<1>2. CASE FailsEarly(c)
  BY <1>2 DEF FailsEarly, TypeOK, browser
<1>3. CASE Navigate(c)
  BY <1>3 DEF Navigate, TypeOK
<1>4. CASE Loaded(c)
  BY <1>4 DEF Loaded, TypeOK
<1>5. CASE NotLoaded(c)
  BY <1>5 DEF NotLoaded, TypeOK, After
<1>6. CASE Read(c)
  BY <1>6 DEF Read, TypeOK, browser
<1>7. CASE ReadNothing(c)
  BY <1>7 DEF ReadNothing, TypeOK, After, browser
<1>8. CASE BatchEnds(c)
  BY <1>8, FinishType DEF BatchEnds
<1> QED
  BY <1>1, <1>2, <1>3, <1>4, <1>5, <1>6, <1>7, <1>8 DEF CycleStep

LEMMA DiscoveryType ==
  ASSUME ServiceAssumption, TypeOK, DiscoveryStep
  PROVE  TypeOK'
<1> USE DEF process, outside, switches, queue, coverage, Stages, Work
<1>1. CASE OpenMap
  BY <1>1 DEF OpenMap, TypeOK
<1>2. CASE Loaded(Discovery)
  BY <1>2 DEF Loaded, TypeOK
<1>3. CASE NotLoaded(Discovery)
  BY <1>3 DEF NotLoaded, TypeOK, After
<1>4. CASE ReadNothing(Discovery)
  BY <1>4 DEF ReadNothing, TypeOK, After, browser
<1> QED
  BY <1>1, <1>2, <1>3, <1>4 DEF DiscoveryStep

LEMMA TakeInType ==
  ASSUME TypeOK, TakeIn
  PROVE  loaded' \in BOOLEAN /\ due' \subseteq Bindings /\ timer' \in BOOLEAN
BY SpreadType DEF TakeIn, TypeOK

\* What a restart leaves of the service, whether its callback fails or not.
LEMMA RestartType ==
  ASSUME TypeOK, OnRestarted \/ OnRestartedFails
  PROVE  /\ running' \in BOOLEAN /\ userPaused' \in BOOLEAN /\ online' \in BOOLEAN
         /\ pausedAt' \in Nat \cup {Null} /\ timer' \in BOOLEAN
         /\ stopped' \in {"no", "restored", "abandoned"} /\ blurred' \in BOOLEAN
         /\ loaded' \in BOOLEAN /\ due' \subseteq Bindings /\ covered' \subseteq Nat
<1>1. CASE OnRestarted /\ (running \/ ~wanted)
  BY <1>1, TakeInType DEF OnRestarted, TypeOK, switches
<1>2. CASE OnRestarted /\ ~(running \/ ~wanted)
  BY <1>2, StartType DEF OnRestarted
<1>3. CASE OnRestartedFails
  BY <1>3, TakeInType DEF OnRestartedFails, TypeOK
<1> QED
  BY <1>1, <1>2, <1>3

LEMMA DiesType ==
  ASSUME ServiceAssumption, TypeOK, Dies
  PROVE  TypeOK'
<1>1. restarts' \in 0..MaxRestarts
  BY DEF Dies, TypeOK, ServiceAssumption
<1>2. reviving' \in BOOLEAN /\ stopped' \in {"no", "restored", "abandoned"}
  BY DEF Dies, TypeOK
<1>3. missed' \subseteq Nat /\ covered' \subseteq Nat /\ lost' \subseteq Nat
  BY DEF Dies, TypeOK
<1> QED
  BY <1>1, <1>2, <1>3 DEF Dies, TypeOK, Stages, Work, Null

LEMMA RequestType ==
  ASSUME ServiceAssumption, TypeOK, Requests
  PROVE  TypeOK'
<1> USE DEF process, outside, queue, cycles, browser, coverage
<1>1. CASE UserStarts
  BY <1>1, StartType DEF UserStarts, TypeOK
<1>2. CASE UserPauses
  BY <1>2, PauseType DEF UserPauses, TypeOK
<1>3. CASE Load
  BY <1>3, TakeInType DEF Load, TypeOK, switches
<1>4. CASE Refresh
  BY <1>4 DEF Refresh, TypeOK, switches
<1>5. CASE Restore
  BY <1>5, PauseType DEF Restore, TypeOK
<1>6. CASE Discover
  BY <1>6 DEF Discover, TypeOK, switches, Stages, Work
<1>7. CASE SetOnline
  BY <1>7 DEF SetOnline, TypeOK, AbortActive
<1>8. CASE Suspend
  <2>1. lost' \subseteq Nat /\ blurred' \in BOOLEAN /\ pausedAt' \in Nat
    BY <1>8 DEF Suspend, TypeOK
  <2>2. asleep' \in BOOLEAN /\ aborted' \in [Cycles -> BOOLEAN]
    BY <1>8 DEF Suspend, AbortActive, TypeOK
  <2>3. UNCHANGED <<now, process, wanted, running, userPaused, online, stopped, timer,
                    active, queue, cycles, browser, missed, covered>>
    BY <1>8 DEF Suspend
  <2> QED
    BY <2>1, <2>2, <2>3 DEF TypeOK
<1>9. CASE Resume
  <2>1. pausedAt' \in Nat \cup {Null} /\ covered' \subseteq Nat
    BY <1>9, RecordType DEF Resume
  <2>2. due' \subseteq Bindings /\ timer' \in BOOLEAN
    BY <1>9, SpreadType DEF Resume, TypeOK
  <2>3. asleep' \in BOOLEAN /\ blurred' \in BOOLEAN
    BY <1>9 DEF Resume, TypeOK
  <2>4. UNCHANGED <<now, process, wanted, running, userPaused, online, stopped, active,
                    manual, open, cycles, aborted, browser, missed, lost>>
    BY <1>9 DEF Resume
  <2> QED
    BY <2>1, <2>2, <2>3, <2>4 DEF TypeOK
<1>10. CASE Dies
  BY <1>10, DiesType
<1>11. CASE Spawned
  BY <1>11 DEF Spawned, TypeOK, switches
<1>12. CASE Respawn
  <2>1. OnRestarted \/ OnRestartedFails
    BY <1>12 DEF Respawn
  <2>2. reviving' \in BOOLEAN /\ alive' \in BOOLEAN /\ open' \in BOOLEAN
    BY <1>12 DEF Respawn, TypeOK
  <2>3. UNCHANGED <<now, restarts, wanted, asleep, active, manual, cycles, aborted,
                    browser, missed, lost>>
    BY <1>12 DEF Respawn
  <2> QED
    BY <2>1, <2>2, <2>3, RestartType DEF TypeOK
<1> QED
  BY <1>1, <1>2, <1>3, <1>4, <1>5, <1>6, <1>7, <1>8, <1>9, <1>10, <1>11, <1>12
     DEF Requests

LEMMA NextType ==
  ASSUME ServiceAssumption, TypeOK, [Next]_vars
  PROVE  TypeOK'
<1> USE DEF process, outside, switches, queue, cycles, browser, coverage
<1>1. CASE TimerFires
  BY <1>1, TimerType
<1>2. ASSUME NEW c \in Cycles, CycleStep(c) PROVE TypeOK'
  BY <1>2, StepType
<1>3. ASSUME NEW c \in Cycles, CollectCrashes(c) PROVE TypeOK'
  BY <1>3, FinishType DEF CollectCrashes
<1>4. CASE DiscoveryStep
  BY <1>4, DiscoveryType
<1>5. CASE Requests
  BY <1>5, RequestType
<1>6. CASE FallsDue
  BY <1>6 DEF FallsDue, TypeOK
<1>7. CASE Reopens
  BY <1>7 DEF Reopens, TypeOK
<1>8. CASE Tick
  <2>1. now' \in Nat /\ missed' \subseteq Nat /\ lost' \subseteq Nat
    BY <1>8 DEF Tick, TypeOK
  <2> QED
    BY <1>8, <2>1 DEF Tick, TypeOK
<1>9. CASE UNCHANGED vars
  BY <1>9 DEF vars, TypeOK
<1> QED
  BY <1>1, <1>2, <1>3, <1>4, <1>5, <1>6, <1>7, <1>8, <1>9 DEF Next

\* Every variable keeps its type, for any number of bindings and cycles.
THEOREM ServiceTypeCorrect == Spec => []TypeOK
<1>1. Init => TypeOK
  BY InitType, ServiceAssumption
<1>2. TypeOK /\ [Next]_vars => TypeOK'
  BY NextType, ServiceAssumption
<1> QED
  BY <1>1, <1>2, PTL DEF Spec

-----------------------------------------------------------------------------
(* The safety invariants *)

\* One line of the cycles in progress: no step of a cycle but its last one
\* makes it idle.
Quiet == NeverStalls /\ HeldCycleIsStopped

LEMMA StepQuiet ==
  ASSUME ServiceAssumption, TypeOK, Quiet, NEW c \in Cycles, CycleStep(c)
  PROVE  Quiet'
<1> USE DEF TypeOK, Quiet, NeverStalls, HeldCycleIsStopped, switches, Work
<1>1. CASE CancelRest(c)
  BY <1>1 DEF CancelRest
<1>2. CASE FailsEarly(c)
  BY <1>2 DEF FailsEarly
<1>3. CASE Navigate(c)
  BY <1>3 DEF Navigate
<1>4. CASE Loaded(c)
  BY <1>4 DEF Loaded
<1>5. CASE NotLoaded(c)
  BY <1>5 DEF NotLoaded, After, ServiceAssumption
<1>6. CASE Read(c)
  BY <1>6 DEF Read
<1>7. CASE ReadNothing(c)
  BY <1>7 DEF ReadNothing, After, ServiceAssumption
<1>8. CASE BatchEnds(c)
  BY <1>8 DEF BatchEnds, Finish
<1> QED
  BY <1>1, <1>2, <1>3, <1>4, <1>5, <1>6, <1>7, <1>8 DEF CycleStep

LEMMA DiscoveryQuiet ==
  ASSUME ServiceAssumption, TypeOK, Quiet, DiscoveryStep
  PROVE  Quiet'
<1>1. UNCHANGED <<running, online, timer, active, aborted>>
  BY DEF DiscoveryStep, OpenMap, Loaded, NotLoaded, ReadNothing, switches
<1>2. \A c \in Cycles : pc'[c] = pc[c]
  BY DEF DiscoveryStep, OpenMap, Loaded, NotLoaded, ReadNothing, TypeOK,
         ServiceAssumption, Work
<1> QED
  BY <1>1, <1>2 DEF Quiet, NeverStalls, HeldCycleIsStopped

LEMMA PauseQuiet ==
  ASSUME TypeOK, Quiet, NEW byUser \in BOOLEAN, Pause(byUser), UNCHANGED <<active, pc>>
  PROVE  Quiet'
BY DEF Pause, AbortActive, Quiet, NeverStalls, HeldCycleIsStopped, TypeOK, switches

LEMMA StartQuiet ==
  ASSUME TypeOK, Quiet, Start, UNCHANGED <<active, pc, aborted>>
  PROVE  Quiet'
BY DEF Start, Quiet, NeverStalls, HeldCycleIsStopped, TypeOK, switches

LEMMA RestartQuiet ==
  ASSUME TypeOK, Quiet, OnRestarted \/ OnRestartedFails, UNCHANGED <<active, pc, aborted>>
  PROVE  Quiet'
<1>1. CASE OnRestarted /\ ~(running \/ ~wanted)
  BY <1>1, StartQuiet DEF OnRestarted
<1>2. CASE ~(OnRestarted /\ ~(running \/ ~wanted))
  <2>1. UNCHANGED <<running, online>> /\ (timer' = timer \/ timer' = TRUE)
    BY <1>2 DEF OnRestarted, OnRestartedFails, TakeIn, switches
  <2> QED
    BY <2>1 DEF Quiet, NeverStalls, HeldCycleIsStopped
<1> QED
  BY <1>1, <1>2

LEMMA RequestQuiet ==
  ASSUME ServiceAssumption, TypeOK, Quiet, Requests
  PROVE  Quiet'
<1> USE DEF TypeOK, Quiet, NeverStalls, HeldCycleIsStopped, cycles, switches, queue,
            process, outside
<1>1. CASE UserStarts
  BY <1>1, StartQuiet DEF UserStarts
<1>2. CASE UserPauses
  BY <1>2, PauseQuiet DEF UserPauses
<1>3. CASE Load
  BY <1>3 DEF Load, TakeIn
<1>4. CASE Refresh
  BY <1>4 DEF Refresh
<1>5. CASE Restore
  BY <1>5, PauseQuiet DEF Restore
<1>6. CASE Discover
  BY <1>6 DEF Discover, ServiceAssumption, Work
<1>7. CASE SetOnline
  BY <1>7 DEF SetOnline, AbortActive
<1>8. CASE Suspend
  BY <1>8 DEF Suspend, AbortActive
<1>9. CASE Resume
  BY <1>9 DEF Resume
<1>10. CASE Dies
  BY <1>10 DEF Dies
<1>11. CASE Spawned
  BY <1>11 DEF Spawned
<1>12. CASE Respawn
  BY <1>12, RestartQuiet DEF Respawn
<1> QED
  BY <1>1, <1>2, <1>3, <1>4, <1>5, <1>6, <1>7, <1>8, <1>9, <1>10, <1>11, <1>12
     DEF Requests

LEMMA NextQuiet ==
  ASSUME ServiceAssumption, TypeOK, Quiet, [Next]_vars
  PROVE  Quiet'
<1> USE DEF TypeOK, Quiet, NeverStalls, HeldCycleIsStopped, cycles, switches
<1>1. CASE TimerFires /\ UNCHANGED <<active, cycles, aborted>>
  <2>1. running => timer'
    <3>1. \A c \in Cycles : [pc EXCEPT ![c] = "planned"][c] = "planned"
      BY DEF Work
    <3> QED
      BY <1>1, <3>1 DEF TimerFires
  <2> QED
    BY <1>1, <2>1 DEF TimerFires
<1>2. CASE TimerFires /\ ~UNCHANGED <<active, cycles, aborted>>
  <2>1. PICK c \in Cycles : running /\ online /\ pc' = [pc EXCEPT ![c] = "planned"]
    BY <1>2, TimerStarts
  <2>2. pc'[c] = "planned"
    BY <2>1 DEF Work
  <2>3. UNCHANGED switches
    BY <1>2 DEF TimerFires
  <2> QED
    BY <2>1, <2>2, <2>3
<1>3. ASSUME NEW c \in Cycles, CycleStep(c) PROVE Quiet'
  BY <1>3, StepQuiet
<1>4. ASSUME NEW c \in Cycles, CollectCrashes(c) PROVE Quiet'
  BY <1>4 DEF CollectCrashes, Finish
<1>5. CASE DiscoveryStep
  BY <1>5, DiscoveryQuiet
<1>6. CASE Requests
  BY <1>6, RequestQuiet
<1>7. CASE FallsDue
  BY <1>7 DEF FallsDue
<1>8. CASE Reopens
  BY <1>8 DEF Reopens
<1>9. CASE Tick
  BY <1>9 DEF Tick
<1>10. CASE UNCHANGED vars
  BY <1>10 DEF vars
<1> QED
  BY <1>1, <1>2, <1>3, <1>4, <1>5, <1>6, <1>7, <1>8, <1>9, <1>10 DEF Next

LEMMA QuietInvariant == Spec => []Quiet
<1>1. Init => Quiet
  BY DEF Init, Quiet, NeverStalls, HeldCycleIsStopped
<1>2. TypeOK /\ Quiet /\ [Next]_vars => Quiet'
  BY NextQuiet, ServiceAssumption
<1> QED
  BY <1>1, <1>2, ServiceTypeCorrect, PTL DEF Spec

\* A running service has armed its timer or holds a cycle that will arm it,
\* however pauses, reloads, sleeps and crashes fall into a cycle
\* (service.ts:383-437).
THEOREM CollectionNeverStalls == Spec => []NeverStalls
<1>1. Quiet => NeverStalls
  BY DEF Quiet
<1> QED
  BY <1>1, QuietInvariant, PTL

\* A pause or a lost network aborts the cycle the service holds on to, and no
\* later step replaces it by one that is not aborted (service.ts:284, 293).
THEOREM PauseReachesHeldCycle == Spec => []HeldCycleIsStopped
<1>1. Quiet => HeldCycleIsStopped
  BY DEF Quiet
<1> QED
  BY <1>1, QuietInvariant, PTL

-----------------------------------------------------------------------------
(* Coverage of pauses and sleeps *)

\* Why what is missed is covered.  An instant that is neither covered nor forgotten
\* came after the one that is remembered; a pause or a sleep whose beginning was
\* not forgotten is remembered; and a service that is neither paused nor asleep
\* has nothing left to record.
Recorded(t) == t \in covered \/ t \in lost

Remembered ==
  /\ running => ~userPaused
  /\ pausedAt # Null => pausedAt <= now
  /\ userPaused \/ asleep => blurred \/ pausedAt # Null
  /\ ~userPaused /\ ~asleep => \A t \in missed : Recorded(t)
  /\ \A t \in missed :
       t < now /\ (Recorded(t) \/ (pausedAt # Null /\ t >= pausedAt))

\* Nothing that Remembered speaks of changes.
LEMMA RememberedStays ==
  ASSUME Remembered,
         UNCHANGED <<now, asleep, running, userPaused, pausedAt, coverage>>
  PROVE  Remembered'
BY DEF Remembered, Recorded, coverage

\* Recording the pause covers all that was missed.
LEMMA RecordCovers ==
  ASSUME TypeOK, Remembered, RecordPause, UNCHANGED lost
  PROVE  (\A t \in missed : Recorded(t)') /\ pausedAt' = Null
<1>1. CASE pausedAt = Null
  BY <1>1 DEF RecordPause, Remembered, Recorded
<1>2. CASE pausedAt # Null
  <2>1. pausedAt \in Nat /\ now \in Nat /\ missed \subseteq Nat
    BY <1>2 DEF TypeOK
  <2>2. \A t \in missed : Recorded(t) \/ t \in pausedAt..(now - 1)
    BY <2>1 DEF Remembered
  <2>3. covered' = covered \cup pausedAt..(now - 1)
    BY <1>2 DEF RecordPause
  <2> QED
    BY <2>2, <2>3 DEF RecordPause, Recorded
<1> QED
  BY <1>1, <1>2

LEMMA StartRemembers ==
  ASSUME TypeOK, Remembered, Start, UNCHANGED <<now, asleep, missed, lost>>
  PROVE  Remembered'
<1>1. CASE running
  BY <1>1, RememberedStays DEF Start, switches, coverage
<1>2. CASE ~running
  <2>1. RecordPause /\ running' = TRUE /\ userPaused' = FALSE /\ blurred' = asleep
    BY <1>2 DEF Start
  <2>2. (\A t \in missed : Recorded(t)') /\ pausedAt' = Null
    BY <2>1, RecordCovers
  <2>3. \A t \in missed : t < now
    BY DEF Remembered
  <2> QED
    BY <2>1, <2>2, <2>3 DEF Remembered
<1> QED
  BY <1>1, <1>2

LEMMA PauseRemembers ==
  ASSUME TypeOK, Remembered, NEW byUser \in BOOLEAN, Pause(byUser), ~asleep,
         UNCHANGED <<now, asleep, missed, covered, lost>>
  PROVE  Remembered'
<1>1. CASE ~running
  BY <1>1, RememberedStays DEF Pause, switches, coverage
<1>2. CASE running
  <2>1. running' = FALSE /\ pausedAt' = now /\ now # Null /\ now <= now
    BY <1>2 DEF Pause, TypeOK, Null
  <2>2. \A t \in missed : Recorded(t) /\ t < now
    BY <1>2 DEF Remembered
  <2>3. \A t \in missed' : Recorded(t)' /\ t < now'
    BY <2>2 DEF Recorded
  <2> QED
    BY <2>1, <2>3 DEF Remembered
<1> QED
  BY <1>1, <1>2

LEMMA SuspendRemembers ==
  ASSUME TypeOK, Remembered, Suspend
  PROVE  Remembered'
<1>1. ~asleep /\ asleep' = TRUE /\ pausedAt' = now /\ now # Null /\ now <= now
      /\ UNCHANGED <<now, running, userPaused, missed, covered>>
  BY DEF Suspend, Asked, TypeOK, Null
<1>2. \A t \in missed : Recorded(t)'
  <2>1. CASE userPaused
    BY <2>1 DEF Suspend, Recorded
  <2>2. CASE ~userPaused
    BY <1>1, <2>2 DEF Suspend, Remembered, Recorded
  <2> QED
    BY <2>1, <2>2
<1>3. \A t \in missed : t < now
  BY DEF Remembered
<1>4. running => ~userPaused
  BY DEF Remembered
<1> QED
  BY <1>1, <1>2, <1>3, <1>4 DEF Remembered

LEMMA ResumeRemembers ==
  ASSUME TypeOK, Remembered, Resume
  PROVE  Remembered'
<1>1. asleep' = FALSE /\ blurred' = userPaused /\ RecordPause
      /\ UNCHANGED <<now, running, userPaused, missed, lost>>
  BY DEF Resume
<1>2. (\A t \in missed : Recorded(t)') /\ pausedAt' = Null
  BY <1>1, RecordCovers
<1>3. (\A t \in missed : t < now) /\ (running => ~userPaused)
  BY DEF Remembered
<1> QED
  BY <1>1, <1>2, <1>3 DEF Remembered

LEMMA DiesRemembers ==
  ASSUME Remembered, Dies
  PROVE  Remembered'
<1>1. running' = FALSE /\ userPaused' = FALSE /\ pausedAt' = Null /\ blurred' = asleep
      /\ UNCHANGED <<now, asleep, missed, covered>>
  BY DEF Dies
<1>2. \A t \in missed : Recorded(t)'
  BY DEF Dies, Recorded
<1>3. \A t \in missed : t < now
  BY DEF Remembered
<1> QED
  BY <1>1, <1>2, <1>3 DEF Remembered

LEMMA TickRemembers ==
  ASSUME TypeOK, Remembered, Tick
  PROVE  Remembered'
<1> DEFINE Fits(t) ==
      /\ t < now'
      /\ t \in covered' \/ t \in lost' \/ (pausedAt' # Null /\ t >= pausedAt')
<1>1. now \in Nat /\ now' = now + 1 /\ missed \subseteq Nat
      /\ pausedAt \in Nat \cup {Null}
  BY DEF Tick, TypeOK
<1>2. UNCHANGED <<asleep, running, userPaused, pausedAt, covered, blurred>>
  BY DEF Tick, outside, switches
<1>3. \A t : Recorded(t) => Recorded(t)'
  BY <1>2 DEF Tick, Recorded
<1>4. \A t \in missed : Fits(t)
  <2>1. \A t \in missed : t < now /\ t \in Nat
    BY <1>1 DEF Remembered
  <2>2. \A t \in missed : t < now'
    BY <1>1, <2>1
  <2>3. \A t \in missed : Recorded(t) \/ (pausedAt # Null /\ t >= pausedAt)
    BY DEF Remembered
  <2> QED
    BY <1>2, <1>3, <2>2, <2>3 DEF Recorded
<1>5. pausedAt' # Null => pausedAt' <= now'
  BY <1>1, <1>2 DEF Remembered, Null
<1>6. (running' => ~userPaused')
      /\ (userPaused' \/ asleep' => blurred' \/ pausedAt' # Null)
  BY <1>2 DEF Remembered
<1>7. CASE userPaused \/ asleep
  <2>1. missed' = missed \cup {now}
    BY <1>7 DEF Tick
  <2>2. Fits(now)
    <3>1. CASE blurred
      <4>1. now \in lost'
        BY <1>7, <3>1 DEF Tick
      <4>2. now < now'
        BY <1>1
      <4> QED
        BY <4>1, <4>2
    <3>2. CASE ~blurred
      <4>1. pausedAt # Null /\ pausedAt <= now
        BY <1>7, <3>2 DEF Remembered
      <4> QED
        BY <1>1, <1>2, <4>1 DEF Null
    <3> QED
      BY <3>1, <3>2
  <2> HIDE DEF Fits
  <2>3. \A t \in missed' : Fits(t)
    BY <1>4, <2>1, <2>2
  <2>4. userPaused' \/ asleep'
    BY <1>2, <1>7
  <2>5. \A t \in missed' :
          t < now' /\ (Recorded(t)' \/ (pausedAt' # Null /\ t >= pausedAt'))
    BY <2>3 DEF Recorded, Fits
  <2> QED
    BY <1>5, <1>6, <2>4, <2>5 DEF Remembered
<1>8. CASE ~userPaused /\ ~asleep
  <2>1. missed' = missed
    BY <1>8 DEF Tick
  <2>2. \A t \in missed' : Recorded(t)'
    BY <1>3, <1>8, <2>1 DEF Remembered
  <2>3. \A t \in missed' : t < now'
    BY <1>4, <2>1
  <2>4. ~userPaused' /\ ~asleep'
    BY <1>2, <1>8
  <2> QED
    BY <1>5, <1>6, <2>2, <2>3, <2>4 DEF Remembered
<1> QED
  BY <1>7, <1>8

LEMMA RespawnRemembers ==
  ASSUME TypeOK, Remembered, Respawn
  PROVE  Remembered'
<1>1. UNCHANGED <<now, asleep, missed, lost>>
  BY DEF Respawn
<1>2. CASE OnRestarted /\ ~(running \/ ~wanted)
  BY <1>1, <1>2, StartRemembers DEF OnRestarted
<1>3. CASE ~(OnRestarted /\ ~(running \/ ~wanted))
  <2>1. UNCHANGED <<running, userPaused, pausedAt, covered, blurred>>
    BY <1>3 DEF Respawn, OnRestarted, OnRestartedFails, switches
  <2> QED
    BY <1>1, <2>1, RememberedStays DEF coverage
<1> QED
  BY <1>2, <1>3

LEMMA RequestRemembers ==
  ASSUME TypeOK, Remembered, Requests
  PROVE  Remembered'
<1> USE DEF process, outside, switches
<1>1. CASE UserStarts
  BY <1>1, StartRemembers DEF UserStarts
<1>2. CASE UserPauses
  BY <1>2, PauseRemembers DEF UserPauses, Asked
<1>3. CASE Load
  BY <1>3, RememberedStays DEF Load
<1>4. CASE Refresh
  BY <1>4, RememberedStays DEF Refresh
<1>5. CASE Restore
  BY <1>5, PauseRemembers DEF Restore, Asked
<1>6. CASE Discover
  BY <1>6, RememberedStays DEF Discover
<1>7. CASE SetOnline
  BY <1>7, RememberedStays DEF SetOnline
<1>8. CASE Suspend
  BY <1>8, SuspendRemembers
<1>9. CASE Resume
  BY <1>9, ResumeRemembers
<1>10. CASE Dies
  BY <1>10, DiesRemembers
<1>11. CASE Spawned
  BY <1>11, RememberedStays DEF Spawned
<1>12. CASE Respawn
  BY <1>12, RespawnRemembers
<1> QED
  BY <1>1, <1>2, <1>3, <1>4, <1>5, <1>6, <1>7, <1>8, <1>9, <1>10, <1>11, <1>12
     DEF Requests

LEMMA NextRemembers ==
  ASSUME TypeOK, Remembered, [Next]_vars
  PROVE  Remembered'
<1>1. CASE Requests
  BY <1>1, RequestRemembers
<1>2. CASE Tick
  BY <1>2, TickRemembers
<1>3. CASE UNCHANGED <<now, outside, switches, coverage>>
  BY <1>3, RememberedStays DEF outside, switches
<1>4. Requests \/ Tick \/ UNCHANGED <<now, outside, switches, coverage>>
  BY DEF Next, vars, TimerFires, CycleStep, CollectCrashes, DiscoveryStep, Finish,
         CancelRest, FailsEarly, Navigate, Loaded, NotLoaded, Read, ReadNothing,
         BatchEnds, OpenMap, FallsDue, Reopens
<1> QED
  BY <1>1, <1>2, <1>3, <1>4

\* Through pauses, sleeps, exits, restarts and restores in any order, of any number
\* and length, every instant at which collection was paused by the user or the
\* computer slept lies in a recorded gap as soon as collection runs again on a
\* computer that is awake, but for those whose beginning was forgotten
\* (service.ts:246-287, 310-324).
THEOREM MissedTimeIsCovered == Spec => []PausesAreCovered
<1>1. Init => Remembered
  BY DEF Init, Remembered
<1>2. TypeOK /\ Remembered /\ [Next]_vars => Remembered'
  BY NextRemembers
<1>3. Remembered => PausesAreCovered
  BY DEF Remembered, Recorded, PausesAreCovered
<1> QED
  BY <1>1, <1>2, <1>3, ServiceTypeCorrect, PTL DEF Spec
=============================================================================
