--------------------------- MODULE SchedulerProofs ---------------------------
(***************************************************************************)
(* Proofs about the two classes of scheduler.ts.                           *)
(*                                                                         *)
(* Scheduler, and what a provider asks of it, for every number of bindings *)
(* and sources, every interval, threshold and jitter.                      *)
(*                                                                         *)
(* NavigationBudget: however many callers share the token bucket, it keeps *)
(* the navigations of each a minimum interval apart, and what is counted   *)
(* in flight stays exact.                                                  *)
(***************************************************************************)
EXTENDS SchedulerClaims, NavigationBudget, FiniteSetTheorems, TLAPS

\* The helpers return natural numbers and bound what they are meant to bound.
LEMMA MaxMinFacts ==
  ASSUME NEW a \in Nat, NEW b \in Nat
  PROVE  /\ MaxOf(a, b) \in Nat /\ MaxOf(a, b) >= a /\ MaxOf(a, b) >= b
         /\ MaxOf(a, b) = a \/ MaxOf(a, b) = b
         /\ MinOf(a, b) \in Nat /\ MinOf(a, b) <= a /\ MinOf(a, b) <= b
  BY DEF MaxOf, MinOf

LEMMA JitteredIsNat ==
  ASSUME NEW v \in Nat, NEW pct \in Nat
  PROVE  Jittered(v, pct) \in Nat
  BY DEF Jittered

\* A backoff is a natural number and never exceeds the cap (six hours).
LEMMA BackoffBounded ==
  ASSUME SchedulerAssumption, NEW f \in Nat, NEW pct \in JitterPct
  PROVE  Backoff(f, pct) \in Nat /\ Backoff(f, pct) <= MaxBackoff
  <1> DEFINE k == MinOf(f, 12)
             raw == MinInterval * Pow2[k + 1]
  <1>1. k \in 0..12
    BY MaxMinFacts, 12 \in Nat DEF MinOf
  <1>2. Pow2[k + 1] \in Nat
    <2> HIDE DEF k
    <2> QED BY <1>1 DEF Pow2
  <1>3. MinInterval \in Nat /\ MaxBackoff \in Nat /\ pct \in Nat
    BY DEF SchedulerAssumption
  <1>4. raw \in Nat
    <2> HIDE DEF k
    <2> QED BY <1>2, <1>3
  <1>5. Jittered(raw, pct) \in Nat
    <2> HIDE DEF raw
    <2> QED BY <1>3, <1>4, JitteredIsNat
  <1>6. MaxOf(MinInterval, Jittered(raw, pct)) \in Nat
    <2> HIDE DEF raw
    <2> QED BY <1>3, <1>5, MaxMinFacts
  <1>7. Backoff(f, pct) = MinOf(MaxBackoff, MaxOf(MinInterval, Jittered(raw, pct)))
    BY DEF Backoff
  <1> HIDE DEF raw
  <1> QED BY <1>3, <1>6, <1>7, MaxMinFacts

\* What is saved of an entry is a row.
LEMMA RowsAreRows ==
  ASSUME FarFuture \in Nat,
         nextDue \in [Bindings -> Nat], lastSuccess \in [Bindings -> Nat],
         failures \in [Bindings -> Nat], paused \in [Bindings -> BOOLEAN]
  PROVE  [b \in Bindings |-> RowOf(b)] \in [Bindings -> Rows]
  <1>1. ASSUME NEW b \in Bindings PROVE RowOf(b) \in Rows
    <2>1. MinOf(nextDue[b], FarFuture) \in Nat
      BY MaxMinFacts
    <2>2. lastSuccess[b] \in Nat /\ failures[b] \in Nat
      OBVIOUS
    <2>3. paused[b] \in BOOLEAN
      BY Zenon
    <2> QED BY <2>1, <2>2, <2>3 DEF RowOf, Rows
  <1> QED BY <1>1

LEMMA NoRowIsRow == NoRow \in Rows
  BY DEF NoRow, Rows

\* What the variables hold in the initial states.
LEMMA InitTypeOK == ASSUME SchedulerAssumption, Init PROVE TypeOK
  <1>1. /\ nextDue \in [Bindings -> Nat] /\ lastSuccess \in [Bindings -> Nat]
        /\ failures \in [Bindings -> Nat] /\ paused \in [Bindings -> BOOLEAN]
    BY DEF SchedulerAssumption, Init
  <1>2. FarFuture \in Nat
    BY DEF SchedulerAssumption
  <1>3. stored \in [Bindings -> Rows]
    BY <1>1, <1>2, RowsAreRows DEF Init
  <1>4. fetched \in [Bindings -> Rows]
    BY NoRowIsRow DEF Init, NoRows
  <1>5. peak \in Nat
    BY DEF Init, SchedulerAssumption, MaxOf
  <1> QED BY <1>1, <1>3, <1>4, <1>5 DEF SchedulerAssumption, Init, TypeOK, SourceStates, Null

\* Restaged due times are natural numbers.
LEMMA RestagedIsNat ==
  ASSUME SchedulerAssumption, TypeOK, NEW b \in Bindings
  PROVE  Restaged(b) \in Nat
  <1> DEFINE before == {a \in Overdue : SourceOf[a] = SourceOf[b] /\ Staler(a, b)}
  <1>1. IsFiniteSet(Bindings)
    BY FS_Interval DEF Bindings, SchedulerAssumption
  <1>2. IsFiniteSet(before)
    BY <1>1, FS_Subset DEF Overdue
  <1>3. Cardinality(before) \in Nat
    BY <1>2, FS_CardinalityType
  <1>4. MinNav * Cardinality(before) \in Nat
    <2> HIDE DEF before
    <2> QED BY <1>3 DEF SchedulerAssumption
  <1>5. Restaged(b) = now + MinNav * Cardinality(before)
    BY DEF Restaged
  <1> HIDE DEF before
  <1> QED BY <1>4, <1>5 DEF TypeOK

-----------------------------------------------------------------------------
(* Type correctness *)

\* Every step of a Scheduler keeps the variables in their types.
LEMMA NextTypeOK ==
  ASSUME SchedulerAssumption, TypeOK, [Next]_vars
  PROVE  TypeOK'
  <1> USE DEF TypeOK, entryVars, sourceVars, clientVars, rowVars
  <1>c. /\ SourceOf \in [Bindings -> Sources] /\ Toggled \subseteq Bindings
        /\ MinNav \in Nat /\ MinInterval \in Nat /\ Interval \in Nat
        /\ MaxBackoff \in Nat /\ Never \in Nat /\ MaxTime \in Nat /\ FarFuture \in Nat
        /\ JitterPct \subseteq Nat /\ RetryAfters \subseteq Nat
    BY DEF SchedulerAssumption
  <1>1. CASE \E manual \in SUBSET Bindings : Plan(manual)
    <2> PICK manual \in SUBSET Bindings : Plan(manual)
      BY <1>1
    <2>1. Dispatch(manual) \subseteq Bindings
      BY DEF Dispatch, Ready
    <2> QED BY <2>1 DEF Plan, SourceStates
  <1>2. CASE SpreadOverdue
    BY <1>2, RestagedIsNat DEF SpreadOverdue
  <1>3. CASE RecordOutcome
    <2> PICK b \in Bindings, at \in 0..MaxTime :
          \/ \E pct \in JitterPct : RecordSuccess(b, at, pct)
          \/ RecordCancelled(b, at)
          \/ \E o \in {"login_required", "source_blocked", "layout_changed"} :
               RecordRefusal(b, at, o)
          \/ \E o \in {"timeout", "rate_limited"}, ra \in RetryAfters \cup {0},
                pct \in JitterPct : RecordTransient(b, at, o, ra, pct)
      BY <1>3 DEF RecordOutcome
    <2>a. at \in Nat /\ SourceOf[b] \in Sources
      BY <1>c
    <2>1. CASE \E pct \in JitterPct : RecordSuccess(b, at, pct)
      <3> PICK pct \in JitterPct : RecordSuccess(b, at, pct)
        BY <2>1
      <3>0. Jittered(Interval, pct) \in Nat
        <4>1. Interval \in Nat /\ pct \in Nat
          BY <1>c
        <4> QED BY <4>1, JitteredIsNat
      <3>1. at + Jittered(Interval, pct) \in Nat
        BY <2>a, <3>0
      <3> QED BY <1>c, <2>a, <3>1 DEF RecordSuccess, ReadAt, SourceStates, Null
    <2>2. CASE RecordCancelled(b, at)
      <3>1. MaxOf(nextDue[b], at + MinNav) \in Nat
        <4>1. nextDue[b] \in Nat /\ at + MinNav \in Nat
          BY <1>c, <2>a
        <4> QED BY <4>1, MaxMinFacts
      <3> QED BY <1>c, <2>a, <2>2, <3>1 DEF RecordCancelled, ReadAt, Null
    <2>3. CASE \E o \in {"login_required", "source_blocked", "layout_changed"} :
                 RecordRefusal(b, at, o)
      BY <1>c, <2>a, <2>3 DEF RecordRefusal, RefusedState, ReadAt, SourceStates, Null
    <2>4. CASE \E o \in {"timeout", "rate_limited"}, ra \in RetryAfters \cup {0},
                  pct \in JitterPct : RecordTransient(b, at, o, ra, pct)
      <3> PICK o \in {"timeout", "rate_limited"}, ra \in RetryAfters \cup {0},
               pct \in JitterPct : RecordTransient(b, at, o, ra, pct)
        BY <2>4
      <3> DEFINE backoff == MaxOf(Backoff(failures[b] + 1, pct), ra)
                 opens == srcFailures[SourceOf[b]] + 1 >= Threshold
                 held == IF opens THEN at + backoff ELSE hold[SourceOf[b]]
      <3>1. backoff \in Nat
        <4>1. failures[b] + 1 \in Nat /\ ra \in Nat
          BY <1>c
        <4>2. Backoff(failures[b] + 1, pct) \in Nat
          BY <4>1, BackoffBounded
        <4> QED BY <4>1, <4>2, MaxMinFacts
      <3>2. held \in Nat \cup {Null}
        <4> HIDE DEF backoff
        <4> QED BY <2>a, <3>1
      <3>3. MaxOf(held, at + ra) \in Nat \cup {Null}
        <4> HIDE DEF held
        <4> QED BY <1>c, <2>a, <3>2 DEF MaxOf
      <3>4. /\ failures' = [failures EXCEPT ![b] = @ + 1]
            /\ srcFailures' = [srcFailures EXCEPT ![SourceOf[b]] = @ + 1]
            /\ nextDue' = [nextDue EXCEPT ![b] = at + backoff]
            /\ srcState' = [srcState EXCEPT ![SourceOf[b]] =
                              IF opens THEN "circuit_open" ELSE "degraded"]
            /\ hold' = [hold EXCEPT ![SourceOf[b]] =
                          IF o = "rate_limited" /\ ra > 0
                          THEN MaxOf(held, at + ra) ELSE held]
            /\ finished' = [finished EXCEPT ![b] = Null]
            /\ UNCHANGED <<now, peak, reading, rowVars, lastSuccess, paused, lastNav>>
        BY DEF RecordTransient, ReadAt
      <3> HIDE DEF backoff, opens, held
      <3> QED BY <2>a, <3>1, <3>2, <3>3, <3>4 DEF SourceStates, Null
    <2> QED BY <2>1, <2>2, <2>3, <2>4
  <1>4. CASE \E b \in Toggled, p \in BOOLEAN : SetPaused(b, p)
    BY <1>c, <1>4 DEF SetPaused
  <1>5. CASE \E s \in Sources : PauseSource(s) \/ ResumeSource(s) \/ RecordNavigation(s)
    BY <1>5 DEF PauseSource, ResumeSource, RecordNavigation, SourceStates, Null
  <1>6. CASE Tick
    <2>1. MaxOf(peak, now + 1) \in Nat
      BY MaxMinFacts
    <2> QED BY <1>6, <2>1 DEF Tick
  <1>7. CASE UNCHANGED vars
    BY <1>7 DEF vars
  <1>8. CASE \E b \in Bindings : FinishRead(b) \/ Forget(b)
    BY <1>8, NoRowIsRow DEF FinishRead, Forget
  <1>9. CASE Persist
    BY <1>c, <1>9, RowsAreRows DEF Persist
  <1>10. CASE \E enabled \in SUBSET Bindings : Fetch(enabled)
    <2>1. FreshRow \in Rows
      BY DEF FreshRow, NoRow, Rows
    <2> QED BY <1>10, <2>1 DEF Fetch
  <1>11. CASE Load
    <2>1. ASSUME NEW b \in Bindings, Loaded(b)
          PROVE  /\ fetched[b].due \in Nat \cup {Null} /\ fetched[b].success \in Nat
                 /\ fetched[b].failures \in Nat /\ fetched[b].paused \in BOOLEAN
      <3>1. fetched[b] \in Rows
        OBVIOUS
      <3> QED BY <3>1 DEF Rows
    <2>2. ASSUME NEW b \in Bindings, Loaded(b) PROVE fetched[b].due \in Nat
      BY <2>1, <2>2 DEF Loaded
    <2> QED BY <1>11, <2>1, <2>2, NoRowIsRow DEF Load, NoRows
  <1>12. CASE ClockSetBack
    BY <1>12 DEF ClockSetBack
  <1> QED BY <1>1, <1>2, <1>3, <1>4, <1>5, <1>6, <1>7, <1>8, <1>9, <1>10, <1>11, <1>12 DEF Next

\* The variables of a Scheduler keep their types for ever.
THEOREM TypeCorrect == ASSUME SchedulerAssumption PROVE Spec => []TypeOK
  <1>1. Init => TypeOK
    BY InitTypeOK
  <1>2. TypeOK /\ [Next]_vars => TypeOK'
    BY NextTypeOK
  <1> QED BY <1>1, <1>2, PTL DEF Spec

-----------------------------------------------------------------------------
(* The circuit breaker *)

\* Every step keeps the state of a source, its failures and its hold together.
LEMMA NextBreaker ==
  ASSUME SchedulerAssumption, TypeOK, now <= peak, BreakerConsistent, [Next]_vars
  PROVE  BreakerConsistent'
  <1>c. /\ SourceOf \in [Bindings -> Sources]
        /\ Threshold \in Nat \ {0}
        /\ JitterPct \subseteq Nat /\ RetryAfters \subseteq Nat
    BY DEF SchedulerAssumption
  <1>t. /\ now \in Nat /\ peak \in Nat /\ srcState \in [Sources -> SourceStates]
        /\ hold \in [Sources -> Nat \cup {Null}]
        /\ srcFailures \in [Sources -> Nat]
        /\ failures \in [Bindings -> Nat]
    BY DEF TypeOK
  <1>1. CASE \E manual \in SUBSET Bindings : Plan(manual)
    <2> PICK manual \in SUBSET Bindings : Plan(manual)
      BY <1>1
    <2> SUFFICES ASSUME NEW s \in Sources
                 PROVE  /\ srcState'[s] = "healthy" => srcFailures'[s] = 0 /\ hold'[s] = Null
                        /\ srcState'[s] = "circuit_open" =>
                             srcFailures'[s] >= Threshold /\ hold'[s] # Null
                        /\ srcState'[s] = "degraded" /\ srcFailures'[s] >= Threshold =>
                             hold'[s] # Null /\ hold'[s] <= peak'
      BY DEF BreakerConsistent
    <2>1. hold'[s] = hold[s] /\ srcFailures'[s] = srcFailures[s] /\ peak' = peak
      BY DEF Plan, entryVars
    <2>2. CASE Probed(s, manual)
      <3>1. srcState[s] = "circuit_open" /\ (hold[s] = Null \/ hold[s] <= now)
        BY <2>2 DEF Probed, Ready, Open
      <3>2. srcState'[s] = "degraded"
        BY <2>2 DEF Plan
      <3>3. srcFailures[s] >= Threshold /\ hold[s] \in Nat
        BY <1>t, <3>1 DEF BreakerConsistent
      <3>4. hold[s] <= peak
        BY <1>t, <3>1, <3>3 DEF Null
      <3> QED BY <2>1, <3>2, <3>3, <3>4 DEF BreakerConsistent, Null
    <2>3. CASE ~Probed(s, manual)
      <3>1. srcState'[s] = srcState[s]
        BY <2>3 DEF Plan
      <3> QED BY <2>1, <3>1 DEF BreakerConsistent
    <2> QED BY <2>2, <2>3
  <1>2. CASE SpreadOverdue
    BY <1>2 DEF SpreadOverdue, sourceVars, BreakerConsistent
  <1>3. CASE RecordOutcome
    <2> PICK b \in Bindings, at \in 0..MaxTime :
          \/ \E pct \in JitterPct : RecordSuccess(b, at, pct)
          \/ RecordCancelled(b, at)
          \/ \E o \in {"login_required", "source_blocked", "layout_changed"} :
               RecordRefusal(b, at, o)
          \/ \E o \in {"timeout", "rate_limited"}, ra \in RetryAfters \cup {0},
                pct \in JitterPct : RecordTransient(b, at, o, ra, pct)
      BY <1>3 DEF RecordOutcome
    <2>a. at \in Nat /\ SourceOf[b] \in Sources
      BY <1>c
    <2>1. CASE \E pct \in JitterPct : RecordSuccess(b, at, pct)
      BY <1>c, <1>t, <2>a, <2>1 DEF RecordSuccess, ReadAt, BreakerConsistent
    <2>2. CASE RecordCancelled(b, at)
      BY <2>2 DEF RecordCancelled, ReadAt, sourceVars, BreakerConsistent
    <2>3. CASE \E o \in {"login_required", "source_blocked", "layout_changed"} :
                 RecordRefusal(b, at, o)
      BY <1>c, <1>t, <2>a, <2>3 DEF RecordRefusal, ReadAt, RefusedState, BreakerConsistent
    <2>4. CASE \E o \in {"timeout", "rate_limited"}, ra \in RetryAfters \cup {0},
                  pct \in JitterPct : RecordTransient(b, at, o, ra, pct)
      <3> PICK o \in {"timeout", "rate_limited"}, ra \in RetryAfters \cup {0},
               pct \in JitterPct : RecordTransient(b, at, o, ra, pct)
        BY <2>4
      <3> DEFINE s == SourceOf[b]
                 backoff == MaxOf(Backoff(failures[b] + 1, pct), ra)
                 opens == srcFailures[s] + 1 >= Threshold
                 held == IF opens THEN at + backoff ELSE hold[s]
      <3>1. backoff \in Nat /\ ra \in Nat
        <4>1. failures[b] + 1 \in Nat /\ ra \in Nat
          BY <1>c, <1>t
        <4>2. Backoff(failures[b] + 1, pct) \in Nat
          BY <4>1, BackoffBounded
        <4> QED BY <4>1, <4>2, MaxMinFacts
      <3>2. /\ srcFailures' = [srcFailures EXCEPT ![s] = @ + 1]
            /\ srcState' = [srcState EXCEPT ![s] =
                              IF opens THEN "circuit_open" ELSE "degraded"]
            /\ hold' = [hold EXCEPT ![s] =
                          IF o = "rate_limited" /\ ra > 0
                          THEN MaxOf(held, at + ra) ELSE held]
            /\ peak' = peak
        BY DEF RecordTransient, ReadAt
      <3>3. opens => held \in Nat /\ MaxOf(held, at + ra) \in Nat
        <4>1. opens => held = at + backoff
          OBVIOUS
        <4>2. at + backoff \in Nat /\ at + ra \in Nat
          <5> HIDE DEF backoff
          <5> QED BY <2>a, <3>1
        <4> HIDE DEF backoff, held, opens
        <4> QED BY <4>1, <4>2, MaxMinFacts
      <3>4. opens => hold'[s] # Null
        <4>1. hold'[s] = IF o = "rate_limited" /\ ra > 0
                         THEN MaxOf(held, at + ra) ELSE held
          BY <1>t, <2>a, <3>2
        <4> HIDE DEF held, opens
        <4> QED BY <3>3, <4>1 DEF Null
      <3>5. ~opens => srcFailures'[s] < Threshold
        BY <1>c, <1>t, <2>a, <3>2
      <3>6. opens => srcFailures'[s] >= Threshold
        BY <1>c, <1>t, <2>a, <3>2
      <3>7. \A r \in Sources : r # s =>
              /\ srcState'[r] = srcState[r] /\ hold'[r] = hold[r]
              /\ srcFailures'[r] = srcFailures[r]
        BY <1>t, <3>2
      <3>8. srcState'[s] = IF opens THEN "circuit_open" ELSE "degraded"
        BY <1>t, <2>a, <3>2
      <3>9. srcFailures'[s] \in Nat
        BY <1>t, <2>a, <3>2
      <3> HIDE DEF s, opens, held, backoff
      <3> QED BY <1>c, <3>2, <3>4, <3>5, <3>6, <3>7, <3>8, <3>9 DEF BreakerConsistent
    <2> QED BY <2>1, <2>2, <2>3, <2>4
  <1>4. CASE \E b \in Toggled, p \in BOOLEAN : SetPaused(b, p)
    BY <1>4 DEF SetPaused, sourceVars, BreakerConsistent
  <1>5. CASE \E s \in Sources : PauseSource(s) \/ ResumeSource(s) \/ RecordNavigation(s)
    BY <1>t, <1>5 DEF PauseSource, ResumeSource, RecordNavigation, BreakerConsistent
  <1>6. CASE Tick
    <2>1. peak' \in Nat /\ peak' >= peak
      BY <1>t, <1>6, MaxMinFacts DEF Tick
    <2>2. srcState' = srcState /\ hold' = hold /\ srcFailures' = srcFailures
      BY <1>6 DEF Tick, sourceVars
    <2>3. ASSUME NEW s \in Sources, hold[s] # Null, hold[s] <= peak PROVE hold[s] <= peak'
      BY <1>t, <2>1, <2>3 DEF Null
    <2> QED BY <2>2, <2>3 DEF BreakerConsistent
  <1>7. CASE UNCHANGED vars
    BY <1>7 DEF vars, sourceVars, BreakerConsistent
  <1>8. CASE \/ \E b \in Bindings : FinishRead(b) \/ Forget(b)
             \/ Persist \/ Load \/ ClockSetBack
             \/ \E enabled \in SUBSET Bindings : Fetch(enabled)
    BY <1>8 DEF FinishRead, Forget, Persist, Load, ClockSetBack, Fetch, sourceVars, BreakerConsistent
  <1> QED BY <1>1, <1>2, <1>3, <1>4, <1>5, <1>6, <1>7, <1>8 DEF Next

\* The wall clock never shows more than the latest instant it has shown.
LEMMA NextPeak ==
  ASSUME SchedulerAssumption, TypeOK, now <= peak, [Next]_vars
  PROVE  now' <= peak' /\ peak <= peak'
  <1>t. now \in Nat /\ peak \in Nat
    BY DEF TypeOK
  <1>1. CASE Tick
    BY <1>t, <1>1, MaxMinFacts DEF Tick
  <1>2. CASE ClockSetBack
    BY <1>t, <1>2 DEF ClockSetBack
  <1>3. CASE now' = now /\ peak' = peak
    BY <1>t, <1>3
  <1>4. CASE RecordOutcome
    BY <1>3, <1>4 DEF RecordOutcome, RecordSuccess, RecordCancelled, RecordRefusal, RecordTransient, ReadAt
  <1>5. CASE \/ \E manual \in SUBSET Bindings : Plan(manual)
             \/ SpreadOverdue \/ Persist \/ Load \/ UNCHANGED vars
             \/ \E b \in Bindings : FinishRead(b) \/ Forget(b)
             \/ \E enabled \in SUBSET Bindings : Fetch(enabled)
             \/ \E b \in Toggled, p \in BOOLEAN : SetPaused(b, p)
             \/ \E s \in Sources : PauseSource(s) \/ ResumeSource(s) \/ RecordNavigation(s)
    BY <1>3, <1>5 DEF Plan, SpreadOverdue, Persist, Load, vars, FinishRead, Forget, Fetch,
                      SetPaused, PauseSource, ResumeSource, RecordNavigation
  <1> QED BY <1>1, <1>2, <1>4, <1>5 DEF Next

LEMMA InitPeak == ASSUME SchedulerAssumption, Init PROVE now <= peak
  BY MaxMinFacts DEF Init, SchedulerAssumption

\* A healthy source has no failures and no hold, an open circuit waits out a
\* hold after reaching the threshold, and a degraded source past the threshold
\* has waited its hold out (scheduler.ts:277-284, 412-488).
THEOREM BreakerSafe == ASSUME SchedulerAssumption PROVE Spec => []BreakerConsistent
  <1>1. Init => TypeOK /\ now <= peak /\ BreakerConsistent
    BY InitTypeOK, InitPeak DEF Init, BreakerConsistent
  <1>2. /\ TypeOK /\ now <= peak /\ BreakerConsistent /\ [Next]_vars
        => (TypeOK /\ now <= peak /\ BreakerConsistent)'
    BY NextTypeOK, NextPeak, NextBreaker
  <1> QED BY <1>1, <1>2, PTL DEF Spec

-----------------------------------------------------------------------------
(* Every binding that is not parked falls due *)

\* Restaging puts a binding off by at most one slot per binding.
LEMMA RestagedBounded ==
  ASSUME SchedulerAssumption, TypeOK, NEW b \in Bindings
  PROVE  Restaged(b) <= now + N * MinNav
  <1> DEFINE before == {a \in Overdue : SourceOf[a] = SourceOf[b] /\ Staler(a, b)}
  <1>1. N \in Nat /\ MinNav \in Nat /\ now \in Nat
    BY DEF SchedulerAssumption, TypeOK
  <1>2. IsFiniteSet(Bindings) /\ Cardinality(Bindings) = N
    BY <1>1, FS_Interval DEF Bindings
  <1>3. before \subseteq Bindings
    BY DEF Overdue
  <1>4. Cardinality(before) \in Nat /\ Cardinality(before) <= N
    <2> HIDE DEF before
    <2> QED BY <1>2, <1>3, FS_Subset, FS_CardinalityType
  <1>5. MinNav * Cardinality(before) <= N * MinNav
    <2>1. ASSUME NEW c \in Nat, c <= N PROVE MinNav * c <= N * MinNav
      BY <1>1, <2>1
    <2> HIDE DEF before
    <2> QED BY <1>4, <2>1
  <1>6. MinNav * Cardinality(before) \in Nat /\ N * MinNav \in Nat
    <2> HIDE DEF before
    <2> QED BY <1>1, <1>4
  <1>7. Restaged(b) = now + MinNav * Cardinality(before)
    BY DEF Restaged
  <1> HIDE DEF before
  <1> QED BY <1>1, <1>5, <1>6, <1>7

\* The delays are natural numbers.
LEMMA DelaysAreNat ==
  ASSUME SchedulerAssumption
  PROVE  Delays \subseteq Nat
  <1>1. ASSUME NEW p \in JitterPct PROVE Jittered(Interval, p) \in Nat
    <2>1. Interval \in Nat /\ p \in Nat
      BY DEF SchedulerAssumption
    <2> QED BY <2>1, JitteredIsNat
  <1>2. MaxBackoff \in Nat /\ N * MinNav \in Nat /\ RetryAfters \subseteq Nat
    BY DEF SchedulerAssumption
  <1> QED BY <1>1, <1>2 DEF Delays

\* A due time within reach, and what makes DueWithinReach inductive: every read
\* was finished at an instant the clock has shown, and the saved and the fetched
\* rows are within reach too.
Reachable(due) == due \in {Never, FarFuture} \/ \E d \in Delays : due <= peak + d

ReachInv ==
  /\ TypeOK
  /\ now <= peak
  /\ DueWithinReach
  /\ \A b \in Bindings : finished[b] # Null => finished[b] <= peak
  /\ \A b \in Bindings : stored[b].due # Null => Reachable(stored[b].due)
  /\ \A b \in Bindings : fetched[b].due # Null => Reachable(fetched[b].due)

\* The peak only rises, so what is within reach stays so.
LEMMA ReachGrows ==
  ASSUME SchedulerAssumption, peak \in Nat, peak' \in Nat, peak <= peak', NEW due \in Nat, Reachable(due)
  PROVE  Reachable(due)'
  <1>1. ASSUME NEW d \in Delays, due <= peak + d PROVE due <= peak' + d
    BY <1>1, DelaysAreNat
  <1> QED BY <1>1 DEF Reachable

\* A delay counted from an instant the clock has shown is within reach.
LEMMA DelayedIsReachable ==
  ASSUME SchedulerAssumption, peak \in Nat, NEW at \in Nat, at <= peak, NEW d \in Nat,
         \E x \in Delays : d <= x
  PROVE  Reachable(at + d)
  BY DelaysAreNat DEF Reachable

\* What is saved of a due time within reach is within reach.
LEMMA ClampedIsReachable ==
  ASSUME NEW due \in Nat, Reachable(due)
  PROVE  Reachable(MinOf(due, FarFuture))
  BY DEF MinOf, Reachable

\* Every step leaves a binding parked or due within one of the delays.
LEMMA NextReach ==
  ASSUME SchedulerAssumption, ReachInv, [Next]_vars
  PROVE  ReachInv'
  <1>c. /\ SourceOf \in [Bindings -> Sources] /\ N \in Nat
        /\ MinNav \in Nat \ {0} /\ MaxBackoff \in Nat /\ FarFuture \in Nat
        /\ JitterPct \subseteq Nat /\ RetryAfters \subseteq Nat
    BY DEF SchedulerAssumption
  <1>t. /\ now \in Nat /\ peak \in Nat /\ nextDue \in [Bindings -> Nat]
        /\ failures \in [Bindings -> Nat] /\ finished \in [Bindings -> Nat \cup {Null}]
        /\ stored \in [Bindings -> Rows] /\ fetched \in [Bindings -> Rows]
    BY DEF ReachInv, TypeOK
  <1>p. TypeOK' /\ now' <= peak' /\ peak <= peak' /\ peak' \in Nat
    BY NextTypeOK, NextPeak DEF ReachInv, TypeOK
  <1>d. Delays \subseteq Nat
    BY DelaysAreNat
  <1>n. N * MinNav \in Delays /\ MaxBackoff \in Delays
    BY DEF Delays
  <1>w. \A b \in Bindings : Reachable(nextDue[b])
    BY DEF ReachInv, DueWithinReach, Reachable
  \* The peak stands still, and the parts that a step does not touch stay.
  <1>q. ASSUME peak' = peak PROVE \A due : Reachable(due) <=> Reachable(due)'
    BY <1>q DEF Reachable
  <1>f. peak' = peak /\ finished' = finished =>
          (\A b \in Bindings : finished[b] # Null => finished[b] <= peak)'
    BY DEF ReachInv
  <1>r. peak' = peak /\ stored' = stored =>
          (\A b \in Bindings : stored[b].due # Null => Reachable(stored[b].due))'
    BY <1>q DEF ReachInv
  <1>s. peak' = peak /\ fetched' = fetched =>
          (\A b \in Bindings : fetched[b].due # Null => Reachable(fetched[b].due))'
    BY <1>q DEF ReachInv
  <1>a. (\A b \in Bindings : Reachable(nextDue[b])') => DueWithinReach'
    BY DEF DueWithinReach, Reachable
  <1>e. peak' = peak /\ nextDue' = nextDue => DueWithinReach'
    BY <1>a, <1>q, <1>w
  <1>u. peak' = peak /\ finished' = finished /\ stored' = stored /\ fetched' = fetched /\ DueWithinReach'
        => ReachInv'
    BY <1>p, <1>f, <1>r, <1>s DEF ReachInv
  <1>1. CASE \E manual \in SUBSET Bindings : Plan(manual)
    BY <1>1, <1>e, <1>u DEF Plan, entryVars, rowVars
  <1>2. CASE SpreadOverdue
    <2>1. peak' = peak /\ finished' = finished /\ stored' = stored /\ fetched' = fetched
      BY <1>2 DEF SpreadOverdue, clientVars, rowVars
    <2>2. ASSUME NEW b \in Bindings PROVE Reachable(nextDue'[b])
      <3>1. CASE b \in Overdue
        <4>1. nextDue'[b] = Restaged(b)
          BY <1>2, <3>1 DEF SpreadOverdue
        <4>2. Restaged(b) \in Nat /\ Restaged(b) <= now + N * MinNav
          BY RestagedBounded, RestagedIsNat DEF ReachInv
        <4>3. Restaged(b) <= peak + N * MinNav
          <5>1. N * MinNav \in Nat /\ now <= peak
            BY <1>c DEF ReachInv
          <5> QED BY <1>t, <4>2, <5>1
        <4> QED BY <1>n, <4>1, <4>3 DEF Reachable
      <3>2. CASE b \notin Overdue
        BY <1>2, <1>w, <3>2 DEF SpreadOverdue
      <3> QED BY <3>1, <3>2
    <2> QED BY <1>a, <1>q, <1>u, <2>1, <2>2
  <1>3. CASE RecordOutcome
    <2> PICK b \in Bindings, at \in 0..MaxTime :
          \/ \E pct \in JitterPct : RecordSuccess(b, at, pct)
          \/ RecordCancelled(b, at)
          \/ \E o \in {"login_required", "source_blocked", "layout_changed"} :
               RecordRefusal(b, at, o)
          \/ \E o \in {"timeout", "rate_limited"}, ra \in RetryAfters \cup {0},
                pct \in JitterPct : RecordTransient(b, at, o, ra, pct)
      BY <1>3 DEF RecordOutcome
    <2>r. ReadAt(b, at)
      BY DEF RecordSuccess, RecordCancelled, RecordRefusal, RecordTransient
    <2>a. at \in Nat /\ at <= peak
      BY <1>t, <2>r DEF ReadAt, ReachInv, Null
    <2>p. peak' = peak /\ stored' = stored /\ fetched' = fetched
      BY <2>r DEF ReadAt, rowVars
    <2>f. (\A c \in Bindings : finished[c] # Null => finished[c] <= peak)'
      BY <1>t, <2>r, <2>p DEF ReadAt, ReachInv
    \* It is enough to look at the binding whose due time the outcome assigns.
    <2>v. ASSUME NEW due, nextDue' = [nextDue EXCEPT ![b] = due], Reachable(due) PROVE ReachInv'
      <3>1. \A c \in Bindings : Reachable(nextDue'[c])
        BY <1>t, <1>w, <2>v
      <3> QED BY <1>a, <1>p, <1>q, <1>r, <1>s, <2>f, <2>p, <3>1 DEF ReachInv
    <2>1. CASE \E pct \in JitterPct : RecordSuccess(b, at, pct)
      <3> PICK pct \in JitterPct : RecordSuccess(b, at, pct)
        BY <2>1
      <3> DEFINE d == Jittered(Interval, pct)
      <3>1. d \in Delays
        BY DEF Delays
      <3>2. nextDue' = [nextDue EXCEPT ![b] = at + d]
        BY DEF RecordSuccess
      <3> HIDE DEF d
      <3>3. d \in Nat /\ \E x \in Delays : d <= x
        BY <1>d, <3>1
      <3>4. Reachable(at + d)
        BY <1>t, <2>a, <3>3, DelayedIsReachable
      <3> QED BY <2>v, <3>2, <3>4
    <2>2. CASE RecordCancelled(b, at)
      <3>1. nextDue' = [nextDue EXCEPT ![b] = MaxOf(nextDue[b], at + MinNav)]
        BY <1>t, <2>2 DEF RecordCancelled
      <3>2. MinNav <= N * MinNav
        <4>1. N >= 1
          BY <1>c DEF Bindings
        <4> QED BY <1>c, <4>1
      <3>3. Reachable(at + MinNav)
        BY <1>c, <1>t, <1>n, <2>a, <3>2, DelayedIsReachable
      <3>4. Reachable(MaxOf(nextDue[b], at + MinNav))
        BY <1>w, <3>3 DEF MaxOf
      <3> QED BY <2>v, <3>1, <3>4
    <2>3. CASE \E o \in {"login_required", "source_blocked", "layout_changed"} :
                 RecordRefusal(b, at, o)
      <3>1. nextDue' = [nextDue EXCEPT ![b] = Never]
        BY <2>3 DEF RecordRefusal
      <3> QED BY <2>v, <3>1 DEF Reachable
    <2>4. CASE \E o \in {"timeout", "rate_limited"}, ra \in RetryAfters \cup {0},
                  pct \in JitterPct : RecordTransient(b, at, o, ra, pct)
      <3> PICK o \in {"timeout", "rate_limited"}, ra \in RetryAfters \cup {0},
               pct \in JitterPct : RecordTransient(b, at, o, ra, pct)
        BY <2>4
      <3> DEFINE back == Backoff(failures[b] + 1, pct)
      <3>1. back \in Nat /\ back <= MaxBackoff /\ ra \in Nat
        <4>1. failures[b] + 1 \in Nat /\ ra \in Nat
          BY <1>c, <1>t
        <4> QED BY <4>1, BackoffBounded
      <3>2. nextDue' = [nextDue EXCEPT ![b] = at + MaxOf(back, ra)]
        BY DEF RecordTransient
      <3>3. ra = 0 \/ ra \in Delays
        BY DEF Delays
      <3> HIDE DEF back
      <3>4. MaxOf(back, ra) \in Nat /\ \E x \in Delays : MaxOf(back, ra) <= x
        <4>1. CASE MaxOf(back, ra) = back
          BY <1>n, <3>1, <4>1
        <4>2. CASE MaxOf(back, ra) = ra /\ ra \in Delays
          BY <1>d, <3>1, <4>2
        <4>3. CASE MaxOf(back, ra) = ra /\ ra = 0
          BY <1>c, <1>n, <4>3
        <4> QED BY <3>1, <3>3, <4>1, <4>2, <4>3, MaxMinFacts
      <3>5. Reachable(at + MaxOf(back, ra))
        BY <1>t, <2>a, <3>4, DelayedIsReachable
      <3> QED BY <2>v, <3>2, <3>5
    <2> QED BY <2>1, <2>2, <2>3, <2>4
  <1>4. CASE \E b \in Toggled, p \in BOOLEAN : SetPaused(b, p)
    BY <1>4, <1>e, <1>u DEF SetPaused, clientVars, rowVars
  <1>5. CASE \E s \in Sources : PauseSource(s) \/ ResumeSource(s) \/ RecordNavigation(s)
    BY <1>5, <1>e, <1>u DEF PauseSource, ResumeSource, RecordNavigation, entryVars, clientVars, rowVars
  <1>6. CASE Tick
    <2>1. /\ nextDue' = nextDue /\ finished' = finished
          /\ stored' = stored /\ fetched' = fetched
      BY <1>6 DEF Tick, entryVars, clientVars, rowVars
    <2>2. \A b \in Bindings : Reachable(nextDue[b])'
      BY <1>p, <1>t, <1>w, <2>1, ReachGrows
    <2>3. (\A b \in Bindings : finished[b] # Null => finished[b] <= peak)'
      <3>1. ASSUME NEW b \in Bindings, finished[b] # Null PROVE finished[b] <= peak'
        <4>1. finished[b] \in Nat /\ finished[b] <= peak
          BY <1>t, <3>1 DEF ReachInv
        <4> QED BY <1>p, <1>t, <4>1
      <3> QED BY <2>1, <3>1
    <2>4. \A r \in Rows : r.due # Null => r.due \in Nat
      BY DEF Rows
    <2>5. ASSUME NEW b \in Bindings, stored[b].due # Null PROVE Reachable(stored[b].due)'
      <3>1. stored[b].due \in Nat /\ Reachable(stored[b].due)
        BY <1>t, <2>4, <2>5 DEF ReachInv
      <3> QED BY <1>p, <1>t, <2>1, <3>1, ReachGrows
    <2>6. ASSUME NEW b \in Bindings, fetched[b].due # Null PROVE Reachable(fetched[b].due)'
      <3>1. fetched[b].due \in Nat /\ Reachable(fetched[b].due)
        BY <1>t, <2>4, <2>6 DEF ReachInv
      <3> QED BY <1>p, <1>t, <2>1, <3>1, ReachGrows
    <2> QED BY <1>a, <1>p, <2>1, <2>2, <2>3, <2>5, <2>6 DEF ReachInv
  <1>7. CASE UNCHANGED vars
    BY <1>7, <1>e, <1>u DEF vars, entryVars, clientVars, rowVars
  <1>8. CASE \E b \in Bindings : FinishRead(b)
    <2>1. PICK b \in Bindings : FinishRead(b)
      BY <1>8
    <2>2. /\ peak' = peak /\ nextDue' = nextDue /\ stored' = stored /\ fetched' = fetched
          /\ finished' = [finished EXCEPT ![b] = now]
      BY <2>1 DEF FinishRead, entryVars, rowVars
    <2>3. (\A c \in Bindings : finished[c] # Null => finished[c] <= peak)'
      BY <1>t, <2>2 DEF ReachInv
    <2> QED BY <1>e, <1>p, <1>r, <1>s, <2>2, <2>3 DEF ReachInv
  <1>9. CASE \/ Persist \/ \E b \in Bindings : Forget(b)
             \/ \E enabled \in SUBSET Bindings : Fetch(enabled)
    <2>1. peak' = peak /\ nextDue' = nextDue /\ finished' = finished
      BY <1>9 DEF Persist, Forget, Fetch, entryVars, clientVars
    <2>2. ASSUME NEW b \in Bindings
          PROVE \/ stored'[b] = stored[b] \/ stored'[b].due = Null
                \/ stored'[b].due = MinOf(nextDue[b], FarFuture) \/ stored'[b].due = now
      BY <1>9, <1>t DEF Persist, RowOf, Forget, NoRow, Fetch, FreshRow
    <2>3. Reachable(now)
      <3>1. now <= peak + MaxBackoff
        BY <1>c, <1>t DEF ReachInv
      <3> QED BY <1>n, <3>1 DEF Reachable
    <2>4. ASSUME NEW b \in Bindings PROVE Reachable(MinOf(nextDue[b], FarFuture))
      BY <1>t, <1>w, ClampedIsReachable
    <2>5. ASSUME NEW b \in Bindings, stored'[b].due # Null PROVE Reachable(stored'[b].due)
      BY <2>2, <2>3, <2>4, <2>5 DEF ReachInv
    <2>6. fetched' = fetched \/ fetched' = stored'
      BY <1>9 DEF Persist, Forget, Fetch
    <2>7. (\A b \in Bindings : stored[b].due # Null => Reachable(stored[b].due))'
      BY <1>q, <2>1, <2>5
    <2>8. (\A b \in Bindings : fetched[b].due # Null => Reachable(fetched[b].due))'
      BY <1>s, <2>1, <2>6, <2>7
    <2> QED BY <1>e, <1>f, <1>p, <2>1, <2>7, <2>8 DEF ReachInv
  <1>10. CASE Load
    <2>1. peak' = peak /\ finished' = finished /\ stored' = stored /\ fetched' = NoRows
      BY <1>10 DEF Load, clientVars
    <2>2. ASSUME NEW b \in Bindings PROVE Reachable(nextDue'[b])
      <3>1. nextDue'[b] = IF Loaded(b) THEN fetched[b].due ELSE nextDue[b]
        BY <1>10 DEF Load
      <3> QED BY <1>w, <3>1 DEF Loaded, ReachInv
    <2>3. DueWithinReach'
      BY <1>a, <1>q, <2>1, <2>2
    <2>4. (\A b \in Bindings : fetched[b].due # Null => Reachable(fetched[b].due))'
      BY <2>1 DEF NoRows, NoRow
    <2> QED BY <1>f, <1>p, <1>r, <2>1, <2>3, <2>4 DEF ReachInv
  <1>11. CASE ClockSetBack
    BY <1>11, <1>e, <1>u DEF ClockSetBack, entryVars, clientVars, rowVars
  <1> QED BY <1>1, <1>2, <1>3, <1>4, <1>5, <1>6, <1>7, <1>8, <1>9, <1>10, <1>11 DEF Next

\* Every initial queue is within reach of the latest instant of earlier lives.
LEMMA InitReach == ASSUME SchedulerAssumption, Init PROVE ReachInv
  <1>1. TypeOK /\ now <= peak
    BY InitTypeOK, InitPeak
  <1>2. peak \in Nat /\ PastTime \in Nat /\ PastTime <= peak
    BY MaxMinFacts DEF Init, SchedulerAssumption
  <1>3. ASSUME NEW b \in Bindings PROVE Reachable(nextDue[b])
    <2>1. nextDue[b] \in LoadedDue
      BY DEF Init
    <2>2. nextDue[b] = FarFuture \/ \E d \in Delays : nextDue[b] <= PastTime + d
      BY <2>1 DEF SchedulerAssumption
    <2>3. nextDue[b] \in Nat
      BY DEF Init, SchedulerAssumption
    <2>4. ASSUME NEW d \in Delays, nextDue[b] <= PastTime + d PROVE nextDue[b] <= peak + d
      BY <1>2, <2>3, <2>4, DelaysAreNat
    <2> QED BY <2>2, <2>4 DEF Reachable
  <1>4. nextDue \in [Bindings -> Nat]
    BY <1>1 DEF TypeOK
  <1>5. ASSUME NEW b \in Bindings PROVE Reachable(stored[b].due)
    <2>1. stored[b].due = MinOf(nextDue[b], FarFuture)
      BY DEF Init, RowOf
    <2> QED BY <1>3, <1>4, <2>1, ClampedIsReachable
  <1>6. DueWithinReach
    BY <1>3 DEF DueWithinReach, Reachable
  <1> QED BY <1>1, <1>5, <1>6 DEF ReachInv, Init, NoRows, NoRow

\* A binding that no refusal has parked falls due within the longest interval,
\* backoff, Retry-After or restaging delay of the latest instant the clock has
\* shown, through any saving and loading of the queue and any clock set back
\* (scheduler.ts:135-137, 184-209, 412-475; worker.ts:1053-1055).
THEOREM NothingPutOff == ASSUME SchedulerAssumption PROVE Spec => []DueWithinReach
  <1>1. Init => ReachInv
    BY InitReach
  <1>2. ReachInv /\ [Next]_vars => ReachInv'
    BY NextReach
  <1>3. ReachInv => DueWithinReach
    BY DEF ReachInv
  <1> QED BY <1>1, <1>2, <1>3, PTL DEF Spec

-----------------------------------------------------------------------------
(* Plans keep to the navigation budget *)

\* The order of the candidates is total, and everything that goes before the
\* earlier of two candidates goes before the later one too.
LEMMA BeforeOrder ==
  ASSUME SchedulerAssumption, TypeOK, NEW m \in SUBSET Bindings,
         NEW b \in Bindings, NEW c \in Bindings
  PROVE  /\ b # c => Before(b, c, m) \/ Before(c, b, m)
         /\ ~Before(b, b, m)
         /\ \A a \in Bindings : Before(a, b, m) /\ Before(b, c, m) => Before(a, c, m)
  <1>1. nextDue \in [Bindings -> Nat] /\ Bindings \subseteq Nat
    BY DEF TypeOK, SchedulerAssumption, Bindings
  <1> QED BY <1>1 DEF Before

\* Finitely many candidates go before a binding.
LEMMA EarlierIsFinite ==
  ASSUME SchedulerAssumption, NEW m \in SUBSET Bindings, NEW b \in Bindings
  PROVE  IsFiniteSet(Earlier(b, m)) /\ Cardinality(Earlier(b, m)) \in Nat
  <1>1. IsFiniteSet(Bindings)
    BY FS_Interval DEF Bindings, SchedulerAssumption
  <1>2. Earlier(b, m) \in SUBSET Bindings
    BY DEF Earlier, Ready
  <1> QED BY <1>1, <1>2, FS_Subset, FS_CardinalityType

\* Of two candidates of a source, the later one has at least one more before it.
LEMMA EarlierGrows ==
  ASSUME SchedulerAssumption, TypeOK, NEW m \in SUBSET Bindings,
         NEW b \in Ready(m), NEW c \in Ready(m),
         SourceOf[b] = SourceOf[c], Before(b, c, m)
  PROVE  Cardinality(Earlier(c, m)) >= Cardinality(Earlier(b, m)) + 1
  <1>0. b \in Bindings /\ c \in Bindings
    BY DEF Ready
  <1> DEFINE upTo == Earlier(b, m) \cup {b}
  <1>1. b \notin Earlier(b, m)
    BY <1>0, BeforeOrder DEF Earlier
  <1>2. upTo \in SUBSET Earlier(c, m)
    <2>1. ASSUME NEW a \in Earlier(b, m) PROVE a \in Earlier(c, m)
      <3>1. a \in Bindings /\ a \in Ready(m) /\ SourceOf[a] = SourceOf[c] /\ Before(a, b, m)
        BY DEF Earlier, Ready
      <3>2. Before(a, c, m)
        BY <1>0, <3>1, BeforeOrder
      <3> QED BY <3>1, <3>2 DEF Earlier
    <2> QED BY <2>1 DEF Earlier
  <1>3. Cardinality(upTo) = Cardinality(Earlier(b, m)) + 1
    BY <1>0, <1>1, EarlierIsFinite, FS_AddElement
  <1>4. Cardinality(upTo) <= Cardinality(Earlier(c, m))
    <2> HIDE DEF upTo
    <2> QED BY <1>0, <1>2, EarlierIsFinite, FS_Subset
  <1>5. Cardinality(Earlier(b, m)) \in Nat /\ Cardinality(Earlier(c, m)) \in Nat
    BY <1>0, EarlierIsFinite
  <1> HIDE DEF upTo
  <1> QED BY <1>3, <1>4, <1>5

\* The first slot of a source respects the last recorded navigation.
LEMMA CursorBound ==
  ASSUME SchedulerAssumption, TypeOK, NEW s \in Sources
  PROVE  /\ Cursor(s) \in Nat /\ Cursor(s) >= now
         /\ lastNav[s] # Null => Cursor(s) >= lastNav[s] + MinNav
  <1>1. /\ MinNav \in Nat /\ now \in Nat
        /\ lastNav[s] \in Nat \cup {Null}
    BY DEF SchedulerAssumption, TypeOK
  <1>2. CASE lastNav[s] = Null
    BY <1>1, <1>2 DEF Cursor
  <1>3. CASE lastNav[s] \in Nat
    BY <1>1, <1>3 DEF Cursor, MaxOf, Null
  <1> QED BY <1>1, <1>2, <1>3

\* The slots of a plan, as a number: the cursor and one interval per binding
\* that goes before.
LEMMA SlotForm ==
  ASSUME SchedulerAssumption, TypeOK, NEW m \in SUBSET Bindings, NEW b \in Ready(m)
  PROVE  /\ Slot(b, m) = Cursor(SourceOf[b]) + MinNav * Cardinality(Earlier(b, m))
         /\ MinNav * Cardinality(Earlier(b, m)) \in Nat
         /\ Cursor(SourceOf[b]) \in Nat
         /\ b \in Bindings /\ SourceOf[b] \in Sources
  <1>1. b \in Bindings /\ SourceOf[b] \in Sources
    BY DEF Ready, SchedulerAssumption
  <1>2. Cardinality(Earlier(b, m)) \in Nat
    BY <1>1, EarlierIsFinite
  <1>3. MinNav * Cardinality(Earlier(b, m)) \in Nat
    BY <1>2 DEF SchedulerAssumption
  <1> QED BY <1>1, <1>3, CursorBound DEF Slot

\* The later of two candidates of a source is at least one interval later.
LEMMA SlotsApart ==
  ASSUME SchedulerAssumption, TypeOK, NEW m \in SUBSET Bindings,
         NEW b \in Ready(m), NEW c \in Ready(m),
         SourceOf[b] = SourceOf[c], Before(b, c, m)
  PROVE  Slot(c, m) >= Slot(b, m) + MinNav
  <1>0. b \in Bindings /\ c \in Bindings
    BY DEF Ready
  <1>1. MinNav \in Nat /\ Cardinality(Earlier(b, m)) \in Nat
        /\ Cardinality(Earlier(c, m)) \in Nat
    BY <1>0, EarlierIsFinite DEF SchedulerAssumption
  <1>2. Cardinality(Earlier(c, m)) >= Cardinality(Earlier(b, m)) + 1
    BY EarlierGrows
  <1>3. ASSUME NEW x \in Nat, NEW y \in Nat, y >= x + 1
        PROVE  MinNav * y >= MinNav * x + MinNav
    BY <1>1, <1>3
  <1>4. MinNav * Cardinality(Earlier(c, m)) >= MinNav * Cardinality(Earlier(b, m)) + MinNav
    BY <1>1, <1>2, <1>3
  <1>5. /\ Slot(b, m) = Cursor(SourceOf[b]) + MinNav * Cardinality(Earlier(b, m))
        /\ Slot(c, m) = Cursor(SourceOf[b]) + MinNav * Cardinality(Earlier(c, m))
        /\ MinNav * Cardinality(Earlier(b, m)) \in Nat
        /\ MinNav * Cardinality(Earlier(c, m)) \in Nat
        /\ Cursor(SourceOf[b]) \in Nat
    BY SlotForm
  <1> QED BY <1>1, <1>4, <1>5

\* In every well-typed state, every plan is spaced.
LEMMA TypesSpacePlans ==
  ASSUME SchedulerAssumption, TypeOK
  PROVE  PlanSpaced
  <1> SUFFICES ASSUME NEW m \in SUBSET Bindings, NEW b \in Dispatch(m)
               PROVE  /\ Slot(b, m) >= now
                      /\ lastNav[SourceOf[b]] # Null =>
                           Slot(b, m) >= lastNav[SourceOf[b]] + MinNav
                      /\ \A c \in Dispatch(m) :
                           b # c /\ SourceOf[b] = SourceOf[c] =>
                             \/ Slot(b, m) >= Slot(c, m) + MinNav
                             \/ Slot(c, m) >= Slot(b, m) + MinNav
    BY DEF PlanSpaced
  <1>1. b \in Ready(m)
    BY DEF Dispatch
  <1>2. /\ Slot(b, m) = Cursor(SourceOf[b]) + MinNav * Cardinality(Earlier(b, m))
        /\ MinNav * Cardinality(Earlier(b, m)) \in Nat
        /\ Cursor(SourceOf[b]) \in Nat
        /\ b \in Bindings /\ SourceOf[b] \in Sources
    BY <1>1, SlotForm
  <1>3. /\ now \in Nat /\ MinNav \in Nat
        /\ lastNav[SourceOf[b]] \in Nat \cup {Null}
    BY <1>2 DEF TypeOK, SchedulerAssumption
  <1>4. Slot(b, m) >= now
    BY <1>2, <1>3, CursorBound
  <1>5. lastNav[SourceOf[b]] # Null => Slot(b, m) >= lastNav[SourceOf[b]] + MinNav
    BY <1>2, <1>3, CursorBound
  <1>6. ASSUME NEW c \in Dispatch(m), b # c, SourceOf[b] = SourceOf[c]
        PROVE  \/ Slot(b, m) >= Slot(c, m) + MinNav
               \/ Slot(c, m) >= Slot(b, m) + MinNav
    <2>1. c \in Ready(m) /\ c \in Bindings
      BY DEF Dispatch, Ready
    <2>2. Before(b, c, m) \/ Before(c, b, m)
      BY <1>2, <1>6, <2>1, BeforeOrder
    <2> QED BY <1>1, <1>6, <2>1, <2>2, SlotsApart
  <1> QED BY <1>4, <1>5, <1>6

\* Any plan asked for at any moment gives two bindings of a source slots at
\* least the minimum interval apart, and none within that interval of the last
\* recorded navigation (scheduler.ts:4-9, 258-320).
THEOREM PlansAreSpaced == ASSUME SchedulerAssumption PROVE Spec => []PlanSpaced
  BY TypeCorrect, TypesSpacePlans, PTL

\* A smaller count of slots before a binding is a smaller distance in time.
LEMMA SlotsMonotone ==
  ASSUME SchedulerAssumption, NEW m \in Nat, NEW n \in Nat, m <= n
  PROVE  MinNav * m <= MinNav * n /\ MinNav * m \in Nat /\ MinNav * n \in Nat
  BY DEF SchedulerAssumption

\* What goes before a scheduled binding without a manual request goes before it
\* with one too.
LEMMA ManualOnlyAdds ==
  ASSUME SchedulerAssumption, TypeOK, NEW m \in SUBSET Bindings, NEW b \in Ready(m) \ m
  PROVE  /\ b \in Ready({}) /\ Earlier(b, {}) \subseteq Earlier(b, m)
         /\ Slot(b, {}) <= Slot(b, m)
  <1>1. b \in Ready({}) /\ b \in Bindings
    BY DEF Ready
  <1>2. ASSUME NEW a \in Earlier(b, {}) PROVE a \in Earlier(b, m)
    <2>1. a \in Bindings /\ Due(a) /\ Open(SourceOf[a]) /\ SourceOf[a] = SourceOf[b] /\ Before(a, b, {})
      BY DEF Earlier, Ready
    <2>2. Before(a, b, m)
      BY <2>1 DEF Before
    <2> QED BY <2>1, <2>2 DEF Earlier, Ready
  <1>3. Earlier(b, {}) \in SUBSET Earlier(b, m)
    BY <1>2
  <1>4. /\ Cardinality(Earlier(b, {})) <= Cardinality(Earlier(b, m))
        /\ Cardinality(Earlier(b, {})) \in Nat /\ Cardinality(Earlier(b, m)) \in Nat
    BY <1>1, <1>3, EarlierIsFinite, FS_Subset
  <1>5. MinNav * Cardinality(Earlier(b, {})) <= MinNav * Cardinality(Earlier(b, m))
    BY <1>4, SlotsMonotone
  <1>6. /\ Slot(b, {}) = Cursor(SourceOf[b]) + MinNav * Cardinality(Earlier(b, {}))
        /\ Slot(b, m) = Cursor(SourceOf[b]) + MinNav * Cardinality(Earlier(b, m))
        /\ MinNav * Cardinality(Earlier(b, {})) \in Nat
        /\ MinNav * Cardinality(Earlier(b, m)) \in Nat
        /\ Cursor(SourceOf[b]) \in Nat
    BY <1>1, SlotForm
  <1> QED BY <1>1, <1>3, <1>5, <1>6

LEMMA TypesKeepManualBack == ASSUME SchedulerAssumption, TypeOK PROVE ManualNeverSpeedsUp
  <1> SUFFICES ASSUME NEW m \in SUBSET Bindings, NEW b \in Dispatch(m) \ m
               PROVE  b \in Dispatch({}) /\ Slot(b, m) >= Slot(b, {})
    BY DEF ManualNeverSpeedsUp
  <1>1. b \in Ready(m) \ m /\ Slot(b, m) < now + MinInterval
    BY DEF Dispatch
  <1>2. b \in Ready({}) /\ Slot(b, {}) <= Slot(b, m)
    BY <1>1, ManualOnlyAdds
  <1>3. Slot(b, m) \in Nat /\ Slot(b, {}) \in Nat /\ now + MinInterval \in Nat
    <2>1. now \in Nat /\ MinInterval \in Nat
      BY DEF TypeOK, SchedulerAssumption
    <2> QED BY <1>1, <1>2, <2>1, SlotForm
  <1>4. Slot(b, {}) < now + MinInterval
    BY <1>1, <1>2, <1>3
  <1> QED BY <1>2, <1>3, <1>4 DEF Dispatch

\* Whatever is asked for by hand, no scheduled binding is planned because of it,
\* and none gets an earlier slot (scheduler.ts:8-9, 233-236, 245-256).
THEOREM ManualStaysInBudget == ASSUME SchedulerAssumption PROVE Spec => []ManualNeverSpeedsUp
  BY TypeCorrect, TypesKeepManualBack, PTL

-----------------------------------------------------------------------------
(* Restaging *)

StalerThan(b) == {a \in Overdue : SourceOf[a] = SourceOf[b] /\ Staler(a, b)}

\* The order in which overdue bindings are restaged is total.
LEMMA StalerOrder ==
  ASSUME SchedulerAssumption, TypeOK, NEW b \in Bindings, NEW c \in Bindings
  PROVE  /\ b # c => Staler(b, c) \/ Staler(c, b)
         /\ ~Staler(b, b)
         /\ Staler(b, c) => lastSuccess[b] <= lastSuccess[c]
         /\ \A a \in Bindings : Staler(a, b) /\ Staler(b, c) => Staler(a, c)
  <1>1. lastSuccess \in [Bindings -> Nat] /\ Bindings \subseteq Nat
    BY DEF TypeOK, SchedulerAssumption, Bindings
  <1> QED BY <1>1 DEF Staler

LEMMA RestagedForm ==
  ASSUME SchedulerAssumption, TypeOK, NEW b \in Bindings
  PROVE  /\ StalerThan(b) \in SUBSET Bindings /\ IsFiniteSet(StalerThan(b))
         /\ Cardinality(StalerThan(b)) \in Nat
         /\ Restaged(b) = now + MinNav * Cardinality(StalerThan(b))
         /\ MinNav * Cardinality(StalerThan(b)) \in Nat
  <1>1. IsFiniteSet(Bindings)
    BY FS_Interval DEF Bindings, SchedulerAssumption
  <1>2. StalerThan(b) \in SUBSET Bindings
    BY DEF StalerThan, Overdue
  <1>3. IsFiniteSet(StalerThan(b)) /\ Cardinality(StalerThan(b)) \in Nat
    BY <1>1, <1>2, FS_Subset, FS_CardinalityType
  <1>4. Restaged(b) = now + MinNav * Cardinality(StalerThan(b))
    BY DEF Restaged, StalerThan
  <1> QED BY <1>2, <1>3, <1>4, SlotsMonotone

\* Of two overdue bindings of a source, the staler one is restaged strictly earlier.
LEMMA StalerIsEarlier ==
  ASSUME SchedulerAssumption, TypeOK, NEW b \in Overdue, NEW c \in Overdue,
         SourceOf[b] = SourceOf[c], Staler(b, c)
  PROVE  Restaged(b) < Restaged(c)
  <1>0. b \in Bindings /\ c \in Bindings
    BY DEF Overdue
  <1> DEFINE upTo == StalerThan(b) \cup {b}
  <1>1. b \notin StalerThan(b)
    BY <1>0, StalerOrder DEF StalerThan
  <1>2. upTo \in SUBSET StalerThan(c)
    <2>1. ASSUME NEW a \in StalerThan(b) PROVE a \in StalerThan(c)
      BY <1>0, StalerOrder DEF StalerThan, Overdue
    <2>2. b \in StalerThan(c)
      BY DEF StalerThan
    <2> QED BY <2>1, <2>2
  <1>3. Cardinality(upTo) = Cardinality(StalerThan(b)) + 1
    BY <1>0, <1>1, RestagedForm, FS_AddElement
  <1>4. Cardinality(upTo) <= Cardinality(StalerThan(c))
    <2> HIDE DEF upTo
    <2> QED BY <1>0, <1>2, RestagedForm, FS_Subset
  <1> HIDE DEF upTo
  <1>5. /\ Cardinality(StalerThan(b)) \in Nat /\ Cardinality(StalerThan(c)) \in Nat
        /\ Cardinality(StalerThan(b)) + 1 <= Cardinality(StalerThan(c))
    BY <1>0, <1>3, <1>4, RestagedForm
  <1>6. ASSUME NEW x \in Nat, NEW y \in Nat, x + 1 <= y PROVE MinNav * x < MinNav * y
    BY <1>6 DEF SchedulerAssumption
  <1>7. MinNav * Cardinality(StalerThan(b)) < MinNav * Cardinality(StalerThan(c))
    BY <1>5, <1>6
  <1>8. now \in Nat
    BY DEF TypeOK
  <1> QED BY <1>0, <1>7, <1>8, RestagedForm

LEMMA TypesSpreadOverdue == ASSUME SchedulerAssumption, TypeOK PROVE SpreadWithinBudget
  <1> SUFFICES ASSUME NEW b \in Overdue
               PROVE  LET upTo == {a \in Overdue : /\ SourceOf[a] = SourceOf[b]
                                                   /\ Restaged(a) <= Restaged(b)}
                      IN /\ MinNav * (Cardinality(upTo) - 1) <= Restaged(b) - now
                         /\ \A a \in upTo : lastSuccess[a] <= lastSuccess[b]
    BY DEF SpreadWithinBudget
  <1> DEFINE upTo == {a \in Overdue : /\ SourceOf[a] = SourceOf[b]
                                      /\ Restaged(a) <= Restaged(b)}
  <1>0. b \in Bindings
    BY DEF Overdue
  <1>1. ASSUME NEW a \in upTo, a # b PROVE a \in StalerThan(b) /\ lastSuccess[a] <= lastSuccess[b]
    <2>1. a \in Bindings /\ a \in Overdue /\ SourceOf[a] = SourceOf[b] /\ Restaged(a) <= Restaged(b)
      BY DEF Overdue
    <2>2. Restaged(a) \in Nat /\ Restaged(b) \in Nat
      BY <1>0, <2>1, RestagedIsNat
    <2>3. ~Staler(b, a)
      BY <2>1, <2>2, StalerIsEarlier
    <2>4. Staler(a, b)
      BY <1>0, <1>1, <2>1, <2>3, StalerOrder
    <2> QED BY <1>0, <2>1, <2>4, StalerOrder DEF StalerThan
  <1>2. \A a \in upTo : lastSuccess[a] <= lastSuccess[b]
    <2>1. lastSuccess[b] \in Nat
      BY <1>0 DEF TypeOK
    <2> QED BY <1>1, <2>1
  <1>3. b \notin StalerThan(b)
    BY <1>0, StalerOrder DEF StalerThan
  <1>4. upTo \in SUBSET (StalerThan(b) \cup {b})
    BY <1>1
  <1>5. /\ IsFiniteSet(StalerThan(b) \cup {b})
        /\ Cardinality(StalerThan(b) \cup {b}) = Cardinality(StalerThan(b)) + 1
    BY <1>0, <1>3, RestagedForm, FS_AddElement
  <1> HIDE DEF upTo
  <1>6. Cardinality(upTo) \in Nat /\ Cardinality(upTo) <= Cardinality(StalerThan(b)) + 1
    BY <1>4, <1>5, FS_Subset, FS_CardinalityType
  <1>7. Cardinality(StalerThan(b)) \in Nat
    BY <1>0, RestagedForm
  <1>8. ASSUME NEW x \in Nat, NEW y \in Nat, x <= y + 1 PROVE MinNav * (x - 1) <= MinNav * y
    BY <1>8 DEF SchedulerAssumption
  <1>9. MinNav * (Cardinality(upTo) - 1) <= MinNav * Cardinality(StalerThan(b))
    BY <1>6, <1>7, <1>8
  <1>10. Restaged(b) - now = MinNav * Cardinality(StalerThan(b))
    <2>1. now \in Nat
      BY DEF TypeOK
    <2> QED BY <1>0, <2>1, RestagedForm
  <1> QED BY <1>2, <1>9, <1>10 DEF upTo

\* However many bindings are overdue when the computer wakes up, restaging keeps
\* each source within its budget for every prefix, stalest first
\* (scheduler.ts:177-206).
THEOREM RestagingStaysInBudget == ASSUME SchedulerAssumption PROVE Spec => []SpreadWithinBudget
  BY TypeCorrect, TypesSpreadOverdue, PTL

-----------------------------------------------------------------------------
(* What a provider asked for *)

\* The due times of parked bindings are later than whatever was asked for, and a
\* row is due no earlier than the answer it was saved after asked for.
AskedInv ==
  /\ TypeOK
  /\ asked \in [Bindings -> Nat] /\ rowAsked \in [Bindings -> Nat] /\ gotAsked \in [Bindings -> Nat]
  /\ \A b \in Bindings : asked[b] <= FarFuture
  /\ RetryAfterKept
  /\ \A b \in Bindings : IF stored[b].due = Null THEN rowAsked[b] = 0
                          ELSE rowAsked[b] <= stored[b].due /\ rowAsked[b] <= FarFuture
  /\ \A b \in Bindings : fetched[b].due # Null =>
                            gotAsked[b] <= fetched[b].due /\ gotAsked[b] <= FarFuture

\* The steps that read no binding and touch no row keep due times that are not
\* reached.
LEMMA AskedElsewhere ==
  ASSUME AskedInv, TypeOK', UNCHANGED <<asked, rowAsked, gotAsked, stored, fetched>>,
         \A b \in Bindings : nextDue'[b] >= nextDue[b] \/ (nextDue'[b] >= now /\ nextDue[b] <= now)
  PROVE  AskedInv'
  BY DEF AskedInv, TypeOK, RetryAfterKept

LEMMA AskedNext ==
  ASSUME SchedulerAssumption, NeverIsLater, AskedInv, [HNext]_hvars
  PROVE  AskedInv'
  <1> USE DEF hvars, history
  <1>n. [Next]_vars
    <2>1. CASE UNCHANGED hvars
      BY <2>1
    <2>2. CASE HOutcome
      BY <2>2 DEF HOutcome, HSuccess, HRefusal, HTransient, RecordOutcome, Next
    <2>3. CASE \E s \in Sources : HResumeSource(s)
      BY <2>3 DEF HResumeSource, Next
    <2>4. CASE \/ HPersist \/ \E b \in Bindings : HForget(b)
               \/ \E enabled \in SUBSET Bindings : HFetch(enabled)
               \/ HLoad
      BY <2>4 DEF HPersist, HForget, HFetch, HLoad, Next
    <2> QED BY <2>1, <2>2, <2>3, <2>4 DEF HNext, Next
  <1>t. TypeOK'
    BY <1>n, NextTypeOK DEF AskedInv
  <1>c. /\ SourceOf \in [Bindings -> Sources] /\ MaxTime \in Nat /\ MinNav \in Nat
        /\ Never \in Nat /\ FarFuture \in Nat /\ FarFuture <= Never
        /\ JitterPct \subseteq Nat /\ RetryAfters \subseteq Nat
    BY DEF SchedulerAssumption
  <1>v. /\ nextDue \in [Bindings -> Nat] /\ asked \in [Bindings -> Nat] /\ now \in Nat
        /\ failures \in [Bindings -> Nat]
        /\ rowAsked \in [Bindings -> Nat] /\ gotAsked \in [Bindings -> Nat]
    BY DEF AskedInv, TypeOK
  <1>u. UNCHANGED <<nextDue, asked, rowAsked, gotAsked, stored, fetched>> => AskedInv'
    BY <1>t, <1>v, AskedElsewhere
  <1>1. CASE HOutcome
    <2> PICK b \in Bindings, at \in 0..MaxTime :
          \/ \E pct \in JitterPct : HSuccess(b, at, pct)
          \/ RecordCancelled(b, at) /\ UNCHANGED history
          \/ \E o \in {"login_required", "source_blocked", "layout_changed"} : HRefusal(b, at, o)
          \/ \E o \in {"timeout", "rate_limited"}, ra \in RetryAfters \cup {0}, pct \in JitterPct :
               HTransient(b, at, o, ra, pct)
      BY <1>1 DEF HOutcome
    <2>r. UNCHANGED <<stored, fetched, rowAsked, gotAsked>>
      BY DEF HSuccess, RecordSuccess, RecordCancelled, HRefusal, RecordRefusal,
             HTransient, RecordTransient, ReadAt, rowVars
    <2>k. \A due, a \in Nat :
             /\ due >= a /\ a <= FarFuture
             /\ nextDue' = [nextDue EXCEPT ![b] = due] /\ asked' = [asked EXCEPT ![b] = a]
             => AskedInv'
      BY <1>t, <1>v, <2>r DEF AskedInv, RetryAfterKept
    <2>1. CASE \E pct \in JitterPct : HSuccess(b, at, pct)
      <3>1. PICK pct \in JitterPct : HSuccess(b, at, pct)
        BY <2>1
      <3> DEFINE due == at + Jittered(Interval, pct)
      <3>2. due \in Nat
        <4>1. Interval \in Nat /\ pct \in Nat
          BY <1>c DEF SchedulerAssumption
        <4>2. Jittered(Interval, pct) \in Nat
          BY <4>1, JitteredIsNat
        <4> QED BY <1>c, <4>2
      <3>3. nextDue' = [nextDue EXCEPT ![b] = due] /\ asked' = [asked EXCEPT ![b] = 0]
        BY <3>1 DEF HSuccess, RecordSuccess
      <3> HIDE DEF due
      <3>4. 0 \in Nat /\ due >= 0 /\ 0 <= FarFuture
        BY <1>c, <3>2
      <3> QED BY <2>k, <3>2, <3>3, <3>4
    <2>2. CASE RecordCancelled(b, at) /\ UNCHANGED history
      <3>1. nextDue' = [nextDue EXCEPT ![b] = MaxOf(nextDue[b], at + MinNav)] /\ asked' = asked
        BY <1>v, <2>2 DEF RecordCancelled
      <3>2. MaxOf(nextDue[b], at + MinNav) \in Nat /\ MaxOf(nextDue[b], at + MinNav) >= nextDue[b]
        <4>1. nextDue[b] \in Nat /\ at + MinNav \in Nat
          BY <1>c, <1>v
        <4> QED BY <4>1, MaxMinFacts
      <3> QED BY <1>t, <1>v, <2>r, <3>1, <3>2, AskedElsewhere
    <2>3. CASE \E o \in {"login_required", "source_blocked", "layout_changed"} : HRefusal(b, at, o)
      <3>1. nextDue' = [nextDue EXCEPT ![b] = Never] /\ asked' = asked
        BY <2>3 DEF HRefusal, RecordRefusal
      <3> QED BY <1>c, <1>t, <1>v, <2>r, <3>1 DEF AskedInv, RetryAfterKept
    <2>4. CASE \E o \in {"timeout", "rate_limited"}, ra \in RetryAfters \cup {0}, pct \in JitterPct :
                 HTransient(b, at, o, ra, pct)
      <3> PICK o \in {"timeout", "rate_limited"}, ra \in RetryAfters \cup {0}, pct \in JitterPct :
            HTransient(b, at, o, ra, pct)
        BY <2>4
      <3> DEFINE backoff == MaxOf(Backoff(failures[b] + 1, pct), ra)
      <3>1. backoff \in Nat /\ backoff >= ra /\ ra \in Nat
        <4>1. failures[b] + 1 \in Nat /\ ra \in Nat
          BY <1>c, <1>v
        <4>2. Backoff(failures[b] + 1, pct) \in Nat
          BY <4>1, BackoffBounded
        <4> QED BY <4>1, <4>2, MaxMinFacts
      <3>2. nextDue' = [nextDue EXCEPT ![b] = at + backoff] /\ asked' = [asked EXCEPT ![b] = at + ra]
        BY DEF HTransient, RecordTransient
      <3>3. at + ra <= FarFuture
        <4>1. MaxTime + ra <= FarFuture
          BY DEF NeverIsLater
        <4> QED BY <1>c, <3>1, <4>1
      <3> HIDE DEF backoff
      <3>4. at + backoff \in Nat /\ at + ra \in Nat /\ at + backoff >= at + ra
        BY <1>c, <3>1
      <3> QED BY <2>k, <3>2, <3>3, <3>4
    <2> QED BY <2>1, <2>2, <2>3, <2>4
  <1>2. CASE SpreadOverdue /\ UNCHANGED history
    <2>1. \A b \in Bindings : nextDue'[b] = IF b \in Overdue THEN Restaged(b) ELSE nextDue[b]
      BY <1>2 DEF SpreadOverdue
    <2>2. \A b \in Bindings : Restaged(b) >= now
      BY <1>v, RestagedForm DEF AskedInv
    <2>3. \A b \in Overdue : nextDue[b] <= now
      BY DEF Overdue, Due
    <2>4. stored' = stored /\ fetched' = fetched
      BY <1>2 DEF SpreadOverdue, rowVars
    <2> QED BY <1>t, <1>v, <1>2, <2>1, <2>2, <2>3, <2>4, AskedElsewhere
  <1>3. CASE /\ \/ \E manual \in SUBSET Bindings : Plan(manual)
                \/ \E b \in Toggled, p \in BOOLEAN : SetPaused(b, p)
                \/ \E b \in Bindings : FinishRead(b)
                \/ \E s \in Sources : PauseSource(s) \/ RecordNavigation(s)
                \/ Tick \/ ClockSetBack
             /\ UNCHANGED history
    BY <1>3, <1>u DEF Plan, SetPaused, FinishRead, PauseSource, RecordNavigation, Tick, ClockSetBack,
                      entryVars, rowVars
  <1>4. CASE \E s \in Sources : HResumeSource(s)
    BY <1>4, <1>u DEF HResumeSource, ResumeSource, entryVars, rowVars
  <1>5. CASE UNCHANGED hvars
    BY <1>5, <1>u DEF vars, entryVars, rowVars
  <1>6. CASE HPersist
    <2>1. /\ nextDue' = nextDue /\ asked' = asked /\ gotAsked' = gotAsked /\ fetched' = fetched
          /\ rowAsked' = asked /\ stored' = [b \in Bindings |-> RowOf(b)]
      BY <1>6 DEF HPersist, Persist, entryVars
    <2>2. ASSUME NEW b \in Bindings
          PROVE  /\ RowOf(b).due \in Nat /\ asked[b] <= RowOf(b).due /\ asked[b] <= FarFuture
      <3>1. RowOf(b).due = MinOf(nextDue[b], FarFuture)
        BY DEF RowOf
      <3>2. asked[b] \in Nat /\ asked[b] <= nextDue[b] /\ asked[b] <= FarFuture /\ nextDue[b] \in Nat
        BY <1>v DEF AskedInv, RetryAfterKept
      <3> QED BY <1>c, <3>1, <3>2 DEF MinOf
    <2>3. ASSUME NEW b \in Bindings
          PROVE  stored'[b].due # Null /\ rowAsked'[b] <= stored'[b].due /\ rowAsked'[b] <= FarFuture
      BY <2>1, <2>2 DEF Null
    <2> QED BY <1>t, <1>v, <2>1, <2>3 DEF AskedInv, RetryAfterKept
  <1>7. CASE \E b \in Bindings : HForget(b)
    <2>1. PICK b \in Bindings : HForget(b)
      BY <1>7
    <2>2. /\ nextDue' = nextDue /\ asked' = asked /\ gotAsked' = gotAsked /\ fetched' = fetched
          /\ rowAsked' = [rowAsked EXCEPT ![b] = 0] /\ stored' = [stored EXCEPT ![b] = NoRow]
      BY <2>1 DEF HForget, Forget, entryVars
    <2>3. stored \in [Bindings -> Rows] /\ NoRow.due = Null
      BY DEF AskedInv, TypeOK, NoRow
    <2>4. ASSUME NEW c \in Bindings
          PROVE  IF stored'[c].due = Null THEN rowAsked'[c] = 0
                 ELSE rowAsked'[c] <= stored'[c].due /\ rowAsked'[c] <= FarFuture
      BY <1>v, <2>2, <2>3 DEF AskedInv
    <2> QED BY <1>t, <1>v, <2>2, <2>4 DEF AskedInv, RetryAfterKept
  <1>8. CASE \E enabled \in SUBSET Bindings : HFetch(enabled)
    <2>1. PICK enabled \in SUBSET Bindings : HFetch(enabled)
      BY <1>8
    <2>2. /\ nextDue' = nextDue /\ asked' = asked /\ rowAsked' = rowAsked /\ gotAsked' = rowAsked
          /\ fetched' = stored'
          /\ stored' = [b \in Bindings |->
                          IF stored[b].due = Null /\ b \in enabled THEN FreshRow ELSE stored[b]]
      BY <2>1 DEF HFetch, Fetch, entryVars
    <2>3. FreshRow.due = now
      BY DEF FreshRow, NoRow
    <2>4. ASSUME NEW b \in Bindings
          PROVE  IF stored'[b].due = Null THEN rowAsked'[b] = 0
                 ELSE rowAsked'[b] <= stored'[b].due /\ rowAsked'[b] <= FarFuture
      BY <1>c, <1>v, <2>2, <2>3 DEF AskedInv, Null
    <2> QED BY <1>t, <1>v, <2>2, <2>4 DEF AskedInv, RetryAfterKept
  <1>9. CASE HLoad
    <2>1. /\ rowAsked' = rowAsked /\ stored' = stored /\ fetched' = NoRows
          /\ gotAsked' = [b \in Bindings |-> 0]
          /\ nextDue' = [b \in Bindings |-> IF Loaded(b) THEN fetched[b].due ELSE nextDue[b]]
          /\ asked' = [b \in Bindings |-> IF Loaded(b) THEN gotAsked[b] ELSE asked[b]]
      BY <1>9 DEF HLoad, Load
    <2>2. ASSUME NEW b \in Bindings
          PROVE  asked'[b] \in Nat /\ asked'[b] <= FarFuture /\ nextDue'[b] >= asked'[b]
      <3>1. CASE Loaded(b)
        <4>1. fetched[b] \in Rows
          BY DEF AskedInv, TypeOK
        <4>2. fetched[b].due \in Nat
          BY <3>1, <4>1 DEF Loaded, Rows
        <4> QED BY <1>v, <2>1, <3>1, <4>2 DEF AskedInv, Loaded
      <3>2. CASE ~Loaded(b)
        BY <1>v, <2>1, <3>2 DEF AskedInv, RetryAfterKept
      <3> QED BY <3>1, <3>2
    <2>3. asked' \in [Bindings -> Nat] /\ gotAsked' \in [Bindings -> Nat]
      BY <2>1, <1>v
    <2>4. \A b \in Bindings : fetched'[b].due = Null
      BY <2>1 DEF NoRows, NoRow
    <2> QED BY <1>t, <1>v, <2>1, <2>2, <2>3, <2>4 DEF AskedInv, RetryAfterKept
  <1> QED BY <1>1, <1>2, <1>3, <1>4, <1>5, <1>6, <1>7, <1>8, <1>9 DEF HNext

\* Until a binding is read again, no cancellation, restaging, refusal, plan,
\* resumption or clock change makes it due before the instant its provider asked
\* for, and a saved row carries that instant through any reload, parked rows
\* included (scheduler.ts:135-137, 184-209, 389-394, 430-437, 469-475;
\* worker.ts:1053-1055).
THEOREM RetryAfterIsKept ==
  ASSUME SchedulerAssumption, NeverIsLater PROVE HSpec => []RetryAfterKept
  <1>1. HInit => AskedInv
    <2> SUFFICES ASSUME HInit PROVE AskedInv
      OBVIOUS
    <2>1. TypeOK
      BY InitTypeOK DEF HInit
    <2>2. \A b \in Bindings : fetched[b].due = Null
      BY DEF HInit, Init, NoRows, NoRow
    <2>3. ASSUME NEW b \in Bindings PROVE stored[b].due \in Nat
      <3>1. stored[b].due = MinOf(nextDue[b], FarFuture)
        BY DEF HInit, Init, RowOf
      <3>2. nextDue[b] \in Nat /\ FarFuture \in Nat
        BY <2>1 DEF TypeOK, SchedulerAssumption
      <3> QED BY <3>1, <3>2, MaxMinFacts
    <2> QED BY <2>1, <2>2, <2>3 DEF HInit, AskedInv, RetryAfterKept, TypeOK, SchedulerAssumption
  <1>2. AskedInv /\ [HNext]_hvars => AskedInv'
    BY AskedNext
  <1>3. AskedInv => RetryAfterKept
    BY DEF AskedInv
  <1> QED BY <1>1, <1>2, <1>3, PTL DEF HSpec

-----------------------------------------------------------------------------
(* The token bucket *)

\* The wait is a natural number that reaches the end of the interval.
LEMMA WaitBound ==
  ASSUME BudgetAssumption, BudgetTypeOK
  PROVE  /\ Wait \in Nat
         /\ Wait > 0 => last # Unspent /\ clock + Wait >= last + Spacing
         /\ Wait = 0 => last = Unspent \/ clock >= last + Spacing
  <1>1. Spacing \in Nat \ {0} /\ clock \in Nat /\ last \in Nat \cup {Unspent}
    BY DEF BudgetAssumption, BudgetTypeOK
  <1> QED BY <1>1 DEF Wait, Unspent

Asleep == {c \in Callers : pc[c] = "asleep"}

\* Falling asleep adds one to the count, waking takes one from it, and nothing
\* else changes it.
LEMMA AsleepCounted ==
  ASSUME IsFiniteSet(Callers), BudgetTypeOK, NEW c \in Callers, NEW s,
         pc' = [pc EXCEPT ![c] = s]
  PROVE  /\ Cardinality(Asleep) \in Nat
         /\ pc[c] # "asleep" /\ s = "asleep" => Cardinality(Asleep') = Cardinality(Asleep) + 1
         /\ pc[c] = "asleep" /\ s # "asleep" =>
              Cardinality(Asleep') = Cardinality(Asleep) - 1 /\ Cardinality(Asleep) > 0
         /\ pc[c] # "asleep" /\ s # "asleep" => Asleep' = Asleep
  <1>1. IsFiniteSet(Asleep)
    BY FS_Subset DEF Asleep
  <1>2. Asleep' = IF s = "asleep" THEN Asleep \cup {c} ELSE Asleep \ {c}
    BY DEF Asleep, BudgetTypeOK
  <1>3. CASE pc[c] # "asleep"
    <2>1. c \notin Asleep
      BY <1>3 DEF Asleep
    <2> QED BY <1>1, <1>2, <1>3, <2>1, FS_AddElement, FS_CardinalityType
  <1>4. CASE pc[c] = "asleep"
    <2>1. c \in Asleep
      BY <1>4 DEF Asleep
    <2>2. Cardinality(Asleep) \in Nat /\ Cardinality(Asleep) # 0
      BY <1>1, <2>1, FS_CardinalityType, FS_EmptySet
    <2>3. Cardinality(Asleep \ {c}) = Cardinality(Asleep) - 1
      BY <1>1, <2>1, FS_RemoveElement
    <2> QED BY <1>2, <1>4, <2>2, <2>3
  <1> QED BY <1>3, <1>4

\* Every step keeps the types and the count, whoever else is waiting.
LEMMA CountNext ==
  ASSUME BudgetAssumption, IsFiniteSet(Callers), BudgetTypeOK, InFlightExact, [BudgetNext]_budgetVars
  PROVE  BudgetTypeOK' /\ InFlightExact'
  <1> USE DEF InFlightExact
  <1>a. ASSUME NEW c \in Callers, Finish(c), clock' = clock, wakeAt' = wakeAt, inFlight' \in Nat
        PROVE  BudgetTypeOK' /\ \E s : s # "asleep" /\ pc' = [pc EXCEPT ![c] = s]
    <2>1. CASE aborted[c]
      <3>1. aborted' = [aborted EXCEPT ![c] = FALSE] /\ pc' = [pc EXCEPT ![c] = "idle"]
            /\ last' = last /\ grants' = grants
        BY <1>a, <2>1 DEF Finish
      <3>2. aborted' \in [Callers -> BOOLEAN]
        BY <3>1, Zenon DEF BudgetTypeOK
      <3>3. BudgetTypeOK'
        BY <1>a, <3>1, <3>2 DEF BudgetTypeOK
      <3> QED BY <3>1, <3>3
    <2>2. CASE ~aborted[c]
      <3>1. /\ last' = clock /\ grants' = grants \cup {[at |-> clock, by |-> c]}
            /\ pc' = [pc EXCEPT ![c] = "navigating"] /\ aborted' = aborted
        BY <1>a, <2>2 DEF Finish
      <3>2. [at |-> clock, by |-> c] \in [at : Nat, by : Callers]
        BY DEF BudgetTypeOK
      <3>3. BudgetTypeOK'
        BY <1>a, <3>1, <3>2 DEF BudgetTypeOK
      <3> QED BY <3>1, <3>3
    <2> QED BY <2>1, <2>2
  <1>1. ASSUME NEW c \in Callers, Acquire(c) PROVE BudgetTypeOK' /\ InFlightExact'
    <2>1. CASE Wait = 0
      <3>1. Finish(c) /\ UNCHANGED <<clock, wakeAt, inFlight>> /\ pc[c] # "asleep"
        BY <1>1, <2>1 DEF Acquire
      <3>2. BudgetTypeOK' /\ \E s : s # "asleep" /\ pc' = [pc EXCEPT ![c] = s]
        BY <1>a, <3>1 DEF BudgetTypeOK
      <3>3. Asleep' = Asleep
        BY <3>1, <3>2, AsleepCounted
      <3> QED BY <3>1, <3>2, <3>3 DEF Asleep
    <2>2. CASE Wait # 0
      <3>1. /\ pc[c] # "asleep" /\ pc' = [pc EXCEPT ![c] = "asleep"]
            /\ wakeAt' = [wakeAt EXCEPT ![c] = clock + Wait]
            /\ inFlight' = inFlight + 1
            /\ UNCHANGED <<clock, last, grants, aborted>>
        BY <1>1, <2>2 DEF Acquire
      <3>2. BudgetTypeOK'
        BY <3>1, WaitBound DEF BudgetTypeOK
      <3>3. Cardinality(Asleep') = Cardinality(Asleep) + 1
        BY <3>1, AsleepCounted
      <3> QED BY <3>1, <3>2, <3>3 DEF Asleep
    <2> QED BY <2>1, <2>2
  <1>2. ASSUME NEW c \in Callers, Wake(c) PROVE BudgetTypeOK' /\ InFlightExact'
    <2>1. /\ pc[c] = "asleep" /\ Finish(c)
          /\ inFlight' = inFlight - 1 /\ UNCHANGED <<clock, wakeAt>>
      BY <1>2 DEF Wake
    <2>2. \E s : s # "asleep" /\ pc' = [pc EXCEPT ![c] = s]
      BY <2>1 DEF Finish
    <2>3. /\ Cardinality(Asleep') = Cardinality(Asleep) - 1
          /\ Cardinality(Asleep) \in Nat /\ Cardinality(Asleep) > 0
      BY <2>1, <2>2, AsleepCounted
    <2>4. inFlight = Cardinality(Asleep) /\ inFlight' \in Nat
      BY <2>1, <2>3 DEF Asleep
    <2> QED BY <1>a, <2>1, <2>3, <2>4 DEF Asleep
  <1>3. ASSUME NEW c \in Callers, Abort(c) PROVE BudgetTypeOK' /\ InFlightExact'
    BY <1>3 DEF Abort, BudgetTypeOK
  <1>4. ASSUME NEW c \in Callers, Navigated(c) PROVE BudgetTypeOK' /\ InFlightExact'
    <2>1. pc[c] # "asleep" /\ pc' = [pc EXCEPT ![c] = "idle"]
          /\ UNCHANGED <<clock, last, grants, wakeAt, aborted, inFlight>>
      BY <1>4 DEF Navigated
    <2>2. Asleep' = Asleep
      BY <2>1 DEF Asleep, BudgetTypeOK
    <2>3. BudgetTypeOK'
      BY <2>1 DEF BudgetTypeOK
    <2> QED BY <2>1, <2>2, <2>3 DEF Asleep
  <1>5. CASE ClockTicks
    BY <1>5 DEF ClockTicks, BudgetTypeOK
  <1>6. CASE UNCHANGED budgetVars
    BY <1>6 DEF budgetVars, BudgetTypeOK
  <1> QED BY <1>1, <1>2, <1>3, <1>4, <1>5, <1>6 DEF BudgetNext

\* However many callers share the budget and whichever are aborted, the
\* navigations counted in flight are those that wait for their slot, and the
\* count never goes below zero (service.ts:371-376, 468-475).
THEOREM InFlightIsExact ==
  ASSUME BudgetAssumption, IsFiniteSet(Callers)
  PROVE  BudgetSpec => [](BudgetTypeOK /\ InFlightExact)
  <1>1. BudgetInit => BudgetTypeOK /\ InFlightExact
    <2> SUFFICES ASSUME BudgetInit PROVE BudgetTypeOK /\ InFlightExact
      OBVIOUS
    <2>1. {c \in Callers : pc[c] = "asleep"} = {}
      BY DEF BudgetInit
    <2> QED BY <2>1, FS_EmptySet DEF BudgetInit, BudgetTypeOK, InFlightExact, Unspent
  <1>2. BudgetTypeOK /\ InFlightExact /\ [BudgetNext]_budgetVars => (BudgetTypeOK /\ InFlightExact)'
    BY CountNext
  <1> QED BY <1>1, <1>2, PTL DEF BudgetSpec

\* What a caller spends: nothing before the last navigation is later than it, and
\* a sleeping caller does not wake within the interval of its own navigations.
SpentInv ==
  /\ BudgetTypeOK
  /\ InFlightExact
  /\ \A g \in grants : last # Unspent /\ g.at <= last
  /\ last # Unspent => last <= clock
  /\ \A c \in Callers : pc[c] = "asleep" =>
       \A g \in grants : g.by = c => wakeAt[c] >= g.at + Spacing

\* A caller that need not wait, or has waited, is past the interval of its own
\* navigations.
Rested(c) == \A g \in grants : g.by = c => clock >= g.at + Spacing

\* The end of acquire, by a caller that is rested, keeps SpentInv, and is a
\* navigation the limit allows, or nothing.
LEMMA FinishSpaced ==
  ASSUME BudgetAssumption, SpentInv, NEW c \in Callers, Finish(c), Rested(c),
         clock' = clock, wakeAt' = wakeAt, BudgetTypeOK', InFlightExact'
  PROVE  SpentInv' /\ (Limit!Grant(c) \/ UNCHANGED Limit!rvars)
  <1>t. /\ clock \in Nat /\ grants \subseteq [at : Nat, by : Callers] /\ last \in Nat \cup {Unspent}
        /\ pc \in [Callers -> {"idle", "asleep", "navigating"}]
    BY DEF SpentInv, BudgetTypeOK
  <1>1. CASE aborted[c]
    <2>1. last' = last /\ grants' = grants /\ pc' = [pc EXCEPT ![c] = "idle"]
      BY <1>1 DEF Finish
    <2>2. SpentInv'
      BY <1>t, <2>1 DEF SpentInv
    <2> QED BY <2>1, <2>2 DEF Limit!rvars
  <1>2. CASE ~aborted[c]
    <2>1. /\ last' = clock /\ grants' = grants \cup {[at |-> clock, by |-> c]}
          /\ pc' = [pc EXCEPT ![c] = "navigating"]
      BY <1>2 DEF Finish
    <2>2. last' # Unspent /\ last' <= clock'
      BY <1>t, <2>1 DEF Unspent
    <2>3. ASSUME NEW g \in grants' PROVE g.at <= last'
      BY <1>t, <2>1 DEF SpentInv
    <2>4. ASSUME NEW d \in Callers, pc'[d] = "asleep", NEW g \in grants', g.by = d
          PROVE  wakeAt'[d] >= g.at + Spacing
      BY <1>t, <2>1, <2>4 DEF SpentInv
    <2>5. SpentInv'
      BY <2>2, <2>3, <2>4 DEF SpentInv
    <2>6. Limit!Grant(c)
      BY <1>t, <2>1 DEF Limit!Grant, Rested, Unspent
    <2> QED BY <2>5, <2>6
  <1> QED BY <1>1, <1>2

\* Every step keeps SpentInv, and is a navigation the limit allows, a tick, or
\* nothing at all.
LEMMA SpentNext ==
  ASSUME BudgetAssumption, IsFiniteSet(Callers), SpentInv, [BudgetNext]_budgetVars
  PROVE  SpentInv' /\ [Limit!Next]_(Limit!rvars)
  <1>t. /\ clock \in Nat /\ grants \subseteq [at : Nat, by : Callers] /\ last \in Nat \cup {Unspent}
        /\ pc \in [Callers -> {"idle", "asleep", "navigating"}] /\ wakeAt \in [Callers -> Nat]
        /\ Spacing \in Nat
    BY DEF SpentInv, BudgetTypeOK, BudgetAssumption
  <1>k. BudgetTypeOK' /\ InFlightExact'
    BY CountNext DEF SpentInv
  <1>g. \A c \in Callers : Limit!Grant(c) => [Limit!Next]_(Limit!rvars)
    BY DEF Limit!Next
  <1>1. ASSUME NEW c \in Callers, Acquire(c) PROVE SpentInv' /\ [Limit!Next]_(Limit!rvars)
    <2>1. CASE Wait = 0
      <3>1. Finish(c) /\ UNCHANGED <<clock, wakeAt, inFlight>>
        BY <1>1, <2>1 DEF Acquire
      <3>2. last = Unspent \/ clock >= last + Spacing
        BY <2>1, WaitBound DEF SpentInv
      <3>3. Rested(c)
        BY <1>t, <3>2 DEF Rested, SpentInv
      <3> QED BY <1>g, <1>k, <3>1, <3>3, FinishSpaced
    <2>2. CASE Wait # 0
      <3>1. /\ pc' = [pc EXCEPT ![c] = "asleep"]
            /\ wakeAt' = [wakeAt EXCEPT ![c] = clock + Wait]
            /\ UNCHANGED <<clock, last, grants, aborted>>
        BY <1>1, <2>2 DEF Acquire
      <3>2. Wait \in Nat /\ last # Unspent /\ clock + Wait >= last + Spacing
        BY <2>2, WaitBound DEF SpentInv
      <3>3. ASSUME NEW d \in Callers, pc'[d] = "asleep", NEW g \in grants, g.by = d
            PROVE  wakeAt'[d] >= g.at + Spacing
        <4>1. CASE d = c
          <5>1. g.at \in Nat /\ g.at <= last /\ last \in Nat
            BY <1>t, <3>2 DEF SpentInv
          <5>2. wakeAt'[d] = clock + Wait
            BY <1>t, <3>1, <4>1
          <5> HIDE DEF Wait
          <5> QED BY <1>t, <3>2, <5>1, <5>2
        <4>2. CASE d # c
          BY <1>t, <3>1, <3>3, <4>2 DEF SpentInv
        <4> QED BY <4>1, <4>2
      <3> QED BY <1>k, <3>1, <3>3 DEF SpentInv, Limit!rvars
    <2> QED BY <2>1, <2>2
  <1>2. ASSUME NEW c \in Callers, Wake(c) PROVE SpentInv' /\ [Limit!Next]_(Limit!rvars)
    <2>1. /\ pc[c] = "asleep" /\ clock >= wakeAt[c] /\ Finish(c)
          /\ UNCHANGED <<clock, wakeAt>>
      BY <1>2 DEF Wake
    <2>2. Rested(c)
      <3>1. ASSUME NEW g \in grants, g.by = c PROVE clock >= g.at + Spacing
        <4>1. wakeAt[c] >= g.at + Spacing /\ g.at \in Nat
          BY <1>t, <2>1, <3>1 DEF SpentInv
        <4> QED BY <1>t, <2>1, <4>1
      <3> QED BY <3>1 DEF Rested
    <2> QED BY <1>g, <1>k, <2>1, <2>2, FinishSpaced
  <1>3. ASSUME NEW c \in Callers, Abort(c) \/ Navigated(c) PROVE SpentInv' /\ UNCHANGED Limit!rvars
    BY <1>k, <1>t, <1>3 DEF Abort, Navigated, SpentInv, Limit!rvars
  <1>4. CASE ClockTicks
    <2>1. clock' = clock + 1 /\ clock < MaxClock /\ UNCHANGED <<last, grants, pc, wakeAt>>
      BY <1>4 DEF ClockTicks
    <2>2. SpentInv'
      BY <1>k, <1>t, <2>1 DEF SpentInv
    <2>3. Limit!Tick
      BY <2>1 DEF Limit!Tick
    <2> QED BY <2>2, <2>3 DEF Limit!Next
  <1>5. CASE UNCHANGED budgetVars
    BY <1>k, <1>5 DEF budgetVars, SpentInv, Limit!rvars
  <1> QED BY <1>1, <1>2, <1>3, <1>4, <1>5 DEF BudgetNext

\* However many callers share the budget, and whatever they spend in between, the
\* navigations of each are a minimum interval apart, and an aborted wait spends
\* nothing: in any minimum interval the source sees at most one navigation of
\* each caller (scheduler.ts:508-545; service.ts:362-377).
THEOREM EachCallerIsLimited ==
  ASSUME BudgetAssumption, IsFiniteSet(Callers)
  PROVE  BudgetSpec => RateLimited
  <1>1. BudgetInit => SpentInv
    <2> SUFFICES ASSUME BudgetInit PROVE SpentInv
      OBVIOUS
    <2>1. {c \in Callers : pc[c] = "asleep"} = {}
      BY DEF BudgetInit
    <2> QED BY <2>1, FS_EmptySet DEF BudgetInit, BudgetTypeOK, InFlightExact, SpentInv, Unspent
  <1>2. SpentInv /\ [BudgetNext]_budgetVars => SpentInv'
    BY SpentNext
  <1>3. BudgetInit => Limit!Init
    BY DEF BudgetInit, Limit!Init
  <1>4. SpentInv /\ [BudgetNext]_budgetVars => [Limit!Next]_(Limit!rvars)
    BY SpentNext
  <1> QED BY <1>1, <1>2, <1>3, <1>4, PTL DEF BudgetSpec, RateLimited, Limit!Spec
=============================================================================
