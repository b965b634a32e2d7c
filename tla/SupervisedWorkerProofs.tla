----------------------- MODULE SupervisedWorkerProofs -----------------------
(***************************************************************************)
(* For any number of requests, processes and restarts: a supervised worker *)
(* is a RequestReply service, and until it is asked to stop there is never *)
(* a second process.  And of the window that asks it: what a workspace     *)
(* shows never goes back.                                                  *)
(***************************************************************************)
EXTENDS IpcRouter, Renderer, FiniteSetTheorems, TLAPS

\* Every process that has not gone is the child or the one that is being
\* spawned, and there is only one of the two, until stop() forgets the child.
Single ==
  /\ child \in {NoProc} \cup Procs /\ starting \in {NoProc} \cup Procs
  /\ proc \in [Procs -> {"unborn", "spawning", "alive", "dead", "gone"}]
  /\ stopping = "no" =>
       /\ child = NoProc \/ starting = NoProc
       /\ \A p \in Procs : proc[p] \in {"spawning", "alive", "dead"} => p \in {child, starting}

\* What is on its way belongs to a request that was posted, and the work of a
\* request is done exactly when its answer has been sent.
Accounted ==
  /\ to \in [Requests -> {NoProc} \cup Procs]
  /\ done \in [Requests -> {0, 1}]
  /\ call \in [Requests -> {"idle", "starting", "sent", "answered", "failed"}]
  /\ mail \in [Requests -> {"none", "inbox", "answer", "refusal"}]
  /\ \A r \in Requests :
       /\ call[r] \in {"idle", "starting"} => mail[r] = "none" /\ done[r] = 0
       /\ mail[r] = "inbox" => done[r] = 0
       /\ mail[r] = "answer" => done[r] = 1

IInv == Single /\ Accounted

-----------------------------------------------------------------------------
\* The steps that leave the requests alone, and those that leave processes alone.
Internal == (\E p \in Procs : Dies(p)) \/ BackoffEnds \/ OnRestarted \/ Stop \/ Kill

LEMMA InternalLeavesRequests ==
  ASSUME Internal PROVE UNCHANGED requests
  BY DEF Internal, Dies, BackoffEnds, OnRestarted, Stop, Kill, requests

LEMMA EveryStep ==
  ASSUME [Next]_vars
  PROVE  \/ UNCHANGED vars \/ Internal
         \/ \E p \in Procs : Spawned(p) \/ Exited(p)
         \/ \E r \in Requests : Execute(r) \/ Answered(r) \/ TimesOut(r) \/ Ask(r)
  BY DEF Next, Supervision, Internal

LEMMA IInvInit == ASSUME SupervisionAssumption, Init PROVE IInv
  <1>1. 1 \in Procs /\ NoProc \notin Procs
    BY DEF SupervisionAssumption, Procs, NoProc
  <1> QED BY <1>1 DEF Init, IInv, Single, Accounted

\* A spawn is begun only when there is neither a child nor another spawn.
LEMMA ForkKeepsSingle ==
  ASSUME Single, Fork, child' = child, stopping' = stopping
  PROVE  Single'
  <1>1. CASE child # NoProc \/ starting # NoProc
    BY <1>1 DEF Fork, Single
  <1>2. CASE child = NoProc /\ starting = NoProc
    <2>1. PICK p \in Procs : starting' = p /\ proc' = [proc EXCEPT ![p] = "spawning"]
      BY <1>2 DEF Fork
    <2> QED BY <1>2, <2>1 DEF Single
  <1> QED BY <1>1, <1>2

LEMMA SingleNext == ASSUME IInv, [Next]_vars PROVE Single'
  <1> USE DEF IInv
  <1>n. NoProc \notin Procs
    BY DEF NoProc, Procs
  <1>1. CASE UNCHANGED vars
    BY <1>1 DEF Single, vars, supervisor
  <1>2. ASSUME NEW p \in Procs, Dies(p) PROVE Single'
    BY <1>2 DEF Single, Dies, supervisor
  <1>3. ASSUME NEW p \in Procs, Spawned(p) PROVE Single'
    <2>1. /\ proc[p] = "spawning" /\ child' = p /\ starting' = NoProc /\ stopping' = stopping
          /\ proc' = [proc EXCEPT ![p] = "alive"]
      BY <1>3 DEF Spawned
    <2>2. stopping = "no" => \A q \in Procs : proc[q] \in {"spawning", "alive", "dead"} => q = p
      BY <1>n, <2>1 DEF Single
    <2> QED BY <2>1, <2>2 DEF Single
  <1>4. ASSUME NEW p \in Procs, Exited(p) PROVE Single'
    <2>1. /\ proc[p] = "dead" /\ child' = NoProc /\ stopping' = stopping
          /\ starting' = IF starting = p THEN NoProc ELSE starting
          /\ proc' = [proc EXCEPT ![p] = "gone"]
      BY <1>4 DEF Exited
    <2>2. stopping = "no" => \A q \in Procs : proc[q] \in {"spawning", "alive", "dead"} => q = p
      BY <1>n, <2>1 DEF Single
    <2> QED BY <2>1, <2>2 DEF Single
  <1>5. CASE BackoffEnds
    <2>1. CASE stopping = "no"
      <3>1. Fork /\ child' = child /\ stopping' = stopping
        BY <1>5, <2>1 DEF BackoffEnds
      <3> QED BY <3>1, ForkKeepsSingle
    <2>2. CASE stopping # "no"
      BY <1>5, <2>2 DEF BackoffEnds, Single
    <2> QED BY <2>1, <2>2
  <1>6. CASE OnRestarted
    <2>1. CASE child = NoProc
      <3>1. Fork /\ child' = child /\ stopping' = stopping
        BY <1>6, <2>1 DEF OnRestarted
      <3> QED BY <3>1, ForkKeepsSingle
    <2>2. CASE child # NoProc
      BY <1>6, <2>2 DEF OnRestarted, Single
    <2> QED BY <2>1, <2>2
  <1>7. CASE Stop
    BY <1>7 DEF Stop, Single
  <1>8. CASE Kill
    BY <1>8 DEF Kill, Single
  <1>9. ASSUME NEW r \in Requests, Execute(r) \/ Answered(r) \/ TimesOut(r) PROVE Single'
    BY <1>9 DEF Execute, Answered, TimesOut, Single, supervisor
  <1>10. ASSUME NEW r \in Requests, Ask(r) PROVE Single'
    BY <1>10, ForkKeepsSingle DEF Ask
  <1> QED BY <1>1, <1>2, <1>3, <1>4, <1>5, <1>6, <1>7, <1>8, <1>9, <1>10, EveryStep DEF Internal

LEMMA AccountedNext == ASSUME IInv, [Next]_vars PROVE Accounted'
  <1> USE DEF IInv
  <1>1. CASE UNCHANGED requests
    BY <1>1 DEF Accounted, requests
  <1>2. ASSUME NEW p \in Procs, Spawned(p) PROVE Accounted'
    <2>1. /\ call' = [r \in Requests |-> IF call[r] = "starting" THEN "sent" ELSE call[r]]
          /\ to' = [r \in Requests |-> IF call[r] = "starting" THEN p ELSE to[r]]
          /\ mail' = [r \in Requests |-> IF call[r] = "starting" THEN "inbox" ELSE mail[r]]
          /\ done' = done
      BY <1>2 DEF Spawned
    <2> QED BY <2>1 DEF Accounted
  <1>3. ASSUME NEW p \in Procs, Exited(p) PROVE Accounted'
    <2>1. /\ call' = [r \in Requests |-> IF r \in Rejected(p) THEN "failed" ELSE call[r]]
          /\ mail' = [r \in Requests |-> IF to[r] = p THEN "none" ELSE mail[r]]
          /\ to' = to /\ done' = done
      BY <1>3 DEF Exited
    <2> QED BY <2>1 DEF Accounted
  <1>4. ASSUME NEW r \in Requests, Execute(r) PROVE Accounted'
    BY <1>4 DEF Accounted, Execute
  <1>5. ASSUME NEW r \in Requests, Answered(r) PROVE Accounted'
    BY <1>5 DEF Accounted, Answered
  <1>6. ASSUME NEW r \in Requests, TimesOut(r) PROVE Accounted'
    BY <1>6 DEF Accounted, TimesOut
  <1>7. ASSUME NEW r \in Requests, Ask(r) PROVE Accounted'
    BY <1>7 DEF Accounted, Ask, Single
  <1>8. UNCHANGED vars => UNCHANGED requests
    BY DEF vars
  <1> QED BY <1>1, <1>2, <1>3, <1>4, <1>5, <1>6, <1>7, <1>8, EveryStep, InternalLeavesRequests

LEMMA Invariant == ASSUME SupervisionAssumption PROVE Spec => []IInv
  <1>1. Init => IInv
    BY IInvInit
  <1>2. IInv /\ [Next]_vars => IInv'
    BY SingleNext, AccountedNext DEF IInv
  <1> QED BY <1>1, <1>2, PTL DEF Spec

-----------------------------------------------------------------------------
\* Until stop() is called at most one process is spawning or running, for any
\* number of exits, restarts and requests that start one (workers.ts:69-71).
THEOREM NeverASecondProcess == ASSUME SupervisionAssumption PROVE Spec => []OneProcess
  <1>1. ASSUME IInv PROVE OneProcess
    <2> DEFINE Running == {p \in Procs : proc[p] \in {"spawning", "alive"}}
    <2>1. SUFFICES ASSUME stopping = "no" PROVE Cardinality(Running) <= 1
      BY DEF OneProcess
    <2>2. \A p, q \in Running : p = q
      BY <1>1, <2>1 DEF IInv, Single, NoProc, Procs
    <2>3. CASE Running = {}
      BY <2>3, FS_EmptySet
    <2>4. CASE Running # {}
      <3>1. PICK p \in Running : TRUE
        BY <2>4
      <3>2. Running = {p}
        BY <2>2, <3>1
      <3>3. Cardinality({p}) = 1
        BY FS_Singleton
      <3> HIDE DEF Running
      <3> QED BY <3>2, <3>3
    <2> QED BY <2>3, <2>4
  <1> QED BY <1>1, Invariant, PTL

-----------------------------------------------------------------------------
\* A request as its caller sees it, the refinement mapping of Promise.
Seen == [r \in Requests |-> IF Waiting(r) THEN "waiting" ELSE call[r]]

LEMMA SeenUnchanged == ASSUME UNCHANGED call PROVE Seen' = Seen
  BY DEF Seen, Waiting

\* Every step of the supervisor is a step of the promise or leaves it alone.
LEMMA StepRefines == ASSUME IInv, [Next]_vars PROVE Promise!Next \/ UNCHANGED <<Seen, done>>
  <1> USE DEF IInv
  <1>1. CASE UNCHANGED requests
    BY <1>1, SeenUnchanged DEF requests
  <1>2. ASSUME NEW p \in Procs, Spawned(p) PROVE UNCHANGED <<Seen, done>>
    <2>1. /\ call' = [r \in Requests |-> IF call[r] = "starting" THEN "sent" ELSE call[r]]
          /\ done' = done
      BY <1>2 DEF Spawned
    <2> QED BY <2>1 DEF Seen, Waiting
  <1>3. ASSUME NEW p \in Procs, Exited(p) PROVE Promise!Fail(Rejected(p))
    <2>1. /\ call' = [r \in Requests |-> IF r \in Rejected(p) THEN "failed" ELSE call[r]]
          /\ done' = done
      BY <1>3 DEF Exited
    <2>2. \A r \in Rejected(p) : Waiting(r)
      BY DEF Rejected, Waiting
    <2> QED BY <2>1, <2>2 DEF Promise!Fail, Waiting, Rejected
  <1>4. ASSUME NEW r \in Requests, Execute(r) PROVE Promise!Execute(r) \/ UNCHANGED <<Seen, done>>
    BY <1>4, SeenUnchanged DEF Execute, Promise!Execute, Accounted, Seen, Waiting
  <1>5. ASSUME NEW r \in Requests, Answered(r)
        PROVE  Promise!Answer(r) \/ Promise!Fail({r}) \/ UNCHANGED <<Seen, done>>
    <2>1. CASE call[r] # "sent"
      BY <1>5, <2>1, SeenUnchanged DEF Answered
    <2>2. CASE call[r] = "sent" /\ mail[r] = "answer"
      BY <1>5, <2>2 DEF Answered, Promise!Answer, Accounted, Waiting
    <2>3. CASE call[r] = "sent" /\ mail[r] = "refusal"
      BY <1>5, <2>3 DEF Answered, Promise!Fail, Accounted, Waiting
    <2> QED BY <1>5, <2>1, <2>2, <2>3 DEF Answered
  <1>6. ASSUME NEW r \in Requests, TimesOut(r) PROVE Promise!Fail({r})
    BY <1>6 DEF TimesOut, Promise!Fail, Accounted, Waiting
  <1>7. ASSUME NEW r \in Requests, Ask(r) PROVE Promise!Ask(r)
    BY <1>7 DEF Ask, Promise!Ask, Accounted, Waiting
  <1>8. UNCHANGED vars => UNCHANGED requests
    BY DEF vars
  <1>9. \A p \in Procs : Rejected(p) \in SUBSET Requests
    BY DEF Rejected
  <1>10. \A r \in Requests : {r} \in SUBSET Requests
    OBVIOUS
  <1>11. ASSUME NEW p \in Procs, Exited(p) PROVE Promise!Next
    <2>1. Promise!Fail(Rejected(p)) /\ Rejected(p) \in SUBSET Requests
      BY <1>3, <1>9, <1>11
    <2>2. \E rs \in SUBSET Requests : Promise!Fail(rs)
      BY <2>1 DEF Promise!Fail
    <2> QED BY <2>2 DEF Promise!Next
  <1>12. ASSUME NEW r \in Requests, Execute(r) \/ Answered(r) \/ TimesOut(r) \/ Ask(r)
         PROVE  Promise!Next \/ UNCHANGED <<Seen, done>>
    BY <1>4, <1>5, <1>6, <1>7, <1>10, <1>12 DEF Promise!Next
  <1>13. CASE Internal
    BY <1>1, <1>13, InternalLeavesRequests
  <1> QED BY <1>1, <1>2, <1>8, <1>11, <1>12, <1>13, EveryStep

\* Requests settle once, an answer is for work done, and no work is done twice,
\* whatever dies, restarts, times out or answers late (workers.ts:158-196).
THEOREM RequestsSettleOnce == ASSUME SupervisionAssumption PROVE Spec => AnswersAreForWorkDone
  <1>1. Init => Promise!Init
    BY DEF Init, Promise!Init, Waiting
  <1>2. IInv /\ [Next]_vars => [Promise!Next]_(Promise!rvars)
    BY StepRefines DEF Promise!rvars, Seen
  <1> QED BY <1>1, <1>2, Invariant, PTL DEF Spec, AnswersAreForWorkDone, Promise!Spec

-----------------------------------------------------------------------------
(* The window that makes such requests. *)

IsCall(c) ==
  /\ c = [asked |-> c.asked, what |-> c.what, place |-> c.place, query |-> c.query, live |-> c.live, version |-> c.version]
  /\ c.asked \in 1..asks
  /\ c.version \in {Null} \cup 0..version

LiveTab(c) == c.live = TRUE /\ c.what \in Tabs

\* Of the loads of a workspace one at most has not been cancelled; it was asked
\* for after everything that is shown, and read nothing older.
InOrder ==
  /\ \A c, d \in calls : LiveTab(c) /\ LiveTab(d) => c = d
  /\ \A c \in calls : LiveTab(c) =>
       \A t \in Tabs : panes[t].asked < c.asked /\ (c.version # Null => panes[t].version <= c.version)

Shown ==
  /\ panes = [t \in Tabs |-> panes[t]]
  /\ \A t \in Tabs : panes[t].asked \in 0..asks /\ panes[t].version \in {Null} \cup 0..version

WindowInv ==
  /\ asks \in Nat /\ version \in Nat
  /\ \A c \in calls : IsCall(c)
  /\ Shown /\ InOrder

LEMMA WindowInvInit == ASSUME WindowInit PROVE WindowInv
  BY DEF WindowInit, WindowInv, IsCall, Shown, InOrder, Nothing, Null

\* Calls that stay, go, or are cancelled keep the order.
LEMMA FewerCalls ==
  ASSUME WindowInv, calls' \subseteq calls, asks' = asks, panes' = panes, version' \in Nat, version <= version'
  PROVE  WindowInv'
  <1>1. ASSUME NEW c \in calls' PROVE IsCall(c)'
    BY <1>1 DEF WindowInv, IsCall, Null
  <1>2. Shown'
    BY DEF WindowInv, Shown, Null
  <1>3. InOrder'
    BY DEF WindowInv, InOrder, LiveTab
  <1> QED BY <1>1, <1>2, <1>3 DEF WindowInv

LEMMA ReadKeeps == ASSUME WindowInv, NEW c \in calls, Read(c) PROVE WindowInv'
  <1> DEFINE d == [c EXCEPT !.version = version]
  <1>1. /\ calls' = (calls \ {c}) \cup {d} /\ asks' = asks /\ panes' = panes /\ version' = version
    BY DEF Read, view, data
  <1>2. IsCall(c) /\ version \in Nat /\ asks \in Nat
    BY DEF WindowInv
  <1>3. /\ d = [asked |-> c.asked, what |-> c.what, place |-> c.place, query |-> c.query, live |-> c.live, version |-> version]
        /\ d.asked = c.asked /\ d.what = c.what /\ d.live = c.live /\ d.version = version
    BY <1>2 DEF IsCall
  <1>4. d = [asked |-> d.asked, what |-> d.what, place |-> d.place, query |-> d.query, live |-> d.live, version |-> d.version]
    BY <1>3
  <1> HIDE DEF d
  <1>5. ASSUME NEW x \in calls' PROVE IsCall(x)'
    <2>1. CASE x = d
      BY <1>1, <1>2, <1>3, <1>4, <2>1 DEF IsCall
    <2>2. CASE x \in calls
      BY <1>1, <2>2 DEF WindowInv, IsCall
    <2> QED BY <1>1, <2>1, <2>2
  <1>6. Shown'
    BY <1>1 DEF WindowInv, Shown
  <1>7. InOrder'
    <2>1. LiveTab(d) <=> LiveTab(c)
      BY <1>3 DEF LiveTab
    <2>2. ASSUME NEW x \in calls', NEW y \in calls', LiveTab(x), LiveTab(y) PROVE x = y
      BY <1>1, <2>1, <2>2 DEF WindowInv, InOrder
    <2>3. ASSUME NEW x \in calls', LiveTab(x), NEW t \in Tabs
          PROVE  panes'[t].asked < x.asked /\ (x.version # Null => panes'[t].version <= x.version)
      <3>1. CASE x = d
        <4>1. panes[t].asked < c.asked /\ panes[t].version \in {Null} \cup 0..version
          BY <2>1, <2>3, <3>1 DEF WindowInv, InOrder, Shown
        <4> QED BY <1>1, <1>2, <1>3, <3>1, <4>1 DEF Null
      <3>2. CASE x \in calls
        BY <1>1, <2>3, <3>2 DEF WindowInv, InOrder
      <3> QED BY <1>1, <3>1, <3>2
    <2> QED BY <2>2, <2>3 DEF InOrder, LiveTab
  <1> QED BY <1>1, <1>2, <1>5, <1>6, <1>7 DEF WindowInv

LEMMA EffectsKeep == ASSUME WindowInv, RunEffects PROVE WindowInv'
  <1> DEFINE loads == WorkspaceDue /\ Ready
             opens == DrawerDue /\ ui.selected # Null
             ended(c) == IF c.what \in Tabs THEN WorkspaceDue ELSE c.what = "detail" /\ DrawerDue
             Kept(c) == IF ended(c) THEN [c EXCEPT !.live = FALSE] ELSE c
             load == Call(asks + 1, ui.tab, Null, ui.query)
             inDetail == Call(asks + 2, "detail", ui.selected, ui.query)
  <1>1. /\ calls' = {Kept(c) : c \in calls} \cup (IF loads THEN {load} ELSE {}) \cup (IF opens THEN {inDetail} ELSE {})
        /\ asks' \in Nat /\ asks <= asks' /\ (loads => asks + 1 <= asks') /\ (opens => asks + 2 <= asks')
        /\ panes' = panes /\ version' = version
    BY DEF RunEffects, view, data, WindowInv
  <1>2. asks \in Nat /\ version \in Nat
    BY DEF WindowInv
  <1>3. ASSUME NEW c \in calls
        PROVE  /\ Kept(c).asked = c.asked /\ Kept(c).version = c.version /\ Kept(c).what = c.what
               /\ LiveTab(Kept(c)) => Kept(c) = c /\ ~WorkspaceDue
               /\ Kept(c) = [asked |-> Kept(c).asked, what |-> Kept(c).what, place |-> Kept(c).place,
                             query |-> Kept(c).query, live |-> Kept(c).live, version |-> Kept(c).version]
    <2>1. IsCall(c)
      BY DEF WindowInv
    <2>2. CASE ended(c)
      <3>1. Kept(c) = [c EXCEPT !.live = FALSE]
        BY <2>2
      <3>2. Kept(c) = [asked |-> c.asked, what |-> c.what, place |-> c.place, query |-> c.query, live |-> FALSE, version |-> c.version]
        BY <2>1, <3>1 DEF IsCall
      <3> HIDE DEF Kept
      <3> QED BY <3>2 DEF LiveTab
    <2>3. CASE ~ended(c)
      <3>1. Kept(c) = c
        BY <2>3
      <3>2. LiveTab(c) => ~WorkspaceDue
        BY <2>3 DEF LiveTab
      <3> HIDE DEF Kept, ended
      <3> QED BY <2>1, <3>1, <3>2 DEF IsCall
    <2> QED BY <2>2, <2>3
  <1>4. /\ load = [asked |-> asks + 1, what |-> ui.tab, place |-> Null, query |-> ui.query, live |-> TRUE, version |-> Null]
        /\ inDetail = [asked |-> asks + 2, what |-> "detail", place |-> ui.selected, query |-> ui.query, live |-> TRUE, version |-> Null]
        /\ ~LiveTab(inDetail)
    BY DEF Call, LiveTab, Tabs
  <1> HIDE DEF Kept, load, inDetail
  <1>5. ASSUME NEW x \in calls'
        PROVE  \/ \E c \in calls : x = Kept(c)
               \/ loads /\ x = load
               \/ opens /\ x = inDetail
    BY <1>1
  <1> HIDE DEF loads, opens
  <1>6. ASSUME NEW x \in calls' PROVE IsCall(x)'
    <2>1. ASSUME NEW c \in calls, x = Kept(c) PROVE IsCall(x)'
      <3>1. c.asked \in 1..asks /\ c.version \in {Null} \cup 0..version
        BY DEF WindowInv, IsCall
      <3> QED BY <1>1, <1>2, <1>3, <2>1, <3>1 DEF IsCall
    <2>2. ASSUME loads, x = load PROVE IsCall(x)'
      BY <1>1, <1>2, <1>4, <2>2 DEF IsCall
    <2>3. ASSUME opens, x = inDetail PROVE IsCall(x)'
      BY <1>1, <1>2, <1>4, <2>3 DEF IsCall
    <2> QED BY <1>5, <2>1, <2>2, <2>3
  <1>7. Shown'
    BY <1>1, <1>2 DEF WindowInv, Shown
  <1>8. ASSUME NEW x \in calls', LiveTab(x)
        PROVE  (loads /\ x = load) \/ (x \in calls /\ ~loads)
    BY <1>3, <1>4, <1>5, <1>8 DEF loads
  <1>9. InOrder'
    <2>1. ASSUME NEW x \in calls', NEW y \in calls', LiveTab(x), LiveTab(y) PROVE x = y
      BY <1>8, <2>1 DEF WindowInv, InOrder
    <2>2. ASSUME NEW x \in calls', LiveTab(x), NEW t \in Tabs
          PROVE  panes'[t].asked < x.asked /\ (x.version # Null => panes'[t].version <= x.version)
      <3>1. CASE x = load
        <4>1. panes[t].asked \in 0..asks
          BY DEF WindowInv, Shown
        <4> QED BY <1>1, <1>2, <1>4, <3>1, <4>1
      <3>2. CASE x \in calls
        BY <1>1, <2>2, <3>2 DEF WindowInv, InOrder
      <3> QED BY <1>8, <2>2, <3>1, <3>2
    <2> QED BY <2>1, <2>2 DEF InOrder, LiveTab
  <1> QED BY <1>1, <1>2, <1>6, <1>7, <1>9 DEF WindowInv

LEMMA ReloadKeeps == ASSUME WindowInv, ReloadDetail PROVE WindowInv'
  <1> DEFINE new == Call(asks + 1, "reload", op.place, op.query)
  <1>1. /\ panes' = panes /\ version' = version
        /\ (calls' = calls /\ asks' = asks) \/ (calls' = calls \cup {new} /\ asks' = asks + 1)
    BY DEF ReloadDetail, effects, data
  <1>2. new = [asked |-> asks + 1, what |-> "reload", place |-> op.place, query |-> op.query, live |-> TRUE, version |-> Null]
    BY DEF Call
  <1>3. ~LiveTab(new) /\ new.asked = asks + 1 /\ new.version = Null
    BY <1>2 DEF LiveTab, Tabs
  <1>4. asks \in Nat /\ version \in Nat
    BY DEF WindowInv
  <1>5. new = [asked |-> new.asked, what |-> new.what, place |-> new.place, query |-> new.query, live |-> new.live, version |-> new.version]
    BY <1>2
  <1> HIDE DEF new
  <1>6. ASSUME NEW x \in calls' PROVE IsCall(x)'
    <2>1. CASE x = new /\ x \notin calls
      BY <1>1, <1>3, <1>4, <1>5, <2>1 DEF IsCall
    <2>2. CASE x \in calls
      <3>1. IsCall(x)
        BY <2>2 DEF WindowInv
      <3> QED BY <1>1, <1>4, <3>1 DEF IsCall
    <2> QED BY <1>1, <2>1, <2>2
  <1>7. Shown'
    BY <1>1, <1>4 DEF WindowInv, Shown
  <1>8. InOrder'
    BY <1>1, <1>3 DEF WindowInv, InOrder, LiveTab
  <1> QED BY <1>1, <1>4, <1>6, <1>7, <1>8 DEF WindowInv

\* The one step that changes what a workspace shows.
LEMMA LandsKeeps ==
  ASSUME WindowInv, NEW c \in calls, WorkspaceLands(c)
  PROVE  /\ WindowInv'
         /\ \A t \in Tabs : panes'[t] # panes[t] =>
              panes'[t].asked > panes[t].asked /\ panes'[t].version >= panes[t].version
  <1>1. /\ calls' = calls \ {c} /\ asks' = asks /\ version' = version
        /\ panes' = [panes EXCEPT ![c.what] = Answer(c)]
        /\ LiveTab(c) /\ c.version # Null
    <2>1. c.live
      BY DEF WorkspaceLands, Lands
    <2> QED BY <2>1 DEF WorkspaceLands, Lands, Taken, data, LiveTab
  <1>2. Answer(c).asked = c.asked /\ Answer(c).version = c.version
    BY DEF Answer
  <1>3. \A t \in Tabs : panes'[t] = IF t = c.what THEN Answer(c) ELSE panes[t]
    BY <1>1 DEF WindowInv, Shown
  <1>4. panes' = [t \in Tabs |-> panes'[t]]
    BY <1>1 DEF WindowInv, Shown
  <1>5. IsCall(c) /\ asks \in Nat /\ version \in Nat
    BY DEF WindowInv
  <1>6. Shown'
    BY <1>1, <1>2, <1>3, <1>4, <1>5 DEF WindowInv, Shown, IsCall
  <1>7. \A x \in calls' : ~LiveTab(x)
    BY <1>1 DEF WindowInv, InOrder
  <1>8. InOrder'
    BY <1>7 DEF InOrder, LiveTab
  <1>9. \A x \in calls' : IsCall(x)'
    BY <1>1 DEF WindowInv, IsCall
  <1>10. WindowInv'
    BY <1>1, <1>5, <1>6, <1>8, <1>9 DEF WindowInv
  <1>11. ASSUME NEW t \in Tabs, panes'[t] # panes[t]
         PROVE  panes'[t].asked > panes[t].asked /\ panes'[t].version >= panes[t].version
    <2>1. panes'[t].asked = c.asked /\ panes'[t].version = c.version
      BY <1>2, <1>3, <1>11
    <2>2. panes[t].asked < c.asked /\ panes[t].version <= c.version
      BY <1>1 DEF WindowInv, InOrder
    <2>3. /\ panes[t].asked \in Int /\ c.asked \in Int /\ panes[t].version \in Int /\ c.version \in Int
      BY <1>5 DEF WindowInv, Shown, IsCall, Null
    <2> QED BY <2>1, <2>2, <2>3
  <1> QED BY <1>10, <1>11

LEMMA WindowInvNext ==
  ASSUME WindowInv, [WindowNext]_windowVars
  PROVE  /\ WindowInv'
         /\ \A t \in Tabs : panes'[t] # panes[t] =>
              panes'[t].asked > panes[t].asked /\ panes'[t].version >= panes[t].version
  <1> DEFINE Quiet == calls' \subseteq calls /\ asks' = asks /\ panes' = panes /\ version' \in Nat /\ version <= version'
  <1>0. version \in Nat /\ version + 1 \in Nat /\ version <= version + 1 /\ version <= version
    BY DEF WindowInv
  <1>1. ASSUME Quiet PROVE WindowInv' /\ panes' = panes
    BY <1>1, FewerCalls
  <1>2. ASSUME Bootstrap \/ TryAgain \/ CompleteOnboarding \/ Dispatch PROVE Quiet
    BY <1>0, <1>2 DEF Bootstrap, TryAgain, CompleteOnboarding, Dispatch, data
  <1>3. ASSUME DatabaseChanges \/ DataChanged PROVE Quiet
    BY <1>0, <1>3 DEF DatabaseChanges, DataChanged
  <1>4. ASSUME NEW kind, Begin(kind) PROVE Quiet
    BY <1>0, <1>4 DEF Begin, data
  <1>5. ASSUME OperationAnswered \/ OperationBootstraps PROVE Quiet
    BY <1>0, <1>5 DEF OperationAnswered, OperationBootstraps, data
  <1>6. ASSUME NEW c \in calls, DetailLands(c) \/ Dropped(c) \/ LoadRejected(c) \/ ReloadLands(c) \/ ReloadRejected(c) PROVE Quiet
    BY <1>0, <1>6 DEF DetailLands, Dropped, LoadRejected, ReloadLands, ReloadRejected, Taken, data
  <1>7. ASSUME UNCHANGED windowVars PROVE Quiet
    BY <1>0, <1>7 DEF windowVars, data
  <1> HIDE DEF Quiet
  <1>8. ASSUME RunEffects \/ ReloadDetail \/ \E c \in calls : Read(c) PROVE WindowInv' /\ panes' = panes
    <2>1. panes' = panes
      BY <1>8 DEF RunEffects, ReloadDetail, Read
    <2> QED BY <1>8, <2>1, EffectsKeep, ReloadKeeps, ReadKeeps
  <1>9. \/ Quiet \/ RunEffects \/ ReloadDetail \/ \E c \in calls : Read(c) \/ WorkspaceLands(c)
    BY <1>2, <1>3, <1>4, <1>5, <1>6, <1>7 DEF WindowNext
  <1>10. ASSUME NEW c \in calls, WorkspaceLands(c)
         PROVE  /\ WindowInv'
                /\ \A t \in Tabs : panes'[t] # panes[t] =>
                     panes'[t].asked > panes[t].asked /\ panes'[t].version >= panes[t].version
    BY <1>10, LandsKeeps
  <1>11. CASE WindowInv' /\ panes' = panes
    BY <1>11
  <1> QED BY <1>1, <1>8, <1>9, <1>10, <1>11

\* Whatever tabs and queries change and answers are late, fail or overtake each
\* other: a workspace never goes back to the answer of an older question, nor to
\* older data (App.tsx:113-146).
THEOREM WorkspaceNeverGoesBack == WindowSpec => NeverGoesBack
  <1>1. WindowInit => WindowInv
    BY WindowInvInit
  <1>2. WindowInv /\ [WindowNext]_windowVars => WindowInv'
    BY WindowInvNext
  <1>3. WindowInv /\ [WindowNext]_windowVars =>
          [\A t \in Tabs : panes'[t] # panes[t] /\ panes[t] # Nothing =>
             panes'[t].asked > panes[t].asked /\ panes'[t].version >= panes[t].version]_windowVars
    BY WindowInvNext
  <1> QED BY <1>1, <1>2, <1>3, PTL DEF WindowSpec, NeverGoesBack
=============================================================================
