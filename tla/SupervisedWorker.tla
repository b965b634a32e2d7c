-------------------------- MODULE SupervisedWorker --------------------------
(***************************************************************************)
(* The supervision of a worker process (src/main/workers.ts): spawning,    *)
(* requests correlated with their answers, deadlines, a process that exits *)
(* at any moment, the bounded restarts and the stop with its kill.         *)
(*                                                                         *)
(* A process is a number: the n-th one forked.  A request is posted at     *)
(* most once, so its message and its answer are one field, mail[r].        *)
(***************************************************************************)
EXTENDS Naturals, FiniteSets

CONSTANTS Requests,     \* the requests callers may make
          MaxRestarts,  \* options.maxRestarts
          MaxProcs      \* bound: processes forked in a behaviour

ASSUME SupervisionAssumption == MaxRestarts \in Nat /\ MaxProcs \in Nat \ {0}

Procs == 1..MaxProcs
NoProc == 0

VARIABLES
  child,      \* this.child: the process that requests are posted to
  starting,   \* this.starting: the process that is being spawned
  proc,       \* what the operating system knows of each process
  opened,     \* the processes that were told to open or load their state
  restarts,   \* this.restarts
  backoffs,   \* restart() calls that sleep
  reopening,  \* onRestarted calls that have not posted their request yet
  stopping,   \* "no", then "asked" while stop() awaits, then "stopped"
  call,       \* each request as its caller sees it
  to,         \* the process a request was posted to
  mail,       \* the message of a request, or its answer, on its way
  done        \* how often the worker did its work

supervisor == <<child, starting, restarts, backoffs, reopening, stopping>>
requests == <<call, to, mail, done>>
vars == <<supervisor, proc, opened, requests>>

TypeOK ==
  /\ child \in {NoProc} \cup Procs /\ starting \in {NoProc} \cup Procs
  /\ proc \in [Procs -> {"unborn", "spawning", "alive", "dead", "gone"}]
  /\ opened \subseteq Procs
  /\ restarts \in 0..MaxRestarts /\ backoffs \in 0..MaxRestarts
  /\ reopening \in 0..(MaxRestarts + 1)
  /\ stopping \in {"no", "asked", "stopped"}
  /\ call \in [Requests -> {"idle", "starting", "sent", "answered", "failed"}]
  /\ to \in [Requests -> {NoProc} \cup Procs]
  /\ mail \in [Requests -> {"none", "inbox", "answer", "refusal"}]
  /\ done \in [Requests -> Nat]

\* startDatabase and startCollector: the process is forked, and opened once it runs.
Init ==
  /\ child = NoProc /\ starting = 1
  /\ proc = [p \in Procs |-> IF p = 1 THEN "spawning" ELSE "unborn"]
  /\ opened = {} /\ restarts = 0 /\ backoffs = 0 /\ reopening = 1
  /\ stopping = "no"
  /\ call = [r \in Requests |-> "idle"]
  /\ to = [r \in Requests |-> NoProc]
  /\ mail = [r \in Requests |-> "none"]
  /\ done = [r \in Requests |-> 0]

\* start(): nothing when a child runs, the same promise while one is spawning.
\* Mutant of Fork: the spawn in progress is not shared.
ForkAgain ==
  IF child # NoProc THEN UNCHANGED <<starting, proc>>
  ELSE \E p \in Procs :
         /\ proc[p] = "unborn" /\ \A q \in 1..(p - 1) : proc[q] # "unborn"
         /\ starting' = p
         /\ proc' = [proc EXCEPT ![p] = "spawning"]
Fork ==
  IF child # NoProc \/ starting # NoProc THEN UNCHANGED <<starting, proc>>
  ELSE \E p \in Procs :
         /\ proc[p] = "unborn" /\ \A q \in 1..(p - 1) : proc[q] # "unborn"
         /\ starting' = p
         /\ proc' = [proc EXCEPT ![p] = "spawning"]

\* request(): posted to the child, or kept until start() settles.
Ask(r) ==
  /\ call[r] = "idle"
  /\ call' = [call EXCEPT ![r] = IF child = NoProc THEN "starting" ELSE "sent"]
  /\ to' = [to EXCEPT ![r] = child]
  /\ mail' = [mail EXCEPT ![r] = IF child = NoProc THEN "none" ELSE "inbox"]
  /\ Fork
  /\ UNCHANGED <<child, restarts, backoffs, reopening, stopping, opened, done>>

\* The "spawn" event: the child is known and everyone who awaited start() goes on.
Spawned(p) ==
  /\ proc[p] = "spawning"
  /\ child' = p /\ starting' = NoProc
  /\ proc' = [proc EXCEPT ![p] = "alive"]
  /\ LET kept == {r \in Requests : call[r] = "starting"} IN
       /\ call' = [r \in Requests |-> IF r \in kept THEN "sent" ELSE call[r]]
       /\ to' = [r \in Requests |-> IF r \in kept THEN p ELSE to[r]]
       /\ mail' = [r \in Requests |-> IF r \in kept THEN "inbox" ELSE mail[r]]
  /\ UNCHANGED <<restarts, backoffs, reopening, stopping, opened, done>>

\* The operating system ends a process; messages on their way to it are lost.
Dies(p) ==
  /\ proc[p] \in {"spawning", "alive"}
  /\ proc' = [proc EXCEPT ![p] = "dead"]
  /\ UNCHANGED <<supervisor, opened, requests>>

\* restart(): gives up after MaxRestarts, else sleeps the backoff.
\* Mutant of Restart: only a process that had spawned is replaced.
RestartSpawned(p) ==
  /\ restarts' = IF stopping = "no" /\ restarts < MaxRestarts /\ child = p THEN restarts + 1 ELSE restarts
  /\ backoffs' = IF restarts' > restarts THEN backoffs + 1 ELSE backoffs
Restart(p) ==
  /\ restarts' = IF stopping = "no" /\ restarts < MaxRestarts THEN restarts + 1 ELSE restarts
  /\ backoffs' = IF restarts' > restarts THEN backoffs + 1 ELSE backoffs

Rejected(p) == {r \in Requests : call[r] = "sent" \/ (call[r] = "starting" /\ starting = p)}

\* The "exit" event, whichever process it is of.  The onRestarted calls in
\* progress fail with the rest, unless they have not come to their request yet.
Exited(p) ==
  /\ proc[p] = "dead"
  /\ proc' = [proc EXCEPT ![p] = "gone"]
  /\ child' = NoProc
  /\ starting' = IF starting = p THEN NoProc ELSE starting
  /\ LET lost == Rejected(p) IN
       /\ call' = [r \in Requests |-> IF r \in lost THEN "failed" ELSE call[r]]
       /\ mail' = [r \in Requests |-> IF to[r] = p THEN "none" ELSE mail[r]]
  /\ Restart(p)
  /\ reopening' \in 0..reopening
  /\ UNCHANGED <<stopping, opened, to, done>>

\* Mutant of BackoffEnds: nothing is left to do when a child runs already.
BackoffEndsRunning ==
  /\ backoffs > 0
  /\ backoffs' = backoffs - 1
  /\ IF stopping # "no" \/ child # NoProc THEN UNCHANGED <<starting, proc, reopening>>
                        ELSE Fork /\ reopening' = reopening + 1
  /\ UNCHANGED <<child, restarts, stopping, opened, requests>>
\* The end of the backoff: start(), then onRestarted unless the user quits.
BackoffEnds ==
  /\ backoffs > 0
  /\ backoffs' = backoffs - 1
  /\ IF stopping # "no" THEN UNCHANGED <<starting, proc, reopening>>
                        ELSE Fork /\ reopening' = reopening + 1
  /\ UNCHANGED <<child, restarts, stopping, opened, requests>>

\* The request of onRestarted reaches whatever child there is, or starts one.
OnRestarted ==
  /\ reopening > 0
  /\ IF child = NoProc
       THEN starting = NoProc /\ Fork /\ UNCHANGED <<reopening, opened>>
       ELSE /\ reopening' = reopening - 1
            /\ opened' = IF proc[child] = "alive" THEN opened \cup {child} ELSE opened
            /\ UNCHANGED <<starting, proc>>
  /\ UNCHANGED <<child, restarts, backoffs, stopping, requests>>

\* The worker's dispatch: an operation before "open" is refused.
\* Mutant of Execute: an answer is sent although the work was refused.
ExecuteUnopened(r) ==
  /\ mail[r] = "inbox" /\ proc[to[r]] = "alive"
  /\ mail' = [mail EXCEPT ![r] = "answer"]
  /\ done' = IF to[r] \in opened THEN [done EXCEPT ![r] = @ + 1] ELSE done
  /\ UNCHANGED <<supervisor, proc, opened, call, to>>
Execute(r) ==
  /\ mail[r] = "inbox" /\ proc[to[r]] = "alive"
  /\ IF to[r] \in opened
       THEN mail' = [mail EXCEPT ![r] = "answer"] /\ done' = [done EXCEPT ![r] = @ + 1]
       ELSE mail' = [mail EXCEPT ![r] = "refusal"] /\ UNCHANGED done
  /\ UNCHANGED <<supervisor, proc, opened, call, to>>

\* onMessage: an answer nobody waits for any more is dropped.
Answered(r) ==
  /\ mail[r] \in {"answer", "refusal"}
  /\ mail' = [mail EXCEPT ![r] = "none"]
  /\ call' = IF call[r] # "sent" THEN call
             ELSE [call EXCEPT ![r] = IF mail[r] = "answer" THEN "answered" ELSE "failed"]
  /\ UNCHANGED <<supervisor, proc, opened, to, done>>

\* The deadline of a request; its message stays with the worker.
TimesOut(r) ==
  /\ call[r] = "sent"
  /\ call' = [call EXCEPT ![r] = "failed"]
  /\ UNCHANGED <<supervisor, proc, opened, to, mail, done>>

\* stop() with no child returns at once, a process that is being spawned included.
Stop ==
  /\ stopping = "no"
  /\ stopping' = IF child = NoProc THEN "stopped" ELSE "asked"
  /\ UNCHANGED <<child, starting, restarts, backoffs, reopening, proc, opened, requests>>

\* The shutdown request was answered, failed or ran out of time: a child that
\* is still there is killed, and forgotten before its exit event.
Kill ==
  /\ stopping = "asked"
  /\ stopping' = "stopped"
  /\ child' = NoProc
  /\ proc' = IF child # NoProc /\ proc[child] = "alive" THEN [proc EXCEPT ![child] = "dead"] ELSE proc
  /\ UNCHANGED <<starting, restarts, backoffs, reopening, opened, requests>>

Supervision ==
  \/ \E p \in Procs : Spawned(p) \/ Dies(p) \/ Exited(p)
  \/ \E r \in Requests : Execute(r) \/ Answered(r) \/ TimesOut(r)
  \/ BackoffEnds \/ OnRestarted \/ Stop \/ Kill

Next == Supervision \/ \E r \in Requests : Ask(r)

Spec == Init /\ [][Next]_vars

\* Timers fire, the operating system reports each spawn and each exit, and
\* promise callbacks run.  Nothing makes a worker answer or die.
Settles ==
  /\ \A p \in Procs : WF_vars(Spawned(p)) /\ WF_vars(Exited(p))
  /\ \A r \in Requests : WF_vars(TimesOut(r))
  /\ WF_vars(BackoffEnds) /\ WF_vars(OnRestarted) /\ WF_vars(Kill)

-----------------------------------------------------------------------------
Waiting(r) == call[r] \in {"starting", "sent"}

\* What callers see is a RequestReply service.
Promise == INSTANCE RequestReply
  WITH outcome <- [r \in Requests |-> IF Waiting(r) THEN "waiting" ELSE call[r]]

\* Over every crash, restart, timeout and late answer, requests settle once,
\* an answer is for work done, and no work is done twice (workers.ts:158-196).
AnswersAreForWorkDone == Promise!Spec

\* Until stop() is called there is never a second process: restart(), request()
\* and start() share one spawn (workers.ts:69-71), and an exit precedes a fork.
OneProcess == stopping = "no" => Cardinality({p \in Procs : proc[p] \in {"spawning", "alive"}}) <= 1

GaveUp == Cardinality({p \in Procs : proc[p] = "gone"}) > MaxRestarts

\* A worker that dies comes back until its restarts are used up (workers.ts:124-155).
WorkerComesBack == (child = NoProc) ~> (child # NoProc \/ stopping # "no" \/ GaveUp)

\* A child that a request started during the backoff is opened all the same,
\* when the backoff ends (workers.ts:141-147, 175).
EveryChildIsOpened ==
  \A p \in Procs :
    (child = p) ~> (p \in opened \/ child # p \/ proc[p] # "alive" \/ stopping # "no" \/ GaveUp)
=============================================================================
