---------------------------- MODULE HistoryStore ----------------------------
(***************************************************************************)
(* The history file and the worker process that owns it                    *)
(* (src/database/worker.ts, backup.ts, src/workers/database.ts): sessions  *)
(* and their heartbeats, the gap an unclean exit leaves, ingestion, online *)
(* backups, and a restore that swaps files under an app that goes on, with *)
(* an end of the process between any two steps.                            *)
(*                                                                         *)
(* A database is what it holds: the instants read, the gaps, the sessions  *)
(* its schema and the setting collection.running.  One instant is a        *)
(* heartbeat period.  Each process may be another build.  Files            *)
(* behave as on Windows, which the installer is built for: a database that *)
(* a connection holds open is neither renamed nor replaced.                *)
(***************************************************************************)
EXTENDS Integers, FiniteSets, Sequences, Migrator

CONSTANTS Backing,      \* bound: backup requests, each made once
          Restoring,    \* bound: restore requests, each made once
          MaxTime,      \* bound: instants
          MaxSessions,  \* bound: processes, each with the id of its session
          Switched,     \* the values the user gives the setting
          Builds,       \* the builds that run one after the other, each the migrations it knows
          Cutoffs,      \* the instants before which the user deletes
          NoFile        \* what a name without a file holds

Requests == Backing \cup Restoring
Instants == 0..MaxTime
Empty == [schema |-> <<>>, obs |-> {}, gaps |-> {}, sessions |-> <<>>, wanted |-> FALSE]
Request(pc) == [pc |-> pc, candidate |-> NoFile, counted |-> 0, copy |-> NoFile, aside |-> NoFile, connected |-> FALSE]
NoRequest == Request("none")
Never == -1

VARIABLES
  now,
  live,       \* the file under the database's name
  preserved,  \* the files a restore put aside
  backups,    \* the files under a backup's final name
  partial,    \* the requests whose .partial file exists
  session,    \* the process that runs or ran last
  alive,      \* whether it runs
  build,      \* the migrations each process knows
  ready,      \* its first open() said so, else it refuses every request
  upgrading,  \* open() waits for the backup before a migration
  open,       \* this.driver is set
  leaked,     \* an earlier connection was never closed
  beating,    \* the heartbeat timer is set
  maintenance,  \* this.restoreOrMigrationActive
  requests,   \* how far each request is
  kept,       \* history: the instants read, but for those the user deleted
  watched,    \* history: the last instant at which a process lived, Never if it did not collect then
  missed,     \* history: the instants no process collected after that one died
  reopened,   \* history: a file was opened that is not, or not again, this session's
  skipped,    \* history: a migration found sessions that had ended uncleanly
  lost,       \* history: instants of sessions marked as crashed without their gap
  stranded    \* history: a failing file left this process without a database

files == <<live, preserved, backups, partial>>
worker == <<session, alive, build, ready, upgrading, open, leaked, beating, maintenance>>
failures == <<lost, stranded>>
past == <<kept, watched, missed, reopened, skipped, failures>>
hvars == <<now, files, worker, requests, past>>

Gap == [from : Instants, to : Instants]
Row == [state : {"running", "stopped", "crashed"}, beat : Instants, collecting : BOOLEAN]
Database == [schema : Seq(STRING), obs : SUBSET Instants, gaps : SUBSET Gap,
             sessions : UNION {[ids -> Row] : ids \in SUBSET (1..MaxSessions)}, wanted : BOOLEAN]

ASSUME StoreAssumption ==
  /\ MaxTime \in Nat /\ MaxSessions \in Nat \ {0, 1}
  /\ Backing \cap Restoring = {}
  /\ Switched \subseteq BOOLEAN
  /\ \A known \in Builds : known \in [1..MaxSessions -> Seq(STRING) \ {<<>>}]
  /\ NoFile \notin Database

At(r, pc) == requests[r].pc = pc

-----------------------------------------------------------------------------
(* Opening. *)

Unclean(f, s) == {x \in DOMAIN f.sessions \ {s} : f.sessions[x].state = "running"}

Crashed(f, s) == [x \in DOMAIN f.sessions |->
  IF x \in Unclean(f, s) THEN [f.sessions[x] EXCEPT !.state = "crashed"] ELSE f.sessions[x]]

\* recordRecoveryGaps(), as far as it comes: the sessions that never recorded an end
\* are marked in one statement, then the gap of each is written, here of those in done.
\* Mutant of Recovered: every session that did not stop leaves its gap again.
RecoveredAgain(f, s, done) ==
  [f EXCEPT !.gaps = @ \cup {[from |-> f.sessions[x].beat, to |-> now] :
                             x \in {y \in DOMAIN f.sessions \ {s} : f.sessions[y].state # "stopped" /\ f.sessions[y].collecting}}]
\* Another one: the gap begins with the session that records it.
RecoveredLate(f, s, done) ==
  [f EXCEPT
    !.gaps = @ \cup {[from |-> now, to |-> now] : x \in {y \in done : f.sessions[y].collecting}},
    !.sessions = Crashed(f, s)]
Recovered(f, s, done) ==
  [f EXCEPT
    !.gaps = @ \cup {[from |-> f.sessions[x].beat, to |-> now] : x \in {y \in done : f.sessions[y].collecting}},
    !.sessions = Crashed(f, s)]

\* The instants whose gap is then written by nobody.
Unrecorded(f, s, done) ==
  {t \in Instants : t <= now /\ \E x \in Unclean(f, s) \ done : f.sessions[x].collecting /\ f.sessions[x].beat < t}

Started(f, s) ==
  [f EXCEPT !.sessions = [x \in DOMAIN @ \cup {s} |->
     IF x = s THEN [state |-> "running", beat |-> now, collecting |-> FALSE] ELSE @[x]]]

\* The end of open().  The session's own row makes it fail half-way, before a
\* heartbeat is started; so does a migration that is refused or fails.
FinishOpen(f, outcome, s) ==
  LET file == [f EXCEPT !.schema = outcome.schema]
      starts == outcome.ok /\ s \notin DOMAIN file.sessions
  IN  /\ live' = IF starts THEN Started(file, s) ELSE file
      /\ beating' = (beating \/ starts)
      /\ reopened' = (reopened \/ (ready /\ ~starts))
      /\ ready' = (ready \/ outcome.ok)

\* open() of the file found under the name, an empty one if there is none, up to
\* the backup made before a migration; or up to a statement that fails, or the end
\* of the process, among the writes of the recovery or around them.
Opened(f) == IF f = NoFile THEN Empty ELSE f
OpenFile(f, s) ==
  LET found == Opened(f)
      old == found.schema # <<>> /\ Len(found.schema) < Len(build[s])
      current == Len(found.schema) = Len(build[s])
  IN  /\ open' = TRUE /\ leaked' = (leaked \/ open) /\ UNCHANGED stranded
      /\ \/ /\ upgrading' = old /\ UNCHANGED lost
            /\ IF old THEN live' = found /\ UNCHANGED <<beating, reopened, ready>>
               ELSE \E o \in Migrate(found.schema, build[s]) :
                      FinishOpen(IF current THEN Recovered(found, s, Unclean(found, s)) ELSE found, o, s)
         \/ /\ upgrading' = FALSE /\ reopened' = (reopened \/ ready) /\ UNCHANGED <<beating, ready>>
            /\ \/ live' = found /\ UNCHANGED lost
               \/ /\ current
                  /\ \E done \in SUBSET Unclean(found, s) :
                       live' = Recovered(found, s, done) /\ lost' = lost \cup Unrecorded(found, s, done)

\* No connection: what was open stays open.
OpenFails ==
  /\ stranded' = (stranded \/ ~open)
  /\ UNCHANGED <<live, open, leaked, upgrading, beating, reopened, ready, lost>>

\* A session whose first heartbeat has just been: with every request still to
\* come and a backup of the session before, or with no request and one more process.
Beats(s, b) == [Empty EXCEPT !.schema = build[s], !.wanted = b, !.sessions = [x \in {s} |-> [state |-> "running", beat |-> 0, collecting |-> b]]]
HInit ==
  /\ now = 0 /\ build \in Builds
  /\ \E b \in BOOLEAN, first \in {1, 2} :
       /\ first = 2 => b
       /\ live = Beats(first, b)
       /\ backups = {Beats(s, b) : s \in 1..(first - 1)}
       /\ watched = (IF b THEN 0 ELSE Never)
       /\ session = first
       /\ requests = [r \in Requests |-> IF first = 1 THEN Request("answered") ELSE NoRequest]
  /\ preserved = {} /\ partial = {}
  /\ alive = TRUE /\ ready = TRUE /\ upgrading = FALSE /\ open = TRUE /\ leaked = FALSE /\ beating = TRUE /\ maintenance = FALSE
  /\ kept = {} /\ missed = {} /\ reopened = FALSE /\ skipped = FALSE
  /\ lost = {} /\ stranded = FALSE

\* A process starts, opens the file and prunes what an interrupted backup left.
Launch ==
  /\ ~alive /\ session < MaxSessions
  /\ session' = session + 1 /\ alive' = TRUE
  /\ OpenFile(live, session + 1) \/ OpenFails
  /\ missed' = IF live = NoFile THEN {}
               ELSE missed \cup {t \in Instants : watched # Never /\ watched < t /\ t < now}
  /\ watched' = Never
  /\ maintenance' = upgrading'
  /\ partial' = {}
  /\ UNCHANGED <<now, preserved, backups, build, requests, kept, skipped>>

\* The backup before a migration fails, or is made and the migrations run.
\* Whatever comes of them, the flag that refuses collected runs is reset.
Upgrade ==
  /\ upgrading /\ upgrading' = FALSE /\ maintenance' = FALSE
  /\ \/ UNCHANGED <<live, backups, beating, ready>> /\ reopened' = (reopened \/ ready)
     \/ /\ backups' = backups \cup {live}
        /\ \E o \in Migrate(live.schema, build[session]) : FinishOpen(live, o, session)
  /\ skipped' = (skipped \/ \E x \in Unclean(live, session) : live.sessions[x].collecting)
  /\ requests' = [r \in Requests |-> IF At(r, "upgrading") THEN Request("answered") ELSE requests[r]]
  /\ UNCHANGED <<now, preserved, partial, session, alive, build, open, leaked, kept, watched, missed, failures>>

\* The process ends: on a shutdown it marks its session first, if it can.
Ends ==
  /\ alive' = FALSE /\ ready' = FALSE /\ upgrading' = FALSE /\ open' = FALSE /\ leaked' = FALSE /\ beating' = FALSE /\ maintenance' = FALSE
  /\ requests' = [r \in Requests |-> IF At(r, "none") THEN requests[r] ELSE Request("answered")]
  /\ stranded' = FALSE
  /\ UNCHANGED <<now, preserved, backups, partial, session, build, kept, missed, reopened, skipped, lost>>
Crash == alive /\ Ends /\ UNCHANGED <<live, watched>>
Shutdown ==
  /\ alive /\ Ends /\ watched' = Never
  /\ live' = IF open /\ session \in DOMAIN live.sessions
               THEN [live EXCEPT !.sessions[session].state = "stopped"] ELSE live

-----------------------------------------------------------------------------
(* Collection. *)

\* What dispatch() and requireDriver() let in.
Serving == alive /\ ready /\ open

Beat(f) == [f EXCEPT !.sessions[session].beat = now + 1, !.sessions[session].collecting = f.wanted]

Tick ==
  /\ now < MaxTime /\ now' = now + 1
  /\ live' = IF beating /\ live # NoFile /\ session \in DOMAIN live.sessions THEN Beat(live) ELSE live
  /\ watched' = IF ~alive THEN watched
                ELSE IF Serving /\ live.wanted /\ ~maintenance THEN now + 1 ELSE Never
  /\ UNCHANGED <<preserved, backups, partial, worker, requests, kept, missed, reopened, skipped, failures>>

\* ingestRun(): refused while a restore is in progress.
\* Mutant of Ingest: it is not refused.
IngestAnyway ==
  /\ Serving /\ live.wanted
  /\ live' = [live EXCEPT !.obs = @ \cup {now}]
  /\ kept' = kept \cup {now}
  /\ UNCHANGED <<now, preserved, backups, partial, worker, requests, watched, missed, reopened, skipped,
                 failures>>
Ingest ==
  /\ Serving /\ ~maintenance /\ live.wanted
  /\ live' = [live EXCEPT !.obs = @ \cup {now}]
  /\ kept' = kept \cup {now}
  /\ UNCHANGED <<now, preserved, backups, partial, worker, requests, watched, missed, reopened, skipped,
                 failures>>

SetRunning(b) ==
  /\ Serving /\ live.wanted # b
  /\ live' = [live EXCEPT !.wanted = b]
  /\ UNCHANGED <<now, preserved, backups, partial, worker, requests, past>>

DeleteBefore(cutoff) ==
  /\ Serving
  /\ live' = [live EXCEPT !.obs = {t \in @ : t >= cutoff}]
  /\ kept' = {t \in kept : t >= cutoff}
  /\ UNCHANGED <<now, preserved, backups, partial, worker, requests, watched, missed, reopened, skipped,
                 failures>>

-----------------------------------------------------------------------------
(* Backups. *)

Goes(r, pc) == requests' = [requests EXCEPT ![r].pc = pc]

\* The request is answered, whatever came of it: a restore resets the flag.
\* Mutant of Answer: it does so only when it could open the file.
AnswerOnly(r) ==
  /\ requests' = [requests EXCEPT ![r] = Request("answered")]
  /\ maintenance' = (maintenance /\ (r \notin Restoring \/ ~beating))
Answer(r) ==
  /\ requests' = [requests EXCEPT ![r] = Request("answered")]
  /\ maintenance' = (maintenance /\ r \notin Restoring)
Fails(r) == Answer(r) /\ UNCHANGED <<now, live, preserved, backups, session, alive, build, ready, upgrading, open, leaked, beating, past>>

\* createBackup() up to its copy, which is written step by step.
Begin(r, candidate) ==
  /\ Serving /\ At(r, "none")
  /\ requests' = [requests EXCEPT ![r] =
       [pc |-> "copying", candidate |-> candidate, counted |-> Cardinality(live.obs), copy |-> NoFile, aside |-> NoFile, connected |-> TRUE]]
  /\ partial' = partial \cup {r}
  /\ UNCHANGED <<now, live, preserved, backups, session, alive, build, ready, upgrading, open, leaked, beating, past>>
BeginBackup(r) == Begin(r, NoFile) /\ UNCHANGED maintenance

\* performRestore(): the flag, then a manual backup.
\* Mutant of BeginRestore: the candidate is staged without one.
BeginRestoreUnsaved(r, f) ==
  /\ Serving /\ At(r, "none")
  /\ requests' = [requests EXCEPT ![r] = [pc |-> "staging", candidate |-> f, counted |-> 0, copy |-> Empty, aside |-> NoFile, connected |-> TRUE]]
  /\ maintenance' = TRUE
  /\ UNCHANGED <<now, files, session, alive, build, ready, upgrading, open, leaked, beating, past>>
BeginRestore(r, f) == Begin(r, f) /\ maintenance' = TRUE

\* The copy holds what was written meanwhile, through the same connection.  It
\* must hold as many observations as were counted before, and still be there.
Copy(r) ==
  /\ At(r, "copying")
  /\ \/ /\ requests[r].connected /\ r \in partial /\ Cardinality(live.obs) = requests[r].counted
        /\ requests' = [requests EXCEPT ![r].pc = "publishing", ![r].copy = live, ![r].counted = 0]
        /\ UNCHANGED <<now, files, worker, past>>
     \/ partial' \in {partial, partial \ {r}} /\ Fails(r)

\* The rename to the final name, then the row in the database.
Publish(r) ==
  /\ At(r, "publishing")
  /\ IF r \in partial
       THEN /\ backups' = backups \cup {requests[r].copy}
            /\ partial' = partial \ {r}
            /\ IF requests[r].connected THEN /\ requests' = [requests EXCEPT ![r].pc = "pruning", ![r].copy = IF r \in Restoring THEN @ ELSE NoFile]
                      /\ UNCHANGED maintenance
                 ELSE Answer(r)
            /\ UNCHANGED <<now, live, preserved, session, alive, build, ready, upgrading, open, leaked, beating, past>>
       ELSE Fails(r) /\ UNCHANGED partial

\* pruneBackups(): manual backups are kept, .partial files are not, whoever
\* writes them, unless they cannot be removed.
Prune(r) ==
  /\ At(r, "pruning")
  /\ partial' \in SUBSET partial
  /\ IF r \in Restoring /\ requests[r].connected
       THEN Goes(r, "staging") /\ UNCHANGED <<now, live, preserved, backups, worker, past>>
       ELSE Fails(r)

-----------------------------------------------------------------------------
(* Restoring. *)

\* The end of a restore opens the file that is there, and may fail to; it is
\* answered once a migration of that file has ended.
AnswerOpened(r) == IF upgrading' THEN Goes(r, "upgrading") /\ UNCHANGED maintenance ELSE Answer(r)
\* Mutant of Reopen: a restore that failed leaves things as they are.
ReopenRestored(r) ==
  /\ At(r, "reopening")
  /\ IF requests[r].candidate # NoFile THEN OpenFile(live, session)
     ELSE UNCHANGED <<live, leaked, open, ready, upgrading, beating, reopened, failures>>
  /\ AnswerOpened(r)
  /\ UNCHANGED <<now, preserved, backups, partial, session, alive, build, kept, watched, missed, skipped>>
Reopen(r) ==
  /\ At(r, "reopening")
  /\ OpenFile(live, session) \/ OpenFails
  /\ AnswerOpened(r)
  /\ UNCHANGED <<now, preserved, backups, partial, session, alive, build, kept, watched, missed, skipped>>

\* validateRestoreCandidate() of a sound file.
Restorable(f) == CanRead(f.schema, build[session])

\* The candidate is rejected, or cannot be copied, or can be read, is staged and
\* verified: then the connection is closed.
Stage(r) ==
  /\ At(r, "staging")
  /\ \/ requests' = [requests EXCEPT ![r].pc = "reopening", ![r].candidate = NoFile]
        /\ UNCHANGED <<now, files, worker, past>>
     \/ /\ Restorable(requests[r].candidate)
        /\ requests' = [x \in Requests |-> [requests[x] EXCEPT !.connected = FALSE,
                                            !.pc = IF x = r THEN "preserving" ELSE @]]
        /\ open' = FALSE /\ beating' = FALSE
        /\ UNCHANGED <<now, files, session, alive, build, ready, upgrading, leaked, maintenance, past>>
     \/ Fails(r) /\ UNCHANGED partial

\* The live file is put aside; a failure is taken to mean that there is none.
Preserve(r) ==
  /\ At(r, "preserving")
  /\ \/ /\ live # NoFile /\ ~leaked
        /\ preserved' = preserved \cup {live} /\ live' = NoFile
        /\ requests' = [requests EXCEPT ![r].pc = "replacing", ![r].aside = live]
     \/ Goes(r, "replacing") /\ UNCHANGED <<live, preserved>>
  /\ UNCHANGED <<now, backups, partial, worker, past>>

\* Another file knows nothing of the time that was missed.
Forgets(b) ==
  /\ missed' = IF b THEN {} ELSE missed
  /\ watched' = IF b THEN Never ELSE watched

\* The staged file takes the name; else what was put aside gets it back, if it can.
\* A sidecar of the old file that cannot be removed ends the restore, and nothing
\* opens what is there.
Replace(r) ==
  /\ At(r, "replacing")
  /\ \/ /\ live = NoFile \/ ~leaked
        /\ live' = requests[r].candidate /\ Forgets(TRUE)
        /\ Goes(r, "reopening")
        /\ UNCHANGED <<preserved, maintenance, failures>>
     \/ /\ \/ live = NoFile /\ requests[r].aside # NoFile
              /\ live' = requests[r].aside /\ preserved' = preserved \ {requests[r].aside}
           \/ UNCHANGED <<live, preserved>>
        /\ Forgets(live' = NoFile)
        /\ requests' = [requests EXCEPT ![r].pc = "reopening", ![r].candidate = NoFile]
        /\ UNCHANGED <<maintenance, failures>>
     \/ /\ Answer(r) /\ stranded' = TRUE
        /\ UNCHANGED <<live, preserved, watched, missed, lost>>
  /\ UNCHANGED <<now, backups, partial, session, alive, build, ready, upgrading, open, leaked, beating,
                 kept, reopened, skipped>>

RequestStep(r) ==
  Copy(r) \/ Publish(r) \/ Prune(r) \/ Stage(r) \/ Preserve(r) \/ Replace(r) \/ Reopen(r)

HNext ==
  \/ Launch \/ Upgrade \/ Crash \/ Shutdown \/ Tick \/ Ingest
  \/ \E b \in Switched : SetRunning(b)
  \/ \E cutoff \in Cutoffs : DeleteBefore(cutoff)
  \/ \E r \in Backing : BeginBackup(r)
  \/ \E r \in Restoring, f \in backups \cup preserved : BeginRestore(r, f)
  \/ \E r \in Requests : RequestStep(r)

HSpec == HInit /\ [][HNext]_hvars

\* The steps of a request follow one another as its promises settle.
HFairness == WF_hvars(Upgrade) /\ \A r \in Requests : WF_hvars(RequestStep(r))

-----------------------------------------------------------------------------
Phase == {"none", "copying", "publishing", "pruning", "staging", "preserving", "replacing",
          "reopening", "upgrading", "answered"}
Progress == [pc : Phase, candidate : Database \cup {NoFile}, counted : Nat,
             copy : Database \cup {NoFile}, aside : Database \cup {NoFile}, connected : BOOLEAN]
TypeOK ==
  /\ now \in Instants /\ live \in Database \cup {NoFile}
  /\ preserved \subseteq Database /\ backups \subseteq Database /\ partial \subseteq Requests
  /\ session \in 1..MaxSessions /\ build \in Builds
  /\ alive \in BOOLEAN /\ ready \in BOOLEAN /\ upgrading \in BOOLEAN /\ open \in BOOLEAN /\ leaked \in BOOLEAN
  /\ beating \in BOOLEAN /\ maintenance \in BOOLEAN /\ reopened \in BOOLEAN /\ skipped \in BOOLEAN
  /\ requests \in [Requests -> Progress] /\ lost \subseteq Instants /\ stranded \in BOOLEAN
  /\ kept \subseteq Instants /\ missed \subseteq Instants /\ watched \in Instants \cup {Never}

Holds(f) == IF f = NoFile THEN {} ELSE f.obs

\* Whatever was read and not deleted by the user is in a complete file on the
\* disk, although renames fail, copies are pruned and the process dies between
\* any two steps of a restore (backup.ts:385-410, worker.ts:820-830).
HistoryKept == kept \subseteq UNION {Holds(f) : f \in preserved \cup backups \cup {live}}

\* The backup a restore makes first holds all that the live file holds when it
\* is replaced: nothing is written in between (worker.ts:394, 828-830).
SafetyCopy ==
  \A r \in Restoring : requests[r].pc \in {"preserving", "replacing"} =>
    Holds(live) \subseteq Holds(requests[r].copy)

\* Time that nobody collected after an unclean exit shows as missing
\* (worker.ts:208-212, 320-338), but in three cases: a restore opened a file that
\* holds the session that runs, or could not open it, so that no heartbeat runs; a
\* migration ran first, which leaves the gap to the next process; or the recovery
\* marked the session and was cut short before it wrote that session's gap.
Exempt == reopened \/ skipped
GapAt(f, t) == \E g \in f.gaps : g.from < t /\ t <= g.to
NoHole == Serving /\ live # NoFile /\ ~Exempt => \A t \in missed \ lost : GapAt(live, t)

\* Time that was collected is not declared missing, but for the first two cases.
GapsAreReal ==
  live # NoFile /\ ~Exempt => \A g \in live.gaps, t \in live.obs : ~(g.from < t /\ t < g.to)

\* "Reopen whatever is there so the app is not left with no database"
\* (worker.ts:842): however a restore ends, the database is open again, unless a
\* sidecar of the old file cannot be removed (backup.ts:394-395) or no connection
\* can be had (worker.ts:193), which only another process repairs.
DatabaseComesBack == (alive /\ ~open) ~> (open \/ ~alive \/ stranded)

\* A request that sets the flag which refuses collected runs gives it back.
CollectionIsLetIn == maintenance ~> ~maintenance
=============================================================================
