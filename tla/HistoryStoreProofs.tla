-------------------------- MODULE HistoryStoreProofs --------------------------
(***************************************************************************)
(* What the history file keeps through one restore, among any number of    *)
(* backups, for every length of the study, number of processes and         *)
(* sequence of builds.                                                     *)
(***************************************************************************)
EXTENDS HistoryStore, FiniteSetTheorems, SequenceTheorems, TLAPS

\* The app restores one backup at a time.
OneRestore == \A q, r \in Restoring : q = r

Untouched == {"none", "answered"}
Copying == {"copying", "publishing", "pruning"}
Replacing == {"preserving", "replacing"}
Restores == Copying \cup Replacing \cup {"staging", "reopening"}
Phases ==
  /\ ~alive => ~ready /\ ~upgrading /\ ~open /\ \A r \in Requests : requests[r].pc \in Untouched
  /\ upgrading => open /\ maintenance
  /\ \A r \in Backing : requests[r].pc \in Untouched \cup Copying
  /\ alive /\ live = NoFile => ~open
  /\ \A r \in Requests :
       /\ requests[r].pc \in Copying /\ requests[r].connected => open
       /\ requests[r].pc = "publishing" => requests[r].copy # NoFile
  /\ \A r \in Restoring :
       /\ requests[r].pc \in Restores => maintenance /\ ~upgrading /\ ready
       /\ requests[r].pc = "upgrading" => upgrading /\ ready
       /\ upgrading /\ ready => requests[r].pc = "upgrading"
       /\ alive /\ ~open => requests[r].pc \in Untouched \cup Replacing \cup {"reopening"}
       /\ requests[r].pc \in Replacing => ~open
       /\ requests[r].pc = "preserving" => live # NoFile
       /\ live = NoFile /\ requests[r].pc = "replacing" => requests[r].aside # NoFile

Copies ==
  \A r \in Restoring :
    /\ requests[r].pc \in {"publishing", "pruning", "staging"} \cup Replacing =>
         requests[r].copy # NoFile /\ Holds(live) \subseteq requests[r].copy.obs
    /\ requests[r].pc \in {"pruning", "staging"} \cup Replacing => requests[r].copy \in backups

Shape == TypeOK /\ Phases
KInv == TypeOK /\ Phases /\ Copies /\ HistoryKept

Running(f, x) == f.sessions[x].state = "running" /\ f.sessions[x].collecting

\* What a file says of an instant and of the sessions up to one: a gap holds no
\* reading, and a session that was left open has none after its heartbeat.
SoundAt(f, at, last) ==
  /\ \A t \in f.obs : t <= at
  /\ \A g \in f.gaps : g.to <= at /\ \A t \in f.obs : ~(g.from < t /\ t < g.to)
  /\ DOMAIN f.sessions \subseteq 1..last
  /\ f.schema = <<>> => DOMAIN f.sessions = {}
  /\ \A x \in DOMAIN f.sessions : Running(f, x) => \A t \in f.obs : t <= f.sessions[x].beat
Sound(f) == SoundAt(f, now, session)

\* Every file there is, on the disk or in the hands of a request.
Known == (preserved \cup backups \cup {live}
          \cup UNION {{requests[r].copy, requests[r].candidate, requests[r].aside} : r \in Requests}) \ {NoFile}

\* A file that is served has the row of the session, up to date, and no other that
\* is left open; a process that could not open it has no row in it.
Fresh ==
  ready /\ open /\ ~upgrading =>
    /\ beating /\ session \in DOMAIN live.sessions
    /\ live.sessions[session].state = "running" /\ live.sessions[session].beat = now
    /\ \A x \in DOMAIN live.sessions \ {session} : ~Running(live, x)
Unstarted == alive /\ ~ready /\ live # NoFile => session \notin DOMAIN live.sessions

GInv == ~Exempt => (\A f \in Known : Sound(f)) /\ Fresh /\ Unstarted

Watched(f) ==
  watched # Never => session \in DOMAIN f.sessions /\ Running(f, session) /\ f.sessions[session].beat <= watched
Covered(f) ==
  \A t \in missed \ lost :
    \/ GapAt(f, t)
    \/ ~ready /\ \E x \in DOMAIN f.sessions \ {session} : Running(f, x) /\ f.sessions[x].beat < t

\* A process that does not run sets no timer.
Quiet == ~alive => ~beating

\* The session that died last is still open in the file that is there, or about to
\* be there again, with a heartbeat no later than what it collected; and what
\* nobody collected is in a gap of that file, or will be once a session has started,
\* unless a recovery that was cut short has marked that session already.
NInv ==
  ~Exempt =>
    /\ \A t \in missed : t <= now
    /\ live # NoFile => Watched(live) /\ Covered(live)
    /\ \A r \in Restoring :
         /\ requests[r].pc = "replacing" /\ live = NoFile => Watched(requests[r].aside) /\ Covered(requests[r].aside)
         /\ requests[r].pc = "reopening" /\ live = NoFile => missed = {} /\ watched = Never

-----------------------------------------------------------------------------
(* Files. *)

LEMMA EmptyFile ==
  /\ Empty \in Database /\ Empty.obs = {} /\ Empty.gaps = {} /\ Empty.schema = <<>>
  /\ DOMAIN Empty.sessions = {}
  <1>1. DOMAIN <<>> = {} /\ <<>> \in [{} -> Row] /\ <<>> \in Seq(STRING)
    OBVIOUS
  <1>2. <<>> \in UNION {[ids -> Row] : ids \in SUBSET (1..MaxSessions)}
    BY <1>1
  <1> QED BY <1>1, <1>2 DEF Empty, Database

LEMMA SessionsOf ==
  ASSUME NEW f \in Database
  PROVE  /\ DOMAIN f.sessions \subseteq 1..MaxSessions
         /\ f.sessions \in [DOMAIN f.sessions -> Row]
         /\ f.schema \in Seq(STRING) /\ f.obs \subseteq Instants /\ f.gaps \subseteq Gap /\ f.wanted \in BOOLEAN
  BY DEF Database

\* What another reading or another row makes of a file is a file.
LEMMA WithRows ==
  ASSUME NEW f \in Database, NEW rows, DOMAIN rows \subseteq 1..MaxSessions, rows \in [DOMAIN rows -> Row]
  PROVE  rows \in UNION {[ids -> Row] : ids \in SUBSET (1..MaxSessions)}
  OBVIOUS

\* Recovery closes what was left open and adds one gap for each that collected.
LEMMA RecoveredFile ==
  ASSUME NEW f \in Database, now \in Instants, NEW s, NEW done \in SUBSET Unclean(f, s)
  PROVE  LET g == Recovered(f, s, done) IN
         /\ g \in Database /\ g.obs = f.obs /\ g.schema = f.schema /\ g.wanted = f.wanted
         /\ g.gaps = f.gaps \cup {[from |-> f.sessions[x].beat, to |-> now] : x \in {y \in done : Running(f, y)}}
         /\ DOMAIN g.sessions = DOMAIN f.sessions
         /\ \A x \in DOMAIN f.sessions \ {s} : g.sessions[x].state # "running"
         /\ s \in DOMAIN f.sessions => g.sessions[s] = f.sessions[s]
  <1> DEFINE left == Unclean(f, s)
  <1> DEFINE rows == [x \in DOMAIN f.sessions |->
                        IF x \in left THEN [f.sessions[x] EXCEPT !.state = "crashed"] ELSE f.sessions[x]]
  <1> DEFINE more == {[from |-> f.sessions[x].beat, to |-> now] : x \in {y \in done : f.sessions[y].collecting}}
  <1>1. /\ left \subseteq DOMAIN f.sessions \ {s} /\ done \subseteq left /\ f.sessions \in [DOMAIN f.sessions -> Row]
        /\ DOMAIN f.sessions \subseteq 1..MaxSessions /\ f.gaps \subseteq Gap
    BY SessionsOf DEF Unclean
  <1>2. rows \in [DOMAIN f.sessions -> Row]
    BY <1>1 DEF Row
  <1>3. more \subseteq Gap
    BY <1>1 DEF Row, Gap
  <1>4. Recovered(f, s, done) = [f EXCEPT !.gaps = @ \cup more, !.sessions = rows]
    BY DEF Recovered, Crashed
  <1>5. rows \in UNION {[ids -> Row] : ids \in SUBSET (1..MaxSessions)}
    BY <1>1, <1>2
  <1>6. f.gaps \cup more \in SUBSET Gap
    BY <1>1, <1>3
  <1>7. Recovered(f, s, done) \in Database
    BY <1>4, <1>5, <1>6 DEF Database
  <1>8. LET g == Recovered(f, s, done) IN
          g.obs = f.obs /\ g.schema = f.schema /\ g.wanted = f.wanted /\ g.gaps = f.gaps \cup more /\ g.sessions = rows
    BY <1>4 DEF Database
  <1>9. {y \in done : f.sessions[y].collecting} = {y \in done : Running(f, y)}
    BY DEF Unclean, Running
  <1>10. \A x \in DOMAIN f.sessions \ {s} : rows[x].state # "running"
    BY <1>1 DEF Unclean, Row
  <1> HIDE DEF rows
  <1> QED BY <1>1, <1>2, <1>7, <1>8, <1>9, <1>10 DEF rows

\* What the outcome of a migration may be.
LEMMA MigrationOutcome ==
  ASSUME NEW known \in Seq(STRING) \ {<<>>}, NEW applied \in Seq(STRING), NEW o \in Migrate(applied, known)
  PROVE  /\ o.ok \in BOOLEAN /\ o.schema \in Seq(STRING)
         /\ o.ok => o.schema = known /\ Len(applied) <= Len(known)
         /\ o.schema = <<>> => applied = <<>>
  <1>1. CASE o = [ok |-> FALSE, schema |-> applied]
    BY <1>1
  <1>2. CASE CanRead(applied, known) /\ o = [ok |-> TRUE, schema |-> known]
    BY <1>2 DEF CanRead
  <1>3. CASE CanRead(applied, known) /\ o.ok = FALSE /\ o.schema \in Stops(applied, known)
    <2>1. PICK n \in Len(applied)..Len(known) : o.schema = SubSeq(known, 1, n)
      BY <1>3 DEF Stops
    <2>2. Len(applied) \in Nat /\ Len(known) \in Nat /\ n \in 0..Len(known)
      BY <2>1
    <2>3. o.schema \in Seq(STRING) /\ Len(o.schema) = n
      BY <2>1, <2>2
    <2>4. o.schema = <<>> => applied = <<>>
      BY <2>1, <2>2, <2>3
    <2> QED BY <1>3, <2>3, <2>4
  <1>4. CASE ~CanRead(applied, known) \/ ~Unchanged(applied, known)
    BY <1>1, <1>4 DEF Migrate
  <1>5. CASE CanRead(applied, known) /\ Unchanged(applied, known)
    <2>1. \/ o = [ok |-> TRUE, schema |-> known]
          \/ \E n \in Stops(applied, known) : o = [ok |-> FALSE, schema |-> n]
      BY <1>5, Zenon DEF Migrate
    <2>2. CASE o = [ok |-> TRUE, schema |-> known]
      BY <1>2, <1>5, <2>2
    <2>3. ASSUME NEW n \in Stops(applied, known), o = [ok |-> FALSE, schema |-> n]
          PROVE  o.ok = FALSE /\ o.schema \in Stops(applied, known)
      BY <2>3
    <2> QED BY <1>3, <1>5, <2>1, <2>2, <2>3
  <1> QED BY <1>4, <1>5
\* The row a session starts with is added to those of the others.
LEMMA StartedFile ==
  ASSUME NEW f \in Database, now \in Instants, NEW s \in 1..MaxSessions
  PROVE  LET g == Started(f, s) IN
         /\ g \in Database /\ g.obs = f.obs /\ g.schema = f.schema /\ g.wanted = f.wanted /\ g.gaps = f.gaps
         /\ DOMAIN g.sessions = DOMAIN f.sessions \cup {s}
         /\ g.sessions[s] = [state |-> "running", beat |-> now, collecting |-> FALSE]
         /\ \A x \in DOMAIN f.sessions \ {s} : g.sessions[x] = f.sessions[x]
  <1> DEFINE rows == [x \in DOMAIN f.sessions \cup {s} |->
                        IF x = s THEN [state |-> "running", beat |-> now, collecting |-> FALSE] ELSE f.sessions[x]]
  <1>1. f.sessions \in [DOMAIN f.sessions -> Row] /\ DOMAIN f.sessions \subseteq 1..MaxSessions
    BY SessionsOf
  <1>2. rows \in [DOMAIN f.sessions \cup {s} -> Row]
    BY <1>1 DEF Row
  <1>3. rows \in UNION {[ids -> Row] : ids \in SUBSET (1..MaxSessions)}
    BY <1>1, <1>2
  <1>4. Started(f, s) = [f EXCEPT !.sessions = rows]
    BY DEF Started
  <1>5. Started(f, s) \in Database
    BY <1>3, <1>4 DEF Database
  <1>6. LET g == Started(f, s) IN
          g.obs = f.obs /\ g.schema = f.schema /\ g.wanted = f.wanted /\ g.gaps = f.gaps /\ g.sessions = rows
    BY <1>4 DEF Database
  <1> QED BY <1>5, <1>6

\* A file whose open() has come to its end: what it holds, and what follows from
\* whether the session could be started on it.
Finished(f, s, ok) ==
  /\ live' \in Database /\ live'.obs = f.obs /\ live'.gaps = f.gaps /\ live'.wanted = f.wanted
  /\ live'.schema = <<>> => f.schema = <<>> /\ ~ok
  /\ ready' = (ready \/ ok)
  /\ ok /\ s \notin DOMAIN f.sessions =>
       /\ beating' = TRUE /\ reopened' = reopened
       /\ DOMAIN live'.sessions = DOMAIN f.sessions \cup {s}
       /\ live'.sessions[s] = [state |-> "running", beat |-> now, collecting |-> FALSE]
       /\ \A x \in DOMAIN f.sessions \ {s} : live'.sessions[x] = f.sessions[x]
  /\ ~(ok /\ s \notin DOMAIN f.sessions) =>
       live'.sessions = f.sessions /\ beating' = beating /\ reopened' = (reopened \/ ready)

LEMMA FinishedFile ==
  ASSUME NEW f \in Database, now \in Instants, NEW s \in 1..MaxSessions,
         beating \in BOOLEAN, reopened \in BOOLEAN, ready \in BOOLEAN,
         NEW known \in Seq(STRING) \ {<<>>}, NEW o \in Migrate(f.schema, known), FinishOpen(f, o, s)
  PROVE  Finished(f, s, o.ok) /\ o.ok \in BOOLEAN /\ (o.ok => Len(f.schema) <= Len(known))
  <1> DEFINE file == [f EXCEPT !.schema = o.schema]
  <1>1. /\ o.ok \in BOOLEAN /\ o.schema \in Seq(STRING) /\ (o.ok => o.schema # <<>>)
        /\ (o.ok => Len(f.schema) <= Len(known)) /\ (o.schema = <<>> => f.schema = <<>>)
    BY SessionsOf, MigrationOutcome
  <1>2. /\ file \in Database /\ file.obs = f.obs /\ file.gaps = f.gaps /\ file.wanted = f.wanted
        /\ file.sessions = f.sessions /\ file.schema = o.schema
    BY <1>1 DEF Database
  <1>3. /\ live' = IF o.ok /\ s \notin DOMAIN file.sessions THEN Started(file, s) ELSE file
        /\ beating' = (beating \/ (o.ok /\ s \notin DOMAIN file.sessions))
        /\ reopened' = (reopened \/ (ready /\ ~(o.ok /\ s \notin DOMAIN file.sessions)))
        /\ ready' = (ready \/ o.ok)
    BY DEF FinishOpen
  <1> HIDE DEF file
  <1>4. CASE o.ok /\ s \notin DOMAIN f.sessions
    <2>1. live' = Started(file, s) /\ beating' = TRUE /\ reopened' = reopened
      BY <1>1, <1>2, <1>3, <1>4
    <2>2. /\ live' \in Database /\ live'.obs = f.obs /\ live'.gaps = f.gaps /\ live'.wanted = f.wanted
          /\ live'.schema = o.schema
          /\ DOMAIN live'.sessions = DOMAIN f.sessions \cup {s}
          /\ live'.sessions[s] = [state |-> "running", beat |-> now, collecting |-> FALSE]
          /\ \A x \in DOMAIN f.sessions \ {s} : live'.sessions[x] = f.sessions[x]
      <3> DEFINE g == Started(file, s)
      <3>1. /\ g \in Database /\ g.obs = file.obs /\ g.schema = file.schema /\ g.wanted = file.wanted
            /\ g.gaps = file.gaps /\ DOMAIN g.sessions = DOMAIN file.sessions \cup {s}
            /\ g.sessions[s] = [state |-> "running", beat |-> now, collecting |-> FALSE]
            /\ \A x \in DOMAIN file.sessions \ {s} : g.sessions[x] = file.sessions[x]
        BY <1>2, StartedFile
      <3> QED BY <1>2, <2>1, <3>1
    <2> QED BY <1>1, <1>3, <1>4, <2>1, <2>2 DEF Finished
  <1>5. CASE ~(o.ok /\ s \notin DOMAIN f.sessions)
    <2>1. live' = file /\ beating' = beating /\ reopened' = (reopened \/ ready)
      BY <1>1, <1>2, <1>3, <1>5
    <2> QED BY <1>1, <1>2, <1>3, <1>5, <2>1 DEF Finished
  <1> QED BY <1>4, <1>5

LEMMA KnownMigrations ==
  ASSUME StoreAssumption, TypeOK, NEW s \in 1..MaxSessions
  PROVE  build[s] \in Seq(STRING) \ {<<>>}
  BY DEF StoreAssumption, TypeOK

\* What open() makes of the file it finds: it waits for the backup before a
\* migration, or has come to its end or was cut short, after as much of a recovery
\* as there was, unless it found no schema or refuses the one it found.
Ended(f, s) ==
  \E ok \in BOOLEAN, done \in SUBSET Unclean(f, s) :
    \/ Finished(Recovered(f, s, done), s, ok) /\ lost' = lost \cup Unrecorded(f, s, done)
    \/ Finished(f, s, ok) /\ (ok => f.schema = <<>>) /\ lost' = lost

LEMMA CutShort ==
  ASSUME NEW f \in Database, NEW s, live' = f, UNCHANGED <<beating, ready>>, reopened' = (reopened \/ ready),
         ready \in BOOLEAN
  PROVE  Finished(f, s, FALSE)
  BY DEF Finished

LEMMA OpenedFile ==
  ASSUME StoreAssumption, TypeOK, NEW s \in 1..MaxSessions, OpenFile(live, s)
  PROVE  /\ open' = TRUE /\ leaked' \in BOOLEAN /\ upgrading' \in BOOLEAN /\ Opened(live) \in Database
         /\ lost \subseteq lost' /\ lost' \subseteq Instants /\ stranded' = stranded
         /\ upgrading' => live' = Opened(live) /\ UNCHANGED <<beating, reopened, ready>>
         /\ ~upgrading' => Ended(Opened(live), s)
  <1> DEFINE found == Opened(live)
             none == Unclean(found, s)
  <1>1. found \in Database
    BY EmptyFile DEF TypeOK, Opened
  <1>2. build[s] \in Seq(STRING) \ {<<>>} /\ found.schema \in Seq(STRING) /\ ready \in BOOLEAN
    BY <1>1, KnownMigrations, SessionsOf DEF TypeOK
  <1>3. \A done : Unrecorded(found, s, done) \subseteq Instants
    BY DEF Unrecorded
  <1>4. open' = TRUE /\ leaked' \in BOOLEAN /\ stranded' = stranded
    BY DEF OpenFile, TypeOK
  <1>5. CASE /\ upgrading' = (found.schema # <<>> /\ Len(found.schema) < Len(build[s])) /\ UNCHANGED lost
             /\ IF found.schema # <<>> /\ Len(found.schema) < Len(build[s])
                THEN live' = found /\ UNCHANGED <<beating, reopened, ready>>
                ELSE \E o \in Migrate(found.schema, build[s]) :
                       FinishOpen(IF Len(found.schema) = Len(build[s]) THEN Recovered(found, s, none) ELSE found, o, s)
    <2>1. CASE upgrading'
      BY <1>1, <1>4, <1>5, <2>1 DEF TypeOK
    <2>2. CASE ~upgrading' /\ Len(found.schema) = Len(build[s])
      <3>1. PICK o \in Migrate(found.schema, build[s]) : FinishOpen(Recovered(found, s, none), o, s)
        BY <1>5, <2>2
      <3>2. Recovered(found, s, none) \in Database /\ Recovered(found, s, none).schema = found.schema
        BY <1>1, RecoveredFile DEF TypeOK
      <3>3. Finished(Recovered(found, s, none), s, o.ok) /\ o.ok \in BOOLEAN
        BY <1>2, <3>1, <3>2, FinishedFile DEF TypeOK
      <3>4. Unrecorded(found, s, none) = {}
        BY DEF Unrecorded
      <3>5. lost' = lost \cup Unrecorded(found, s, none)
        BY <1>5, <3>4
      <3>6. Ended(found, s)
        BY <3>3, <3>5 DEF Ended
      <3> QED BY <1>1, <1>4, <1>5, <2>2, <3>6 DEF TypeOK
    <2>3. CASE ~upgrading' /\ Len(found.schema) # Len(build[s])
      <3>1. PICK o \in Migrate(found.schema, build[s]) : FinishOpen(found, o, s)
        BY <1>5, <2>3
      <3>2. Finished(found, s, o.ok) /\ o.ok \in BOOLEAN /\ (o.ok => Len(found.schema) <= Len(build[s]))
        BY <1>1, <1>2, <3>1, FinishedFile DEF TypeOK
      <3>3. Len(found.schema) \in Nat /\ Len(build[s]) \in Nat
        BY <1>2
      <3>4. ASSUME o.ok PROVE found.schema = <<>>
        <4>1. ~(found.schema # <<>> /\ Len(found.schema) < Len(build[s])) /\ Len(found.schema) # Len(build[s])
          BY <1>5, <2>3
        <4>2. Len(found.schema) <= Len(build[s])
          BY <3>2, <3>4
        <4>3. Len(found.schema) < Len(build[s])
          BY <3>3, <4>1, <4>2
        <4> QED BY <4>1, <4>3
      <3>5. Ended(found, s)
        BY <1>5, <3>2, <3>4 DEF Ended
      <3> QED BY <1>1, <1>4, <1>5, <2>3, <3>5 DEF TypeOK
    <2> QED BY <1>5, <2>1, <2>2, <2>3
  <1>6. CASE upgrading' = FALSE /\ reopened' = (reopened \/ ready) /\ UNCHANGED <<beating, ready>> /\ live' = found /\ UNCHANGED lost
    <2>1. Finished(found, s, FALSE)
      BY <1>1, <1>2, <1>6, CutShort
    <2>2. Ended(found, s)
      BY <1>6, <2>1 DEF Ended
    <2> QED BY <1>1, <1>4, <1>6, <2>2 DEF TypeOK
  <1>7. ASSUME upgrading' = FALSE, reopened' = (reopened \/ ready), UNCHANGED <<beating, ready>>,
               NEW done \in SUBSET Unclean(found, s),
               live' = Recovered(found, s, done), lost' = lost \cup Unrecorded(found, s, done)
        PROVE  lost \subseteq lost' /\ lost' \subseteq Instants /\ ~upgrading' /\ Ended(found, s)
    <2>1. Recovered(found, s, done) \in Database
      BY <1>1, RecoveredFile DEF TypeOK
    <2>2. Finished(Recovered(found, s, done), s, FALSE)
      BY <1>2, <1>7, <2>1, CutShort
    <2>3. Ended(found, s)
      BY <1>7, <2>2 DEF Ended
    <2> QED BY <1>3, <1>7, <2>3 DEF TypeOK
  <1>8. \/ /\ upgrading' = (found.schema # <<>> /\ Len(found.schema) < Len(build[s])) /\ UNCHANGED lost
           /\ IF found.schema # <<>> /\ Len(found.schema) < Len(build[s])
              THEN live' = found /\ UNCHANGED <<beating, reopened, ready>>
              ELSE \E o \in Migrate(found.schema, build[s]) :
                     FinishOpen(IF Len(found.schema) = Len(build[s]) THEN Recovered(found, s, none) ELSE found, o, s)
        \/ /\ upgrading' = FALSE /\ reopened' = (reopened \/ ready) /\ UNCHANGED <<beating, ready>>
           /\ \/ live' = found /\ UNCHANGED lost
              \/ \E done \in SUBSET Unclean(found, s) :
                   live' = Recovered(found, s, done) /\ lost' = lost \cup Unrecorded(found, s, done)
    BY DEF OpenFile
  <1> HIDE DEF found, none
  <1> QED BY <1>1, <1>4, <1>5, <1>6, <1>7, <1>8 DEF found

-----------------------------------------------------------------------------
(* The shape of a state: types, and what the phases of the restore exclude. *)

LEMMA CountedIsNat ==
  ASSUME StoreAssumption, NEW f \in Database
  PROVE  Cardinality(f.obs) \in Nat
  <1>1. IsFiniteSet(Instants)
    BY FS_Interval DEF Instants, StoreAssumption
  <1>2. IsFiniteSet(f.obs)
    BY <1>1, SessionsOf, FS_Subset
  <1> QED BY <1>2, FS_CardinalityType

\* A heartbeat changes the row of the session, and nothing else.
LEMMA BeatFile ==
  ASSUME NEW f \in Database, session \in DOMAIN f.sessions, now + 1 \in Instants
  PROVE  LET g == Beat(f) IN
         /\ g \in Database /\ g.obs = f.obs /\ g.schema = f.schema /\ g.gaps = f.gaps /\ g.wanted = f.wanted
         /\ DOMAIN g.sessions = DOMAIN f.sessions
         /\ \A x \in DOMAIN f.sessions \ {session} : g.sessions[x] = f.sessions[x]
         /\ g.sessions[session].state = f.sessions[session].state
         /\ g.sessions[session].beat = now + 1 /\ g.sessions[session].collecting = f.wanted
  <1> DEFINE row == [f.sessions[session] EXCEPT !.beat = now + 1, !.collecting = f.wanted]
  <1> DEFINE rows == [f.sessions EXCEPT ![session] = row]
  <1>1. f.sessions[session] \in Row /\ f.wanted \in BOOLEAN
    BY SessionsOf
  <1>2. /\ row \in Row /\ row.state = f.sessions[session].state
        /\ row.beat = now + 1 /\ row.collecting = f.wanted
    BY <1>1 DEF Row
  <1>3. rows \in [DOMAIN f.sessions -> Row] /\ DOMAIN f.sessions \subseteq 1..MaxSessions
    BY <1>2, SessionsOf
  <1>4. rows \in UNION {[ids -> Row] : ids \in SUBSET (1..MaxSessions)}
    BY <1>3
  <1>5. Beat(f) = [f EXCEPT !.sessions = rows]
    BY <1>1 DEF Beat, Database, Row
  <1>6. Beat(f) \in Database
    BY <1>4, <1>5 DEF Database
  <1>7. LET g == Beat(f) IN
          g.obs = f.obs /\ g.schema = f.schema /\ g.wanted = f.wanted /\ g.gaps = f.gaps /\ g.sessions = rows
    BY <1>5 DEF Database
  <1> HIDE DEF row
  <1> QED BY <1>2, <1>3, <1>6, <1>7

LEMMA ShapeTick ==
  ASSUME StoreAssumption, Shape, Tick PROVE Shape'
  <1>1. CASE live' = live
    BY <1>1 DEF Tick, Shape, TypeOK, Phases, Instants, StoreAssumption, worker, failures
  <1>2. CASE live # NoFile /\ session \in DOMAIN live.sessions /\ live' = Beat(live)
    <2>1. now' \in Instants /\ watched' \in Instants \cup {Never} /\ now' = now + 1
      BY DEF Tick, Shape, TypeOK, Instants, StoreAssumption
    <2>2. live \in Database
      BY <1>2 DEF Shape, TypeOK
    <2>3. live' \in Database
      BY <1>2, <2>1, <2>2, BeatFile
    <2>4. live' # NoFile
      BY <2>3 DEF StoreAssumption
    <2> QED BY <1>2, <2>1, <2>3, <2>4 DEF Tick, Shape, TypeOK, Phases, worker, failures
  <1> QED BY <1>1, <1>2 DEF Tick

LEMMA ShapeWrite ==
  ASSUME StoreAssumption, Shape, Ingest \/ (\E b \in Switched : SetRunning(b)) \/ (\E c \in Cutoffs : DeleteBefore(c))
  PROVE  Shape' /\ live \in Database /\ live' \in Database
  <1>1. live \in Database
    BY DEF Shape, TypeOK, Phases, Ingest, SetRunning, DeleteBefore, Serving
  <1>2. live' \in Database /\ kept' \subseteq Instants
    <2>1. CASE Ingest
      BY <1>1, <2>1 DEF Shape, TypeOK, Ingest, Database
    <2>2. ASSUME NEW b \in Switched, SetRunning(b) PROVE live' \in Database /\ kept' \subseteq Instants
      BY <1>1, <2>2 DEF Shape, TypeOK, SetRunning, Database, StoreAssumption, past, failures
    <2>3. ASSUME NEW c \in Cutoffs, DeleteBefore(c) PROVE live' \in Database /\ kept' \subseteq Instants
      BY <1>1, <2>3 DEF Shape, TypeOK, DeleteBefore, Database
    <2> QED BY <2>1, <2>2, <2>3
  <1>3. UNCHANGED <<now, preserved, backups, partial, worker, requests, watched, missed, reopened, skipped, failures>>
    BY DEF Ingest, SetRunning, DeleteBefore, past, failures
  <1>4. live # NoFile /\ live' # NoFile
    BY <1>1, <1>2 DEF StoreAssumption
  <1> QED BY <1>1, <1>2, <1>3, <1>4 DEF Shape, TypeOK, Phases, worker, failures

LEMMA AnsweredRequest ==
  /\ Request("answered") \in Progress /\ Request("answered").pc = "answered"
  /\ Request("answered").copy = NoFile /\ Request("answered").candidate = NoFile /\ Request("answered").aside = NoFile
  BY DEF Request, Progress, Phase

LEMMA FileIsNoFile ==
  ASSUME StoreAssumption, NEW f \in Database PROVE f # NoFile
  BY DEF StoreAssumption

\* What open() leaves is of the right type, and a file.
LEMMA OpenedTypes ==
  ASSUME StoreAssumption, TypeOK, NEW s \in 1..MaxSessions, OpenFile(live, s)
  PROVE  /\ live' \in Database /\ open' = TRUE /\ leaked' \in BOOLEAN /\ upgrading' \in BOOLEAN
         /\ beating' \in BOOLEAN /\ reopened' \in BOOLEAN /\ ready' \in BOOLEAN
         /\ lost' \subseteq Instants /\ stranded' \in BOOLEAN
         /\ live'.obs = Opened(live).obs
         /\ ready => ready'
         /\ upgrading' => ready' = ready
  <1>0. /\ Opened(live) \in Database /\ open' = TRUE /\ leaked' \in BOOLEAN /\ upgrading' \in BOOLEAN
        /\ lost' \subseteq Instants /\ stranded' \in BOOLEAN
    BY OpenedFile DEF TypeOK
  <1>1. CASE upgrading'
    BY <1>0, <1>1, OpenedFile DEF TypeOK
  <1>2. CASE ~upgrading'
    <2>1. PICK ok \in BOOLEAN, done \in SUBSET Unclean(Opened(live), s) :
            \/ Finished(Recovered(Opened(live), s, done), s, ok)
            \/ Finished(Opened(live), s, ok)
      BY <1>2, OpenedFile DEF Ended
    <2>2. Recovered(Opened(live), s, done).obs = Opened(live).obs
      BY <1>0, RecoveredFile DEF TypeOK
    <2>3. live' \in Database /\ live'.obs = Opened(live).obs /\ ready' = (ready \/ ok)
          /\ beating' \in BOOLEAN /\ reopened' \in BOOLEAN
      BY <2>1, <2>2 DEF Finished, TypeOK
    <2> QED BY <1>0, <1>2, <2>1, <2>3 DEF TypeOK
  <1> QED BY <1>1, <1>2

\* Without a connection nothing is done to the file.
LEMMA FailedTypes ==
  ASSUME TypeOK, OpenFails
  PROVE  /\ UNCHANGED <<live, open, leaked, upgrading, beating, reopened, ready, lost>> /\ stranded' \in BOOLEAN
         /\ live' \in Database \cup {NoFile} /\ leaked' \in BOOLEAN /\ upgrading' \in BOOLEAN /\ open' \in BOOLEAN
         /\ beating' \in BOOLEAN /\ reopened' \in BOOLEAN /\ ready' \in BOOLEAN /\ lost' \subseteq Instants
  BY DEF OpenFails, TypeOK

LEMMA ShapeLaunch ==
  ASSUME StoreAssumption, Shape, Launch PROVE Shape'
  <1>1. /\ session' \in 1..MaxSessions /\ session' = session + 1 /\ alive' = TRUE
        /\ OpenFile(live, session') \/ OpenFails
    BY DEF Launch, Shape, TypeOK, StoreAssumption
  <1>2. ~ready /\ ~open /\ ~upgrading /\ \A r \in Requests : requests[r].pc \in Untouched
    BY DEF Launch, Shape, Phases
  <1>3. /\ live' \in Database \cup {NoFile} /\ leaked' \in BOOLEAN /\ upgrading' \in BOOLEAN /\ open' \in BOOLEAN
        /\ beating' \in BOOLEAN /\ reopened' \in BOOLEAN /\ ready' \in BOOLEAN
        /\ lost' \subseteq Instants /\ stranded' \in BOOLEAN
        /\ upgrading' => ~ready' /\ open'
        /\ live' = NoFile => ~open'
    <2>1. CASE OpenFile(live, session')
      BY <1>1, <1>2, <2>1, OpenedTypes, FileIsNoFile DEF Shape
    <2>2. CASE OpenFails
      BY <1>2, <2>2, FailedTypes DEF Shape
    <2> QED BY <1>1, <2>1, <2>2
  <1>4. maintenance' = upgrading' /\ (missed' \subseteq Instants) /\ watched' = Never /\ partial' = {}
        /\ UNCHANGED <<now, preserved, backups, build, requests, kept, skipped>>
    BY DEF Launch, Shape, TypeOK
  <1>5. TypeOK'
    BY <1>1, <1>3, <1>4 DEF Shape, TypeOK
  <1>6. Phases'
    BY <1>1, <1>2, <1>3, <1>4 DEF Phases, Requests, Untouched, Copying, Replacing, Restores
  <1> QED BY <1>5, <1>6 DEF Shape

LEMMA ShapeUpgrade ==
  ASSUME StoreAssumption, Shape, Upgrade
  PROVE  /\ Shape' /\ live \in Database /\ live' \in Database /\ live'.obs = live.obs
         /\ backups \subseteq backups'
         /\ \A r \in Restoring : requests'[r].pc \in Untouched
  <1>1. live \in Database /\ alive
    BY DEF Upgrade, Shape, TypeOK, Phases
  <1>2. /\ live' \in Database /\ live'.obs = live.obs /\ beating' \in BOOLEAN /\ ready' \in BOOLEAN /\ reopened' \in BOOLEAN
        /\ backups' \in {backups, backups \cup {live}}
    <2>1. CASE UNCHANGED <<live, backups, beating, ready>> /\ reopened' = (reopened \/ ready)
      BY <1>1, <2>1 DEF Shape, TypeOK
    <2>2. ASSUME NEW o \in Migrate(live.schema, build[session]), FinishOpen(live, o, session), backups' = backups \cup {live}
          PROVE  /\ live' \in Database /\ live'.obs = live.obs
                 /\ beating' \in BOOLEAN /\ ready' \in BOOLEAN /\ reopened' \in BOOLEAN
      <3>1. Finished(live, session, o.ok) /\ o.ok \in BOOLEAN
        BY <1>1, <2>2, KnownMigrations, FinishedFile DEF Shape, TypeOK
      <3> QED BY <3>1 DEF Finished, Shape, TypeOK
    <2> QED BY <2>1, <2>2 DEF Upgrade
  <1>3. /\ upgrading' = FALSE /\ maintenance' = FALSE /\ skipped' \in BOOLEAN /\ live' # NoFile
        /\ UNCHANGED <<now, preserved, partial, session, alive, build, open, leaked, kept, watched, missed, lost, stranded>>
    BY <1>2, FileIsNoFile DEF Upgrade, Shape, TypeOK, failures
  <1>4. requests' = [r \in Requests |-> IF At(r, "upgrading") THEN Request("answered") ELSE requests[r]]
    BY DEF Upgrade
  <1>5. Request("answered") \in Progress /\ Request("answered").pc = "answered"
    BY AnsweredRequest
  <1>6. TypeOK'
    BY <1>1, <1>2, <1>3, <1>4, <1>5 DEF Shape, TypeOK
  <1>7. \A r \in Requests : requests'[r].pc = IF requests[r].pc = "upgrading" THEN "answered" ELSE requests[r].pc
    BY <1>4, <1>5 DEF At
  <1>8. \A r \in Restoring : requests[r].pc \in Untouched \cup {"upgrading"}
    <2>1. upgrading /\ \A r \in Restoring : requests[r].pc \in Phase
      BY DEF Upgrade, Shape, TypeOK, Progress, Requests
    <2> QED BY <2>1 DEF Shape, Phases, Phase, Untouched, Copying, Replacing, Restores
  <1>9. \A r \in Restoring : requests'[r].pc \in Untouched
    BY <1>7, <1>8 DEF Requests, Untouched
  <1>10. Phases'
    <2>1. open' /\ alive' /\ ~upgrading' /\ live' # NoFile
      BY <1>1, <1>3 DEF Upgrade, Shape, Phases
    <2>2. \A r \in Backing : requests'[r].pc \in Untouched \cup Copying
      BY <1>7 DEF Shape, Phases, Requests, Untouched
    <2>3. \A r \in Requests : requests'[r].pc = "publishing" => requests'[r].copy # NoFile
      BY <1>4, <1>5, <1>7 DEF Shape, Phases
    <2> QED BY <1>9, <2>1, <2>2, <2>3 DEF Phases, Untouched, Copying, Replacing, Restores
  <1> QED BY <1>1, <1>2, <1>6, <1>9, <1>10 DEF Shape

\* The end of a process leaves nothing under way.
LEMMA ShapeEnds ==
  ASSUME StoreAssumption, Shape, Crash \/ Shutdown
  PROVE  /\ Shape' /\ Holds(live') = Holds(live) /\ (live' = NoFile <=> live = NoFile)
         /\ \A r \in Requests : requests'[r].pc \in Untouched
  <1>1. /\ Ends /\ alive
    BY DEF Crash, Shutdown
  <1>2. /\ live' \in Database \cup {NoFile} /\ watched' \in {watched, Never}
        /\ Holds(live') = Holds(live) /\ (live' = NoFile <=> live = NoFile)
    <2>1. CASE live' = live /\ watched' \in {watched, Never}
      BY <2>1 DEF Shape, TypeOK
    <2>2. CASE open /\ session \in DOMAIN live.sessions /\ watched' = Never
               /\ live' = [live EXCEPT !.sessions[session].state = "stopped"]
      <3> DEFINE row == [live.sessions[session] EXCEPT !.state = "stopped"]
      <3> DEFINE rows == [live.sessions EXCEPT ![session] = row]
      <3>1. live \in Database
        BY <1>1, <2>2 DEF Shape, TypeOK, Phases
      <3>2. live.sessions \in [DOMAIN live.sessions -> Row] /\ DOMAIN live.sessions \subseteq 1..MaxSessions
        BY <3>1, SessionsOf
      <3>3. row \in Row
        BY <2>2, <3>2 DEF Row
      <3>4. rows \in [DOMAIN live.sessions -> Row]
        BY <3>2, <3>3
      <3>5. rows \in UNION {[ids -> Row] : ids \in SUBSET (1..MaxSessions)}
        BY <3>2, <3>4
      <3>6. live' = [live EXCEPT !.sessions = rows]
        BY <2>2, <3>1, <3>2 DEF Database
      <3>7. live' \in Database /\ live'.obs = live.obs
        BY <3>1, <3>5, <3>6 DEF Database
      <3> QED BY <2>2, <3>1, <3>7, FileIsNoFile DEF Holds
    <2> QED BY <2>1, <2>2 DEF Crash, Shutdown
  <1>3. Request("answered") \in Progress /\ Request("answered").pc = "answered"
    BY AnsweredRequest
  <1>4. TypeOK'
    BY <1>1, <1>2, <1>3 DEF Ends, Shape, TypeOK
  <1>5. \A r \in Requests : requests'[r].pc \in Untouched
    BY <1>1, <1>3 DEF Ends, At, Untouched
  <1>6. Phases'
    BY <1>1, <1>5 DEF Ends, Phases, Requests, Untouched, Copying, Replacing, Restores
  <1> QED BY <1>2, <1>4, <1>5, <1>6 DEF Shape

LEMMA ShapeBegin ==
  ASSUME StoreAssumption, OneRestore, Shape, NEW r \in Requests, NEW f \in Database \cup {NoFile}, Begin(r, f),
         maintenance' = (maintenance \/ r \in Restoring)
  PROVE  Shape'
  <1>1. /\ alive /\ ready /\ open /\ requests[r].pc = "none" /\ live \in Database
    BY DEF Begin, Serving, At, Shape, TypeOK, Phases
  <1> DEFINE q == [pc |-> "copying", candidate |-> f, counted |-> Cardinality(live.obs), copy |-> NoFile,
                   aside |-> NoFile, connected |-> TRUE]
  <1>2. q \in Progress /\ q.pc = "copying"
    BY <1>1, CountedIsNat DEF Progress, Phase
  <1>3. /\ requests' = [requests EXCEPT ![r] = q] /\ partial' = partial \cup {r}
        /\ UNCHANGED <<now, live, preserved, backups, session, alive, build, ready, upgrading, open, leaked, beating, past>>
    BY DEF Begin
  <1> HIDE DEF q
  <1>4. TypeOK'
    BY <1>2, <1>3 DEF Shape, TypeOK, past, failures
  <1>5. Phases'
    <2>1. r \in Restoring => ~upgrading
      BY <1>1 DEF Shape, Phases
    <2>2. \A x \in Requests : requests'[x].pc = IF x = r THEN "copying" ELSE requests[x].pc
      BY <1>2, <1>3 DEF Shape, TypeOK
    <2>3. \A x \in Backing : requests'[x].pc \in Untouched \cup Copying
      BY <2>2 DEF Shape, Phases, Requests, Copying
    <2>6. \A x \in Requests : requests'[x].pc = "publishing" => requests'[x].copy # NoFile
      BY <1>2, <1>3 DEF Shape, TypeOK, Phases
    <2>4. CASE r \in Restoring
      <3>1. \A x \in Restoring : requests'[x].pc = "copying"
        BY <2>2, <2>4 DEF OneRestore, Requests
      <3> QED BY <1>1, <1>3, <2>1, <2>3, <2>4, <2>6, <3>1 DEF Shape, TypeOK, Phases, Copying, Replacing, Restores, past, failures
    <2>5. CASE r \notin Restoring
      <3>1. \A x \in Restoring : requests'[x] = requests[x]
        BY <1>3, <2>5 DEF Requests
      <3> QED BY <1>1, <1>3, <2>3, <2>5, <2>6, <3>1 DEF Shape, TypeOK, Phases, past, failures
    <2> QED BY <2>4, <2>5
  <1> QED BY <1>4, <1>5 DEF Shape

LEMMA ActiveIsAlive ==
  ASSUME Shape, NEW r \in Requests, requests[r].pc \notin Untouched
  PROVE  alive /\ (r \in Backing => requests[r].pc \in Copying)
  BY DEF Shape, Phases

\* A request goes on, or is answered, while the process and its connection stay
\* as they are.
LEMMA ShapeGoesOn ==
  ASSUME StoreAssumption, OneRestore, Shape, NEW r \in Requests, NEW q \in Progress,
         requests' = [requests EXCEPT ![r] = q],
         UNCHANGED <<now, live, session, alive, build, ready, upgrading, open, leaked, beating, past>>,
         preserved' = preserved, backups' \subseteq Database, partial' \subseteq Requests,
         requests[r].pc \in Copying \cup {"staging"},
         \/ q.pc = "answered" /\ maintenance' = (maintenance /\ r \notin Restoring)
         \/ /\ q.pc \in Copying \/ (r \in Restoring /\ q.pc \in {"staging", "reopening"})
            /\ maintenance' = maintenance,
         q.pc \in Copying => requests[r].pc \in Copying /\ q.connected = requests[r].connected,
         q.pc = "publishing" => q.copy # NoFile
  PROVE  Shape'
  <1>1. TypeOK'
    <2>1. requests' \in [Requests -> Progress]
      BY DEF Shape, TypeOK
    <2>2. maintenance' \in BOOLEAN
      BY DEF Shape, TypeOK
    <2> QED BY <2>1, <2>2 DEF Shape, TypeOK, past, failures
  <1>2. \A x \in Requests : requests'[x] = IF x = r THEN q ELSE requests[x]
    BY DEF Shape, TypeOK
  <1>3. /\ \A x \in Backing : requests'[x].pc \in Untouched \cup Copying
        /\ alive /\ alive' /\ open' = open /\ live' = live
    <2>1. Backing \cap Restoring = {}
      BY DEF StoreAssumption
    <2>2. requests[r].pc \notin Untouched
      BY DEF Copying, Untouched
    <2> QED BY <1>2, <2>1, <2>2, ActiveIsAlive DEF Shape, Phases, Requests, Untouched, Copying
  <1>4. \A x \in Requests :
          /\ requests'[x].pc \in Copying /\ requests'[x].connected => open
          /\ requests'[x].pc = "publishing" => requests'[x].copy # NoFile
    BY <1>2 DEF Shape, Phases
  <1>5. CASE r \in Restoring
    <2>1. \A x \in Restoring : requests'[x] = q /\ requests[x] = requests[r] /\ x = r
      BY <1>2, <1>5 DEF OneRestore, Requests
    <2>2. open
      BY <1>3, <1>5 DEF Shape, Phases, Untouched, Copying, Replacing
    <2>3. maintenance /\ ~upgrading /\ ready
      BY <1>5 DEF Shape, Phases, Restores
    <2> QED BY <1>1, <1>3, <1>4, <1>5, <2>1, <2>2, <2>3 DEF Shape, TypeOK, Phases, Copying, Replacing, Restores, Untouched
  <1>6. CASE r \notin Restoring
    <2>1. \A x \in Restoring : requests'[x] = requests[x]
      BY <1>2, <1>6 DEF Requests
    <2>2. maintenance' = maintenance
      BY <1>6 DEF Shape, TypeOK
    <2> QED BY <1>1, <1>3, <1>4, <1>6, <2>1, <2>2 DEF Shape, Phases
  <1> QED BY <1>5, <1>6

LEMMA ShapeCopying ==
  ASSUME StoreAssumption, OneRestore, Shape, NEW r \in Requests, Copy(r) \/ Publish(r) \/ Prune(r)
  PROVE  Shape'
  <1>1. requests[r] \in Progress /\ requests[r].pc \in Copying
    BY DEF Shape, TypeOK, Copy, Publish, Prune, At, Copying
  <1>2. ASSUME Fails(r) \/ (Answer(r) /\ UNCHANGED <<now, live, preserved, session, alive, build, ready, upgrading, open, leaked, beating, past>>),
               preserved' = preserved, backups' \subseteq Database, partial' \subseteq Requests
        PROVE  Shape'
    <2>1. /\ requests' = [requests EXCEPT ![r] = Request("answered")] /\ maintenance' = (maintenance /\ r \notin Restoring)
          /\ UNCHANGED <<now, live, session, alive, build, ready, upgrading, open, leaked, beating, past>>
      BY <1>2 DEF Fails, Answer
    <2> QED BY <1>1, <1>2, <2>1, AnsweredRequest, ShapeGoesOn DEF Copying
  <1>3. ASSUME NEW q \in Progress, requests' = [requests EXCEPT ![r] = q], maintenance' = maintenance,
               UNCHANGED <<now, live, preserved, session, alive, build, ready, upgrading, open, leaked, beating, past>>,
               backups' \subseteq Database, partial' \subseteq Requests,
               q.pc \in Copying \/ (r \in Restoring /\ q.pc = "staging"),
               q.connected = requests[r].connected, q.pc = "publishing" => q.copy # NoFile
        PROVE  Shape'
    BY <1>1, <1>3, ShapeGoesOn
  <1>4. CASE Copy(r)
    <2>1. CASE partial' \in {partial, partial \ {r}} /\ Fails(r)
      BY <1>2, <2>1 DEF Fails, Shape, TypeOK
    <2>2. CASE /\ requests[r].connected
               /\ requests' = [requests EXCEPT ![r].pc = "publishing", ![r].copy = live, ![r].counted = 0]
               /\ UNCHANGED <<now, files, worker, past>>
      <3> DEFINE q == [requests[r] EXCEPT !.pc = "publishing", !.copy = live, !.counted = 0]
      <3>1. q \in Progress /\ q.pc \in Copying /\ q.connected = requests[r].connected /\ q.copy = live
        BY <1>1 DEF Progress, Phase, Shape, TypeOK, Copying
      <3>2. requests' = [requests EXCEPT ![r] = q]
        BY <2>2 DEF Shape, TypeOK
      <3>3. live # NoFile
        BY <1>1, <2>2, ActiveIsAlive DEF Shape, Phases, Copying, Untouched
      <3>4. UNCHANGED <<now, live, preserved, backups, partial, session, alive, build, ready, upgrading, open,
                        leaked, beating, maintenance, past>>
        BY <2>2 DEF files, worker
      <3>5. backups' \subseteq Database /\ partial' \subseteq Requests
        BY <3>4 DEF Shape, TypeOK
      <3> HIDE DEF q
      <3> QED BY <1>3, <3>1, <3>2, <3>3, <3>4, <3>5
    <2> QED BY <1>4, <2>1, <2>2 DEF Copy
  <1>5. CASE Publish(r)
    <2>1. CASE r \notin partial
      BY <1>2, <1>5, <2>1 DEF Publish, Fails, Shape, TypeOK
    <2>2. CASE r \in partial
      <3>1. /\ backups' = backups \cup {requests[r].copy} /\ partial' = partial \ {r}
            /\ UNCHANGED <<now, live, preserved, session, alive, build, ready, upgrading, open, leaked, beating, past>>
        BY <1>5, <2>2 DEF Publish
      <3>2. backups' \subseteq Database /\ partial' \subseteq Requests
        BY <1>1, <1>5, <3>1 DEF Publish, At, Shape, TypeOK, Phases, Progress
      <3>3. CASE Answer(r)
        BY <1>2, <3>1, <3>2, <3>3
      <3>4. CASE requests[r].connected
        <4> DEFINE q == [requests[r] EXCEPT !.pc = "pruning", !.copy = IF r \in Restoring THEN @ ELSE NoFile]
        <4>1. q \in Progress /\ q.pc = "pruning" /\ q.pc \in Copying /\ q.connected = requests[r].connected
          BY <1>1 DEF Progress, Phase, Copying
        <4>2. requests' = [requests EXCEPT ![r] = q] /\ maintenance' = maintenance
          BY <1>5, <2>2, <3>4 DEF Publish, Shape, TypeOK
        <4> HIDE DEF q
        <4> QED BY <1>3, <3>1, <3>2, <4>1, <4>2
      <3> QED BY <1>5, <2>2, <3>3, <3>4 DEF Publish
    <2> QED BY <2>1, <2>2
  <1>6. CASE Prune(r)
    <2>1. partial' \subseteq Requests
      BY <1>6 DEF Prune, Shape, TypeOK
    <2>2. CASE Fails(r)
      BY <1>2, <2>1, <2>2 DEF Fails, Shape, TypeOK
    <2>3. CASE r \in Restoring /\ Goes(r, "staging") /\ UNCHANGED <<now, live, preserved, backups, worker, past>>
      <3> DEFINE q == [requests[r] EXCEPT !.pc = "staging"]
      <3>1. q \in Progress /\ q.pc = "staging" /\ q.connected = requests[r].connected
        BY <1>1 DEF Progress, Phase
      <3>2. requests' = [requests EXCEPT ![r] = q]
        BY <2>3 DEF Goes, Shape, TypeOK
      <3> HIDE DEF q
      <3> QED BY <1>3, <2>1, <2>3, <3>1, <3>2 DEF worker, Shape, TypeOK
    <2> QED BY <1>6, <2>2, <2>3 DEF Prune
  <1> QED BY <1>4, <1>5, <1>6

\* The connection is closed: no copy may use it any longer.
LEMMA ShapeStage ==
  ASSUME StoreAssumption, OneRestore, Shape, NEW r \in Requests, Stage(r)
  PROVE  Shape'
  <1>1. /\ requests[r] \in Progress /\ requests[r].pc = "staging" /\ r \in Restoring /\ r \notin Backing
        /\ open /\ alive /\ maintenance /\ ~upgrading /\ ready /\ live # NoFile
    BY ActiveIsAlive DEF Shape, TypeOK, Stage, At, Phases, Requests, Untouched, Copying, Replacing, Restores
  <1>2. CASE /\ requests' = [requests EXCEPT ![r].pc = "reopening", ![r].candidate = NoFile]
             /\ UNCHANGED <<now, files, worker, past>>
    <2> DEFINE q == [requests[r] EXCEPT !.pc = "reopening", !.candidate = NoFile]
    <2>1. q \in Progress /\ q.pc = "reopening"
      BY <1>1 DEF Progress, Phase
    <2>2. requests' = [requests EXCEPT ![r] = q]
      BY <1>2 DEF Shape, TypeOK
    <2>3. UNCHANGED <<now, live, preserved, backups, partial, session, alive, build, ready, upgrading, open, leaked,
                      beating, maintenance, past>> /\ backups' \subseteq Database /\ partial' \subseteq Requests
      BY <1>2 DEF files, worker, Shape, TypeOK
    <2> HIDE DEF q
    <2> QED BY <1>1, <2>1, <2>2, <2>3, ShapeGoesOn DEF Copying
  <1>3. CASE /\ requests' = [x \in Requests |-> [requests[x] EXCEPT !.connected = FALSE,
                                                 !.pc = IF x = r THEN "preserving" ELSE @]]
             /\ open' = FALSE /\ beating' = FALSE
             /\ UNCHANGED <<now, files, session, alive, build, ready, upgrading, leaked, maintenance, past>>
    <2>1. \A x \in Requests : /\ requests'[x] \in Progress /\ ~requests'[x].connected
                              /\ requests'[x].copy = requests[x].copy
                              /\ requests'[x].pc = IF x = r THEN "preserving" ELSE requests[x].pc
      <3>1. SUFFICES ASSUME NEW x \in Requests
                     PROVE  /\ requests'[x] \in Progress /\ ~requests'[x].connected
                            /\ requests'[x].copy = requests[x].copy
                            /\ requests'[x].pc = IF x = r THEN "preserving" ELSE requests[x].pc
        OBVIOUS
      <3>2. requests[x] \in Progress
        BY DEF Shape, TypeOK
      <3>3. requests'[x] = [requests[x] EXCEPT !.connected = FALSE, !.pc = IF x = r THEN "preserving" ELSE @]
        BY <1>3
      <3> QED BY ONLY <3>2, <3>3 DEF Progress, Phase
    <2>2. TypeOK'
      BY <1>3, <2>1 DEF files, past, failures, Shape, TypeOK
    <2>3. \A x \in Restoring : requests'[x].pc = "preserving" /\ x \in Requests
      BY <1>1, <2>1 DEF OneRestore, Requests
    <2>4. /\ \A x \in Backing : requests'[x].pc \in Untouched \cup Copying
          /\ \A x \in Requests : requests'[x].pc = "publishing" => requests'[x].copy # NoFile
      BY <1>1, <2>1 DEF Shape, Phases, Requests
    <2>5. Phases'
      BY <1>1, <1>3, <2>1, <2>3, <2>4 DEF files, Phases, Copying, Replacing, Restores
    <2> QED BY <2>2, <2>5 DEF Shape
  <1>4. CASE Fails(r) /\ UNCHANGED partial
    <2>1. /\ requests' = [requests EXCEPT ![r] = Request("answered")] /\ maintenance' = (maintenance /\ r \notin Restoring)
          /\ UNCHANGED <<now, live, preserved, session, alive, build, ready, upgrading, open, leaked, beating, past>>
          /\ backups' \subseteq Database /\ partial' \subseteq Requests
      BY <1>4 DEF Fails, Answer, Shape, TypeOK
    <2> QED BY <1>1, <2>1, AnsweredRequest, ShapeGoesOn DEF Copying
  <1> QED BY <1>2, <1>3, <1>4 DEF Stage

LEMMA ShapePreserve ==
  ASSUME StoreAssumption, OneRestore, Shape, NEW r \in Requests, Preserve(r)
  PROVE  Shape'
  <1>1. /\ requests[r] \in Progress /\ requests[r].pc = "preserving" /\ r \in Restoring /\ r \notin Backing
        /\ ~open /\ alive /\ maintenance /\ ~upgrading /\ ready /\ live \in Database
    BY ActiveIsAlive DEF Shape, TypeOK, Preserve, At, Phases, Requests, Untouched, Copying, Replacing, Restores
  <1>2. UNCHANGED <<now, backups, partial, session, alive, build, ready, upgrading, open, leaked, beating, maintenance,
                    kept, watched, missed, reopened, skipped, lost, stranded>>
    BY DEF Preserve, worker, past, failures
  <1>3. /\ live' \in Database \cup {NoFile} /\ preserved' \subseteq Database
        /\ \E q \in Progress : /\ requests' = [requests EXCEPT ![r] = q] /\ q.pc = "replacing"
                               /\ live' = NoFile => q.aside # NoFile
    <2>1. CASE /\ live # NoFile /\ preserved' = preserved \cup {live} /\ live' = NoFile
               /\ requests' = [requests EXCEPT ![r].pc = "replacing", ![r].aside = live]
      <3> DEFINE q == [requests[r] EXCEPT !.pc = "replacing", !.aside = live]
      <3>1. q \in Progress /\ q.pc = "replacing" /\ q.aside = live
        BY <1>1 DEF Progress, Phase
      <3>2. requests' = [requests EXCEPT ![r] = q]
        BY <2>1 DEF Shape, TypeOK
      <3> HIDE DEF q
      <3> QED BY <1>1, <2>1, <3>1, <3>2 DEF Shape, TypeOK
    <2>2. CASE Goes(r, "replacing") /\ UNCHANGED <<live, preserved>>
      <3> DEFINE q == [requests[r] EXCEPT !.pc = "replacing"]
      <3>1. q \in Progress /\ q.pc = "replacing"
        BY <1>1 DEF Progress, Phase
      <3>2. requests' = [requests EXCEPT ![r] = q]
        BY <2>2 DEF Goes, Shape, TypeOK
      <3> HIDE DEF q
      <3> QED BY <1>1, <2>2, <3>1, <3>2, FileIsNoFile DEF Shape, TypeOK
    <2> QED BY <2>1, <2>2 DEF Preserve
  <1>4. PICK q \in Progress : /\ requests' = [requests EXCEPT ![r] = q] /\ q.pc = "replacing"
                              /\ live' = NoFile => q.aside # NoFile
    BY <1>3
  <1>5. \A x \in Requests : requests'[x] = IF x = r THEN q ELSE requests[x]
    BY <1>4 DEF Shape, TypeOK
  <1>6. TypeOK'
    BY <1>2, <1>3, <1>4 DEF Shape, TypeOK
  <1>7. \A x \in Restoring : x \in Requests /\ x = r /\ requests'[x] = q
    BY <1>1, <1>5 DEF OneRestore, Requests
  <1>8. /\ \A x \in Backing : requests'[x].pc \in Untouched \cup Copying
        /\ \A x \in Requests : /\ requests'[x].pc \in Copying /\ requests'[x].connected => open
                               /\ requests'[x].pc = "publishing" => requests'[x].copy # NoFile
    BY <1>1, <1>4, <1>5 DEF Shape, Phases, Requests, Copying
  <1>9. Phases'
    BY <1>1, <1>2, <1>4, <1>7, <1>8 DEF Phases, Copying, Replacing, Restores
  <1> QED BY <1>6, <1>9 DEF Shape

LEMMA ShapeReplace ==
  ASSUME StoreAssumption, OneRestore, Shape, NEW r \in Requests, Replace(r)
  PROVE  Shape'
  <1>1. /\ requests[r] \in Progress /\ requests[r].pc = "replacing" /\ r \in Restoring /\ r \notin Backing
        /\ ~open /\ alive /\ maintenance /\ ~upgrading /\ ready
    BY ActiveIsAlive DEF Shape, TypeOK, Replace, At, Phases, Requests, Untouched, Copying, Replacing, Restores
  <1>2. UNCHANGED <<now, backups, partial, session, alive, build, ready, upgrading, open, leaked, beating,
                    kept, reopened, skipped, lost>>
        /\ watched' \in Instants \cup {Never} /\ missed' \subseteq Instants /\ stranded' \in BOOLEAN
    BY DEF Replace, Forgets, Shape, TypeOK, failures
  <1>3. /\ live' \in Database \cup {NoFile} /\ preserved' \subseteq Database
        /\ \E q \in Progress : /\ requests' = [requests EXCEPT ![r] = q]
                               /\ \/ q.pc = "reopening" /\ maintenance' = TRUE
                                  \/ q.pc = "answered" /\ maintenance' = FALSE
    <2>1. CASE live' = requests[r].candidate /\ Goes(r, "reopening") /\ preserved' = preserved /\ maintenance' = maintenance
      <3> DEFINE q == [requests[r] EXCEPT !.pc = "reopening"]
      <3>1. q \in Progress /\ q.pc = "reopening"
        BY <1>1 DEF Progress, Phase
      <3>2. requests' = [requests EXCEPT ![r] = q]
        BY <2>1 DEF Goes, Shape, TypeOK
      <3> HIDE DEF q
      <3> QED BY <1>1, <2>1, <3>1, <3>2 DEF Shape, TypeOK, Progress
    <2>2. CASE /\ requests' = [requests EXCEPT ![r].pc = "reopening", ![r].candidate = NoFile]
               /\ live' \in {live, requests[r].aside} /\ preserved' \subseteq preserved /\ maintenance' = maintenance
      <3> DEFINE q == [requests[r] EXCEPT !.pc = "reopening", !.candidate = NoFile]
      <3>1. q \in Progress /\ q.pc = "reopening"
        BY <1>1 DEF Progress, Phase
      <3>2. requests' = [requests EXCEPT ![r] = q]
        BY <2>2 DEF Shape, TypeOK
      <3> HIDE DEF q
      <3> QED BY <1>1, <2>2, <3>1, <3>2 DEF Shape, TypeOK, Progress
    <2>3. CASE Answer(r) /\ UNCHANGED <<live, preserved>>
      BY <1>1, <2>3, AnsweredRequest DEF Answer, Shape, TypeOK
    <2> QED BY <2>1, <2>2, <2>3 DEF Replace
  <1>4. PICK q \in Progress : /\ requests' = [requests EXCEPT ![r] = q]
                              /\ \/ q.pc = "reopening" /\ maintenance' = TRUE
                                 \/ q.pc = "answered" /\ maintenance' = FALSE
    BY <1>3
  <1>5. \A x \in Requests : requests'[x] = IF x = r THEN q ELSE requests[x]
    BY <1>4 DEF Shape, TypeOK
  <1>6. TypeOK'
    BY <1>2, <1>3, <1>4 DEF Shape, TypeOK
  <1>7. \A x \in Restoring : x \in Requests /\ x = r /\ requests'[x] = q
    BY <1>1, <1>5 DEF OneRestore, Requests
  <1>8. /\ \A x \in Backing : requests'[x].pc \in Untouched \cup Copying
        /\ \A x \in Requests : /\ requests'[x].pc \in Copying /\ requests'[x].connected => open
                               /\ requests'[x].pc = "publishing" => requests'[x].copy # NoFile
    BY <1>1, <1>4, <1>5 DEF Shape, Phases, Requests, Copying
  <1>9. Phases'
    BY <1>1, <1>2, <1>4, <1>7, <1>8 DEF Phases, Untouched, Copying, Replacing, Restores
  <1> QED BY <1>6, <1>9 DEF Shape

LEMMA ShapeReopen ==
  ASSUME StoreAssumption, OneRestore, Shape, NEW r \in Requests, Reopen(r)
  PROVE  Shape'
  <1>1. /\ requests[r] \in Progress /\ requests[r].pc = "reopening" /\ r \in Restoring /\ r \notin Backing
        /\ alive /\ maintenance /\ ~upgrading /\ ready
    BY ActiveIsAlive DEF Shape, TypeOK, Reopen, At, Phases, Requests, Untouched, Copying, Restores
  <1>2. /\ live' \in Database \cup {NoFile} /\ leaked' \in BOOLEAN /\ upgrading' \in BOOLEAN /\ open' \in BOOLEAN
        /\ beating' \in BOOLEAN /\ reopened' \in BOOLEAN /\ ready' \in BOOLEAN /\ ready'
        /\ lost' \subseteq Instants /\ stranded' \in BOOLEAN
        /\ upgrading' => open'
        /\ live' = NoFile => ~open'
        /\ open => open'
    <2>1. CASE OpenFile(live, session)
      BY <1>1, <2>1, OpenedTypes, FileIsNoFile DEF Shape, TypeOK
    <2>2. CASE OpenFails
      BY <1>1, <2>2, FailedTypes DEF Shape, Phases
    <2> QED BY <2>1, <2>2 DEF Reopen
  <1>3. UNCHANGED <<now, preserved, backups, partial, session, alive, build, kept, watched, missed, skipped>>
    BY DEF Reopen
  <1>4. \E q \in Progress : /\ requests' = [requests EXCEPT ![r] = q]
                            /\ \/ q.pc = "upgrading" /\ upgrading' /\ maintenance' = maintenance
                               \/ q.pc = "answered" /\ ~upgrading' /\ maintenance' = FALSE
    <2>1. CASE upgrading' /\ Goes(r, "upgrading") /\ maintenance' = maintenance
      <3> DEFINE q == [requests[r] EXCEPT !.pc = "upgrading"]
      <3>1. q \in Progress /\ q.pc = "upgrading"
        BY <1>1 DEF Progress, Phase
      <3>2. requests' = [requests EXCEPT ![r] = q]
        BY <2>1 DEF Goes, Shape, TypeOK
      <3> HIDE DEF q
      <3> QED BY <2>1, <3>1, <3>2
    <2>2. CASE ~upgrading' /\ Answer(r)
      BY <1>1, <2>2, AnsweredRequest DEF Answer
    <2> QED BY <2>1, <2>2 DEF Reopen, AnswerOpened
  <1>5. PICK q \in Progress : /\ requests' = [requests EXCEPT ![r] = q]
                              /\ \/ q.pc = "upgrading" /\ upgrading' /\ maintenance' = maintenance
                                 \/ q.pc = "answered" /\ ~upgrading' /\ maintenance' = FALSE
    BY <1>4
  <1>6. \A x \in Requests : requests'[x] = IF x = r THEN q ELSE requests[x]
    BY <1>5 DEF Shape, TypeOK
  <1>7. TypeOK'
    BY <1>2, <1>3, <1>5 DEF Shape, TypeOK
  <1>8. \A x \in Restoring : x \in Requests /\ x = r /\ requests'[x] = q
    BY <1>1, <1>6 DEF OneRestore, Requests
  <1>9. /\ \A x \in Backing : requests'[x].pc \in Untouched \cup Copying
        /\ \A x \in Requests : /\ requests'[x].pc = "publishing" => requests'[x].copy # NoFile
                               /\ requests'[x].pc \in Copying /\ requests'[x].connected => open'
    BY <1>1, <1>2, <1>5, <1>6 DEF Shape, Phases, Requests, Copying
  <1>10. Phases'
    BY <1>1, <1>2, <1>3, <1>5, <1>8, <1>9 DEF Phases, Untouched, Copying, Replacing, Restores
  <1> QED BY <1>7, <1>10 DEF Shape

LEMMA ShapeInit ==
  ASSUME StoreAssumption, HInit PROVE Shape
  <1>1. PICK b \in BOOLEAN, first \in {1, 2} :
       /\ live = Beats(first, b)
       /\ backups = {Beats(s, b) : s \in 1..(first - 1)}
       /\ watched = (IF b THEN 0 ELSE Never)
       /\ session = first
       /\ requests = [r \in Requests |-> IF first = 1 THEN Request("answered") ELSE NoRequest]
    BY DEF HInit
  <1>2. \A s \in 1..MaxSessions : Beats(s, b) \in Database
    <2>1. TAKE s \in 1..MaxSessions
    <2> DEFINE rows == [x \in {s} |-> [state |-> "running", beat |-> 0, collecting |-> b]]
    <2>2. build[s] \in Seq(STRING) /\ 0 \in Instants
      BY DEF HInit, StoreAssumption, Instants
    <2>3. rows \in [{s} -> Row] /\ {s} \in SUBSET (1..MaxSessions)
      BY <2>2 DEF Row
    <2>4. rows \in UNION {[ids -> Row] : ids \in SUBSET (1..MaxSessions)}
      <3> HIDE DEF rows
      <3> QED BY <2>3
    <2>5. Beats(s, b) = [Empty EXCEPT !.schema = build[s], !.wanted = b, !.sessions = rows]
      BY DEF Beats
    <2> HIDE DEF rows
    <2> QED BY <2>2, <2>4, <2>5, EmptyFile DEF Database
  <1>3. session \in 1..MaxSessions /\ \A s \in 1..(first - 1) : s \in 1..MaxSessions
    BY <1>1 DEF StoreAssumption
  <1>4. live \in Database /\ backups \subseteq Database /\ live # NoFile
    BY <1>1, <1>2, <1>3, FileIsNoFile
  <1>5. NoRequest \in Progress /\ NoRequest.pc = "none"
    BY DEF NoRequest, Request, Progress, Phase
  <1>6. requests \in [Requests -> Progress] /\ \A r \in Requests : requests[r].pc \in {"none", "answered"}
    BY <1>1, <1>5, AnsweredRequest
  <1>7. TypeOK
    <2>1. now \in Instants /\ watched \in Instants \cup {Never}
      BY <1>1 DEF HInit, Instants, StoreAssumption
    <2>2. /\ preserved = {} /\ partial = {} /\ kept = {} /\ missed = {} /\ build \in Builds
          /\ alive = TRUE /\ ready = TRUE /\ upgrading = FALSE /\ open = TRUE /\ leaked = FALSE
          /\ beating = TRUE /\ maintenance = FALSE /\ reopened = FALSE /\ skipped = FALSE
          /\ lost = {} /\ stranded = FALSE
      BY DEF HInit
    <2> QED BY <1>3, <1>4, <1>6, <2>1, <2>2 DEF TypeOK
  <1>8. Phases
    BY <1>4, <1>6 DEF HInit, Phases, Requests, Untouched, Copying, Replacing, Restores
  <1> QED BY <1>7, <1>8 DEF Shape

LEMMA ShapeRequest ==
  ASSUME StoreAssumption, OneRestore, Shape, NEW r \in Requests, RequestStep(r) PROVE Shape'
  BY ShapeCopying, ShapeStage, ShapePreserve, ShapeReplace, ShapeReopen DEF RequestStep

LEMMA ShapeNext ==
  ASSUME StoreAssumption, OneRestore, Shape, [HNext]_hvars PROVE Shape'
  <1>1. ASSUME NEW r \in Backing, BeginBackup(r) PROVE Shape'
    <2>1. r \in Requests /\ r \notin Restoring /\ maintenance' = maintenance /\ maintenance \in BOOLEAN
      BY <1>1 DEF BeginBackup, Requests, StoreAssumption, Shape, TypeOK
    <2>2. maintenance' = (maintenance \/ r \in Restoring)
      BY <2>1
    <2> QED BY <1>1, <2>1, <2>2, ShapeBegin DEF BeginBackup
  <1>2. ASSUME NEW r \in Restoring, NEW f \in backups \cup preserved, BeginRestore(r, f) PROVE Shape'
    <2>1. r \in Requests /\ maintenance' = (maintenance \/ r \in Restoring) /\ f \in Database
      BY <1>2 DEF BeginRestore, Requests, Shape, TypeOK
    <2> QED BY <1>2, <2>1, ShapeBegin DEF BeginRestore
  <1>3. CASE UNCHANGED hvars
    BY <1>3 DEF hvars, files, worker, past, failures, Shape, TypeOK, Phases
  <1> QED BY <1>1, <1>2, <1>3, ShapeLaunch, ShapeUpgrade, ShapeEnds, ShapeTick, ShapeWrite, ShapeRequest DEF HNext

-----------------------------------------------------------------------------
(* What was read is kept. *)

\* Nothing is lost where no file goes and the live one loses nothing.
LEMMA KeptWhereFilesStay ==
  ASSUME HistoryKept, kept' \subseteq kept, preserved \subseteq preserved', backups \subseteq backups',
         Holds(live) \subseteq Holds(live')
  PROVE  HistoryKept'
  <1> SUFFICES ASSUME NEW t \in kept'
               PROVE  \E f \in preserved' \cup backups' \cup {live'} : t \in Holds(f)
    BY DEF HistoryKept, Holds
  <1>1. PICK f \in preserved \cup backups \cup {live} : t \in Holds(f)
    BY DEF HistoryKept
  <1> QED BY <1>1

\* A restore that has no copy to speak of has no copy to lose.
LEMMA CopiesOfNone ==
  ASSUME \A r \in Restoring : requests'[r].pc \in Untouched \cup {"copying", "reopening", "upgrading"}
  PROVE  Copies'
  BY DEF Copies, Untouched, Replacing

LEMMA CopiesStay ==
  ASSUME Copies, \A r \in Restoring : requests'[r].pc = requests[r].pc /\ requests'[r].copy = requests[r].copy,
         backups \subseteq backups', Holds(live') \subseteq Holds(live)
  PROVE  Copies'
  BY DEF Copies

LEMMA KeptOpening ==
  ASSUME StoreAssumption, KInv, Shape', Launch \/ \E r \in Requests : Reopen(r)
  PROVE  HistoryKept'
  <1>1. Holds(live) \subseteq Holds(live')
    <2>1. CASE \E s \in 1..MaxSessions : OpenFile(live, s)
      <3>1. live'.obs = Opened(live).obs /\ live' \in Database
        BY <2>1, OpenedTypes DEF KInv
      <3> QED BY <3>1, EmptyFile, FileIsNoFile DEF Opened, Holds
    <2>2. CASE OpenFails
      BY <2>2 DEF OpenFails, Holds
    <2> QED BY <2>1, <2>2 DEF Launch, Reopen, KInv, TypeOK, StoreAssumption
  <1>2. UNCHANGED <<preserved, backups, kept>>
    BY DEF Launch, Reopen
  <1> QED BY <1>1, <1>2, KeptWhereFilesStay DEF KInv

LEMMA KInvProcess ==
  ASSUME StoreAssumption, OneRestore, KInv, Launch \/ Upgrade \/ Crash \/ Shutdown \/ Tick PROVE KInv'
  <1>0. Shape /\ Shape'
    BY ShapeNext DEF KInv, Shape, HNext
  <1>1. CASE Launch
    <2>1. \A r \in Restoring : requests'[r].pc \in Untouched
      BY <1>0, <1>1 DEF Launch, Shape, Phases, Requests
    <2> QED BY <1>0, <1>1, <2>1, CopiesOfNone, KeptOpening DEF KInv, Shape
  <1>2. CASE Upgrade
    <2>1. kept' = kept /\ preserved' = preserved
      BY <1>2 DEF Upgrade
    <2>2. Holds(live) \subseteq Holds(live')
      BY <1>0, <1>2, ShapeUpgrade, FileIsNoFile DEF Holds
    <2> QED BY <1>0, <1>2, <2>1, <2>2, ShapeUpgrade, CopiesOfNone, KeptWhereFilesStay DEF KInv, Shape
  <1>3. CASE Crash \/ Shutdown
    <2>1. kept' = kept /\ preserved' = preserved /\ backups' = backups
      BY <1>3 DEF Crash, Shutdown, Ends
    <2> QED BY <1>0, <1>3, <2>1, ShapeEnds, CopiesOfNone, KeptWhereFilesStay DEF KInv, Shape, Requests
  <1>4. CASE Tick
    <2>1. UNCHANGED <<preserved, backups, requests, kept>>
      BY <1>4 DEF Tick
    <2>2. Holds(live') = Holds(live)
      <3>1. CASE live' = live
        BY <3>1 DEF Holds
      <3>2. CASE live # NoFile /\ session \in DOMAIN live.sessions /\ live' = Beat(live)
        <4>1. live \in Database /\ now + 1 \in Instants
          BY <1>0, <1>4, <3>2 DEF Shape, TypeOK, Tick, Instants, StoreAssumption
        <4> QED BY <3>2, <4>1, BeatFile, FileIsNoFile DEF Holds
      <3> QED BY <1>4, <3>1, <3>2 DEF Tick
    <2> QED BY <1>0, <2>1, <2>2, CopiesStay, KeptWhereFilesStay DEF KInv, Shape
  <1> QED BY <1>1, <1>2, <1>3, <1>4

LEMMA KInvWrite ==
  ASSUME StoreAssumption, OneRestore, KInv,
         Ingest \/ (\E b \in Switched : SetRunning(b)) \/ (\E c \in Cutoffs : DeleteBefore(c))
  PROVE  KInv'
  <1>0. Shape /\ Shape' /\ live \in Database /\ live' \in Database
    BY ShapeWrite DEF KInv, Shape
  <1>1. live # NoFile /\ live' # NoFile
    BY <1>0, FileIsNoFile
  <1>2. CASE Ingest
    <2>1. live'.obs = live.obs \cup {now} /\ kept' = kept \cup {now} /\ UNCHANGED <<preserved, backups, requests>>
      BY <1>0, <1>2 DEF Ingest, Database
    <2>2. Copies'
      <3>1. \A r \in Restoring : requests'[r].pc \in Untouched \cup {"upgrading"}
        BY <1>0, <1>2, <2>1 DEF Ingest, Shape, TypeOK, Phases, Progress, Phase, Requests, Untouched, Copying, Replacing, Restores
      <3> QED BY <3>1, CopiesOfNone
    <2>3. HistoryKept'
      <3> SUFFICES ASSUME NEW t \in kept'
                   PROVE  \E f \in preserved' \cup backups' \cup {live'} : t \in Holds(f)
        BY DEF HistoryKept, Holds
      <3>1. CASE t = now
        BY <1>1, <2>1, <3>1 DEF Holds
      <3>2. CASE t \in kept
        <4>1. PICK f \in preserved \cup backups \cup {live} : t \in Holds(f)
          BY <3>2 DEF KInv, HistoryKept
        <4> QED BY <1>1, <2>1, <4>1 DEF Holds
      <3> QED BY <2>1, <3>1, <3>2
    <2> QED BY <1>0, <2>2, <2>3 DEF KInv, Shape
  <1>3. ASSUME NEW b \in Switched, SetRunning(b) PROVE KInv'
    <2>1. live'.obs = live.obs /\ UNCHANGED <<preserved, backups, requests, kept>>
      BY <1>0, <1>3 DEF SetRunning, Database, past, failures
    <2>2. Holds(live') = Holds(live)
      BY <1>1, <2>1 DEF Holds
    <2> QED BY <1>0, <2>1, <2>2, CopiesStay, KeptWhereFilesStay DEF KInv, Shape
  <1>4. ASSUME NEW c \in Cutoffs, DeleteBefore(c) PROVE KInv'
    <2>1. /\ live'.obs = {t \in live.obs : t >= c} /\ kept' = {t \in kept : t >= c}
          /\ UNCHANGED <<preserved, backups, requests>>
      BY <1>0, <1>4 DEF DeleteBefore, Database
    <2>2. Copies'
      <3>1. Holds(live') \subseteq Holds(live)
        BY <1>1, <2>1 DEF Holds
      <3> QED BY <2>1, <3>1, CopiesStay DEF KInv
    <2>3. HistoryKept'
      <3> SUFFICES ASSUME NEW t \in kept'
                   PROVE  \E f \in preserved' \cup backups' \cup {live'} : t \in Holds(f)
        BY DEF HistoryKept, Holds
      <3>1. t \in kept /\ t >= c
        BY <2>1
      <3>2. PICK f \in preserved \cup backups \cup {live} : t \in Holds(f)
        BY <3>1 DEF KInv, HistoryKept
      <3>3. CASE f = live
        BY <1>1, <2>1, <3>1, <3>2, <3>3 DEF Holds
      <3> QED BY <2>1, <3>2, <3>3
    <2> QED BY <1>0, <2>2, <2>3 DEF KInv, Shape
  <1> QED BY <1>2, <1>3, <1>4

\* A backup or a restore that copies, or is answered: no file goes.
LEMMA KInvCopying ==
  ASSUME StoreAssumption, OneRestore, KInv, Shape', NEW r \in Requests,
         \/ Copy(r) \/ Publish(r) \/ Prune(r)
         \/ r \in Backing /\ BeginBackup(r)
         \/ r \in Restoring /\ \E f \in backups \cup preserved : BeginRestore(r, f)
  PROVE  KInv'
  <1>1. Shape /\ UNCHANGED <<live, preserved, kept>> /\ backups \subseteq backups'
    BY DEF KInv, Shape, Copy, Publish, Prune, BeginBackup, BeginRestore, Begin, Fails, files, past, failures, worker
  <1>2. HistoryKept'
    BY <1>1, KeptWhereFilesStay DEF KInv
  <1>3. \E q \in Progress : /\ requests' = [requests EXCEPT ![r] = q]
                            /\ \/ q.pc \in {"answered", "copying"}
                               \/ q.pc = "publishing" /\ q.copy = live
                               \/ r \in Restoring => q.pc \in {"pruning", "staging"} /\ q.copy = requests[r].copy
                                                     /\ requests[r].pc \in {"publishing", "pruning"} /\ q.copy \in backups'
    <2>0. requests[r] \in Progress /\ requests \in [Requests -> Progress]
      BY <1>1 DEF Shape, TypeOK
    <2>1. CASE Answer(r)
      BY <2>1, AnsweredRequest DEF Answer
    <2>2. CASE \E f \in Database \cup {NoFile} : Begin(r, f)
      <3>1. PICK f \in Database \cup {NoFile} : Begin(r, f)
        BY <2>2
      <3> DEFINE q == [pc |-> "copying", candidate |-> f, counted |-> Cardinality(live.obs), copy |-> NoFile,
                       aside |-> NoFile, connected |-> TRUE]
      <3>2. live \in Database
        BY <1>1, <3>1 DEF Begin, Serving, Shape, TypeOK, Phases
      <3>3. q \in Progress /\ q.pc = "copying"
        BY <3>2, CountedIsNat DEF Progress, Phase
      <3>4. requests' = [requests EXCEPT ![r] = q]
        BY <3>1 DEF Begin
      <3> HIDE DEF q
      <3> QED BY <3>3, <3>4
    <2>3. CASE requests' = [requests EXCEPT ![r].pc = "publishing", ![r].copy = live, ![r].counted = 0]
      <3> DEFINE q == [requests[r] EXCEPT !.pc = "publishing", !.copy = live, !.counted = 0]
      <3>1. q \in Progress /\ q.pc = "publishing" /\ q.copy = live
        BY <1>1, <2>0 DEF Progress, Phase, Shape, TypeOK
      <3>2. requests' = [requests EXCEPT ![r] = q]
        BY <2>0, <2>3
      <3> HIDE DEF q
      <3> QED BY <3>1, <3>2
    <2>4. CASE /\ requests[r].pc = "publishing" /\ backups' = backups \cup {requests[r].copy}
               /\ requests' = [requests EXCEPT ![r].pc = "pruning", ![r].copy = IF r \in Restoring THEN @ ELSE NoFile]
      <3> DEFINE q == [requests[r] EXCEPT !.pc = "pruning", !.copy = IF r \in Restoring THEN @ ELSE NoFile]
      <3>1. q \in Progress /\ q.pc = "pruning" /\ (r \in Restoring => q.copy = requests[r].copy)
        BY <2>0 DEF Progress, Phase
      <3>2. requests' = [requests EXCEPT ![r] = q]
        BY <2>0, <2>4
      <3> HIDE DEF q
      <3> QED BY <2>4, <3>1, <3>2
    <2>5. CASE r \in Restoring /\ requests[r].pc = "pruning" /\ Goes(r, "staging") /\ backups' = backups
      <3> DEFINE q == [requests[r] EXCEPT !.pc = "staging"]
      <3>1. q \in Progress /\ q.pc = "staging" /\ q.copy = requests[r].copy
        BY <2>0 DEF Progress, Phase
      <3>2. requests' = [requests EXCEPT ![r] = q]
        BY <2>0, <2>5 DEF Goes
      <3>3. q.copy \in backups'
        BY <2>5, <3>1 DEF KInv, Copies
      <3> HIDE DEF q
      <3> QED BY <2>5, <3>1, <3>2, <3>3
    <2>6. CASE Copy(r)
      BY <2>1, <2>3, <2>6 DEF Copy, Fails
    <2>7. CASE Publish(r)
      BY <2>1, <2>4, <2>7 DEF Publish, Fails, At
    <2>8. CASE Prune(r)
      BY <2>1, <2>5, <2>8 DEF Prune, Fails, At
    <2>9. CASE \/ r \in Backing /\ BeginBackup(r)
               \/ r \in Restoring /\ \E f \in backups \cup preserved : BeginRestore(r, f)
      BY <1>1, <2>2, <2>9 DEF BeginBackup, BeginRestore, Shape, TypeOK
    <2> QED BY <2>6, <2>7, <2>8, <2>9
  <1>4. PICK q \in Progress : /\ requests' = [requests EXCEPT ![r] = q]
                              /\ \/ q.pc \in {"answered", "copying"}
                                 \/ q.pc = "publishing" /\ q.copy = live
                                 \/ r \in Restoring => q.pc \in {"pruning", "staging"} /\ q.copy = requests[r].copy
                                                     /\ requests[r].pc \in {"publishing", "pruning"} /\ q.copy \in backups'
    BY <1>3
  <1>5. \A x \in Requests : requests'[x] = IF x = r THEN q ELSE requests[x]
    BY <1>1, <1>4 DEF Shape, TypeOK
  <1>6. CASE r \notin Restoring
    <2>1. \A x \in Restoring : requests'[x] = requests[x]
      BY <1>5, <1>6 DEF Requests
    <2>2. Holds(live') \subseteq Holds(live)
      BY <1>1 DEF Holds
    <2>3. Copies'
      BY <1>1, <2>1, <2>2, CopiesStay DEF KInv
    <2> QED BY <1>2, <2>3 DEF KInv, Shape
  <1>7. CASE r \in Restoring
    <2>1. \A x \in Restoring : x = r /\ requests'[x] = q
      BY <1>5, <1>7 DEF OneRestore, Requests
    <2>2. CASE q.pc \in {"answered", "copying"}
      BY <1>2, <2>1, <2>2, CopiesOfNone DEF KInv, Shape, Untouched
    <2>3. CASE q.pc = "publishing" /\ q.copy = live
      <3>1. live # NoFile
        BY <1>5, <2>3 DEF Shape, Phases
      <3>2. Copies'
        BY <1>1, <2>1, <2>3, <3>1 DEF Copies, Holds, Replacing
      <3> QED BY <1>2, <3>2 DEF KInv, Shape
    <2>4. CASE q.pc \in {"pruning", "staging"} /\ q.copy = requests[r].copy
               /\ requests[r].pc \in {"publishing", "pruning"} /\ q.copy \in backups'
      <3>1. requests[r].copy # NoFile /\ Holds(live) \subseteq requests[r].copy.obs
        BY <1>7, <2>4 DEF KInv, Copies
      <3>2. Copies'
        BY <1>1, <2>1, <2>4, <3>1 DEF Copies, Holds, Replacing
      <3> QED BY <1>2, <3>2 DEF KInv, Shape
    <2> QED BY <1>4, <1>7, <2>2, <2>3, <2>4
  <1> QED BY <1>6, <1>7

\* The restore itself: the file is put aside or replaced only when a copy of what
\* it holds has been published.
LEMMA KInvSwapping ==
  ASSUME StoreAssumption, OneRestore, KInv, Shape', NEW r \in Requests,
         Stage(r) \/ Preserve(r) \/ Replace(r) \/ Reopen(r)
  PROVE  KInv'
  <1>0. Shape /\ requests \in [Requests -> Progress] /\ requests[r] \in Progress
    BY DEF KInv, Shape, TypeOK
  <1>1. r \in Restoring /\ \A x \in Restoring : x = r
    BY ActiveIsAlive DEF KInv, Shape, Stage, Preserve, Replace, Reopen, At, OneRestore, Requests, Copying, Untouched
  <1>2. CASE Stage(r)
    <2>1. UNCHANGED <<live, preserved, backups, kept>> /\ requests[r].pc = "staging"
      BY <1>2 DEF Stage, At, Fails, files, past
    <2>2. HistoryKept'
      BY <2>1, KeptWhereFilesStay DEF KInv
    <2>3. requests'[r].pc \in {"reopening", "answered"} \/ requests'[r].copy = requests[r].copy
      <3>1. CASE Answer(r)
        BY <1>0, <3>1, AnsweredRequest DEF Answer
      <3>2. CASE requests' = [requests EXCEPT ![r].pc = "reopening", ![r].candidate = NoFile]
        BY <1>0, <3>2 DEF Progress
      <3>3. CASE requests' = [x \in Requests |-> [requests[x] EXCEPT !.connected = FALSE,
                                                  !.pc = IF x = r THEN "preserving" ELSE @]]
        BY <1>0, <3>3 DEF Progress
      <3> QED BY <1>2, <3>1, <3>2, <3>3 DEF Stage, Fails
    <2>4. /\ requests[r].copy # NoFile /\ Holds(live) \subseteq requests[r].copy.obs /\ requests[r].copy \in backups
      BY <1>1, <2>1 DEF KInv, Copies
    <2>5. Copies'
      BY <1>1, <2>1, <2>3, <2>4 DEF Copies, Holds, Replacing
    <2> QED BY <2>2, <2>5 DEF KInv, Shape
  <1>3. CASE Preserve(r)
    <2>1. /\ requests[r].pc = "preserving" /\ UNCHANGED <<backups, kept>>
          /\ requests[r].copy # NoFile /\ Holds(live) \subseteq requests[r].copy.obs /\ requests[r].copy \in backups
      BY <1>1, <1>3 DEF Preserve, At, past, failures, KInv, Copies, Replacing
    <2>2. requests'[r].copy = requests[r].copy
      BY <1>0, <1>3 DEF Preserve, Goes, Progress
    <2>3. \/ live' = NoFile /\ preserved' = preserved \cup {live}
          \/ live' = live /\ preserved' = preserved
      BY <1>3 DEF Preserve
    <2>4. Holds(live') \subseteq Holds(live)
      BY <2>3 DEF Holds
    <2>5. Copies'
      BY <1>1, <2>1, <2>2, <2>4 DEF Copies
    <2>6. HistoryKept'
      <3> SUFFICES ASSUME NEW t \in kept'
                   PROVE  \E f \in preserved' \cup backups' \cup {live'} : t \in Holds(f)
        BY DEF HistoryKept, Holds
      <3>1. PICK f \in preserved \cup backups \cup {live} : t \in Holds(f)
        BY <2>1 DEF KInv, HistoryKept
      <3> QED BY <2>1, <2>3, <3>1
    <2> QED BY <2>5, <2>6 DEF KInv, Shape
  <1>4. CASE Replace(r)
    <2>1. /\ requests[r].pc = "replacing" /\ UNCHANGED <<backups, kept>>
          /\ requests[r].copy # NoFile /\ Holds(live) \subseteq requests[r].copy.obs /\ requests[r].copy \in backups
      BY <1>1, <1>4 DEF Replace, At, KInv, Copies, Replacing
    <2>2. requests'[r].pc \in {"reopening", "answered"}
      <3>1. \/ requests' = [requests EXCEPT ![r].pc = "reopening"]
            \/ requests' = [requests EXCEPT ![r].pc = "reopening", ![r].candidate = NoFile]
            \/ Answer(r)
        BY <1>4 DEF Replace, Goes
      <3> QED BY <1>0, <3>1, AnsweredRequest DEF Answer, Progress
    <2>3. Copies'
      BY <1>1, <2>2, CopiesOfNone DEF Untouched
    <2>4. \/ preserved' = preserved
          \/ live' = requests[r].aside /\ preserved' = preserved \ {requests[r].aside}
      BY <1>4 DEF Replace
    <2>5. Holds(live) \subseteq Holds(requests[r].copy)
      BY <2>1 DEF Holds
    <2>6. HistoryKept'
      <3> SUFFICES ASSUME NEW t \in kept'
                   PROVE  \E f \in preserved' \cup backups' \cup {live'} : t \in Holds(f)
        BY DEF HistoryKept, Holds
      <3>1. PICK f \in preserved \cup backups \cup {live} : t \in Holds(f)
        BY <2>1 DEF KInv, HistoryKept
      <3>2. CASE f = live
        BY <2>1, <2>5, <3>1, <3>2
      <3>3. CASE f \in preserved \cup backups
        BY <2>1, <2>4, <3>1, <3>3
      <3> QED BY <3>1, <3>2, <3>3
    <2> QED BY <2>3, <2>6 DEF KInv, Shape
  <1>5. CASE Reopen(r)
    <2>1. requests'[r].pc \in {"upgrading", "answered"}
      BY <1>0, <1>5, AnsweredRequest DEF Reopen, AnswerOpened, Answer, Goes, Progress
    <2>2. Copies'
      BY <1>1, <2>1, CopiesOfNone DEF Untouched
    <2> QED BY <1>5, <2>2, KeptOpening DEF KInv, Shape
  <1> QED BY <1>2, <1>3, <1>4, <1>5

LEMMA KInvNext ==
  ASSUME StoreAssumption, OneRestore, KInv, [HNext]_hvars PROVE KInv'
  <1>0. Shape'
    BY ShapeNext DEF KInv, Shape
  <1>1. CASE UNCHANGED hvars
    BY <1>0, <1>1 DEF hvars, files, worker, past, failures, KInv, Shape, Copies, HistoryKept, Holds
  <1>2. ASSUME NEW r \in Requests, RequestStep(r) PROVE KInv'
    BY <1>0, <1>2, KInvCopying, KInvSwapping DEF RequestStep
  <1>3. ASSUME NEW r \in Backing, BeginBackup(r) PROVE KInv'
    BY <1>0, <1>3, KInvCopying DEF Requests
  <1>4. ASSUME NEW r \in Restoring, NEW f \in backups \cup preserved, BeginRestore(r, f) PROVE KInv'
    BY <1>0, <1>4, KInvCopying DEF Requests
  <1> QED BY <1>1, <1>2, <1>3, <1>4, KInvProcess, KInvWrite DEF HNext

LEMMA KInvInit ==
  ASSUME StoreAssumption, HInit PROVE KInv
  <1>1. Shape /\ \A r \in Requests : requests[r].pc \in Untouched
    <2>1. \A r \in Requests : requests[r] \in {Request("answered"), NoRequest}
      BY DEF HInit
    <2>2. NoRequest.pc = "none"
      BY DEF NoRequest, Request
    <2> QED BY <2>1, <2>2, ShapeInit, AnsweredRequest DEF Untouched
  <1> QED BY <1>1 DEF HInit, KInv, Shape, Copies, HistoryKept, Requests, Untouched, Replacing

\* Whatever the processes, builds, backups and failures, and however many of
\* each: with one restore at a time, what was read and not deleted by the user is
\* in a complete file on the disk (backup.ts:385-410, worker.ts:820-830).
THEOREM NothingReadIsLost ==
  ASSUME StoreAssumption, OneRestore PROVE HSpec => []HistoryKept
  <1>1. HInit => KInv
    BY KInvInit
  <1>2. KInv /\ [HNext]_hvars => KInv'
    BY KInvNext
  <1>3. KInv => HistoryKept
    BY DEF KInv
  <1> QED BY <1>1, <1>2, <1>3, PTL DEF HSpec

\* The backup a restore made first holds all that is in the live file when that
\* is put aside or replaced (worker.ts:394, 828-830).
THEOREM RestoresAreCopied ==
  ASSUME StoreAssumption, OneRestore PROVE HSpec => []SafetyCopy
  <1>1. HInit => KInv
    BY KInvInit
  <1>2. KInv /\ [HNext]_hvars => KInv'
    BY KInvNext
  <1>3. KInv => SafetyCopy
    BY DEF KInv, Copies, SafetyCopy, Holds, Replacing
  <1> QED BY <1>1, <1>2, <1>3, PTL DEF HSpec

-----------------------------------------------------------------------------
(* What a file says is true. *)

LEMMA SoundLater ==
  ASSUME NEW f \in Database, NEW a \in Instants, NEW b \in Instants, NEW l \in Nat, NEW m \in Nat, a <= b, l <= m,
         SoundAt(f, a, l), MaxTime \in Nat
  PROVE  SoundAt(f, b, m)
  <1>1. f.obs \subseteq Instants /\ f.gaps \subseteq Gap
    BY SessionsOf
  <1> QED BY <1>1 DEF SoundAt, Instants, Gap

LEMMA SoundRecovered ==
  ASSUME NEW f \in Database, now \in Instants, MaxTime \in Nat, NEW l, NEW s, NEW done \in SUBSET Unclean(f, s),
         SoundAt(f, now, l)
  PROVE  SoundAt(Recovered(f, s, done), now, l)
  <1> DEFINE g == Recovered(f, s, done)
  <1>1. /\ g \in Database /\ g.obs = f.obs /\ g.schema = f.schema
        /\ g.gaps = f.gaps \cup {[from |-> f.sessions[x].beat, to |-> now] : x \in {y \in done : Running(f, y)}}
        /\ done \subseteq DOMAIN f.sessions
        /\ DOMAIN g.sessions = DOMAIN f.sessions
        /\ \A x \in DOMAIN f.sessions \ {s} : g.sessions[x].state # "running"
        /\ s \in DOMAIN f.sessions => g.sessions[s] = f.sessions[s]
    BY RecoveredFile DEF Unclean
  <1> HIDE DEF g
  <1>2. ASSUME NEW x \in DOMAIN g.sessions, Running(g, x)
        PROVE  \A t \in g.obs : t <= g.sessions[x].beat
    <2>1. x = s /\ g.sessions[x] = f.sessions[x] /\ Running(f, x)
      BY <1>1, <1>2 DEF Running
    <2> QED BY <1>1, <2>1 DEF SoundAt
  <1>3. ASSUME NEW h \in g.gaps PROVE h.to <= now /\ \A t \in g.obs : ~(h.from < t /\ t < h.to)
    <2>1. CASE h \in f.gaps
      BY <1>1, <2>1 DEF SoundAt
    <2>2. ASSUME NEW x \in DOMAIN f.sessions, Running(f, x), h = [from |-> f.sessions[x].beat, to |-> now]
          PROVE  h.to <= now /\ \A t \in g.obs : ~(h.from < t /\ t < h.to)
      <3>1. f.sessions[x].beat \in Instants /\ f.obs \subseteq Instants
        BY SessionsOf DEF Row
      <3>2. \A t \in f.obs : t <= f.sessions[x].beat
        BY <2>2 DEF SoundAt
      <3> QED BY <1>1, <2>2, <3>1, <3>2 DEF Instants
    <2> QED BY <1>1, <1>3, <2>1, <2>2
  <1>4. SoundAt(g, now, l)
    BY <1>1, <1>2, <1>3 DEF SoundAt
  <1> QED BY <1>4 DEF g

LEMMA SoundFinished ==
  ASSUME NEW f \in Database, now \in Instants, MaxTime \in Nat, NEW l \in Nat, NEW s \in 1..l, NEW ok, SoundAt(f, now, l),
         Finished(f, s, ok)
  PROVE  SoundAt(live', now, l)
  <1>1. live'.obs = f.obs /\ live'.gaps = f.gaps
    BY DEF Finished
  <1>2. CASE live'.sessions = f.sessions
    BY <1>1, <1>2 DEF Finished, SoundAt, Running
  <1>3. CASE /\ ok /\ DOMAIN live'.sessions = DOMAIN f.sessions \cup {s}
             /\ live'.sessions[s] = [state |-> "running", beat |-> now, collecting |-> FALSE]
             /\ \A x \in DOMAIN f.sessions \ {s} : live'.sessions[x] = f.sessions[x]
    <2>1. ASSUME NEW x \in DOMAIN live'.sessions, Running(live', x)
          PROVE  \A t \in live'.obs : t <= live'.sessions[x].beat
      <3>1. x # s
        BY <1>3, <2>1 DEF Running
      <3> QED BY <1>1, <1>3, <2>1, <3>1 DEF SoundAt, Running
    <2>2. live'.schema # <<>> /\ DOMAIN live'.sessions \subseteq 1..l
      BY <1>3 DEF Finished, SoundAt
    <2> QED BY <1>1, <2>1, <2>2 DEF SoundAt
  <1> QED BY <1>2, <1>3 DEF Finished

LEMMA SoundBeat ==
  ASSUME NEW f \in Database, session \in DOMAIN f.sessions, now \in Instants, now + 1 \in Instants, MaxTime \in Nat,
         NEW l \in Nat, SoundAt(f, now, l)
  PROVE  SoundAt(Beat(f), now + 1, l)
  <1> DEFINE g == Beat(f)
  <1>1. /\ g \in Database /\ g.obs = f.obs /\ g.schema = f.schema /\ g.gaps = f.gaps
        /\ DOMAIN g.sessions = DOMAIN f.sessions
        /\ \A x \in DOMAIN f.sessions \ {session} : g.sessions[x] = f.sessions[x]
        /\ g.sessions[session].beat = now + 1
    BY BeatFile
  <1> HIDE DEF g
  <1>2. SoundAt(f, now + 1, l)
    BY SoundLater DEF Instants
  <1>3. ASSUME NEW x \in DOMAIN g.sessions, Running(g, x)
        PROVE  \A t \in g.obs : t <= g.sessions[x].beat
    BY <1>1, <1>2, <1>3 DEF SoundAt, Running
  <1>4. SoundAt(g, now + 1, l)
    BY <1>1, <1>2, <1>3 DEF SoundAt
  <1> QED BY <1>4 DEF g

\* A request only ever takes up the live file.
Takes(x) ==
  /\ requests'[x].copy \in {requests[x].copy, live, NoFile}
  /\ requests'[x].candidate \in {requests[x].candidate, NoFile}
  /\ requests'[x].aside \in {requests[x].aside, live, NoFile}

LEMMA TakesAnswer ==
  ASSUME requests \in [Requests -> Progress], NEW r \in Requests, Answer(r)
  PROVE  \A x \in Requests : Takes(x)
  <1>1. \A x \in Requests : requests'[x] = IF x = r THEN Request("answered") ELSE requests[x]
    BY DEF Answer
  <1> QED BY <1>1, AnsweredRequest DEF Takes

LEMMA RequestTakes ==
  ASSUME requests \in [Requests -> Progress], NEW r \in Requests, RequestStep(r)
  PROVE  \A x \in Requests : Takes(x)
  <1>1. CASE Answer(r)
    BY <1>1, TakesAnswer
  <1>2. CASE requests' = requests
    BY <1>2 DEF Takes
  <1>3. ASSUME NEW q \in Progress, requests' = [requests EXCEPT ![r] = q],
               q.copy \in {requests[r].copy, live, NoFile}, q.candidate \in {requests[r].candidate, NoFile},
               q.aside \in {requests[r].aside, live, NoFile}
        PROVE  \A x \in Requests : Takes(x)
    <2>1. \A x \in Requests : requests'[x] = IF x = r THEN q ELSE requests[x]
      BY <1>3
    <2> QED BY <1>3, <2>1 DEF Takes
  <1>4. ASSUME NEW pc, Goes(r, pc) PROVE \A x \in Requests : Takes(x)
    <2>1. \A x \in Requests : requests'[x] = IF x = r THEN [requests[x] EXCEPT !.pc = pc] ELSE requests[x]
      BY <1>4 DEF Goes
    <2>2. \A x \in Requests : requests[x] \in Progress
      OBVIOUS
    <2> QED BY <2>1, <2>2 DEF Takes, Progress
  <1>5. CASE Copy(r)
    <2>1. CASE requests' = [requests EXCEPT ![r].pc = "publishing", ![r].copy = live, ![r].counted = 0]
      <3>1. \A x \in Requests : requests'[x] =
              IF x = r THEN [requests[x] EXCEPT !.pc = "publishing", !.copy = live, !.counted = 0] ELSE requests[x]
        BY <2>1
      <3> QED BY <3>1 DEF Takes, Progress
    <2> QED BY <1>1, <1>5, <2>1 DEF Copy, Fails
  <1>6. CASE Publish(r)
    <2>1. CASE requests' = [requests EXCEPT ![r].pc = "pruning", ![r].copy = IF r \in Restoring THEN @ ELSE NoFile]
      <3>1. \A x \in Requests : requests'[x] =
              IF x = r THEN [requests[x] EXCEPT !.pc = "pruning", !.copy = IF r \in Restoring THEN @ ELSE NoFile]
              ELSE requests[x]
        BY <2>1
      <3> QED BY <3>1 DEF Takes, Progress
    <2> QED BY <1>1, <1>6, <2>1 DEF Publish, Fails
  <1>7. CASE Prune(r)
    BY <1>1, <1>4, <1>7 DEF Prune, Fails
  <1>8. CASE Stage(r)
    <2>1. CASE requests' = [requests EXCEPT ![r].pc = "reopening", ![r].candidate = NoFile]
      <3>1. \A x \in Requests : requests'[x] =
              IF x = r THEN [requests[x] EXCEPT !.pc = "reopening", !.candidate = NoFile] ELSE requests[x]
        BY <2>1
      <3> QED BY <3>1 DEF Takes, Progress
    <2>2. CASE requests' = [x \in Requests |-> [requests[x] EXCEPT !.connected = FALSE,
                                                !.pc = IF x = r THEN "preserving" ELSE @]]
      BY <2>2 DEF Takes, Progress
    <2> QED BY <1>1, <1>8, <2>1, <2>2 DEF Stage, Fails
  <1>9. CASE Preserve(r)
    <2>1. CASE requests' = [requests EXCEPT ![r].pc = "replacing", ![r].aside = live]
      <3>1. \A x \in Requests : requests'[x] =
              IF x = r THEN [requests[x] EXCEPT !.pc = "replacing", !.aside = live] ELSE requests[x]
        BY <2>1
      <3> QED BY <3>1 DEF Takes, Progress
    <2> QED BY <1>4, <1>9, <2>1 DEF Preserve
  <1>10. CASE Replace(r)
    <2>1. CASE requests' = [requests EXCEPT ![r].pc = "reopening", ![r].candidate = NoFile]
      <3>1. \A x \in Requests : requests'[x] =
              IF x = r THEN [requests[x] EXCEPT !.pc = "reopening", !.candidate = NoFile] ELSE requests[x]
        BY <2>1
      <3> QED BY <3>1 DEF Takes, Progress
    <2> QED BY <1>1, <1>4, <1>10, <2>1 DEF Replace
  <1>11. CASE Reopen(r)
    BY <1>1, <1>4, <1>11 DEF Reopen, AnswerOpened
  <1> QED BY <1>5, <1>6, <1>7, <1>8, <1>9, <1>10, <1>11 DEF RequestStep

LEMMA KnownGrows ==
  ASSUME \A f \in preserved' \cup backups' : f \in Known \cup {live', NoFile},
         \A x \in Requests : /\ requests'[x].copy \in Known \cup {live', NoFile}
                             /\ requests'[x].candidate \in Known \cup {live', NoFile}
                             /\ requests'[x].aside \in Known \cup {live', NoFile}
  PROVE  Known' \subseteq Known \cup {live'}
  BY DEF Known

\* No file appears but the live one.
LEMMA KnownNext ==
  ASSUME StoreAssumption, Shape, [HNext]_hvars PROVE Known' \subseteq Known \cup {live'}
  <1>0. /\ requests \in [Requests -> Progress]
        /\ \A f \in preserved \cup backups \cup {live} : f \in Known \cup {NoFile}
        /\ \A x \in Requests : /\ requests[x].copy \in Known \cup {NoFile}
                               /\ requests[x].candidate \in Known \cup {NoFile}
                               /\ requests[x].aside \in Known \cup {NoFile}
    BY DEF Shape, TypeOK, Known
  <1>1. CASE requests' = requests /\ preserved' = preserved /\ backups' = backups
    BY <1>0, <1>1, KnownGrows
  <1>2. CASE Launch \/ Tick \/ Ingest \/ (\E b \in Switched : SetRunning(b)) \/ (\E c \in Cutoffs : DeleteBefore(c))
             \/ UNCHANGED hvars
    BY <1>1, <1>2 DEF Launch, Tick, Ingest, SetRunning, DeleteBefore, hvars, files
  <1>3. CASE Crash \/ Shutdown
    <2>1. preserved' = preserved /\ backups' = backups
          /\ \A r \in Requests : requests'[r] \in {requests[r], Request("answered")}
      BY <1>3 DEF Crash, Shutdown, Ends
    <2> QED BY <1>0, <2>1, AnsweredRequest, KnownGrows
  <1>4. CASE Upgrade
    <2>1. preserved' = preserved /\ backups' \in {backups, backups \cup {live}}
          /\ \A r \in Requests : requests'[r] \in {requests[r], Request("answered")}
      BY <1>4 DEF Upgrade
    <2> QED BY <1>0, <2>1, AnsweredRequest, KnownGrows
  <1>5. ASSUME NEW r \in Requests, NEW f \in backups \cup preserved \cup {NoFile}, Begin(r, f)
        PROVE  Known' \subseteq Known \cup {live'}
    <2>1. preserved' = preserved /\ backups' = backups
          /\ \A x \in Requests :
               requests'[x] = IF x = r THEN [pc |-> "copying", candidate |-> f, counted |-> Cardinality(live.obs),
                                             copy |-> NoFile, aside |-> NoFile, connected |-> TRUE]
                              ELSE requests[x]
      BY <1>0, <1>5 DEF Begin
    <2> QED BY <1>0, <2>1, KnownGrows
  <1>6. ASSUME NEW r \in Requests, RequestStep(r) PROVE Known' \subseteq Known \cup {live'}
    <2>1. \A x \in Requests : Takes(x)
      BY <1>0, <1>6, RequestTakes
    <2>2. backups' \subseteq backups \cup {requests[r].copy}
      BY <1>6 DEF RequestStep, Copy, Publish, Prune, Stage, Preserve, Replace, Reopen, Fails, files
    <2>3. preserved' \subseteq preserved \cup {live}
      BY <1>6 DEF RequestStep, Copy, Publish, Prune, Stage, Preserve, Replace, Reopen, Fails, files
    <2> QED BY <1>0, <2>1, <2>2, <2>3, KnownGrows DEF Takes
  <1> QED BY <1>2, <1>3, <1>4, <1>5, <1>6 DEF HNext, BeginBackup, BeginRestore, Requests

LEMMA TimeGoesOn ==
  ASSUME StoreAssumption, Shape, [HNext]_hvars
  PROVE  /\ now \in Instants /\ now' \in {now, now + 1} /\ session \in Nat /\ session' \in {session, session + 1}
         /\ Exempt => Exempt'
  <1>0. now \in Instants /\ session \in Nat /\ reopened \in BOOLEAN /\ skipped \in BOOLEAN
    BY DEF Shape, TypeOK, StoreAssumption
  <1>1. now' \in {now, now + 1} /\ session' \in {session, session + 1}
    BY DEF HNext, Launch, Upgrade, Crash, Shutdown, Ends, Tick, Ingest, SetRunning, DeleteBefore, BeginBackup, BeginRestore,
           Begin, RequestStep, Copy, Publish, Prune, Stage, Preserve, Replace, Reopen, Fails, hvars, worker
  <1>2. ASSUME NEW s, OpenFile(live, s) PROVE reopened => reopened'
    BY <1>0, <1>2 DEF OpenFile, FinishOpen
  <1>3. CASE Launch
    BY <1>0, <1>2, <1>3 DEF Launch, OpenFails, Exempt
  <1>4. CASE Upgrade
    BY <1>0, <1>4 DEF Upgrade, FinishOpen, Exempt
  <1>5. ASSUME NEW r \in Requests, Reopen(r) PROVE Exempt => Exempt'
    BY <1>0, <1>2, <1>5 DEF Reopen, OpenFails, Exempt
  <1>6. CASE UNCHANGED <<reopened, skipped>>
    BY <1>0, <1>1, <1>6 DEF Exempt
  <1>7. ASSUME NEW r \in Requests, RequestStep(r) PROVE Exempt => Exempt'
    BY <1>5, <1>6, <1>7 DEF RequestStep, Copy, Publish, Prune, Stage, Preserve, Replace, Fails, past, failures
  <1>8. CASE \/ Crash \/ Shutdown \/ Tick \/ Ingest
             \/ \E b \in Switched : SetRunning(b)
             \/ \E cutoff \in Cutoffs : DeleteBefore(cutoff)
             \/ \E r \in Backing : BeginBackup(r)
             \/ \E r \in Restoring, f \in backups \cup preserved : BeginRestore(r, f)
             \/ UNCHANGED hvars
    BY <1>6, <1>8 DEF Crash, Shutdown, Ends, Tick, Ingest, SetRunning, DeleteBefore, BeginBackup, BeginRestore, Begin, hvars, past, failures
  <1> QED BY <1>0, <1>1, <1>3, <1>4, <1>7, <1>8 DEF HNext

LEMMA KnownFiles ==
  ASSUME Shape
  PROVE  /\ \A f \in Known : f \in Database
         /\ live # NoFile => live \in Known
         /\ \A f \in preserved \cup backups : f \in Known \cup {NoFile}
         /\ \A r \in Requests : /\ requests[r].copy \in Known \cup {NoFile}
                                /\ requests[r].candidate \in Known \cup {NoFile}
                                /\ requests[r].aside \in Known \cup {NoFile}
  BY DEF Shape, TypeOK, Known, Progress

\* The live file is what may have changed.
GLive == (live # NoFile => Sound(live)) /\ Fresh /\ Unstarted

LEMMA GInvFromLive ==
  ASSUME StoreAssumption, Shape, Shape', GInv, [HNext]_hvars, ~Exempt' => GLive' PROVE GInv'
  <1> SUFFICES ASSUME ~Exempt' PROVE (\A f \in Known' : Sound(f)') /\ Fresh' /\ Unstarted'
    BY DEF GInv
  <1>1. ~Exempt /\ GLive' /\ MaxTime \in Nat
    BY TimeGoesOn DEF StoreAssumption
  <1>2. ASSUME NEW f \in Known' PROVE Sound(f)'
    <2>1. f # NoFile /\ f \in Known \cup {live'}
      BY <1>2, KnownNext DEF Known
    <2>2. CASE f = live'
      BY <1>1, <2>1, <2>2 DEF GLive, Sound
    <2>3. CASE f \in Known
      <3>1. f \in Database /\ SoundAt(f, now, session)
        BY <1>1, <2>3, KnownFiles DEF GInv, Sound
      <3>2. now \in Instants /\ now' \in Instants /\ session \in Nat /\ session' \in Nat /\ now <= now' /\ session <= session'
        <4>1. now \in Instants /\ now' \in Instants
          BY DEF Shape, TypeOK
        <4>2. /\ now' \in {now, now + 1}
              /\ session \in Nat /\ session' \in {session, session + 1}
          BY TimeGoesOn
        <4> QED BY ONLY <1>1, <4>1, <4>2 DEF Instants
      <3> QED BY <1>1, <3>1, <3>2, SoundLater DEF Sound
    <2> QED BY <2>1, <2>2, <2>3
  <1> QED BY <1>1, <1>2 DEF GLive

\* Where the live file stays, so does what it says.
LEMMA GLiveStays ==
  ASSUME Shape, GInv, ~Exempt, UNCHANGED <<now, live, session>>,
         ready' /\ open' /\ ~upgrading' => ready /\ open /\ ~upgrading /\ beating' = beating,
         alive' /\ ~ready' => alive /\ ~ready
  PROVE  GLive'
  <1>1. (\A f \in Known : Sound(f)) /\ Fresh /\ Unstarted
    BY DEF GInv
  <1>2. live # NoFile => Sound(live)
    BY <1>1, KnownFiles
  <1> QED BY <1>1, <1>2 DEF GLive, Fresh, Unstarted, Sound

\* What the end of open() leaves, of a file whose other sessions are closed.
LEMMA GLiveFinished ==
  ASSUME StoreAssumption, Shape, Shape', NEW f \in Database, NEW ok \in BOOLEAN, Finished(f, session', ok),
         SoundAt(f, now, session'), now' = now,
         \A x \in DOMAIN f.sessions \ {session'} : ~Running(f, x) \/ ~ok,
         ready \/ session' \notin DOMAIN f.sessions,
         ~reopened'
  PROVE  GLive'
  <1>1. /\ session' \in Nat \ {0} /\ now \in Instants /\ MaxTime \in Nat /\ session' \in 1..session'
        /\ ready \in BOOLEAN /\ reopened \in BOOLEAN
    BY DEF Shape, TypeOK, StoreAssumption
  <1>2. Sound(live)'
    BY <1>1, SoundFinished DEF Sound
  <1>3. CASE ok /\ session' \notin DOMAIN f.sessions
    <2>1. /\ beating' = TRUE /\ ready'
          /\ DOMAIN live'.sessions = DOMAIN f.sessions \cup {session'}
          /\ live'.sessions[session'] = [state |-> "running", beat |-> now, collecting |-> FALSE]
          /\ \A x \in DOMAIN f.sessions \ {session'} : live'.sessions[x] = f.sessions[x]
      BY <1>1, <1>3 DEF Finished
    <2>2. \A x \in DOMAIN live'.sessions \ {session'} : ~Running(live', x)
      BY <1>3, <2>1 DEF Running
    <2>3. Fresh' /\ Unstarted'
      BY <2>1, <2>2 DEF Fresh, Unstarted, Running
    <2> QED BY <1>2, <2>3 DEF GLive
  <1>4. CASE ~(ok /\ session' \notin DOMAIN f.sessions)
    <2>1. live'.sessions = f.sessions /\ ~ready /\ ready' = ok
      BY <1>1, <1>4 DEF Finished
    <2>2. session' \notin DOMAIN f.sessions /\ ~ok
      BY <1>4, <2>1
    <2>3. Fresh' /\ Unstarted'
      BY <2>1, <2>2 DEF Fresh, Unstarted
    <2> QED BY <1>2, <2>3 DEF GLive
  <1> QED BY <1>3, <1>4

\* open() of a sound file leaves a sound one.
LEMMA GLiveOpened ==
  ASSUME StoreAssumption, Shape, Shape', OpenFile(live, session'), now' = now, ~reopened',
         SoundAt(Opened(live), now, session'),
         ready \/ session' \notin DOMAIN Opened(live).sessions
  PROVE  GLive'
  <1> DEFINE found == Opened(live)
  <1>0. session' \in 1..MaxSessions /\ now \in Instants /\ MaxTime \in Nat /\ session' \in Nat /\ TypeOK
    BY DEF Shape, TypeOK, StoreAssumption
  <1>1. found \in Database /\ session' \in 1..MaxSessions /\ now \in Instants /\ MaxTime \in Nat /\ session' \in Nat
    BY <1>0, OpenedFile
  <1>2. CASE upgrading'
    <2>1. live' = found /\ ready' = ready
      BY <1>1, <1>2, OpenedFile DEF Shape
    <2> QED BY <1>2, <2>1 DEF GLive, Sound, Fresh, Unstarted
  <1>3. CASE ~upgrading'
    <2>1. PICK ok \in BOOLEAN, done \in SUBSET Unclean(found, session') :
              \/ Finished(Recovered(found, session', done), session', ok)
              \/ Finished(found, session', ok) /\ (ok => found.schema = <<>>)
      BY <1>0, <1>3, OpenedFile DEF Ended
    <2>2. CASE Finished(Recovered(found, session', done), session', ok)
      <3> DEFINE g == Recovered(found, session', done)
      <3>1. /\ g \in Database /\ DOMAIN g.sessions = DOMAIN found.sessions
            /\ \A x \in DOMAIN found.sessions \ {session'} : g.sessions[x].state # "running"
        BY <1>1, RecoveredFile
      <3>2. SoundAt(g, now, session')
        BY <1>1, SoundRecovered
      <3>3. \A x \in DOMAIN g.sessions \ {session'} : ~Running(g, x)
        BY <3>1 DEF Running
      <3> HIDE DEF g, found
      <3> QED BY <2>2, <3>1, <3>2, <3>3, GLiveFinished DEF g, found
    <2>3. CASE Finished(found, session', ok) /\ (ok => found.schema = <<>>)
      <3>1. ok => DOMAIN found.sessions = {}
        BY <2>3 DEF SoundAt
      <3> HIDE DEF found
      <3> QED BY <1>1, <2>3, <3>1, GLiveFinished DEF found
    <2> QED BY <2>1, <2>2, <2>3
  <1> QED BY <1>2, <1>3

LEMMA GLaunch ==
  ASSUME StoreAssumption, Shape, Shape', GInv, ~Exempt, ~Exempt', Launch PROVE GLive'
  <1>1. /\ session' = session + 1 /\ now' = now /\ ~reopened' /\ ~ready
        /\ session \in Nat /\ now \in Instants /\ MaxTime \in Nat
        /\ OpenFile(live, session') \/ OpenFails
    BY DEF Launch, Exempt, Shape, TypeOK, Phases, StoreAssumption
  <1>2. SoundAt(Opened(live), now, session) /\ Opened(live) \in Database
    <2>1. CASE live = NoFile
      BY <1>1, <2>1, EmptyFile DEF Opened, SoundAt
    <2>2. CASE live # NoFile
      BY <2>2, KnownFiles DEF GInv, Opened, Sound
    <2> QED BY <2>1, <2>2
  <1>3. SoundAt(Opened(live), now, session')
    BY <1>1, <1>2, SoundLater DEF Instants
  <1>4. session' \notin DOMAIN Opened(live).sessions
    BY <1>1, <1>2 DEF SoundAt
  <1>5. CASE OpenFile(live, session')
    BY <1>1, <1>3, <1>4, <1>5, GLiveOpened
  <1>6. CASE OpenFails
    <2>1. live' = live /\ ~ready'
      BY <1>1, <1>6 DEF OpenFails
    <2>2. live # NoFile => Opened(live) = live
      BY DEF Opened
    <2>3. live' # NoFile => Sound(live)'
      BY <1>1, <1>3, <2>1, <2>2 DEF Sound
    <2> QED BY <1>4, <2>1, <2>2, <2>3 DEF GLive, Fresh, Unstarted
  <1> QED BY <1>1, <1>5, <1>6

LEMMA GReopen ==
  ASSUME StoreAssumption, OneRestore, Shape, Shape', GInv, ~Exempt, ~Exempt', NEW r \in Requests, Reopen(r) PROVE GLive'
  <1>1. /\ requests[r].pc = "reopening" /\ session' = session /\ now' = now /\ ~reopened' /\ alive' = alive
        /\ session \in Nat /\ now \in Instants /\ MaxTime \in Nat
        /\ OpenFile(live, session) \/ OpenFails
    BY DEF Reopen, At, Exempt, Shape, TypeOK, StoreAssumption
  <1>2. r \in Restoring /\ ready
    BY <1>1, ActiveIsAlive DEF Shape, Phases, Requests, Untouched, Copying, Restores
  <1>3. SoundAt(Opened(live), now, session)
    <2>1. CASE live = NoFile
      BY <1>1, <2>1, EmptyFile DEF Opened, SoundAt
    <2>2. CASE live # NoFile
      BY <2>2, KnownFiles DEF GInv, Opened, Sound
    <2> QED BY <2>1, <2>2
  <1>4. CASE OpenFile(live, session)
    BY <1>1, <1>2, <1>3, <1>4, GLiveOpened
  <1>5. CASE OpenFails
    BY <1>1, <1>5, GLiveStays DEF OpenFails
  <1> QED BY <1>1, <1>4, <1>5

LEMMA GUpgrade ==
  ASSUME StoreAssumption, Shape, Shape', GInv, ~Exempt, ~Exempt', Upgrade PROVE GLive'
  <1>1. /\ live \in Database /\ live # NoFile /\ open /\ alive /\ UNCHANGED <<now, session, alive>>
        /\ ~reopened' /\ ~skipped' /\ session \in 1..MaxSessions /\ now \in Instants
        /\ ready \in BOOLEAN /\ reopened \in BOOLEAN /\ beating \in BOOLEAN
    BY DEF Upgrade, Exempt, Shape, TypeOK, Phases
  <1>2. Sound(live) /\ Unstarted
    BY <1>1, KnownFiles DEF GInv
  <1>3. \A x \in DOMAIN live.sessions \ {session} : ~Running(live, x)
    <2>1. ~\E x \in Unclean(live, session) : live.sessions[x].collecting
      BY <1>1 DEF Upgrade
    <2> QED BY <2>1 DEF Unclean, Running
  <1>4. CASE UNCHANGED <<live, backups, beating, ready>> /\ reopened' = (reopened \/ ready)
    <2>1. ~ready /\ ~ready'
      BY <1>1, <1>4
    <2> QED BY <1>1, <1>2, <1>4, <2>1 DEF GLive, Sound, Fresh, Unstarted
  <1>5. ASSUME NEW o \in Migrate(live.schema, build[session]), FinishOpen(live, o, session)
        PROVE  GLive'
    <2>1. Finished(live, session, o.ok) /\ o.ok \in BOOLEAN
      BY <1>1, <1>5, KnownMigrations, FinishedFile DEF Shape
    <2>2. ready \/ session \notin DOMAIN live.sessions
      BY <1>1, <1>2 DEF Unstarted
    <2> QED BY <1>1, <1>2, <1>3, <2>1, <2>2, GLiveFinished DEF Sound
  <1> QED BY <1>4, <1>5 DEF Upgrade

LEMMA GTick ==
  ASSUME StoreAssumption, Shape, Shape', GInv, ~Exempt, Tick PROVE GLive'
  <1>1. /\ now' = now + 1 /\ now \in Instants /\ now' \in Instants /\ session \in Nat /\ MaxTime \in Nat
        /\ UNCHANGED <<session, alive, ready, open, upgrading, beating>>
    BY DEF Tick, worker, Shape, TypeOK, StoreAssumption
  <1>2. (live # NoFile => Sound(live)) /\ Fresh /\ Unstarted
    BY KnownFiles DEF GInv
  <1>3. CASE beating /\ live # NoFile /\ session \in DOMAIN live.sessions
    <2>1. live' = Beat(live) /\ live \in Database
      BY <1>3 DEF Tick, Shape, TypeOK
    <2>2. /\ DOMAIN live'.sessions = DOMAIN live.sessions
          /\ \A x \in DOMAIN live.sessions \ {session} : live'.sessions[x] = live.sessions[x]
          /\ live'.sessions[session].state = live.sessions[session].state
          /\ live'.sessions[session].beat = now + 1
      BY <1>1, <1>3, <2>1, BeatFile
    <2>3. SoundAt(live', now + 1, session)
      BY <1>1, <1>2, <1>3, <2>1, SoundBeat DEF Sound
    <2>4. Sound(live)'
      BY <1>1, <2>3 DEF Sound
    <2>5. Fresh' /\ Unstarted'
      BY <1>1, <1>2, <1>3, <2>2 DEF Fresh, Unstarted, Running
    <2> QED BY <2>4, <2>5 DEF GLive
  <1>4. CASE ~(beating /\ live # NoFile /\ session \in DOMAIN live.sessions)
    <2>1. live' = live
      BY <1>4 DEF Tick
    <2>2. ~(ready /\ open /\ ~upgrading)
      BY <1>2, <1>4 DEF Fresh, Shape, Phases
    <2>3. live' # NoFile => Sound(live)'
      BY <1>1, <1>2, <2>1, SoundLater DEF Sound, Instants, Shape, TypeOK
    <2> QED BY <1>1, <1>2, <2>1, <2>2, <2>3 DEF GLive, Fresh, Unstarted
  <1> QED BY <1>3, <1>4

LEMMA GWrite ==
  ASSUME StoreAssumption, Shape, Shape', GInv, ~Exempt,
         Ingest \/ (\E b \in Switched : SetRunning(b)) \/ (\E c \in Cutoffs : DeleteBefore(c))
  PROVE  GLive'
  <1>1. /\ UNCHANGED <<now, session, alive, ready, open, upgrading, beating>> /\ Serving
        /\ live \in Database /\ live # NoFile /\ now \in Instants /\ MaxTime \in Nat
    BY ShapeWrite, FileIsNoFile DEF Ingest, SetRunning, DeleteBefore, worker, Shape, TypeOK, StoreAssumption
  <1>2. Sound(live) /\ Fresh /\ Unstarted
    BY <1>1, KnownFiles DEF GInv
  <1>3. /\ live'.sessions = live.sessions /\ live'.schema = live.schema /\ live'.gaps = live.gaps
        /\ live'.obs \subseteq live.obs \/ (Ingest /\ live'.obs = live.obs \cup {now})
    <2>1. CASE Ingest
      BY <1>1, <2>1 DEF Ingest, Database
    <2>2. ASSUME NEW b \in Switched, SetRunning(b)
          PROVE  /\ live'.sessions = live.sessions /\ live'.schema = live.schema /\ live'.gaps = live.gaps
                 /\ live'.obs = live.obs
      BY <1>1, <2>2 DEF SetRunning, Database
    <2>3. ASSUME NEW c \in Cutoffs, DeleteBefore(c)
          PROVE  /\ live'.sessions = live.sessions /\ live'.schema = live.schema /\ live'.gaps = live.gaps
                 /\ live'.obs \subseteq live.obs
      BY <1>1, <2>3 DEF DeleteBefore, Database
    <2> QED BY <2>1, <2>2, <2>3
  <1>4. Fresh' /\ Unstarted'
    BY <1>1, <1>2, <1>3 DEF Fresh, Unstarted, Running, Serving
  <1>5. CASE live'.obs \subseteq live.obs
    <2>1. Sound(live)'
      BY <1>1, <1>2, <1>3, <1>5 DEF Sound, SoundAt, Running
    <2> QED BY <1>4, <2>1 DEF GLive
  <1>6. CASE Ingest /\ live'.obs = live.obs \cup {now}
    <2>1. ready /\ open /\ ~upgrading
      BY <1>6 DEF Ingest, Serving, Shape, Phases
    <2>2. live.obs \subseteq Instants /\ live.gaps \subseteq Gap
      BY <1>1, SessionsOf
    <2>3. ASSUME NEW x \in DOMAIN live'.sessions, Running(live', x) PROVE \A t \in live'.obs : t <= live'.sessions[x].beat
      <3>1. x = session /\ live'.sessions[x].beat = now
        BY <1>2, <1>3, <2>1, <2>3 DEF Fresh, Running
      <3> QED BY <1>1, <1>2, <1>6, <2>2, <3>1 DEF Sound, SoundAt, Instants
    <2>4. \A g \in live'.gaps : g.to <= now /\ \A t \in live'.obs : ~(g.from < t /\ t < g.to)
      BY <1>1, <1>2, <1>3, <1>6, <2>2 DEF Sound, SoundAt, Instants, Gap
    <2>5. \A t \in live'.obs : t <= now
      BY <1>1, <1>2, <1>6 DEF Sound, SoundAt, Instants
    <2>6. Sound(live)'
      BY <1>1, <1>2, <1>3, <2>3, <2>4, <2>5 DEF Sound, SoundAt
    <2> QED BY <1>4, <2>6 DEF GLive
  <1> QED BY <1>3, <1>5, <1>6

LEMMA GEnds ==
  ASSUME StoreAssumption, Shape, Shape', GInv, ~Exempt, Crash \/ Shutdown PROVE GLive'
  <1>1. /\ UNCHANGED <<now, session>> /\ ~alive' /\ ~ready' /\ now \in Instants /\ MaxTime \in Nat
    BY DEF Crash, Shutdown, Ends, Shape, TypeOK, StoreAssumption
  <1>2. live # NoFile => Sound(live)
    BY KnownFiles DEF GInv
  <1>3. Fresh' /\ Unstarted'
    BY <1>1 DEF Fresh, Unstarted
  <1>4. CASE live' = live
    BY <1>1, <1>2, <1>3, <1>4 DEF GLive, Sound
  <1>5. CASE open /\ session \in DOMAIN live.sessions /\ live' = [live EXCEPT !.sessions[session].state = "stopped"]
    <2>1. live \in Database /\ live # NoFile
      BY <1>5 DEF Crash, Shutdown, Shape, TypeOK, Phases
    <2>2. /\ live'.obs = live.obs /\ live'.gaps = live.gaps /\ live'.schema = live.schema
          /\ DOMAIN live'.sessions = DOMAIN live.sessions
          /\ \A x \in DOMAIN live.sessions \ {session} : live'.sessions[x] = live.sessions[x]
          /\ live'.sessions[session].state = "stopped"
      <3>1. live.sessions[session] \in Row /\ live.sessions \in [DOMAIN live.sessions -> Row]
        BY <1>5, <2>1, SessionsOf
      <3>2. live' = [live EXCEPT !.sessions = [live.sessions EXCEPT ![session] =
                                                 [live.sessions[session] EXCEPT !.state = "stopped"]]]
        BY <1>5, <2>1, <3>1 DEF Database
      <3> QED BY <1>5, <2>1, <3>1, <3>2 DEF Database, Row
    <2>3. Sound(live)'
      BY <1>1, <1>2, <2>1, <2>2 DEF Sound, SoundAt, Running
    <2> QED BY <1>3, <2>3 DEF GLive
  <1> QED BY <1>4, <1>5 DEF Crash, Shutdown

LEMMA GRequest ==
  ASSUME StoreAssumption, OneRestore, Shape, Shape', GInv, ~Exempt, ~Exempt', NEW r \in Requests,
         \/ RequestStep(r)
         \/ \E f \in Database : Begin(r, f)
         \/ r \in Backing /\ BeginBackup(r)
  PROVE  GLive'
  <1>1. CASE \/ Copy(r) \/ Publish(r) \/ Prune(r) \/ Stage(r)
             \/ \E f \in Database : Begin(r, f)
             \/ r \in Backing /\ BeginBackup(r)
    <2>1. /\ UNCHANGED <<now, live, session, alive, ready, upgrading>>
          /\ open' /\ ready => UNCHANGED <<open, beating>>
      BY <1>1 DEF Copy, Publish, Prune, Stage, Begin, BeginBackup, Fails, worker, files
    <2> QED BY <2>1, GLiveStays
  <1>2. CASE Preserve(r) \/ Replace(r)
    <2>1. /\ UNCHANGED <<now, session, alive, ready, upgrading, open>>
          /\ r \in Restoring /\ requests[r].pc \in Replacing
      BY <1>2, ActiveIsAlive DEF Preserve, Replace, At, worker, Shape, Phases, Requests, Untouched, Copying, Replacing
    <2>2. ~open /\ alive /\ ready
      BY <2>1, ActiveIsAlive DEF Shape, Phases, Untouched, Replacing, Restores
    <2>3. live' \in Known \cup {NoFile}
      BY <1>2, KnownFiles DEF Preserve, Replace
    <2>4. live' # NoFile => Sound(live)'
      BY <2>1, <2>3 DEF GInv, Sound
    <2> QED BY <2>1, <2>2, <2>4 DEF GLive, Fresh, Unstarted
  <1>3. CASE Reopen(r)
    BY <1>3, GReopen
  <1> QED BY <1>1, <1>2, <1>3 DEF RequestStep

LEMMA GInvNext ==
  ASSUME StoreAssumption, OneRestore, Shape, GInv, [HNext]_hvars PROVE GInv'
  <1>0. Shape'
    BY ShapeNext
  <1>1. ASSUME ~Exempt' PROVE GLive'
    <2>0. ~Exempt
      BY <1>1, TimeGoesOn
    <2>1. CASE UNCHANGED hvars
      BY <2>0, <2>1, GLiveStays DEF hvars, files, worker
    <2>2. ASSUME NEW r \in Backing, BeginBackup(r) PROVE GLive'
      BY <1>0, <1>1, <2>0, <2>2, GRequest DEF Requests
    <2>3. ASSUME NEW r \in Restoring, NEW f \in backups \cup preserved, BeginRestore(r, f) PROVE GLive'
      <3>1. r \in Requests /\ f \in Database /\ Begin(r, f)
        BY <2>3 DEF BeginRestore, Requests, Shape, TypeOK
      <3> QED BY <1>0, <1>1, <2>0, <3>1, GRequest
    <2>4. ASSUME NEW r \in Requests, RequestStep(r) PROVE GLive'
      BY <1>0, <1>1, <2>0, <2>4, GRequest
    <2> QED BY <1>0, <1>1, <2>0, <2>1, <2>2, <2>3, <2>4, GLaunch, GUpgrade, GEnds, GTick, GWrite DEF HNext
  <1> QED BY <1>0, <1>1, GInvFromLive

LEMMA GInvInit ==
  ASSUME StoreAssumption, HInit PROVE GInv
  <1>1. PICK b \in BOOLEAN, first \in {1, 2} :
       /\ live = Beats(first, b)
       /\ backups = {Beats(s, b) : s \in 1..(first - 1)}
       /\ session = first
       /\ requests = [r \in Requests |-> IF first = 1 THEN Request("answered") ELSE NoRequest]
    BY DEF HInit
  <1>2. ASSUME NEW s \in 1..first
        PROVE  /\ SoundAt(Beats(s, b), 0, first) /\ DOMAIN Beats(s, b).sessions = {s}
               /\ Beats(s, b).sessions[s] = [state |-> "running", beat |-> 0, collecting |-> b]
    <2> DEFINE rows == [x \in {s} |-> [state |-> "running", beat |-> 0, collecting |-> b]]
    <2>1. s \in 1..MaxSessions /\ build[s] \in Seq(STRING) /\ build[s] # <<>>
      BY DEF HInit, StoreAssumption
    <2>2. Beats(s, b) = [Empty EXCEPT !.schema = build[s], !.wanted = b, !.sessions = rows]
      BY DEF Beats
    <2>3. /\ Beats(s, b).obs = {} /\ Beats(s, b).gaps = {} /\ Beats(s, b).schema = build[s]
          /\ Beats(s, b).sessions = rows
      BY <2>2, EmptyFile DEF Database
    <2>4. DOMAIN rows = {s} /\ rows[s] = [state |-> "running", beat |-> 0, collecting |-> b]
      OBVIOUS
    <2> HIDE DEF rows
    <2> QED BY <2>1, <2>3, <2>4 DEF SoundAt
  <1>3. now = 0 /\ session = first /\ preserved = {} /\ first \in 1..first /\ \A s \in 1..(first - 1) : s \in 1..first
    BY <1>1 DEF HInit
  <1>4. \A f \in Known : \E s \in 1..first : f = Beats(s, b)
    <2>1. \A r \in Requests : requests[r] \in {Request("answered"), Request("none")}
      BY <1>1 DEF NoRequest
    <2>2. \A r \in Requests : requests[r].copy = NoFile /\ requests[r].candidate = NoFile /\ requests[r].aside = NoFile
      BY <2>1 DEF Request
    <2> QED BY <1>1, <1>3, <2>2 DEF Known
  <1>5. \A f \in Known : Sound(f)
    BY <1>2, <1>3, <1>4 DEF Sound
  <1>6. Fresh /\ Unstarted
    BY <1>1, <1>2, <1>3 DEF Fresh, Unstarted, Running, HInit
  <1> QED BY <1>5, <1>6 DEF GInv

\* Whatever is restored, migrated, refused or cut short: no reading falls inside a
\* gap, unless a restore opened a file that holds the session that runs or none
\* at all, or a migration came before recovery (worker.ts:208-212, 320-338).
THEOREM GapsHoldNoReading ==
  ASSUME StoreAssumption, OneRestore PROVE HSpec => []GapsAreReal
  <1>1. HInit => Shape /\ GInv
    BY ShapeInit, GInvInit
  <1>2. Shape /\ GInv /\ [HNext]_hvars => (Shape /\ GInv)'
    BY ShapeNext, GInvNext
  <1>3. Shape /\ GInv => GapsAreReal
    BY KnownFiles DEF GInv, GapsAreReal, Sound, SoundAt
  <1> QED BY <1>1, <1>2, <1>3, PTL DEF HSpec

-----------------------------------------------------------------------------
(* The time that nobody collected. *)

LEMMA QuietNext ==
  ASSUME StoreAssumption, Shape, Quiet, [HNext]_hvars PROVE Quiet'
  <1>1. CASE Launch \/ Crash \/ Shutdown \/ Tick \/ Ingest \/ (\E b \in Switched : SetRunning(b))
             \/ (\E c \in Cutoffs : DeleteBefore(c)) \/ UNCHANGED hvars
    BY <1>1 DEF Launch, Crash, Shutdown, Ends, Tick, Ingest, SetRunning, DeleteBefore, hvars, worker, Quiet
  <1>2. CASE Upgrade
    BY <1>2 DEF Upgrade, Shape, Phases, Quiet
  <1>3. ASSUME NEW r \in Requests,
               RequestStep(r) \/ (r \in Backing /\ BeginBackup(r)) \/ \E f \in backups \cup preserved : BeginRestore(r, f)
        PROVE  Quiet'
    <2>1. CASE Reopen(r)
      <3>1. alive /\ alive'
        BY <2>1, ActiveIsAlive DEF Reopen, At, Untouched
      <3> QED BY <3>1 DEF Quiet
    <2>2. CASE Copy(r) \/ Prune(r) \/ Publish(r)
      BY <2>2 DEF Copy, Prune, Publish, Fails, worker, Quiet
    <2>3. CASE Stage(r)
      <3>1. alive' = alive /\ (beating' = beating \/ ~beating')
        BY <2>3 DEF Stage, Fails, worker
      <3> QED BY <3>1 DEF Quiet
    <2>4. CASE Preserve(r)
      BY <2>4 DEF Preserve, worker, Quiet
    <2>5. CASE Replace(r)
      <3>1. UNCHANGED <<alive, beating>>
        BY <2>5, Zenon DEF Replace
      <3> QED BY <3>1 DEF Quiet
    <2>6. CASE (\E f \in backups \cup preserved : BeginRestore(r, f)) \/ BeginBackup(r)
      BY <2>6 DEF Begin, BeginBackup, BeginRestore, Quiet
    <2> QED BY <1>3, <2>1, <2>2, <2>3, <2>4, <2>5, <2>6 DEF RequestStep
  <1> QED BY <1>1, <1>2, <1>3 DEF HNext, Requests

NLive ==
  /\ \A t \in missed : t <= now
  /\ live # NoFile => Watched(live) /\ Covered(live)

\* Where the file, the time and the session stay, and no swap begins.
LEMMA NStays ==
  ASSUME NInv, ~Exempt, UNCHANGED <<now, live, session, watched, missed, ready, lost>>,
         \A r \in Restoring : requests'[r].pc \in {"replacing", "reopening"} =>
           live' # NoFile \/ (requests'[r].pc = requests[r].pc /\ requests'[r].aside = requests[r].aside)
  PROVE  NInv'
  BY DEF NInv, Watched, Covered, GapAt, Running

\* The swap is settled by what has a name.
LEMMA NFromLive ==
  ASSUME ~Exempt' => NLive',
         ~Exempt' => live' # NoFile \/ \A r \in Restoring : requests'[r].pc \notin {"replacing", "reopening"}
  PROVE  NInv'
  BY DEF NInv, NLive

LEMMA NUpgrade ==
  ASSUME StoreAssumption, Shape, Shape', GInv, NInv, Upgrade PROVE NInv'
  <1> SUFFICES ASSUME ~Exempt' PROVE NLive' /\ live' # NoFile
    BY NFromLive
  <1>1. /\ live \in Database /\ live # NoFile /\ live' \in Database /\ UNCHANGED <<now, session, watched, missed, lost>>
        /\ ~Exempt /\ ~reopened' /\ ~skipped' /\ session \in 1..MaxSessions /\ now \in Instants
        /\ ready \in BOOLEAN /\ reopened \in BOOLEAN /\ beating \in BOOLEAN
    <2>1. ~Exempt
      BY TimeGoesOn DEF HNext
    <2>2. live \in Database /\ live' \in Database
      BY ShapeUpgrade
    <2>3. live # NoFile
      BY <2>2, FileIsNoFile
    <2>4. UNCHANGED <<now, session, watched, missed, lost>>
      BY DEF Upgrade, failures
    <2> QED BY <2>1, <2>2, <2>3, <2>4 DEF Exempt, Shape, TypeOK
  <1>2. live' # NoFile
    BY <1>1, FileIsNoFile
  <1>3. ~\E x \in DOMAIN live.sessions \ {session} : Running(live, x)
    BY <1>1 DEF Upgrade, Unclean, Running
  <1>4. Watched(live) /\ (\A t \in missed \ lost : GapAt(live, t)) /\ \A t \in missed : t <= now
    BY <1>1, <1>3 DEF NInv, Covered
  <1>5. CASE live' = live
    BY <1>1, <1>2, <1>4, <1>5 DEF NLive, Watched, Covered, GapAt, Running
  <1>6. ASSUME NEW o \in Migrate(live.schema, build[session]), FinishOpen(live, o, session)
        PROVE  NLive'
    <2>1. Finished(live, session, o.ok)
      BY <1>1, <1>6, KnownMigrations, FinishedFile DEF Shape
    <2>2. live'.gaps = live.gaps /\ (session \in DOMAIN live.sessions => live'.sessions = live.sessions)
      BY <2>1 DEF Finished
    <2> QED BY <1>1, <1>4, <2>2 DEF NLive, Watched, Covered, GapAt, Running
  <1> QED BY <1>2, <1>5, <1>6 DEF Upgrade

\* An open() that has come to its end: the file keeps its gaps and the row of the
\* session, and recovery adds a gap for whatever was left open.
LEMMA NFinished ==
  ASSUME NEW f \in Database, NEW ok \in BOOLEAN, NEW s, UNCHANGED now,
         Finished(f, s, ok), watched' # Never => s \in DOMAIN f.sessions /\ Running(f, s) /\ f.sessions[s].beat <= watched',
         s = session',
         \A t \in missed' : t <= now,
         \A t \in missed' \ lost' :
           \/ GapAt(f, t)
           \/ /\ ~ready /\ ~ok
              /\ \E x \in DOMAIN f.sessions \ {s} : Running(f, x) /\ f.sessions[x].beat < t
  PROVE  NLive'
  <1>1. live'.gaps = f.gaps /\ ready' = (ready \/ ok) /\ (s \in DOMAIN f.sessions \/ ~ok => live'.sessions = f.sessions)
    BY DEF Finished
  <1> QED BY <1>1 DEF NLive, Watched, Covered, GapAt, Running

\* Whatever the next session finds left open, recovery turns into gaps up to now,
\* or is cut short before it does.
LEMMA NRecovered ==
  ASSUME NEW f \in Database, now \in Instants, NEW s, NEW done \in SUBSET Unclean(f, s), NEW t \in Instants, t <= now,
         \/ GapAt(f, t)
         \/ \E x \in DOMAIN f.sessions \ {s} : Running(f, x) /\ f.sessions[x].beat < t
  PROVE  GapAt(Recovered(f, s, done), t) \/ t \in Unrecorded(f, s, done)
  <1>1. Recovered(f, s, done).gaps = f.gaps \cup {[from |-> f.sessions[x].beat, to |-> now] :
                                                 x \in {y \in done : Running(f, y)}}
    BY RecoveredFile
  <1>2. CASE GapAt(f, t)
    BY <1>1, <1>2 DEF GapAt
  <1>3. ASSUME NEW x \in DOMAIN f.sessions \ {s}, Running(f, x), f.sessions[x].beat < t, x \in done
        PROVE  GapAt(Recovered(f, s, done), t)
    <2>1. [from |-> f.sessions[x].beat, to |-> now] \in Recovered(f, s, done).gaps
      BY <1>1, <1>3
    <2> QED BY <1>3, <2>1 DEF GapAt
  <1>4. ASSUME NEW x \in DOMAIN f.sessions \ {s}, Running(f, x), f.sessions[x].beat < t, x \notin done
        PROVE  t \in Unrecorded(f, s, done)
    BY <1>4 DEF Unrecorded, Unclean, Running
  <1> QED BY <1>2, <1>3, <1>4

LEMMA NLaunch ==
  ASSUME StoreAssumption, Shape, Shape', GInv, NInv, Launch PROVE NInv'
  <1> SUFFICES ASSUME ~Exempt' PROVE NLive'
    <2>1. \A r \in Restoring : requests'[r].pc \notin {"replacing", "reopening"}
      BY DEF Launch, Shape, Phases, Requests, Untouched
    <2> QED BY <2>1, NFromLive
  <1> DEFINE s == session'
             found == Opened(live)
  <1>1. /\ s = session + 1 /\ s \in 1..MaxSessions /\ now' = now /\ ~ready /\ watched' = Never
        /\ OpenFile(live, s) \/ OpenFails
        /\ session \in Nat /\ now \in Instants /\ MaxTime \in Nat /\ watched \in Instants \cup {Never}
        /\ missed \subseteq Instants
    BY DEF Launch, Shape, TypeOK, Phases, StoreAssumption
  <1>2. ~Exempt
    BY TimeGoesOn DEF HNext
  <1>3. found \in Database /\ lost \subseteq lost'
    BY <1>1, OpenedFile, EmptyFile DEF OpenFails, Opened, Shape, TypeOK
  <1>4. /\ \A t \in missed' : t \in Instants /\ t <= now
        /\ \A t \in missed' \ lost :
             \/ GapAt(found, t)
             \/ \E x \in DOMAIN found.sessions \ {s} : Running(found, x) /\ found.sessions[x].beat < t
    <2>1. CASE live = NoFile
      BY <2>1 DEF Launch
    <2>2. CASE live # NoFile
      <3>1. found = live /\ Watched(live) /\ Covered(live) /\ (\A t \in missed : t <= now) /\ Sound(live)
        BY <1>2, <2>2, KnownFiles DEF NInv, GInv, Opened
      <3>2. s \notin DOMAIN live.sessions
        BY <1>1, <3>1 DEF Sound, SoundAt
      <3>3. ASSUME NEW t \in missed' PROVE t \in missed \/ (t \in Instants /\ watched # Never /\ watched < t /\ t < now)
        BY <2>2, <3>3 DEF Launch
      <3>4. ASSUME NEW t \in Instants, watched # Never, watched < t, t < now
            PROVE  \E x \in DOMAIN live.sessions \ {s} : Running(live, x) /\ live.sessions[x].beat < t
        <4>1. session \in DOMAIN live.sessions /\ Running(live, session) /\ live.sessions[session].beat <= watched
          BY <3>1, <3>4 DEF Watched
        <4>2. live.sessions[session].beat \in Nat /\ watched \in Nat /\ t \in Nat
          BY <1>1, <1>3, <3>1, <3>4, <4>1, SessionsOf DEF Row, Instants
        <4> QED BY <1>1, <3>4, <4>1, <4>2
      <3>5. ASSUME NEW t \in missed \ lost
            PROVE  GapAt(live, t) \/ \E x \in DOMAIN live.sessions \ {s} : Running(live, x) /\ live.sessions[x].beat < t
        BY <3>1, <3>2 DEF Covered
      <3>6. \A t \in missed' : t \in Instants /\ t <= now
        <4>1. \A t \in Instants : t \in Nat
          BY <1>1 DEF Instants
        <4>2. ASSUME NEW t \in missed' PROVE t \in Instants /\ t <= now
          BY <1>1, <3>1, <3>3, <4>1, <4>2
        <4> QED BY <4>2
      <3> QED BY <3>1, <3>3, <3>4, <3>5, <3>6
    <2> QED BY <2>1, <2>2
  <1>5. CASE OpenFails
    <2>1. live' = live /\ ready' = ready /\ lost' = lost
      BY <1>5 DEF OpenFails
    <2>2. live # NoFile => found = live
      BY DEF Opened
    <2> QED BY <1>1, <1>4, <2>1, <2>2 DEF NLive, Watched, Covered, GapAt, Running
  <1>6. CASE OpenFile(live, s) /\ upgrading'
    <2>1. live' = found /\ ready' = ready
      BY <1>1, <1>6, OpenedFile DEF Shape
    <2> QED BY <1>1, <1>3, <1>4, <2>1 DEF NLive, Watched, Covered, GapAt, Running
  <1>7. CASE OpenFile(live, s) /\ ~upgrading'
    <2>1. PICK ok \in BOOLEAN, done \in SUBSET Unclean(found, s) :
            \/ Finished(Recovered(found, s, done), s, ok) /\ lost' = lost \cup Unrecorded(found, s, done)
            \/ Finished(found, s, ok) /\ (ok => found.schema = <<>>) /\ lost' = lost
      BY <1>1, <1>7, OpenedFile DEF Shape, Ended
    <2>2. CASE Finished(Recovered(found, s, done), s, ok) /\ lost' = lost \cup Unrecorded(found, s, done)
      <3> DEFINE g == Recovered(found, s, done)
      <3>1. g \in Database
        BY <1>1, <1>3, RecoveredFile
      <3>2. \A t \in missed' \ lost' : GapAt(g, t)
        BY <1>1, <1>3, <1>4, <2>2, NRecovered
      <3>3. \A t \in missed' : t <= now
        BY <1>4
      <3> HIDE DEF g, found
      <3> QED BY <1>1, <2>2, <3>1, <3>2, <3>3, NFinished DEF g
    <2>3. CASE Finished(found, s, ok) /\ (ok => found.schema = <<>>) /\ lost' = lost
      <3>1. ok => DOMAIN found.sessions = {}
        <4>1. CASE live = NoFile
          BY <4>1, EmptyFile DEF Opened
        <4>2. CASE live # NoFile
          BY <1>2, <2>3, <4>2, KnownFiles DEF GInv, Opened, Sound, SoundAt
        <4> QED BY <4>1, <4>2
      <3>2. \A t \in missed' \ lost' :
              \/ GapAt(found, t)
              \/ /\ ~ready /\ ~ok
                 /\ \E x \in DOMAIN found.sessions \ {s} : Running(found, x) /\ found.sessions[x].beat < t
        BY <1>1, <1>4, <2>3, <3>1
      <3>3. \A t \in missed' : t <= now
        BY <1>4
      <3> HIDE DEF found
      <3> QED BY <1>1, <1>3, <2>3, <3>2, <3>3, NFinished
    <2> QED BY <2>1, <2>2, <2>3
  <1> QED BY <1>1, <1>5, <1>6, <1>7

LEMMA NReopen ==
  ASSUME StoreAssumption, OneRestore, Shape, Shape', GInv, NInv, NEW r \in Requests, Reopen(r) PROVE NInv'
  <1>0. /\ r \in Restoring /\ ready /\ requests[r].pc = "reopening"
        /\ \A x \in Restoring : requests'[x].pc \notin {"replacing", "reopening"}
    <2>1. r \in Restoring /\ ready /\ requests[r].pc = "reopening"
      BY ActiveIsAlive DEF Reopen, At, Shape, Phases, Requests, Untouched, Copying, Restores
    <2>2. requests \in [Requests -> Progress]
      BY DEF Shape, TypeOK
    <2>3. requests'[r].pc \in {"upgrading", "answered"}
      BY <2>2, AnsweredRequest DEF Reopen, AnswerOpened, Answer, Goes, Progress
    <2> QED BY <2>1, <2>3 DEF OneRestore
  <1> SUFFICES ASSUME ~Exempt' PROVE NLive'
    BY <1>0, NFromLive
  <1> DEFINE found == Opened(live)
  <1>1. /\ UNCHANGED <<now, session, watched, missed>> /\ (OpenFile(live, session) \/ OpenFails)
        /\ session \in 1..MaxSessions /\ now \in Instants /\ missed \subseteq Instants
    BY DEF Reopen, Shape, TypeOK
  <1>2. r \in Restoring /\ ready /\ requests[r].pc = "reopening"
    BY <1>0
  <1>3. ~Exempt
    BY TimeGoesOn DEF HNext, RequestStep
  <1>4. found \in Database
    BY <1>1, OpenedFile, EmptyFile DEF Opened, Shape, TypeOK
  <1>5. /\ \A t \in missed : t <= now
        /\ \A t \in missed \ lost : GapAt(found, t)
        /\ watched # Never => session \in DOMAIN found.sessions /\ Running(found, session) /\ found.sessions[session].beat <= watched
    <2>1. CASE live = NoFile
      BY <1>1, <1>2, <1>3, <2>1 DEF NInv
    <2>2. CASE live # NoFile
      BY <1>2, <1>3, <2>2 DEF NInv, Watched, Covered, Opened
    <2> QED BY <2>1, <2>2
  <1>6. CASE OpenFails
    <2>1. live' = live /\ ready' = ready /\ lost' = lost
      BY <1>6 DEF OpenFails
    <2>2. live # NoFile => found = live
      BY DEF Opened
    <2> QED BY <1>1, <1>5, <2>1, <2>2 DEF NLive, Watched, Covered, GapAt, Running
  <1>7. CASE OpenFile(live, session) /\ upgrading'
    <2>1. live' = found /\ lost \subseteq lost'
      BY <1>1, <1>7, OpenedFile DEF Shape
    <2> QED BY <1>1, <1>4, <1>5, <2>1 DEF NLive, Watched, Covered, GapAt, Running
  <1>8. CASE OpenFile(live, session) /\ ~upgrading'
    <2>1. PICK ok \in BOOLEAN, done \in SUBSET Unclean(found, session) :
            \/ Finished(Recovered(found, session, done), session, ok) /\ lost' = lost \cup Unrecorded(found, session, done)
            \/ Finished(found, session, ok) /\ lost' = lost
      BY <1>1, <1>8, OpenedFile DEF Shape, Ended
    <2>2. CASE Finished(Recovered(found, session, done), session, ok) /\ lost' = lost \cup Unrecorded(found, session, done)
      <3> DEFINE g == Recovered(found, session, done)
      <3>1. /\ g \in Database /\ DOMAIN g.sessions = DOMAIN found.sessions
            /\ session \in DOMAIN found.sessions => g.sessions[session] = found.sessions[session]
        BY <1>1, <1>4, RecoveredFile
      <3>2. \A t \in missed \ lost' : GapAt(g, t)
        BY <1>1, <1>4, <1>5, <2>2, NRecovered
      <3>3. watched # Never => session \in DOMAIN g.sessions /\ Running(g, session) /\ g.sessions[session].beat <= watched
        BY <1>5, <3>1 DEF Running
      <3> HIDE DEF g, found
      <3> QED BY <1>1, <1>5, <2>2, <3>1, <3>2, <3>3, NFinished DEF g
    <2>3. CASE Finished(found, session, ok) /\ lost' = lost
      <3> HIDE DEF found
      <3> QED BY <1>1, <1>4, <1>5, <2>3, NFinished
    <2> QED BY <2>1, <2>2, <2>3
  <1> QED BY <1>1, <1>6, <1>7, <1>8

LEMMA NTick ==
  ASSUME StoreAssumption, Shape, Shape', GInv, Quiet, NInv, Tick PROVE NInv'
  <1> SUFFICES ASSUME ~Exempt' PROVE NInv'
    BY DEF NInv
  <1>1. /\ now' = now + 1 /\ now \in Nat /\ now + 1 \in Instants /\ ~Exempt
        /\ UNCHANGED <<missed, session, alive, ready, open, upgrading, maintenance, beating, requests, lost>>
        /\ missed \subseteq Instants /\ MaxTime \in Nat
    <2>1. ~Exempt
      BY TimeGoesOn DEF HNext
    <2> QED BY <2>1 DEF Tick, worker, failures, Shape, TypeOK, StoreAssumption, Instants
  <1>2. \A t \in missed : t <= now + 1
    <2>1. \A t \in missed : t \in Nat /\ t <= now
      BY <1>1 DEF NInv, Instants
    <2> QED BY <1>1, <2>1
  <1>3. live' = NoFile <=> live = NoFile
    <2>1. CASE beating /\ live # NoFile /\ session \in DOMAIN live.sessions
      <3>1. live' = Beat(live) /\ live \in Database
        BY <2>1 DEF Tick, Shape, TypeOK
      <3> QED BY <1>1, <2>1, <3>1, BeatFile, FileIsNoFile
    <2>2. CASE ~(beating /\ live # NoFile /\ session \in DOMAIN live.sessions)
      BY <2>2 DEF Tick
    <2> QED BY <2>1, <2>2
  <1>4. ASSUME live # NoFile PROVE Watched(live)' /\ Covered(live)'
    <2>1. Watched(live) /\ Covered(live) /\ Fresh
      BY <1>1, <1>4 DEF NInv, GInv
    <2>2. CASE beating /\ session \in DOMAIN live.sessions
      <3>1. live' = Beat(live) /\ live \in Database
        BY <1>4, <2>2 DEF Tick, Shape, TypeOK
      <3>2. /\ live'.gaps = live.gaps /\ DOMAIN live'.sessions = DOMAIN live.sessions
            /\ \A x \in DOMAIN live.sessions \ {session} : live'.sessions[x] = live.sessions[x]
            /\ live'.sessions[session].state = live.sessions[session].state
            /\ live'.sessions[session].beat = now + 1 /\ live'.sessions[session].collecting = live.wanted
        BY <1>1, <2>2, <3>1, BeatFile
      <3>3. Covered(live)'
        BY <1>1, <2>1, <3>2 DEF Covered, GapAt, Running
      <3>4. ASSUME watched' # Never PROVE session \in DOMAIN live'.sessions /\ Running(live', session) /\ live'.sessions[session].beat <= watched'
        <4>1. ready /\ open /\ live.wanted /\ ~maintenance /\ watched' = now + 1
          BY <1>4, <2>2, <3>4 DEF Tick, Quiet, Serving
        <4>2. open /\ ~upgrading
          BY <4>1 DEF Shape, Phases
        <4>3. live.sessions[session].state = "running"
          BY <2>1, <4>1, <4>2 DEF Fresh
        <4> QED BY <1>1, <2>2, <3>2, <4>1, <4>3 DEF Running
      <3> QED BY <1>1, <3>3, <3>4 DEF Watched
    <2>3. CASE ~(beating /\ session \in DOMAIN live.sessions)
      <3>1. live' = live
        BY <2>3 DEF Tick
      <3>2. watched' \in {watched, Never}
        <4>1. ASSUME Serving, ~maintenance PROVE FALSE
          <5>1. ready /\ open /\ ~upgrading
            BY <4>1 DEF Serving, Shape, Phases
          <5> QED BY <2>1, <2>3, <5>1 DEF Fresh
        <4> QED BY <4>1 DEF Tick
      <3> QED BY <1>1, <2>1, <3>1, <3>2 DEF Watched, Covered, GapAt, Running
    <2> QED BY <2>2, <2>3
  <1>5. ASSUME NEW r \in Restoring, live = NoFile, requests[r].pc \in {"replacing", "reopening"} PROVE watched' = Never
    <2>1. alive
      BY <1>5, ActiveIsAlive DEF Requests, Untouched
    <2>2. ~Serving
      BY <1>5, <2>1 DEF Serving, Shape, Phases
    <2> QED BY <1>5, <2>1, <2>2 DEF Tick
  <1>6. ASSUME NEW r \in Restoring, live = NoFile, requests[r].pc = "replacing"
        PROVE  Watched(requests[r].aside)' /\ Covered(requests[r].aside)'
    BY <1>1, <1>5, <1>6 DEF NInv, Watched, Covered, GapAt, Running
  <1>7. ASSUME NEW r \in Restoring, live = NoFile, requests[r].pc = "reopening" PROVE missed = {} /\ watched' = Never
    BY <1>1, <1>5, <1>7 DEF NInv
  <1> QED BY <1>1, <1>2, <1>3, <1>4, <1>6, <1>7 DEF NInv

LEMMA NWrite ==
  ASSUME StoreAssumption, Shape, Shape', NInv,
         Ingest \/ (\E b \in Switched : SetRunning(b)) \/ (\E c \in Cutoffs : DeleteBefore(c))
  PROVE  NInv'
  <1> SUFFICES ASSUME ~Exempt' PROVE NLive' /\ live' # NoFile
    BY NFromLive
  <1>1. /\ UNCHANGED <<now, session, ready, watched, missed, reopened, skipped, lost>>
        /\ live \in Database /\ live # NoFile /\ live' # NoFile
    BY ShapeWrite, FileIsNoFile DEF Ingest, SetRunning, DeleteBefore, worker, past, failures
  <1>2. live'.sessions = live.sessions /\ live'.gaps = live.gaps
    <2>1. CASE Ingest
      BY <1>1, <2>1 DEF Ingest, Database
    <2>2. ASSUME NEW b \in Switched, SetRunning(b) PROVE live'.sessions = live.sessions /\ live'.gaps = live.gaps
      BY <1>1, <2>2 DEF SetRunning, Database
    <2>3. ASSUME NEW c \in Cutoffs, DeleteBefore(c) PROVE live'.sessions = live.sessions /\ live'.gaps = live.gaps
      BY <1>1, <2>3 DEF DeleteBefore, Database
    <2> QED BY <2>1, <2>2, <2>3
  <1> QED BY <1>1, <1>2 DEF Exempt, NInv, NLive, Watched, Covered, GapAt, Running

LEMMA NEnds ==
  ASSUME StoreAssumption, Shape, Shape', NInv, Crash \/ Shutdown PROVE NInv'
  <1> SUFFICES ASSUME ~Exempt' PROVE NInv'
    BY DEF NInv
  <1>1. /\ UNCHANGED <<now, session, missed, lost>> /\ ~ready' /\ ~Exempt
        /\ live' = NoFile <=> live = NoFile
    <2>1. Ends
      BY DEF Crash, Shutdown
    <2>2. UNCHANGED <<now, session, missed, reopened, skipped, lost>> /\ ~ready'
      BY <2>1 DEF Ends
    <2> QED BY <2>2, ShapeEnds DEF Exempt
  <1>2. \A r \in Restoring : requests'[r].pc \notin {"replacing", "reopening"}
    BY ShapeEnds DEF Requests, Untouched
  <1>3. CASE live' = live /\ watched' \in {watched, Never}
    BY <1>1, <1>2, <1>3 DEF NInv, Watched, Covered, GapAt, Running
  <1>4. CASE watched' = Never /\ open /\ session \in DOMAIN live.sessions /\ live' = [live EXCEPT !.sessions[session].state = "stopped"]
    <2>1. live \in Database /\ live # NoFile
      BY <1>4 DEF Crash, Shutdown, Shape, TypeOK, Phases
    <2>2. /\ live'.gaps = live.gaps /\ DOMAIN live'.sessions = DOMAIN live.sessions
          /\ \A x \in DOMAIN live.sessions \ {session} : live'.sessions[x] = live.sessions[x]
      <3>1. live.sessions \in [DOMAIN live.sessions -> Row]
        BY <2>1, SessionsOf
      <3>2. live' = [live EXCEPT !.sessions = [live.sessions EXCEPT ![session] =
                                                 [live.sessions[session] EXCEPT !.state = "stopped"]]]
        BY <1>4, <2>1 DEF Database
      <3> QED BY <2>1, <3>1, <3>2 DEF Database
    <2> QED BY <1>1, <1>2, <1>4, <2>1, <2>2 DEF NInv, Watched, Covered, GapAt, Running
  <1> QED BY <1>3, <1>4 DEF Crash, Shutdown

LEMMA NCopying ==
  ASSUME StoreAssumption, OneRestore, Shape, Shape', NInv, ~Exempt, NEW r \in Requests,
         \/ Copy(r) \/ Publish(r) \/ Prune(r) \/ Stage(r)
         \/ \E f \in Database : Begin(r, f)
         \/ r \in Backing /\ BeginBackup(r)
  PROVE  NInv'
  <1>1. UNCHANGED <<now, live, session, watched, missed, ready, lost>>
    BY DEF Copy, Publish, Prune, Stage, Begin, BeginBackup, Fails, files, worker, past, failures
  <1>2. ASSUME NEW x \in Restoring, requests'[x].pc \in {"replacing", "reopening"}
        PROVE  live' # NoFile \/ (requests'[x].pc = requests[x].pc /\ requests'[x].aside = requests[x].aside)
    <2>0. requests \in [Requests -> Progress] /\ x \in Requests
      BY DEF Shape, TypeOK, Requests
    <2>1. CASE Stage(r)
      <3>1. requests[r].pc = "staging"
        BY <2>1 DEF Stage, At
      <3>2. alive /\ r \in Restoring
        BY <3>1, ActiveIsAlive DEF Requests, Untouched, Copying
      <3>3. live # NoFile
        BY <3>1, <3>2 DEF Shape, Phases, Untouched, Replacing
      <3> QED BY <1>1, <3>3
    <2>2. CASE Copy(r) \/ Publish(r) \/ Prune(r)
      <3>0. requests[r] \in Progress
        BY <2>0
      <3>1. CASE Answer(r)
        BY <1>2, <2>0, <3>1 DEF Answer, Request
      <3>2. CASE Copy(r)
        BY <1>2, <2>0, <3>0, <3>1, <3>2 DEF Copy, Fails, Progress
      <3>3. CASE Publish(r)
        BY <1>2, <2>0, <3>0, <3>1, <3>3 DEF Publish, Fails, Progress
      <3>4. CASE Prune(r)
        BY <1>2, <2>0, <3>0, <3>1, <3>4 DEF Prune, Fails, Goes, Progress
      <3> QED BY <2>2, <3>2, <3>3, <3>4
    <2>3. CASE (\E f \in Database : Begin(r, f)) \/ BeginBackup(r)
      <3>1. PICK f \in Database \cup {NoFile} : Begin(r, f)
        BY <2>3 DEF BeginBackup
      <3>2. PICK q : q.pc = "copying" /\ requests' = [requests EXCEPT ![r] = q]
        BY <3>1 DEF Begin
      <3> QED BY <1>2, <2>0, <3>2
    <2> QED BY <2>1, <2>2, <2>3
  <1> QED BY <1>1, <1>2, NStays

LEMMA NSwapping ==
  ASSUME StoreAssumption, OneRestore, Shape, Shape', NInv, ~Exempt, NEW r \in Requests, Preserve(r) \/ Replace(r)
  PROVE  NInv'
  <1>1. /\ UNCHANGED <<now, session, ready, lost>> /\ r \in Restoring /\ \A x \in Restoring : x = r
        /\ requests \in [Requests -> Progress]
    <2>1. requests[r].pc \in Replacing /\ UNCHANGED <<now, session, ready, lost>>
      BY DEF Preserve, Replace, At, Replacing, worker, past, failures
    <2>2. r \in Restoring
      BY <2>1, ActiveIsAlive DEF Requests, Untouched, Copying, Replacing
    <2> QED BY <2>1, <2>2 DEF OneRestore, Shape, TypeOK
  <1>2. CASE Preserve(r)
    <2>1. /\ requests[r].pc = "preserving" /\ live # NoFile /\ UNCHANGED <<watched, missed>>
          /\ requests'[r].pc = "replacing"
      BY <1>1, <1>2 DEF Preserve, At, Goes, Shape, Phases, past, failures, Progress
    <2>2. Watched(live) /\ Covered(live) /\ \A t \in missed : t <= now
      BY <2>1 DEF NInv
    <2>3. live' = live \/ (live' = NoFile /\ requests'[r].aside = live)
      BY <1>1, <1>2 DEF Preserve, Progress
    <2> QED BY <1>1, <2>1, <2>2, <2>3 DEF NInv, Watched, Covered, GapAt, Running
  <1>3. CASE Replace(r)
    <2>1. requests[r].pc = "replacing" /\ requests'[r].pc \in {"reopening", "answered"}
      <3>1. \/ requests' = [requests EXCEPT ![r].pc = "reopening"]
            \/ requests' = [requests EXCEPT ![r].pc = "reopening", ![r].candidate = NoFile]
            \/ requests' = [requests EXCEPT ![r] = Request("answered")]
        BY <1>3, Zenon DEF Replace, Goes, Answer
      <3>2. requests[r].pc = "replacing"
        BY <1>3 DEF Replace, At
      <3>3. r \in Requests /\ requests[r] \in Progress
        BY <1>1
      <3>4. CASE requests' = [requests EXCEPT ![r].pc = "reopening"]
        BY <1>1, <3>2, <3>3, <3>4 DEF Progress
      <3>5. CASE requests' = [requests EXCEPT ![r].pc = "reopening", ![r].candidate = NoFile]
        BY <1>1, <3>2, <3>3, <3>5 DEF Progress
      <3>6. CASE requests' = [requests EXCEPT ![r] = Request("answered")]
        BY <1>1, <3>2, <3>3, <3>6, AnsweredRequest
      <3> QED BY <3>1, <3>4, <3>5, <3>6
    <2>2. CASE Forgets(TRUE)
      BY <1>1, <2>1, <2>2 DEF Forgets, NInv, Watched, Covered
    <2>3. CASE live' # NoFile /\ UNCHANGED <<watched, missed>> /\ live' = live
      BY <1>1, <2>1, <2>3 DEF NInv, Watched, Covered, GapAt, Running
    <2>4. CASE live' # NoFile /\ UNCHANGED <<watched, missed>> /\ live = NoFile /\ live' = requests[r].aside
      BY <1>1, <2>1, <2>4 DEF NInv, Watched, Covered, GapAt, Running
    <2>5. CASE Answer(r) /\ live' = NoFile /\ UNCHANGED missed
      <3>1. requests'[r].pc = "answered"
        BY <1>1, <2>5, AnsweredRequest DEF Answer
      <3> QED BY <1>1, <2>5, <3>1 DEF NInv
    <2>6. \/ Forgets(TRUE)
          \/ live' # NoFile /\ UNCHANGED <<watched, missed>> /\ (live' = live \/ (live = NoFile /\ live' = requests[r].aside))
          \/ Answer(r) /\ live' = NoFile /\ UNCHANGED missed
      BY <1>3 DEF Replace, Forgets
    <2> QED BY <2>2, <2>3, <2>4, <2>5, <2>6
  <1> QED BY <1>2, <1>3

LEMMA NInvNext ==
  ASSUME StoreAssumption, OneRestore, Shape, GInv, Quiet, NInv, [HNext]_hvars PROVE NInv'
  <1>0. Shape'
    BY ShapeNext
  <1> SUFFICES ASSUME ~Exempt' PROVE NInv'
    BY DEF NInv
  <1>1. ~Exempt
    BY TimeGoesOn
  <1>2. CASE UNCHANGED hvars
    BY <1>1, <1>2, NStays DEF hvars, files, worker, past, failures
  <1>3. ASSUME NEW r \in Backing, BeginBackup(r) PROVE NInv'
    BY <1>0, <1>1, <1>3, NCopying DEF Requests
  <1>4. ASSUME NEW r \in Restoring, NEW f \in backups \cup preserved, BeginRestore(r, f) PROVE NInv'
    <2>1. r \in Requests /\ f \in Database /\ Begin(r, f)
      BY <1>4 DEF BeginRestore, Requests, Shape, TypeOK
    <2> QED BY <1>0, <1>1, <2>1, NCopying
  <1>5. ASSUME NEW r \in Requests, RequestStep(r) PROVE NInv'
    BY <1>0, <1>1, <1>5, NCopying, NSwapping, NReopen DEF RequestStep
  <1> QED BY <1>0, <1>1, <1>2, <1>3, <1>4, <1>5, NLaunch, NUpgrade, NEnds, NTick, NWrite DEF HNext

LEMMA NInvInit ==
  ASSUME StoreAssumption, HInit PROVE Quiet /\ NInv
  <1>1. PICK b \in BOOLEAN, first \in {1, 2} :
       /\ live = Beats(first, b)
       /\ watched = (IF b THEN 0 ELSE Never)
       /\ session = first
       /\ requests = [r \in Requests |-> IF first = 1 THEN Request("answered") ELSE NoRequest]
    BY DEF HInit
  <1>2. live.sessions = [x \in {first} |-> [state |-> "running", beat |-> 0, collecting |-> b]]
    BY <1>1 DEF Beats, Empty
  <1>3. Watched(live)
    <2>1. first \in DOMAIN live.sessions /\ live.sessions[first] = [state |-> "running", beat |-> 0, collecting |-> b]
      BY <1>2
    <2>2. ASSUME watched # Never PROVE b /\ watched = 0
      BY <1>1, <2>2
    <2> QED BY <1>1, <2>1, <2>2 DEF Watched, Running
  <1>4. missed = {} /\ Quiet
    BY DEF HInit, Quiet
  <1>5. \A r \in Restoring : requests[r].pc \notin {"replacing", "reopening"}
    BY <1>1 DEF Requests, Request, NoRequest
  <1> QED BY <1>3, <1>4, <1>5 DEF NInv, Covered

\* Time that nobody collected after an unclean exit is in a gap of the file that is
\* served, through every restore that is cut short or put back and every open() that
\* fails, but for the three cases the model names (worker.ts:208-212, 320-338).
THEOREM NoHoleGoesUnseen ==
  ASSUME StoreAssumption, OneRestore PROVE HSpec => []NoHole
  <1>1. HInit => Shape /\ GInv /\ Quiet /\ NInv
    BY ShapeInit, GInvInit, NInvInit
  <1>2. Shape /\ GInv /\ Quiet /\ NInv /\ [HNext]_hvars => (Shape /\ GInv /\ Quiet /\ NInv)'
    BY ShapeNext, GInvNext, QuietNext, NInvNext
  <1>3. NInv => NoHole
    BY DEF NInv, NoHole, Covered, Serving
  <1> QED BY <1>1, <1>2, <1>3, PTL DEF HSpec
=============================================================================
