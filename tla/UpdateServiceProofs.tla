------------------------- MODULE UpdateServiceProofs -------------------------
(***************************************************************************)
(* For any releases, keys, clicks, closings of the window, jobs and        *)
(* settings: one install at a time, and checks go on; what is installed was *)
(* verified and is never replayed unless an install began under a check.   *)
(***************************************************************************)
EXTENDS UpdateService, TLAPS

Phases == {"none", "deferring", "revalidating", "stopping", "backing up", "persisting", "handed over"}

\* The check in flight counts as installing exactly while its own attempt lasts.
\* Without it the end of a download could take an attempt of its check for over.
IInv ==
  /\ installing \in BOOLEAN
  /\ attempt \in [Callers -> Phases]
  /\ check = "installing" <=> attempt["check"] # "none"
  /\ OneAttempt

LEMMA CheckIsACaller == "check" \in Callers
  BY DEF Callers

\* A step of a check before its install leaves the attempts alone.
Elsewhere ==
  /\ UNCHANGED <<installing, attempt>>
  /\ check' = check \/ (check # "installing" /\ check' # "installing")

LEMMA ElsewhereKeeps == ASSUME IInv, Elsewhere PROVE IInv'
  BY DEF IInv, Elsewhere, OneAttempt, InProgress

LEMMA ChecksAreElsewhere ==
  ASSUME TimerFires \/ UserChecks \/ CheckAnswered \/ Verify \/ Download
  PROVE  Elsewhere
  <1>1. CASE TimerFires
    BY <1>1 DEF TimerFires, Check, checkVars, install, Elsewhere
  <1>2. CASE UserChecks
    BY <1>2 DEF UserChecks, Check, checkVars, install, Elsewhere
  <1>3. CASE CheckAnswered
    BY <1>3 DEF CheckAnswered, CheckEnds, install, Elsewhere
  <1>4. CASE Verify
    BY <1>4 DEF Verify, CheckEnds, Elsewhere
  <1>5. CASE Download
    BY <1>5 DEF Download, CheckEnds, install, Elsewhere
  <1> QED BY <1>1, <1>2, <1>3, <1>4, <1>5

LEMMA HostIsElsewhere == ASSUME Happens PROVE Elsewhere
  BY DEF Happens, WindowMoves, Publish, Damage, BeginJob, EndJob, Toggle, Quit,
         checkVars, install, Elsewhere

-----------------------------------------------------------------------------
\* The end of an attempt, or of a deferral.
LEMMA ReturnKeeps ==
  ASSUME IInv, NEW c \in Callers, Return(c), installing' \in BOOLEAN,
         InProgress(c) => ~installing', ~InProgress(c) => installing' = installing
  PROVE  IInv'
  <1>1. attempt' = [attempt EXCEPT ![c] = "none"]
    BY DEF Return
  <1>2. attempt' \in [Callers -> Phases]
    BY <1>1 DEF IInv, Phases
  <1>3. check' = "installing" <=> attempt'["check"] # "none"
    BY <1>1, CheckIsACaller DEF IInv, Return, CheckEnds
  <1>4. \A d \in Callers : InProgress(d)' <=> d # c /\ InProgress(d)
    BY <1>1 DEF IInv, InProgress
  <1>5. installing' <=> \E d \in Callers : InProgress(d)'
    BY <1>4 DEF IInv, OneAttempt
  <1>6. \A d, e \in Callers : InProgress(d)' /\ InProgress(e)' => d = e
    BY <1>4 DEF IInv, OneAttempt
  <1> QED BY <1>2, <1>3, <1>5, <1>6 DEF IInv, OneAttempt

\* An attempt goes from one of its awaits to the next.
LEMMA GoOnKeeps ==
  ASSUME IInv, NEW c \in Callers, InProgress(c),
         NEW phase \in Phases \ {"none", "deferring"}, GoOn(c, phase)
  PROVE  IInv'
  <1>1. attempt' = [attempt EXCEPT ![c] = phase] /\ check' = check /\ installing' = installing
    BY DEF GoOn
  <1>2. \A d \in Callers : InProgress(d)' <=> InProgress(d)
    BY <1>1 DEF IInv, InProgress
  <1>3. OneAttempt'
    BY <1>1, <1>2 DEF IInv, OneAttempt
  <1>4. check' = "installing" <=> attempt'["check"] # "none"
    BY <1>1, CheckIsACaller DEF IInv, InProgress
  <1> QED BY <1>1, <1>3, <1>4 DEF IInv

\* performInstall gives way to an attempt in progress, and begins one otherwise.
LEMMA PerformInstallKeeps ==
  ASSUME IInv, NEW c \in Callers, attempt[c] = "none", NEW m, NEW f, PerformInstall(c, m, f)
  PROVE  IInv'
  <1>1. CASE installing
    <2>1. Return(c) /\ installing' = installing
      BY <1>1 DEF PerformInstall
    <2> QED BY <2>1, ReturnKeeps DEF IInv, InProgress
  <1>2. CASE ~installing
    <2>1. /\ installing' = TRUE /\ attempt' = [attempt EXCEPT ![c] = "revalidating"]
          /\ check' = IF c = "check" THEN "installing" ELSE check
      BY <1>2 DEF PerformInstall
    <2>2. \A d \in Callers : InProgress(d)' <=> d = c
      BY <1>2, <2>1 DEF IInv, OneAttempt, InProgress
    <2>3. OneAttempt'
      BY <2>1, <2>2 DEF OneAttempt
    <2>4. check' = "installing" <=> attempt'["check"] # "none"
      BY <2>1, CheckIsACaller DEF IInv
    <2>5. attempt' \in [Callers -> Phases]
      BY <2>1 DEF IInv, Phases
    <2> QED BY <2>1, <2>3, <2>4, <2>5 DEF IInv
  <1> QED BY <1>1, <1>2

\* The safe point, after a download or when the window is hidden.
LEMMA TryInstallKeeps ==
  ASSUME IInv, NEW c \in Callers, attempt[c] = "none", NEW m, NEW f, TryInstall(c, m, f)
  PROVE  IInv'
  <1>1. CASE "install" \notin auto
    BY <1>1, ReturnKeeps DEF TryInstall, InProgress, IInv
  <1>2. CASE "install" \in auto /\ Blocked
    <2>1. /\ installing' = installing /\ attempt' = [attempt EXCEPT ![c] = "deferring"]
          /\ check' = IF c = "check" THEN "installing" ELSE check
      BY <1>2 DEF TryInstall
    <2>2. \A d \in Callers : InProgress(d)' <=> InProgress(d)
      BY <2>1 DEF IInv, InProgress
    <2>3. OneAttempt'
      BY <2>1, <2>2 DEF IInv, OneAttempt
    <2>4. check' = "installing" <=> attempt'["check"] # "none"
      BY <2>1, CheckIsACaller DEF IInv
    <2>5. attempt' \in [Callers -> Phases]
      BY <2>1 DEF IInv, Phases
    <2> QED BY <2>1, <2>3, <2>4, <2>5 DEF IInv
  <1>3. CASE "install" \in auto /\ ~Blocked
    BY <1>3, PerformInstallKeeps DEF TryInstall
  <1> QED BY <1>1, <1>2, <1>3

LEMMA HideKeeps == ASSUME IInv, NEW c \in Hides, Hide(c) PROVE IInv'
  <1>1. c \in Callers /\ attempt[c] = "none"
    BY DEF Hide, Callers
  <1>2. CASE TryInstall(c, manifest, staged)
    BY <1>1, <1>2, TryInstallKeeps
  <1>3. CASE UNCHANGED <<installing, attempt, check>>
    BY <1>3, ElsewhereKeeps DEF Elsewhere
  <1> QED BY <1>2, <1>3 DEF Hide

LEMMA HashKeeps == ASSUME IInv, Hash PROVE IInv'
  <1>1. attempt["check"] = "none"
    BY DEF Hash, IInv
  <1>2. CASE Matches(manifest, downloaded)
    BY <1>1, <1>2, TryInstallKeeps, CheckIsACaller DEF Hash
  <1>3. CASE ~Matches(manifest, downloaded)
    <2>1. Elsewhere
      BY <1>3 DEF Hash, CheckEnds, Elsewhere
    <2> QED BY <2>1, ElsewhereKeeps
  <1> QED BY <1>2, <1>3

LEMMA GiveUpKeeps ==
  ASSUME IInv, NEW c \in Callers, InProgress(c), NEW s, GiveUp(c, s)
  PROVE  IInv'
  BY ReturnKeeps DEF GiveUp

LEMMA AttemptKeeps == ASSUME IInv, NEW c \in Callers, Attempt(c) PROVE IInv'
  <1>1. CASE Defer(c)
    BY <1>1, ReturnKeeps DEF Defer, InProgress, IInv
  <1>2. CASE ~Defer(c)
    <2>1. InProgress(c)
      BY <1>2 DEF Attempt, Revalidate, StopCollector, CreateBackup, HandOver, InProgress
    <2>2. \/ GiveUp(c, "failed") \/ GiveUp(c, "deferred")
          \/ GoOn(c, "stopping") \/ GoOn(c, "backing up") \/ GoOn(c, "persisting") \/ GoOn(c, "handed over")
      BY <1>2 DEF Attempt, Revalidate, StopCollector, CreateBackup, HandOver
    <2> QED BY <2>1, <2>2, GiveUpKeeps, GoOnKeeps DEF Phases
  <1> QED BY <1>1, <1>2

LEMMA IInvInit == ASSUME Init PROVE IInv
  BY CheckIsACaller DEF Init, IInv, OneAttempt, InProgress, Phases

LEMMA IInvNext == ASSUME IInv, [Next]_vars PROVE IInv'
  <1>1. CASE UNCHANGED vars
    BY <1>1, ElsewhereKeeps DEF vars, checkVars, install, Elsewhere
  <1>2. CASE TimerFires \/ UserChecks \/ CheckAnswered \/ Verify \/ Download \/ Happens
    BY <1>2, ChecksAreElsewhere, HostIsElsewhere, ElsewhereKeeps
  <1>3. CASE Hash
    BY <1>3, HashKeeps
  <1>4. ASSUME NEW c \in Callers, Attempt(c) PROVE IInv'
    BY <1>4, AttemptKeeps
  <1>5. ASSUME NEW c \in Clicks, UserInstalls(c) PROVE IInv'
    <2>1. c \in Callers
      BY DEF Callers
    <2> QED BY <1>5, <2>1, PerformInstallKeeps DEF UserInstalls
  <1>6. ASSUME NEW c \in Hides, Hide(c) PROVE IInv'
    BY <1>6, HideKeeps
  <1> QED BY <1>1, <1>2, <1>3, <1>4, <1>5, <1>6 DEF Next

\* However checks, clicks, deferrals and failures interleave, one install at
\* most is in progress, and the mark is set exactly then (updates.ts:471-577).
THEOREM InstallsOneAtATime == Spec => []OneAttempt
  <1>1. Init => IInv
    BY IInvInit
  <1>2. IInv /\ [Next]_vars => IInv'
    BY IInvNext
  <1>3. IInv => OneAttempt
    BY DEF IInv
  <1> QED BY <1>1, <1>2, <1>3, PTL DEF Spec

-----------------------------------------------------------------------------
\* As long as no install was begun under a check: while no read or write of the
\* sequence has failed, a manifest that an install works with, or may yet begin
\* with, is newer than every sequence accepted.  A late deferral meets the first
\* request of a check, whose state it replaces, and not the end of an install;
\* and a check does not meet an install at all.
Waits == check \in {"asking", "verifying", "downloading", "hashing"}
Works(c) == InProgress(c) /\ attempt[c] # "handed over"
May == ustate \in {"ready", "deferred"} /\ \A c \in Callers : attempt[c] # "handed over"

Apart ==
  /\ DOMAIN using = Callers
  /\ Waits => ~installing /\ ustate \in {"checking", "downloading", "deferred"}
  /\ check \in {"downloading", "hashing"} => ustate = "downloading"
  /\ ustate = "ready" => check \in {"none", "installing"}
  /\ installing => ustate \in {"installing", "deferred"}
  /\ Deferring => check \in {"none", "asking", "installing"}
  /\ \A c \in Callers : InProgress(c) => using[c].manifest = manifest
  /\ Deferring => \A c \in Callers : attempt[c] \notin {"persisting", "handed over"}

Fresh ==
  ~forgot /\ (check \in {"downloading", "hashing"} \/ (\E c \in Callers : Works(c)) \/ Deferring \/ May)
    => manifest > highest

FInv == IInv /\ Apart /\ Fresh

LEMMA FInvInit == ASSUME Init PROVE FInv
  <1>1. Apart
    BY DEF Init, Apart, Waits, Deferring, InProgress
  <1>2. Fresh
    BY DEF Init, Fresh, Works, Deferring, May, InProgress
  <1> QED BY <1>1, <1>2, IInvInit DEF FInv

\* Steps that leave the attempts, the manifest and the sequence alone.
LEMMA FInvElsewhere ==
  ASSUME FInv, Elsewhere, UNCHANGED <<using, manifest, highest, forgot>>,
         \/ Waits /\ check' = "none" /\ ustate' \in {"failed", "up_to_date", "idle"}
         \/ check' = check /\ ustate' = ustate
         \/ check' = "asking" /\ ustate' = "checking" /\ ~installing
         \/ check = "asking" /\ ~Deferring /\ check' = "verifying" /\ ustate' = ustate
         \/ check = "downloading" /\ check' = "hashing" /\ ustate' = ustate
  PROVE  FInv'
  <1>1. IInv'
    BY ElsewhereKeeps DEF FInv
  <1>2. Apart'
    BY DEF FInv, Apart, Elsewhere, Waits, Deferring, InProgress
  <1>3. Fresh'
    BY DEF FInv, Fresh, Elsewhere, Works, May, Waits, Deferring, InProgress
  <1> QED BY <1>1, <1>2, <1>3 DEF FInv

LEMMA FInvChecks == ASSUME FInv, ~crossed, TimerFires \/ UserChecks \/ CheckAnswered \/ Download PROVE FInv'
  <1>1. Elsewhere
    BY ChecksAreElsewhere
  <1>2. UNCHANGED <<using, manifest, highest, forgot>>
    BY DEF TimerFires, UserChecks, CheckAnswered, Download, files, install
  <1>3. CASE TimerFires \/ UserChecks
    BY <1>1, <1>2, <1>3, FInvElsewhere DEF TimerFires, UserChecks, Check, checkVars
  <1>4. CASE CheckAnswered
    BY <1>1, <1>2, <1>4, FInvElsewhere DEF CheckAnswered, CheckEnds, Recorded, Waits
  <1>5. CASE Download
    BY <1>1, <1>2, <1>5, FInvElsewhere DEF Download, CheckEnds, Waits
  <1> QED BY <1>3, <1>4, <1>5

\* What was verified is newer than the sequence that was read.
LEMMA FInvVerify == ASSUME FInv, Verify PROVE FInv'
  <1>1. Elsewhere /\ UNCHANGED <<using, highest>>
    BY ChecksAreElsewhere DEF Verify
  <1>2. CASE check' = "none" /\ ustate' = "failed" /\ UNCHANGED <<manifest, forgot>>
    BY <1>1, <1>2, FInvElsewhere DEF Verify, Waits
  <1>3. ASSUME NEW s \in Fetched, NEW names \in Listings[candidate], NEW accepted \in Accepted,
               VerifyManifest(s, Context(names, accepted)),
               manifest' = s.manifest.releaseSequence, forgot' = (forgot \/ accepted # highest),
               \/ check' = "downloading" /\ ustate' = "downloading"
               \/ check' = "none" /\ ustate' = "idle"
        PROVE  FInv'
    <2>1. manifest' > accepted
      BY <1>3 DEF VerifyManifest, Newer, Context
    <2>2. ~forgot' => ~forgot /\ accepted = highest
      BY <1>3
    <2>3. Fresh'
      BY <1>1, <2>1, <2>2 DEF Fresh
    <2>4. check = "verifying" /\ ~installing /\ \A c \in Callers : ~InProgress(c)
      BY DEF Verify, FInv, IInv, OneAttempt, Apart, Waits
    <2>5. Apart'
      BY <1>1, <1>3, <2>4 DEF FInv, Apart, Elsewhere, Waits, Deferring, InProgress
    <2>6. IInv'
      BY <1>1, ElsewhereKeeps DEF FInv
    <2> QED BY <2>3, <2>5, <2>6 DEF FInv
  <1> QED BY <1>2, <1>3 DEF Verify, CheckEnds

LEMMA FInvHost == ASSUME FInv, Happens PROVE FInv'
  <1>1. Elsewhere
    BY HostIsElsewhere
  <1>2. UNCHANGED <<using, manifest, highest, forgot, check, ustate>>
    BY DEF Happens, WindowMoves, Publish, Damage, BeginJob, EndJob, Toggle, Quit, checkVars, files, install
  <1> QED BY <1>1, <1>2, FInvElsewhere

\* An install begins with a manifest that is newer, when none is in progress.
LEMMA FInvBegins ==
  ASSUME FInv, NEW c \in Callers, attempt[c] = "none", ~installing, ~Waits \/ c = "check",
         ~forgot => manifest > highest, UNCHANGED <<manifest, highest, forgot>>,
         NEW f, PerformInstall(c, manifest, f), IInv'
  PROVE  FInv'
  <1>1. /\ attempt' = [attempt EXCEPT ![c] = "revalidating"] /\ ustate' = "installing"
        /\ using' = [using EXCEPT ![c] = [manifest |-> manifest, file |-> f]]
        /\ check' = IF c = "check" THEN "installing" ELSE check
    BY DEF PerformInstall
  <1>2. \A d \in Callers : ~InProgress(d)
    BY DEF FInv, IInv, OneAttempt
  <1>3. attempt \in [Callers -> Phases]
    BY DEF FInv, IInv
  <1>4. Apart'
    BY <1>1, <1>2, <1>3 DEF FInv, Apart, Waits, Deferring, InProgress
  <1>5. Fresh'
    BY DEF Fresh
  <1> QED BY <1>4, <1>5 DEF FInv

\* The safe point, when no install is in progress.
LEMMA FInvTries ==
  ASSUME FInv, NEW c \in Callers, attempt[c] = "none", ~installing,
         c = "check" \/ check \in {"none", "installing"},
         ~forgot => manifest > highest, UNCHANGED <<manifest, highest, forgot>>,
         NEW f, TryInstall(c, manifest, f), IInv'
  PROVE  FInv'
  <1>1. CASE "install" \in auto /\ ~Blocked
    <2>1. PerformInstall(c, manifest, f) /\ (~Waits \/ c = "check")
      BY <1>1 DEF TryInstall, Waits
    <2> QED BY <2>1, FInvBegins
  <1>2. CASE "install" \notin auto \/ Blocked
    <2>1. /\ ustate' \in {"ready", "deferred"} /\ check' \in {"none", "installing"}
          /\ installing' = installing
          /\ \/ attempt' = [attempt EXCEPT ![c] = "deferring"] /\ using' = using
             \/ attempt' = [attempt EXCEPT ![c] = "none"] /\ using' = [using EXCEPT ![c] = Nothing]
      BY <1>2 DEF TryInstall, Return, CheckEnds
    <2>2. \A d \in Callers : ~InProgress(d)
      BY DEF FInv, IInv, OneAttempt
    <2>3. attempt \in [Callers -> Phases]
      BY DEF FInv, IInv
    <2>4. Apart'
      BY <2>1, <2>2, <2>3 DEF FInv, Apart, Waits, Deferring, InProgress
    <2>5. Fresh'
      BY DEF Fresh
    <2> QED BY <2>4, <2>5 DEF FInv
  <1> QED BY <1>1, <1>2

LEMMA FInvHash == ASSUME FInv, Hash PROVE FInv'
  <1>1. /\ UNCHANGED <<manifest, highest, forgot>> /\ check = "hashing" /\ ~installing
        /\ attempt["check"] = "none" /\ (~forgot => manifest > highest)
    BY DEF Hash, FInv, IInv, Apart, Fresh, Waits
  <1>2. IInv'
    BY HashKeeps DEF FInv
  <1>3. CASE ~Matches(manifest, downloaded)
    <2>1. Elsewhere /\ UNCHANGED using /\ check' = "none" /\ ustate' = "failed"
      BY <1>3 DEF Hash, CheckEnds, Elsewhere
    <2> QED BY <1>1, <2>1, FInvElsewhere DEF Waits
  <1>4. CASE Matches(manifest, downloaded)
    <2>1. TryInstall("check", manifest, downloaded)
      BY <1>4 DEF Hash
    <2> QED BY <1>1, <1>2, <2>1, FInvTries, CheckIsACaller
  <1> QED BY <1>3, <1>4

LEMMA FInvHide == ASSUME FInv, NEW c \in Hides, Hide(c) PROVE FInv'
  <1>1. c \in Callers /\ attempt[c] = "none" /\ UNCHANGED <<manifest, highest, forgot>>
    BY DEF Hide, Callers, files
  <1>2. IInv'
    BY HideKeeps DEF FInv
  <1>3. CASE ustate = "ready" /\ TryInstall(c, manifest, staged)
    <2>1. ~installing /\ check \in {"none", "installing"}
      BY <1>3 DEF FInv, IInv, Apart
    <2>2. \A d \in Callers : ~InProgress(d)
      BY <2>1 DEF FInv, IInv, OneAttempt
    <2>3. ~forgot => manifest > highest
      BY <1>3, <2>2 DEF FInv, Fresh, May, InProgress
    <2> QED BY <1>1, <1>2, <1>3, <2>1, <2>3, FInvTries
  <1>4. CASE UNCHANGED <<ustate, installing, attempt, using, check>>
    BY <1>1, <1>4, FInvElsewhere DEF Elsewhere
  <1> QED BY <1>3, <1>4 DEF Hide

\* A deferral takes place late: it may find another install under way.
LEMMA FInvDefer == ASSUME FInv, NEW c \in Callers, Defer(c) PROVE FInv'
  <1>1. Deferring
    BY DEF Defer, Deferring
  <1>2. /\ ustate' = "deferred" /\ check' \in {check, "none"}
        /\ UNCHANGED <<installing, manifest, highest, forgot>>
        /\ attempt' = [attempt EXCEPT ![c] = "none"] /\ using' = [using EXCEPT ![c] = Nothing]
    BY DEF Defer, Return, CheckEnds, files
  <1>3. attempt \in [Callers -> Phases] /\ attempt[c] = "deferring"
    BY DEF FInv, IInv, Defer
  <1>4. IInv'
    BY <1>2, <1>3, ReturnKeeps DEF Defer, FInv, InProgress, IInv
  <1>5. Apart'
    BY <1>1, <1>2, <1>3 DEF FInv, Apart, Waits, Deferring, InProgress
  <1>6. Fresh'
    BY <1>1, <1>2 DEF FInv, Fresh
  <1> QED BY <1>4, <1>5, <1>6 DEF FInv

\* The steps of the protocol up to the acceptance of the sequence.
LEMMA FInvProtocol ==
  ASSUME FInv, ~crossed, NEW c \in Callers, Revalidate(c) \/ StopCollector(c) \/ CreateBackup(c)
  PROVE  FInv'
  <1>1. /\ UNCHANGED <<manifest, highest, forgot>> /\ InProgress(c) /\ Works(c) /\ installing
        /\ attempt \in [Callers -> Phases]
    BY DEF Revalidate, StopCollector, CreateBackup, files, Works, InProgress, FInv, IInv, OneAttempt
  <1>2. ~Waits /\ (~forgot => manifest > highest)
    BY <1>1 DEF FInv, Apart, Fresh
  <1>3. Fresh'
    BY <1>1, <1>2 DEF Fresh
  <1>4. CASE \E phase \in {"stopping", "backing up", "persisting"} :
               GoOn(c, phase) /\ (phase = "persisting" => ~Deferring)
    <2>1. PICK phase \in {"stopping", "backing up", "persisting"} :
            GoOn(c, phase) /\ (phase = "persisting" => ~Deferring)
      BY <1>4
    <2>2. IInv'
      BY <1>1, <2>1, GoOnKeeps DEF FInv, Phases
    <2>3. /\ attempt' = [attempt EXCEPT ![c] = phase]
          /\ UNCHANGED <<ustate, installing, using, check>>
      BY <2>1 DEF GoOn
    <2>4. Apart'
      BY <1>1, <1>2, <2>1, <2>3 DEF FInv, Apart, Waits, Deferring, InProgress
    <2> QED BY <1>3, <2>2, <2>4 DEF FInv
  <1>5. CASE GiveUp(c, "failed") \/ GiveUp(c, "deferred")
    <2>1. IInv'
      BY <1>1, <1>5, GiveUpKeeps DEF FInv
    <2>2. /\ attempt' = [attempt EXCEPT ![c] = "none"] /\ using' = [using EXCEPT ![c] = Nothing]
          /\ check' \in {check, "none"} /\ ustate' \in {"failed", "deferred"} /\ installing' = FALSE
      BY <1>5 DEF GiveUp, Return, CheckEnds
    <2>3. Apart'
      BY <1>1, <1>2, <2>2 DEF FInv, Apart, Waits, Deferring, InProgress
    <2> QED BY <1>3, <2>1, <2>3 DEF FInv
  <1> QED BY <1>4, <1>5 DEF Revalidate, StopCollector, CreateBackup, Recorded

\* What is handed over is newer than what was accepted, and is accepted then.
LEMMA FInvHandOver == ASSUME FInv, NEW c \in Callers, HandOver(c) PROVE FInv'
  <1>1. /\ attempt[c] = "persisting" /\ InProgress(c) /\ installing
        /\ attempt \in [Callers -> Phases]
    BY DEF HandOver, InProgress, FInv, IInv, OneAttempt
  <1>2. ~Waits /\ ~Deferring /\ \A d \in Callers : InProgress(d) => d = c
    BY <1>1 DEF FInv, Apart, IInv, OneAttempt
  <1>3. CASE GoOn(c, "handed over")
    <2>1. IInv'
      BY <1>1, <1>3, GoOnKeeps DEF FInv, Phases
    <2>2. /\ attempt' = [attempt EXCEPT ![c] = "handed over"]
          /\ UNCHANGED <<ustate, installing, using, check, manifest>>
      BY <1>3 DEF GoOn, HandOver, files
    <2>3. Apart'
      BY <1>1, <1>2, <2>2 DEF FInv, Apart, Waits, Deferring, InProgress
    <2>4. Fresh'
      BY <1>1, <1>2, <2>2 DEF Fresh, Works, Deferring, May, Waits, InProgress
    <2> QED BY <2>1, <2>3, <2>4 DEF FInv
  <1>4. CASE GiveUp(c, "failed")
    <2>1. IInv'
      BY <1>1, <1>4, GiveUpKeeps DEF FInv
    <2>2. /\ attempt' = [attempt EXCEPT ![c] = "none"] /\ using' = [using EXCEPT ![c] = Nothing]
          /\ check' \in {check, "none"} /\ installing' = FALSE
          /\ ustate' = "failed" /\ manifest' = manifest
      BY <1>4 DEF GiveUp, Return, CheckEnds, HandOver, files
    <2>3. Apart'
      BY <1>1, <1>2, <2>2 DEF FInv, Apart, Waits, Deferring, InProgress
    <2>4. Fresh'
      BY <1>1, <1>2, <2>2 DEF Fresh, Works, Deferring, May, Waits, InProgress
    <2> QED BY <2>1, <2>3, <2>4 DEF FInv
  <1> QED BY <1>3, <1>4 DEF HandOver

LEMMA FInvUser == ASSUME FInv, NEW c \in Clicks, UserInstalls(c), ~crossed' PROVE FInv'
  <1>1. /\ c \in Callers /\ attempt[c] = "none" /\ ustate \in {"ready", "deferred"}
        /\ check \in {"none", "installing"} /\ ~Waits
        /\ PerformInstall(c, manifest, staged) /\ UNCHANGED <<manifest, highest, forgot>>
    BY DEF UserInstalls, Callers, files, Waits
  <1>2. IInv'
    BY <1>1, PerformInstallKeeps DEF FInv
  <1>3. CASE ~installing
    <2>1. ~forgot => manifest > highest
      BY <1>1, <1>3 DEF FInv, Fresh, May, IInv, OneAttempt, InProgress
    <2> QED BY <1>1, <1>2, <1>3, <2>1, FInvBegins
  <1>4. CASE installing
    <2>1. /\ attempt' = [attempt EXCEPT ![c] = "none"] /\ using' = [using EXCEPT ![c] = Nothing]
          /\ UNCHANGED <<check, ustate, installing>>
      BY <1>1, <1>4, CallerAssumption DEF PerformInstall, Return
    <2>2. attempt \in [Callers -> Phases]
      BY DEF FInv, IInv
    <2>3. Apart'
      BY <1>1, <2>1, <2>2 DEF FInv, Apart, Waits, Deferring, InProgress
    <2>4. Fresh'
      BY <1>1, <2>1, <2>2 DEF FInv, Fresh, Works, Deferring, May, Waits, InProgress
    <2> QED BY <1>2, <2>3, <2>4 DEF FInv
  <1> QED BY <1>3, <1>4

LEMMA FInvNext == ASSUME FInv, ~crossed, [Next]_vars, ~crossed' PROVE FInv'
  <1>1. CASE UNCHANGED vars
    <2>1. Elsewhere /\ UNCHANGED <<using, manifest, highest, forgot, check, ustate>>
      BY <1>1 DEF vars, checkVars, files, install, Elsewhere
    <2> QED BY <2>1, FInvElsewhere
  <1>2. CASE TimerFires \/ UserChecks \/ CheckAnswered \/ Verify \/ Download \/ Hash \/ Happens
    BY <1>2, FInvChecks, FInvVerify, FInvHash, FInvHost
  <1>3. ASSUME NEW c \in Callers, Attempt(c) PROVE FInv'
    BY <1>3, FInvDefer, FInvProtocol, FInvHandOver DEF Attempt
  <1>4. ASSUME NEW c \in Clicks, UserInstalls(c) PROVE FInv'
    BY <1>4, FInvUser
  <1>5. ASSUME NEW c \in Hides, Hide(c) PROVE FInv'
    BY <1>5, FInvHide
  <1> QED BY <1>1, <1>2, <1>3, <1>4, <1>5 DEF Next

\* Only an install that the user begins crosses a check, and none is taken back.
LEMMA CrossedStays == ASSUME [Next]_vars, crossed PROVE crossed' = TRUE \/ crossed' = crossed
  BY DEF Next, vars, install, TimerFires, UserChecks, CheckAnswered, Verify, Download, Hash,
         Attempt, Defer, Revalidate, StopCollector, CreateBackup, HandOver, UserInstalls, Hide,
         Happens, WindowMoves, Publish, Damage, BeginJob, EndJob, Toggle, Quit

\* For any releases, keys, listings and interleavings, a release whose sequence
\* was accepted is not handed over again (updates.ts:561, release-manifest.ts:383),
\* unless an install was begun under a check.
THEOREM NothingIsReplayed == Spec => NoReplay
  <1>1. Init => crossed \/ FInv
    BY FInvInit
  <1>2. (crossed \/ FInv) /\ [Next]_vars => (crossed \/ FInv)'
    BY FInvNext, CrossedStays
  <1>3. (crossed \/ FInv) /\ [Next]_vars
          => [highest' > highest \/ installer' = installer \/ forgot' \/ crossed]_<<highest, installer>>
    <2>1. ASSUME FInv, NEW c \in Callers, HandOver(c) PROVE highest' > highest \/ installer' = installer \/ forgot'
      <3>1. /\ InProgress(c) /\ Works(c) /\ using[c].manifest = manifest
        BY <2>1 DEF HandOver, InProgress, Works, FInv, Apart
      <3>2. ~forgot => using[c].manifest > highest
        BY <2>1, <3>1 DEF FInv, Fresh
      <3>3. CASE forgot' = TRUE
        BY <3>3
      <3>4. CASE /\ highest' = IF using[c].manifest > highest THEN using[c].manifest ELSE highest
                 /\ forgot' = forgot
        BY <3>2, <3>4
      <3> QED BY <2>1, <3>3, <3>4 DEF HandOver
    <2>2. ASSUME [Next]_vars, installer' # installer PROVE \E c \in Callers : HandOver(c)
      BY <2>2 DEF Next, vars, install, TimerFires, UserChecks, CheckAnswered, Verify, Download, Hash,
                  Attempt, Defer, Revalidate, StopCollector, CreateBackup, UserInstalls,
                  Hide, Happens, WindowMoves, Publish, Damage, BeginJob, EndJob, Toggle, Quit
    <2> QED BY <2>1, <2>2
  <1> QED BY <1>1, <1>2, <1>3, PTL DEF Spec, NoReplay

-----------------------------------------------------------------------------
(* Checks go on. *)

\* Every step that ends a check schedules the next; only a timer that fires and
\* a quit leave none.
LEMMA ChecksGoOnNext == ASSUME ChecksGoOn, [Next]_vars PROVE ChecksGoOn'
  <1>1. CASE UNCHANGED vars
    BY <1>1 DEF vars, checkVars, host, ChecksGoOn
  <1>2. CASE TimerFires
    BY <1>2 DEF TimerFires, Check, checkVars, host, ChecksGoOn
  <1>3. CASE UserChecks \/ CheckAnswered \/ Verify \/ Download
    BY <1>3 DEF UserChecks, CheckAnswered, Verify, Download, Check, CheckEnds, checkVars, host, ChecksGoOn
  <1>4. CASE Hash
    BY <1>4 DEF Hash, TryInstall, PerformInstall, Return, CheckEnds, host, ChecksGoOn
  <1>5. ASSUME NEW c \in Callers, Attempt(c) PROVE ChecksGoOn'
    <2>1. CASE Defer(c) \/ Revalidate(c) \/ StopCollector(c) \/ CreateBackup(c)
      BY <2>1 DEF Defer, Revalidate, StopCollector, CreateBackup, GoOn, GiveUp, Return, CheckEnds, host, ChecksGoOn
    <2>2. CASE HandOver(c)
      <3>1. keys' = keys /\ lapsed' = lapsed /\ (quitting' = TRUE \/ quitting' = quitting)
        BY <2>2 DEF HandOver
      <3>2. timer' = TRUE \/ (timer' = timer /\ check' = check)
        BY <2>2 DEF HandOver, GoOn, GiveUp, Return, CheckEnds
      <3> QED BY <3>1, <3>2 DEF ChecksGoOn
    <2> QED BY <1>5, <2>1, <2>2 DEF Attempt
  <1>6. ASSUME NEW c \in Clicks, UserInstalls(c) PROVE ChecksGoOn'
    BY <1>6 DEF UserInstalls, PerformInstall, Return, CheckEnds, host, ChecksGoOn
  <1>7. CASE Happens
    BY <1>7 DEF Happens, WindowMoves, Publish, Damage, BeginJob, EndJob, Toggle, Quit,
                checkVars, host, ChecksGoOn
  <1>8. ASSUME NEW c \in Hides, Hide(c) PROVE ChecksGoOn'
    <2>1. UNCHANGED <<keys, lapsed, quitting>> /\ (check' = "installing" \/ timer' = TRUE \/ UNCHANGED <<check, timer>>)
      BY <1>8 DEF Hide, TryInstall, PerformInstall, Return, CheckEnds
    <2> QED BY <2>1 DEF ChecksGoOn
  <1> QED BY <1>1, <1>2, <1>3, <1>4, <1>5, <1>6, <1>7, <1>8 DEF Next

\* Whatever fails, is refused, deferred or clicked, the next check is scheduled
\* or one is in flight, unless a timer lapsed (updates.ts:215-230, 262-330).
THEOREM ChecksAlwaysGoOn == Spec => []ChecksGoOn
  <1>1. Init => ChecksGoOn
    BY DEF Init, ChecksGoOn
  <1> QED BY <1>1, ChecksGoOnNext, PTL DEF Spec

-----------------------------------------------------------------------------
(* What is handed over is what was verified. *)

\* No two entries of a key file that is trusted have the same id.
LEMMA TrustedIdsAreUnique ==
  ASSUME NEW file, NEW n \in Nat, DOMAIN file = 1..n, TrustedKeys(file) # {},
         NEW i \in DOMAIN file, NEW j \in DOMAIN file, file[i].keyId = file[j].keyId
  PROVE  i = j
  <1>1. \A k \in DOMAIN file : Kept(file, k)
    BY DEF TrustedKeys
  <1>2. ASSUME NEW k \in 1..n, NEW l \in 1..n, k < l PROVE file[k].keyId # file[l].keyId
    BY <1>1, <1>2 DEF Kept
  <1> QED BY <1>2

\* What a trusted key verifies was signed by the publisher.
LEMMA VerifiedIsPublished ==
  ASSUME KeyAssumption, NEW file \in KeyFiles, NEW r \in Releases, NEW m \in Served[r],
         NEW s, s.manifest = m, SignatureHolds(s, TrustedKeys(file))
  PROVE  s.signer = Build.publisher
  <1>1. Len(file) \in Nat /\ DOMAIN file = 1..Len(file)
    BY DEF KeyAssumption
  <1>2. TrustedKeys(file) # {} /\ TrustedKeys(file) = {file[i] : i \in DOMAIN file}
    BY DEF SignatureHolds, TrustedKeys
  <1>3. PICK i \in DOMAIN file : file[i].keyId = m.keyId /\ file[i].key = s.signer
    BY <1>2 DEF SignatureHolds
  <1>4. PICK j \in DOMAIN file : file[j].keyId = m.keyId /\ file[j].key = Build.publisher
    BY <1>3 DEF KeyAssumption
  <1>5. i = j
    BY <1>1, <1>2, <1>3, <1>4, TrustedIdsAreUnique
  <1> QED BY <1>3, <1>4, <1>5

\* What may be installed belongs to a manifest the publisher signed.
Signed ==
  /\ published \in Nat /\ Installed <= published /\ (published = Installed \/ published <= Newest)
  /\ check = "verifying" => candidate \in Releases
  /\ \E file \in KeyFiles : keys = TrustedKeys(file)
  /\ check \in {"downloading", "hashing"} \/ (\E c \in Callers : InProgress(c)) \/ installer.file # NoRelease
       => manifest # NoRelease
  /\ manifest # NoRelease => signer = Build.publisher

\* Steps that leave the manifest alone.
LEMMA SignedKeeps ==
  ASSUME Signed, UNCHANGED <<keys, manifest, signer>>,
         published' = published \/ (published < Newest /\ published' = published + 1),
         Newest \in Nat, Installed \in Nat,
         check' = "verifying" => candidate' \in Releases,
         \/ manifest # NoRelease
         \/ /\ installer' = installer /\ check' \notin {"downloading", "hashing"}
            /\ \A c \in Callers : InProgress(c)' => InProgress(c)
  PROVE  Signed'
  BY DEF Signed

LEMMA SignedElsewhere ==
  ASSUME UpdateAssumption, Signed, Elsewhere, UNCHANGED <<keys, manifest, signer, installer, candidate>>,
         published' = published \/ (published < Newest /\ published' = published + 1),
         check' \in {check, "none", "asking"} \/ (check = "downloading" /\ check' = "hashing")
  PROVE  Signed'
  <1>1. \A c \in Callers : InProgress(c)' => InProgress(c)
    BY DEF Elsewhere, InProgress
  <1>2. check' = "verifying" => candidate' \in Releases
    BY DEF Signed
  <1>3. check' \in {"downloading", "hashing"} => manifest # NoRelease
    BY DEF Signed
  <1> QED BY <1>1, <1>2, <1>3, SignedKeeps DEF UpdateAssumption

LEMMA SignedChecks ==
  ASSUME UpdateAssumption, Signed, TimerFires \/ UserChecks \/ CheckAnswered \/ Download PROVE Signed'
  <1>1. Elsewhere
    BY ChecksAreElsewhere
  <1>2. UNCHANGED <<keys, published, manifest, signer, installer>>
    BY DEF TimerFires, UserChecks, CheckAnswered, Download, files, install, host
  <1>3. CASE TimerFires \/ UserChecks
    BY <1>1, <1>2, <1>3, SignedElsewhere DEF TimerFires, UserChecks, Check, checkVars
  <1>4. CASE Download
    BY <1>1, <1>2, <1>4, SignedElsewhere DEF Download, CheckEnds
  <1>5. CASE CheckAnswered /\ check' = "none" /\ candidate' = candidate
    BY <1>1, <1>2, <1>5, SignedElsewhere
  <1>6. CASE published > Installed /\ candidate' = published /\ check' = "verifying"
    <2>1. candidate' \in Releases
      BY <1>6 DEF Signed, Releases, UpdateAssumption
    <2>2. \A c \in Callers : InProgress(c)' => InProgress(c)
      BY <1>1 DEF Elsewhere, InProgress
    <2> QED BY <1>2, <1>6, <2>1, <2>2, SignedKeeps DEF UpdateAssumption
  <1> QED BY <1>3, <1>4, <1>5, <1>6 DEF CheckAnswered, CheckEnds

LEMMA SignedVerify ==
  ASSUME UpdateAssumption, ManifestAssumption, KeyAssumption, Signed, Verify PROVE Signed'
  <1>1. Elsewhere /\ UNCHANGED <<keys, published, candidate, installer>>
    BY ChecksAreElsewhere DEF Verify, host
  <1>2. CASE check' = "none" /\ UNCHANGED <<manifest, signer>>
    BY <1>1, <1>2, SignedElsewhere
  <1>3. ASSUME NEW s \in Fetched, NEW names \in Listings[candidate], NEW accepted \in Accepted,
               VerifyManifest(s, Context(names, accepted)),
               manifest' = s.manifest.releaseSequence, signer' = s.signer,
               check' \in {"downloading", "none"}
        PROVE  Signed'
    <2>1. PICK r \in candidate..published : \E m \in Served[r] : s.manifest = m
      BY DEF Fetched
    <2>2. PICK m \in Served[r] : s.manifest = m
      BY <2>1
    <2>3. r \in Releases /\ r # NoRelease
      BY <2>1 DEF Signed, Releases, Verify, UpdateAssumption, NoRelease
    <2>4. manifest' = r
      BY <1>3, <2>2, <2>3 DEF ManifestAssumption
    <2>5. SignatureHolds(s, keys)
      BY <1>3 DEF VerifyManifest, Context
    <2>6. PICK file \in KeyFiles : keys = TrustedKeys(file)
      BY DEF Signed
    <2>7. signer' = Build.publisher
      BY <1>3, <2>2, <2>3, <2>5, <2>6, VerifiedIsPublished
    <2> QED BY <1>1, <1>3, <2>3, <2>4, <2>7 DEF Signed
  <1> QED BY <1>2, <1>3 DEF Verify, CheckEnds

LEMMA SignedInstalls ==
  ASSUME UpdateAssumption, Signed,
         \/ Hash
         \/ \E c \in Callers : Attempt(c)
         \/ \E c \in Clicks : UserInstalls(c)
         \/ \E c \in Hides : Hide(c)
  PROVE  Signed'
  <1>1. /\ UNCHANGED <<keys, manifest, signer, candidate, published>>
        /\ check' \in {check, "none", "installing"}
    BY DEF Hash, Attempt, Defer, Revalidate, StopCollector, CreateBackup, HandOver, UserInstalls, Hide,
           TryInstall, PerformInstall, GiveUp, GoOn, Return, CheckEnds, files, host
  <1>2. check' = "verifying" => candidate' \in Releases
    BY <1>1 DEF Signed
  <1>3. ASSUME manifest = NoRelease
        PROVE  /\ installer' = installer /\ check' \notin {"downloading", "hashing"}
               /\ \A c \in Callers : InProgress(c)' => InProgress(c)
    <2>1. check \notin {"downloading", "hashing"} /\ \A c \in Callers : ~InProgress(c)
      BY <1>3 DEF Signed
    <2>2. ASSUME NEW c \in Callers, Attempt(c) PROVE Defer(c)
      BY <2>1, <2>2 DEF Attempt, Revalidate, StopCollector, CreateBackup, HandOver, InProgress
    <2>3. CASE \E c \in Callers : Defer(c)
      <3>1. PICK c \in Callers : Defer(c)
        BY <2>3
      <3>2. installer' = installer /\ attempt' = [attempt EXCEPT ![c] = "none"]
        BY <3>1 DEF Defer, Return
      <3>3. \A d \in Callers : attempt'[d] \in {attempt[d], "none"}
        BY <3>2
      <3> QED BY <1>1, <2>1, <3>2, <3>3 DEF InProgress
    <2>4. CASE \E c \in Hides : Hide(c)
      <3>1. UNCHANGED <<installer, attempt>>
        BY <1>3, <2>4 DEF Hide
      <3> QED BY <1>1, <2>1, <3>1 DEF InProgress
    <2> QED BY <1>3, <2>1, <2>2, <2>3, <2>4 DEF Hash, UserInstalls
  <1> QED BY <1>1, <1>2, <1>3, SignedKeeps DEF UpdateAssumption

LEMMA SignedHost == ASSUME UpdateAssumption, Signed, Happens PROVE Signed'
  <1>1. Elsewhere
    BY HostIsElsewhere
  <1>2. UNCHANGED <<keys, manifest, signer, installer, check, candidate>>
    BY DEF Happens, WindowMoves, Publish, Damage, BeginJob, EndJob, Toggle, Quit, checkVars, files, install, host
  <1>3. published' = published \/ (published < Newest /\ published' = published + 1)
    BY DEF Happens, WindowMoves, Publish, Damage, BeginJob, EndJob, Toggle, Quit, host
  <1> QED BY <1>1, <1>2, <1>3, SignedElsewhere

LEMMA SignedNext ==
  ASSUME UpdateAssumption, ManifestAssumption, KeyAssumption, Signed, [Next]_vars PROVE Signed'
  <1>1. CASE UNCHANGED vars
    BY <1>1, SignedElsewhere DEF vars, checkVars, files, install, host, Elsewhere
  <1> QED BY <1>1, SignedChecks, SignedVerify, SignedInstalls, SignedHost DEF Next

\* What may be installed is staged and is the file downloaded last: as long as no
\* install was begun under a check, no check that could replace it is under way
\* while something may be installed.
Staged ==
  /\ Deferring \/ ustate \in {"ready", "deferred"} => staged = downloaded
  /\ \A c \in Callers : InProgress(c) => using[c].file = downloaded /\ staged = downloaded
  /\ installer.file = installer.verified

VInv == FInv /\ Staged

LEMMA VInvInit == ASSUME Init PROVE VInv
  <1>1. Staged
    BY DEF Init, Staged, InProgress, Deferring
  <1> QED BY <1>1, FInvInit DEF VInv

\* Steps that leave the attempts and the files alone.
LEMMA StagedElsewhere ==
  ASSUME Staged, Elsewhere, UNCHANGED <<staged, downloaded, using, installer>>,
         ustate' \in {"ready", "deferred"} => ustate \in {"ready", "deferred"}
  PROVE  Staged'
  BY DEF Staged, Elsewhere, InProgress, Deferring

LEMMA StagedChecks ==
  ASSUME Staged, TimerFires \/ UserChecks \/ CheckAnswered \/ Verify PROVE Staged'
  <1>1. Elsewhere
    BY ChecksAreElsewhere
  <1>2. UNCHANGED <<staged, downloaded, using, installer>>
    BY DEF TimerFires, UserChecks, CheckAnswered, Verify, files, install
  <1>3. ustate' \in {"ready", "deferred"} => ustate' = ustate
    BY DEF TimerFires, UserChecks, CheckAnswered, Verify, Check
  <1> QED BY <1>1, <1>2, <1>3, StagedElsewhere

\* A download meets no install, no deferral and nothing to install.
LEMMA StagedDownload == ASSUME VInv, Download PROVE Staged'
  <1>1. Elsewhere /\ UNCHANGED <<staged, using, installer>>
    BY ChecksAreElsewhere DEF Download, install
  <1>2. ~Deferring /\ ustate = "downloading" /\ \A c \in Callers : ~InProgress(c)
    BY DEF VInv, FInv, IInv, OneAttempt, Apart, Waits, Download
  <1>3. ustate' \in {"failed", "downloading"}
    BY <1>2 DEF Download
  <1> QED BY <1>1, <1>2, <1>3 DEF VInv, Staged, Elsewhere, InProgress, Deferring

\* The safe point, for what is staged and was downloaded last.
LEMMA StagedTries ==
  ASSUME VInv, NEW c \in Callers, ~installing, NEW f, TryInstall(c, manifest, f),
         f = downloaded, staged' = downloaded, UNCHANGED <<downloaded, installer>>
  PROVE  Staged'
  <1>1. attempt \in [Callers -> Phases] /\ DOMAIN using = Callers /\ \A d \in Callers : ~InProgress(d)
    BY DEF VInv, FInv, IInv, Apart, OneAttempt
  <1>2. \/ attempt' = [attempt EXCEPT ![c] = "none"]
        \/ attempt' = [attempt EXCEPT ![c] = "deferring"]
        \/ /\ attempt' = [attempt EXCEPT ![c] = "revalidating"]
           /\ using' = [using EXCEPT ![c] = [manifest |-> manifest, file |-> f]]
    BY DEF TryInstall, PerformInstall, Return
  <1>3. \A d \in Callers : InProgress(d)' => using'[d].file = downloaded
    BY <1>1, <1>2 DEF InProgress
  <1> QED BY <1>3 DEF VInv, Staged

LEMMA StagedHash == ASSUME VInv, Hash PROVE Staged'
  <1>1. ~installing /\ UNCHANGED <<downloaded, installer>>
    BY DEF Hash, VInv, FInv, Apart, Waits
  <1>2. CASE Matches(manifest, downloaded)
    BY <1>1, <1>2, StagedTries, CheckIsACaller DEF Hash
  <1>3. CASE ~Matches(manifest, downloaded)
    <2>1. Elsewhere /\ UNCHANGED <<staged, using>> /\ ustate' = "failed"
      BY <1>3 DEF Hash, CheckEnds, Elsewhere
    <2> QED BY <1>1, <2>1, StagedElsewhere DEF VInv
  <1> QED BY <1>2, <1>3

LEMMA StagedHide == ASSUME VInv, NEW c \in Hides, Hide(c) PROVE Staged'
  <1>1. c \in Callers /\ UNCHANGED <<staged, downloaded, installer>>
    BY DEF Hide, Callers, files
  <1>2. CASE ustate = "ready" /\ TryInstall(c, manifest, staged)
    <2>1. ~installing /\ staged = downloaded
      BY <1>2 DEF VInv, Staged, FInv, IInv, Apart
    <2> QED BY <1>1, <1>2, <2>1, StagedTries
  <1>3. CASE UNCHANGED <<ustate, installing, attempt, using, check>>
    BY <1>1, <1>3, StagedElsewhere DEF Elsewhere, VInv
  <1> QED BY <1>2, <1>3 DEF Hide

LEMMA StagedAttempt == ASSUME VInv, NEW c \in Callers, Attempt(c) PROVE Staged'
  <1>1. UNCHANGED <<staged, downloaded>> /\ attempt[c] # "none"
        /\ attempt \in [Callers -> Phases] /\ DOMAIN using = Callers
    BY DEF Attempt, Defer, Revalidate, StopCollector, CreateBackup, HandOver, files, VInv, FInv, IInv, Apart
  <1>2. (InProgress(c) => using[c].file = downloaded) /\ (InProgress(c) \/ Deferring)
    BY <1>1 DEF VInv, Staged, InProgress, Deferring
  <1>3. staged = downloaded
    BY <1>2 DEF VInv, Staged
  <1>4. installer'.file = installer'.verified
    <2>1. installer.file = installer.verified
      BY DEF VInv, Staged
    <2>2. CASE HandOver(c)
      <3>1. InProgress(c) /\ UNCHANGED downloaded
        BY <2>2 DEF HandOver, InProgress, files
      <3>2. installer' = installer \/ installer' = [verified |-> using[c].file, file |-> downloaded]
        BY <2>2 DEF HandOver
      <3> QED BY <1>2, <2>1, <3>1, <3>2
    <2>3. CASE ~HandOver(c)
      <3>1. installer' = installer
        BY <2>3 DEF Attempt, Defer, Revalidate, StopCollector, CreateBackup
      <3> QED BY <2>1, <3>1
    <2> QED BY <2>2, <2>3
  <1>5. \/ attempt' = [attempt EXCEPT ![c] = "none"] /\ using' = [using EXCEPT ![c] = Nothing]
        \/ /\ InProgress(c) /\ using' = using
           /\ \E phase \in Phases : attempt' = [attempt EXCEPT ![c] = phase]
    BY <1>1 DEF Attempt, Defer, Revalidate, StopCollector, CreateBackup, HandOver, GiveUp, GoOn, Return,
                InProgress, Phases
  <1>6. \A d \in Callers : InProgress(d)' => InProgress(d) /\ using'[d] = using[d]
    BY <1>1, <1>5 DEF InProgress
  <1> QED BY <1>1, <1>3, <1>4, <1>6 DEF VInv, Staged

LEMMA StagedUser == ASSUME VInv, NEW c \in Clicks, UserInstalls(c) PROVE Staged'
  <1>1. /\ c \in Callers /\ ustate \in {"ready", "deferred"}
        /\ UNCHANGED <<staged, downloaded, installer>> /\ PerformInstall(c, manifest, staged)
    BY DEF UserInstalls, Callers, files
  <1>2. staged = downloaded /\ attempt \in [Callers -> Phases] /\ DOMAIN using = Callers
    BY <1>1 DEF VInv, Staged, FInv, IInv, Apart
  <1>3. \/ attempt' = [attempt EXCEPT ![c] = "none"] /\ using' = [using EXCEPT ![c] = Nothing]
        \/ /\ attempt' = [attempt EXCEPT ![c] = "revalidating"]
           /\ using' = [using EXCEPT ![c] = [manifest |-> manifest, file |-> staged]]
    BY <1>1 DEF PerformInstall, Return
  <1>4. \A d \in Callers : InProgress(d)' => using'[d].file = downloaded
    BY <1>2, <1>3 DEF InProgress, VInv, Staged
  <1> QED BY <1>1, <1>2, <1>4 DEF VInv, Staged

LEMMA StagedHost == ASSUME VInv, Happens PROVE Staged'
  <1>1. UNCHANGED <<staged, downloaded, using, installer, ustate>>
    BY DEF Happens, WindowMoves, Publish, Damage, BeginJob, EndJob, Toggle, Quit, files, install
  <1> QED BY <1>1, HostIsElsewhere, StagedElsewhere DEF VInv

LEMMA VInvNext == ASSUME VInv, ~crossed, [Next]_vars, ~crossed' PROVE VInv'
  <1>1. FInv'
    BY FInvNext DEF VInv
  <1>2. CASE UNCHANGED vars
    BY <1>1, <1>2, StagedElsewhere DEF vars, checkVars, files, install, Elsewhere, VInv
  <1> QED BY <1>1, <1>2, StagedChecks, StagedDownload, StagedHash, StagedHide, StagedAttempt, StagedUser,
             StagedHost DEF Next, VInv

\* For any releases, key files, manifests and interleavings: the manifest was
\* signed by the publisher, and the file the installer gets is the one whose
\* bytes were verified against it, unless the install was begun under a check
\* (updates.ts:471-474, 523, release-manifest.ts:101-115).
THEOREM OnlyVerifiedIsInstalled ==
  ASSUME UpdateAssumption, ManifestAssumption, KeyAssumption PROVE Spec => []InstallsWhatWasVerified
  <1>1. Init => Signed /\ (crossed \/ VInv)
    <2>1. Init => Signed
      BY DEF Init, Signed, InProgress, UpdateAssumption
    <2> QED BY <2>1, VInvInit
  <1>2. Signed /\ (crossed \/ VInv) /\ [Next]_vars => (Signed /\ (crossed \/ VInv))'
    BY SignedNext, VInvNext, CrossedStays
  <1>3. Signed /\ (crossed \/ VInv) => InstallsWhatWasVerified
    BY DEF VInv, Signed, Staged, InstallsWhatWasVerified
  <1> QED BY <1>1, <1>2, <1>3, PTL DEF Spec
=============================================================================
