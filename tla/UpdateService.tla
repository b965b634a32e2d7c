---------------------------- MODULE UpdateService ----------------------------
(***************************************************************************)
(* The update service (src/main/updates.ts) in the main process that hosts *)
(* it (src/main/index.ts): periodic and manual checks, the signed manifest, *)
(* the download, the gates of an install, and the install protocol with    *)
(* its awaits, among maintenance jobs, a window that is hidden and shown   *)
(* and a session that ends.                                                *)
(*                                                                         *)
(* A release is its sequence number, and names its version, its tag and    *)
(* its installer.  What the host records and shows is left out.            *)
(***************************************************************************)
EXTENDS Naturals, Sequences, FiniteSets, ReleaseManifest

CONSTANTS Installed,     \* the version that runs
          Newest,        \* bound: the newest release published
          Toggles,       \* the settings the user changes, among AutoSettings
          Clicks,        \* bound: requests to restart and install that may overlap
          Hides,         \* bound: closings of the window whose deferral may overlap
          Required,      \* safeInstallTrayHiddenMs
          Threshold,     \* PERSISTENT_FAILURE_THRESHOLD, where failures stop counting here
          Jobs,          \* handlers that set maintenanceActive
          KeyFiles,      \* key files the build may embed
          Served,        \* per release, the manifests that may be published with it
          Signatures,    \* [decodes, wellFormed, signer]: how they may be signed
          Listings,      \* per release, the names its files may be listed under
          Build          \* what this build is: target, channels, schema, version

ASSUME UpdateAssumption == Installed \in Nat /\ Newest \in Nat /\ Required \in Nat \ {0} /\ Threshold \in Nat
ASSUME CallerAssumption == "check" \notin Clicks \cup Hides

AutoSettings == {"check", "download", "install"}
Releases == (Installed + 1)..Newest

\* What a release's manifests differ in is not what they say of its files.
ASSUME ManifestAssumption ==
  \A r \in Releases : \A m, n \in Served[r] : m.releaseSequence = r /\ m.artifacts = n.artifacts

\* A key file that holds the id a manifest names holds the publisher's key under
\* it; what else it holds, under that id too, is left open.
ASSUME KeyAssumption ==
  \A file \in KeyFiles :
    /\ Len(file) \in Nat /\ DOMAIN file = 1..Len(file)
    /\ \A r \in Releases : \A m \in Served[r] :
         (\E i \in DOMAIN file : file[i].keyId = m.keyId)
           => \E i \in DOMAIN file : file[i].keyId = m.keyId /\ file[i].key = Build.publisher

NoRelease == 0
Nothing == [manifest |-> NoRelease, file |-> NoRelease]
Visible == Required + 1  \* the window is on the screen; less is how long it has been hidden

\* Who may try to install: the end of a check, the user, a window that is hidden.
Callers == {"check"} \cup Clicks \cup Hides

VARIABLES
  keys,        \* config.trustedKeys, none when the service was not started
  ustate,      \* this.state
  check,       \* how far the check in flight is, "none" without one
  manual,      \* whether it was asked for by the user, which its download depends on
  failures,    \* this.consecutiveFailures
  timer,       \* a periodic check is scheduled
  lapsed,      \* history: one fired when it was refused, and was not scheduled again
  published,   \* the newest release on the server
  candidate,   \* this.candidate
  manifest,    \* this.verifiedManifest, by its release
  signer,      \* history: the key that signed it
  staged,      \* this.stagedArtifact
  downloaded,  \* the file electron-updater would install
  sound,       \* whether its bytes are those of the release
  installing,  \* this.installing
  attempt,     \* how far each caller of performInstall is
  using,       \* the manifest and the file it works with, read when it began
  installer,   \* what was handed over, and for which verified file
  highest,     \* the highest accepted sequence
  forgot,      \* history: a read or a write of it failed, which goes unnoticed
  crossed,     \* history: an install was begun under a check that went on
  auto,        \* the settings that are on
  hidden,      \* how long the window has been hidden
  jobs, maintenance,  \* maintenance jobs, and the flag maintenanceActive
  ending, quitting    \* sessionEnding, and gracefulQuit in progress

checkVars == <<check, manual, failures, candidate>>
files == <<manifest, signer, staged, downloaded, sound>>
install == <<installing, attempt, using, installer, highest, forgot, crossed>>
host == <<keys, auto, hidden, jobs, maintenance, ending, quitting, published>>
vars == <<ustate, timer, lapsed, checkVars, files, install, host>>

\* A launch at sign-in has no window, which counts as hidden since for ever.
Init ==
  /\ keys \in {TrustedKeys(file) : file \in KeyFiles}
  /\ ustate = "idle" /\ check = "none" /\ manual = FALSE /\ failures = 0
  /\ timer = (keys # {}) /\ lapsed = FALSE
  /\ candidate = NoRelease /\ manifest = NoRelease /\ signer = NoId /\ staged = NoRelease
  /\ downloaded = NoRelease /\ sound = FALSE
  /\ installing = FALSE /\ attempt = [c \in Callers |-> "none"]
  /\ using = [c \in Callers |-> Nothing]
  /\ installer = [verified |-> NoRelease, file |-> NoRelease] /\ highest = NoRelease
  /\ forgot = FALSE /\ crossed = FALSE
  /\ auto = AutoSettings /\ hidden \in {Visible, Required}
  /\ jobs = {} /\ maintenance = FALSE /\ ending = FALSE /\ quitting = FALSE
  /\ published = Installed

-----------------------------------------------------------------------------
(* Checking. *)

\* check(): refused, coalesced with the one in flight, or begun.
\* Mutant of Check: an install in progress does not keep checks away.
CheckWhileInstalling(byUser) ==
  IF (~byUser /\ "check" \notin auto) \/ check # "none"
    THEN UNCHANGED <<ustate, checkVars>>
    ELSE /\ ustate' = "checking" /\ check' = "asking" /\ manual' = byUser
         /\ UNCHANGED <<failures, candidate>>
Check(byUser) ==
  IF (~byUser /\ "check" \notin auto) \/ installing \/ check # "none"
    THEN UNCHANGED <<ustate, checkVars>>
    ELSE /\ ustate' = "checking" /\ check' = "asking" /\ manual' = byUser
         /\ UNCHANGED <<failures, candidate>>

TimerFires ==
  /\ timer
  /\ timer' = FALSE
  /\ lapsed' = (lapsed \/ "check" \notin auto \/ installing)
  /\ Check(FALSE)
  /\ UNCHANGED <<files, install, host>>

UserChecks ==
  /\ keys # {}
  /\ Check(TRUE)
  /\ UNCHANGED <<timer, lapsed, files, install, host>>

\* The finally of a check schedules the next, whatever came of this one.
\* Mutant of CheckEnds: the check leaves the next one to somebody else.
CheckEndsUnscheduled == check' = "none" /\ UNCHANGED timer
CheckEnds == check' = "none" /\ timer' = TRUE

Count(failed) == failures' = IF ~failed THEN 0 ELSE IF failures < Threshold THEN failures + 1 ELSE failures

\* The database answers in order: what is asked of it after the event of a
\* deferral was posted is answered after that deferral.  A deferral that begins
\* under an install that was begun under a check is the one that comes later.
Deferring == \E c \in Callers : attempt[c] = "deferring"
Recorded == crossed \/ ~Deferring

\* The event of the check is recorded, and the backend answers: an error, nothing
\* newer, or a candidate.
CheckAnswered ==
  /\ check = "asking" /\ Recorded
  /\ \/ CheckEnds /\ Count(TRUE) /\ ustate' = "failed" /\ manual' = FALSE /\ UNCHANGED candidate
     \/ CheckEnds /\ Count(FALSE) /\ ustate' = "up_to_date" /\ manual' = FALSE /\ UNCHANGED candidate
     \/ /\ published > Installed
        /\ candidate' = published /\ check' = "verifying"
        /\ UNCHANGED <<ustate, failures, timer, manual>>
  /\ UNCHANGED <<lapsed, files, install, host>>

\* The manifest of the latest release, which may have replaced the candidate.
Fetched ==
  {[manifest |-> m, decodes |-> g.decodes, wellFormed |-> g.wellFormed, signer |-> g.signer] :
     m \in UNION {Served[r] : r \in candidate..published}, g \in Signatures}

\* A read of the sequence that fails counts as none accepted.
Accepted == {highest, NoRelease}

Context(names, accepted) ==
  [trustedKeys |-> keys, target |-> Build.target, acceptedChannels |-> Build.acceptedChannels,
   writableDbSchema |-> Build.writableDbSchema, highestAcceptedSequence |-> accepted,
   candidate |-> candidate, availableArtifactNames |-> names]

\* verifyCandidate(): the manifest is missing or rejected, the upgrade path is
\* refused, or the manifest is verified.
Verify ==
  /\ check = "verifying"
  /\ \/ CheckEnds /\ Count(TRUE) /\ ustate' = "failed" /\ UNCHANGED <<manifest, signer, forgot>>
     \/ /\ \E s \in Fetched, names \in Listings[candidate], accepted \in Accepted :
             ~VerifyManifest(s, Context(names, accepted))
        /\ CheckEnds /\ Count(TRUE) /\ ustate' = "failed" /\ UNCHANGED <<manifest, signer, forgot>>
     \/ \E s \in Fetched, names \in Listings[candidate], accepted \in Accepted :
          \/ /\ VerifyManifest(s, Context(names, accepted))
             /\ ~IsDirectUpgradePermitted(s.manifest, Build.version)
             /\ CheckEnds /\ ustate' = "failed" /\ UNCHANGED <<failures, manifest, signer, forgot>>
          \/ /\ VerifyManifest(s, Context(names, accepted))
             /\ IsDirectUpgradePermitted(s.manifest, Build.version)
             /\ manifest' = s.manifest.releaseSequence /\ signer' = s.signer
             /\ forgot' = (forgot \/ accepted # highest)
             /\ IF "download" \in auto \/ manual
                  THEN check' = "downloading" /\ ustate' = "downloading" /\ UNCHANGED timer
                  ELSE CheckEnds /\ ustate' = "idle"
             /\ UNCHANGED failures
  /\ manual' = FALSE
  /\ UNCHANGED <<lapsed, candidate, staged, downloaded, sound, installing, attempt, using, installer, highest, crossed, host>>

\* downloadUpdate(): interrupted or cancelled by a quit, or a file, sound or not.
Download ==
  /\ check = "downloading"
  /\ \/ CheckEnds /\ Count(TRUE) /\ ustate' = "failed" /\ UNCHANGED <<downloaded, sound>>
     \/ /\ downloaded' = candidate /\ sound' \in BOOLEAN
        /\ IF quitting
             THEN CheckEnds /\ Count(TRUE) /\ ustate' = "failed"
             ELSE check' = "hashing" /\ UNCHANGED <<failures, ustate, timer>>
  /\ UNCHANGED <<lapsed, manual, candidate, manifest, signer, staged, install, host>>

-----------------------------------------------------------------------------
(* Installing. *)

\* installBlocker()
Blocked == ending \/ maintenance \/ hidden = Visible \/ hidden < Required

Return(c) ==
  /\ attempt' = [attempt EXCEPT ![c] = "none"] /\ using' = [using EXCEPT ![c] = Nothing]
  /\ IF c = "check" THEN CheckEnds ELSE UNCHANGED <<check, timer>>

\* performInstall() up to its first await, for the manifest and file given.
\* Mutant of PerformInstall: an install in progress is not noticed.
PerformInstallAgain(c, m, f) ==
  /\ installing' = TRUE /\ ustate' = "installing"
  /\ attempt' = [attempt EXCEPT ![c] = "revalidating"]
  /\ using' = [using EXCEPT ![c] = [manifest |-> m, file |-> f]]
  /\ IF c = "check" THEN check' = "installing" /\ UNCHANGED timer ELSE UNCHANGED <<check, timer>>
PerformInstall(c, m, f) ==
  IF installing
    THEN Return(c) /\ ustate' = (IF c = "check" THEN "ready" ELSE ustate) /\ UNCHANGED installing
    ELSE /\ installing' = TRUE /\ ustate' = "installing"
         /\ attempt' = [attempt EXCEPT ![c] = "revalidating"]
         /\ using' = [using EXCEPT ![c] = [manifest |-> m, file |-> f]]
         /\ IF c = "check" THEN check' = "installing" /\ UNCHANGED timer ELSE UNCHANGED <<check, timer>>

\* tryInstallAtSafePoint() in state "ready": left to the user, deferred once
\* the event has been recorded, or begun.
TryInstall(c, m, f) ==
  IF "install" \notin auto
    THEN ustate' = "deferred" /\ Return(c) /\ UNCHANGED installing
    ELSE IF Blocked
      THEN /\ attempt' = [attempt EXCEPT ![c] = "deferring"]
           /\ ustate' = "ready"
           /\ IF c = "check" THEN check' = "installing" /\ UNCHANGED timer ELSE UNCHANGED <<check, timer>>
           /\ UNCHANGED <<installing, using>>
      ELSE PerformInstall(c, m, f)

\* verifyStagedArtifact() of a fresh download, then the safe point.
\* The cache holds the file downloaded last, sound or not.
Digest(f) == IF sound /\ downloaded = f THEN f ELSE NoRelease
Matches(m, f) == \E s \in Served[m] : VerifyArtifactBytes(f, Digest(f), s)
Hash ==
  /\ check = "hashing"
  /\ IF Matches(manifest, downloaded)
       THEN /\ staged' = downloaded /\ Count(FALSE)
            /\ TryInstall("check", manifest, downloaded)
       ELSE /\ CheckEnds /\ ustate' = "failed"
            /\ UNCHANGED <<staged, failures, installing, attempt, using>>
  /\ UNCHANGED <<lapsed, manual, candidate, manifest, signer, downloaded, sound, installer, highest, forgot, crossed, host>>

\* The event is recorded; whatever the state has become, it is deferred now.
Defer(c) ==
  /\ attempt[c] = "deferring"
  /\ ustate' = "deferred"
  /\ Return(c)
  /\ UNCHANGED <<lapsed, manual, failures, candidate, files, installing, installer, highest, forgot, crossed, host>>

\* restartAndInstall(), which asks the state whether a check is under way.
UserInstalls(c) ==
  /\ attempt[c] = "none"
  /\ ustate \in {"ready", "deferred"} /\ ~ending /\ ~maintenance
  /\ staged # NoRelease /\ manifest # NoRelease
  /\ PerformInstall(c, manifest, staged)
  /\ crossed' = (crossed \/ check \notin {"none", "installing"})
  /\ UNCHANGED <<lapsed, manual, failures, candidate, files, installer, highest, forgot, host>>

\* A step of the protocol fails: the install is given up in the state s.
GiveUp(c, s) == installing' = FALSE /\ ustate' = s /\ Return(c)
GoOn(c, phase) ==
  attempt' = [attempt EXCEPT ![c] = phase] /\ UNCHANGED <<ustate, installing, using, check, timer>>

\* The file that sat in the cache is verified again.
Revalidate(c) ==
  /\ attempt[c] = "revalidating"
  /\ IF Matches(using[c].manifest, using[c].file) THEN GoOn(c, "stopping") ELSE GiveUp(c, "failed")
  /\ UNCHANGED <<lapsed, manual, failures, candidate, files, installer, highest, forgot, crossed, host>>

\* prepareForInstall(): the collector is asked to shut down and answers, or not;
\* what becomes of its process is part of CollectorService.
StopCollector(c) ==
  /\ attempt[c] = "stopping"
  /\ GoOn(c, "backing up") \/ GiveUp(c, "deferred")
  /\ UNCHANGED <<lapsed, manual, failures, candidate, files, installer, highest, forgot, crossed, host>>

CreateBackup(c) ==
  /\ attempt[c] = "backing up" /\ Recorded
  /\ GoOn(c, "persisting") \/ GiveUp(c, "deferred")
  /\ UNCHANGED <<lapsed, manual, failures, candidate, files, installer, highest, forgot, crossed, host>>

\* The sequence is accepted, then electron-updater installs the file it
\* downloaded last and quits, or throws.
HandOver(c) ==
  /\ attempt[c] = "persisting"
  /\ \/ /\ highest' = IF using[c].manifest > highest THEN using[c].manifest ELSE highest
        /\ UNCHANGED forgot
     \/ UNCHANGED highest /\ forgot' = TRUE
  /\ \/ /\ installer' = [verified |-> using[c].file, file |-> downloaded]
        /\ quitting' = TRUE
        /\ GoOn(c, "handed over")
     \/ GiveUp(c, "failed") /\ UNCHANGED <<installer, quitting>>
  /\ UNCHANGED <<lapsed, manual, failures, candidate, files, crossed, keys, auto, hidden, jobs, maintenance, ending, published>>

Attempt(c) == Defer(c) \/ Revalidate(c) \/ StopCollector(c) \/ CreateBackup(c) \/ HandOver(c)

-----------------------------------------------------------------------------
(* The host. *)

\* The window is closed to the tray: onWindowHidden() tries a ready update, which
\* a window hidden just now defers once the event is recorded, and finds nothing
\* to do in a deferred one.
Hide(c) ==
  /\ hidden = Visible /\ attempt[c] = "none"
  /\ hidden' = 0
  /\ IF ustate = "ready" /\ staged # NoRelease /\ manifest # NoRelease
       THEN TryInstall(c, manifest, staged)
       ELSE UNCHANGED <<ustate, installing, attempt, using, check, timer>>
  /\ UNCHANGED <<lapsed, manual, failures, candidate, files, installer, highest, forgot, crossed,
                 keys, auto, jobs, maintenance, ending, quitting, published>>

WindowMoves ==
  /\ \/ hidden < Required /\ hidden' = hidden + 1
     \/ hidden # Visible /\ hidden' = Visible
  /\ UNCHANGED <<ustate, timer, lapsed, checkVars, files, install, keys, auto, jobs, maintenance, ending, quitting, published>>

\* The handlers of exports, backups, restores and deletions.
BeginJob(j) ==
  /\ j \notin jobs /\ jobs' = jobs \cup {j} /\ maintenance' = TRUE
  /\ UNCHANGED <<ustate, timer, lapsed, checkVars, files, install, keys, auto, hidden, ending, quitting, published>>
EndJob(j) ==
  /\ j \in jobs /\ jobs' = jobs \ {j} /\ maintenance' = FALSE
  /\ UNCHANGED <<ustate, timer, lapsed, checkVars, files, install, keys, auto, hidden, ending, quitting, published>>

Toggle(s) ==
  /\ auto' = IF s \in auto THEN auto \ {s} ELSE auto \cup {s}
  /\ UNCHANGED <<ustate, timer, lapsed, checkVars, files, install, keys, hidden, jobs, maintenance, ending, quitting, published>>

\* gracefulQuit(): the timer is disposed of; `ends` says whether the session ends.
Quit(ends) ==
  /\ ending' = (ending \/ ends) /\ quitting' = TRUE /\ timer' = IF quitting THEN timer ELSE FALSE
  /\ UNCHANGED <<ustate, lapsed, checkVars, files, install, keys, auto, hidden, jobs, maintenance, published>>

\* A new release is published; the cached file is damaged.
Publish ==
  /\ published < Newest /\ published' = published + 1
  /\ UNCHANGED <<ustate, timer, lapsed, checkVars, files, install, keys, auto, hidden, jobs, maintenance, ending, quitting>>
Damage ==
  /\ sound /\ sound' = FALSE
  /\ UNCHANGED <<ustate, timer, lapsed, checkVars, manifest, signer, staged, downloaded, install, host>>

Happens ==
  \/ WindowMoves \/ Publish \/ Damage
  \/ \E j \in Jobs : BeginJob(j) \/ EndJob(j)
  \/ \E s \in Toggles : Toggle(s)
  \/ \E ends \in BOOLEAN : Quit(ends)

\* The installer ends the process.
Lives == installer.file = NoRelease

Next ==
  /\ Lives
  /\ \/ TimerFires \/ UserChecks \/ CheckAnswered \/ Verify \/ Download \/ Hash
     \/ \E c \in Callers : Attempt(c)
     \/ \E c \in Clicks : UserInstalls(c)
     \/ \E c \in Hides : Hide(c)
     \/ Happens

Spec == Init /\ [][Next]_vars

-----------------------------------------------------------------------------
InProgress(c) == attempt[c] \notin {"none", "deferring"}

\* The mark that keeps checks and other installs away is set exactly while one
\* attempt is in progress, whoever began it and however it ended, although a
\* late deferral may have renamed the state (updates.ts:471-478, 514-577).
OneAttempt ==
  /\ installing <=> \E c \in Callers : InProgress(c)
  /\ \A c, d \in Callers : InProgress(c) /\ InProgress(d) => c = d

\* The installer gets the file that was verified against the manifest, which was
\* signed by the key the publisher uses, whatever the key file and the server
\* hold (updates.ts:523, release-manifest.ts:101-115).  The file may be another
\* one when the install was begun under a check that went on: a deferral that is
\* recorded late makes the state of that check pass for an update that is ready
\* (updates.ts:471-474, 482).  Bytes damaged after they were verified for the
\* second time are handed over as they are: nothing looks at them again.
InstallsWhatWasVerified ==
  /\ crossed \/ installer.file = installer.verified
  /\ installer.file # NoRelease => signer = Build.publisher

\* A release whose sequence was accepted once is never handed over again, not
\* even after an installer that threw (updates.ts:561, release-manifest.ts:383),
\* as long as no read or write of the sequence failed, which index.ts swallows,
\* and no check went on under an install: such a check reads the sequence before
\* the install accepts it.
NoReplay ==
  [][highest' > highest \/ installer' = installer \/ forgot' \/ crossed]_<<highest, installer>>

\* Checks go on for ever: each one ends by scheduling the next, however it
\* ended, unless the timer fired while checks were switched off or an install
\* was in progress (updates.ts:215-230), in a build that trusts a key at all.
ChecksGoOn == keys # {} => timer \/ check # "none" \/ lapsed \/ quitting

\* "never start an installer then": the session does not end under an install.
NeverInstallsAtSessionEnd == [][installer' # installer => ~ending]_<<installer, ending>>
=============================================================================
