--------------------------- MODULE SchedulerClaims ---------------------------
(***************************************************************************)
(* What scheduler.ts says of itself in its header and comments, stated     *)
(* over the life of a Scheduler with history variables that remember what  *)
(* a provider asked for and which source refused to be read.               *)
(***************************************************************************)
EXTENDS Scheduler

\* The due times of parked bindings are later than any instant a provider names.
ASSUME NeverIsLater == \A ra \in RetryAfters \cup {0} : MaxTime + ra <= FarFuture

VARIABLES
  asked,      \* until when the answer behind each entry asked it to wait
  rowAsked,   \* the same for the stored rows,
  gotAsked,   \* and for the fetched ones
  srcAsked,   \* until when a 429 asked the source to wait
  refused     \* sources that refused, until the user resumes them

history == <<asked, rowAsked, gotAsked, srcAsked, refused>>
hvars == <<vars, history>>

HInit ==
  /\ Init
  /\ asked = [b \in Bindings |-> 0]
  /\ rowAsked = [b \in Bindings |-> 0]
  /\ gotAsked = [b \in Bindings |-> 0]
  /\ srcAsked = [s \in Sources |-> 0]
  /\ refused = {}

HSuccess(b, at, pct) ==
  /\ RecordSuccess(b, at, pct)
  /\ asked' = [asked EXCEPT ![b] = 0]
  /\ UNCHANGED <<rowAsked, gotAsked, srcAsked, refused>>

HRefusal(b, at, outcome) ==
  /\ RecordRefusal(b, at, outcome)
  /\ refused' = refused \cup {SourceOf[b]}
  /\ UNCHANGED <<asked, rowAsked, gotAsked, srcAsked>>

HTransient(b, at, outcome, ra, pct) ==
  /\ RecordTransient(b, at, outcome, ra, pct)
  /\ asked' = [asked EXCEPT ![b] = at + ra]
  /\ srcAsked' = [srcAsked EXCEPT ![SourceOf[b]] =
                    IF outcome = "rate_limited" THEN MaxOf(@, at + ra) ELSE @]
  /\ UNCHANGED <<rowAsked, gotAsked, refused>>

HOutcome ==
  \E b \in Bindings, at \in 0..MaxTime :
    \/ \E pct \in JitterPct : HSuccess(b, at, pct)
    \/ RecordCancelled(b, at) /\ UNCHANGED history
    \/ \E o \in {"login_required", "source_blocked", "layout_changed"} :
         HRefusal(b, at, o)
    \/ \E o \in {"timeout", "rate_limited"}, ra \in RetryAfters \cup {0},
          pct \in JitterPct : HTransient(b, at, o, ra, pct)

HResumeSource(s) ==
  /\ ResumeSource(s)
  /\ srcAsked' = [srcAsked EXCEPT ![s] = 0]
  /\ refused' = refused \ {s}
  /\ UNCHANGED <<asked, rowAsked, gotAsked>>

HPersist ==
  /\ Persist
  /\ rowAsked' = asked
  /\ UNCHANGED <<asked, gotAsked, srcAsked, refused>>

HForget(b) ==
  /\ Forget(b)
  /\ rowAsked' = [rowAsked EXCEPT ![b] = 0]
  /\ UNCHANGED <<asked, gotAsked, srcAsked, refused>>

HFetch(enabled) ==
  /\ Fetch(enabled)
  /\ gotAsked' = rowAsked
  /\ UNCHANGED <<asked, rowAsked, srcAsked, refused>>

\* An entry now stands for the answer its row was saved after.
HLoad ==
  /\ Load
  /\ asked' = [b \in Bindings |-> IF Loaded(b) THEN gotAsked[b] ELSE asked[b]]
  /\ gotAsked' = [b \in Bindings |-> 0]
  /\ UNCHANGED <<rowAsked, srcAsked, refused>>

HNext ==
  \/ HOutcome
  \/ \E s \in Sources : HResumeSource(s)
  \/ HPersist
  \/ \E b \in Bindings : HForget(b)
  \/ \E enabled \in SUBSET Bindings : HFetch(enabled)
  \/ HLoad
  \/ /\ \/ \E manual \in SUBSET Bindings : Plan(manual)
        \/ SpreadOverdue
        \/ \E b \in Bindings : FinishRead(b)
        \/ \E b \in Toggled, p \in BOOLEAN : SetPaused(b, p)
        \/ \E s \in Sources : PauseSource(s) \/ RecordNavigation(s)
        \/ Tick
        \/ ClockSetBack
     /\ UNCHANGED history

HSpec == HInit /\ [][HNext]_hvars

-----------------------------------------------------------------------------

\* What the last answer asked for is not undone: whatever is cancelled, restaged,
\* refused or resumed afterwards, saved and loaded again, and whatever the clock
\* does, the binding does not fall due before the instant the provider named,
\* until it has been read again.  A row stands for the answer it was saved
\* after: loading one that is older than the last answer, or a fresh one, puts
\* the entry back to what was known then, and what was asked since is lost
\* (scheduler.ts:135-137, 184-209, 389-394, 430-437, 469-475; worker.ts:1055).
RetryAfterKept == \A b \in Bindings : nextDue[b] >= asked[b]

\* A binding is not read before the instant it was asked to wait for
\* (scheduler.ts:393: "we never wait less than we were asked to").
NeverReadEarly ==
  [][\A b \in reading' \ reading : now >= asked[b]]_hvars

\* No scheduled binding of a source is planned before the instant a 429 of that
\* source asked for (scheduler.ts:392-393: "we never wait less than we were
\* asked to").
SourceWaitsRetryAfter ==
  \A b \in Dispatch({}) : now >= srcAsked[SourceOf[b]]

\* A source that demanded a sign-in, refused access or changed its page stays
\* paused or blocked until the user resumes it (scheduler.ts:12-13:
\* "Authentication, challenge and explicit access blocks PAUSE the source.").
RefusalSticks == \A s \in refused : srcState[s] \in {"paused", "blocked"}

\* When the hold of an open circuit has expired, the plan that notices it lets
\* one binding of the source through (scheduler.ts:282: "The hold has expired:
\* allow one probe and let the outcome decide.").
OneProbe ==
  [][\A s \in Sources :
       srcState[s] = "circuit_open" /\ srcState'[s] = "degraded" =>
       Cardinality({b \in reading' \ reading : SourceOf[b] = s}) <= 1
    ]_hvars

\* Even if the wall clock is set back, every binding that is not parked falls
\* due within the longest delay the scheduler itself may impose
\* (scheduler.ts:5-7: "a system clock change cannot stall or stampede the
\* queue").
ClockChangeNeverStalls ==
  \A b \in Bindings :
    \/ nextDue[b] \in {Never, FarFuture}
    \/ \E d \in Delays : nextDue[b] <= now + d
=============================================================================
