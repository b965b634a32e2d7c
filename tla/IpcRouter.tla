------------------------------ MODULE IpcRouter ------------------------------
(***************************************************************************)
(* The router of the renderer's requests (src/main/router.ts) over a       *)
(* supervised worker: the gates in front of a handler, the race of the     *)
(* handler with its deadline and with a cancellation, and the table of     *)
(* requests that can be cancelled.  A handler is one request to the worker. *)
(***************************************************************************)
EXTENDS SupervisedWorker

CONSTANT Cancellable   \* the requests whose operation may be cancelled

VARIABLES route,     \* each request as the renderer sees it
          inFlight   \* the controllers that cancel() can find

rvars == <<route, inFlight>>

Gates == {"untrusted", "malformed", "wrong version", "unknown", "bad payload"}

RInit == Init /\ route = [r \in Requests |-> "idle"] /\ inFlight = {}

\* A gate answers before anything is done.
Refuse(r, gate) ==
  /\ route[r] = "idle" /\ gate \in Gates
  /\ route' = [route EXCEPT ![r] = "refused"]
  /\ UNCHANGED <<inFlight, vars>>

\* The handler runs up to its first await, where its request has been made.
Handle(r) ==
  /\ route[r] = "idle"
  /\ route' = [route EXCEPT ![r] = "handling"]
  /\ inFlight' = inFlight \cup ({r} \cap Cancellable)
  /\ Ask(r)

Forget(r) == inFlight' = inFlight \ {r}

\* The deadline, or cancel(): the caller is told; the handler goes on.
Expire(r) ==
  /\ route[r] = "handling"
  /\ route' = [route EXCEPT ![r] = "timeout"]
  /\ Forget(r)
  /\ UNCHANGED vars

Cancel(r) == r \in inFlight /\ Expire(r)

\* Mutant of Respond: the rejection of a handler is not caught.
RespondAnswered(r) ==
  /\ route[r] = "handling" /\ call[r] = "answered"
  /\ route' = [route EXCEPT ![r] = "answered"]
  /\ Forget(r)
  /\ UNCHANGED vars
\* The handler wins the race.
Respond(r) ==
  /\ route[r] = "handling" /\ call[r] \in {"answered", "failed"}
  /\ route' = [route EXCEPT ![r] = IF call[r] = "answered" THEN "answered" ELSE "error"]
  /\ Forget(r)
  /\ UNCHANGED vars

RNext ==
  \/ Supervision /\ UNCHANGED rvars
  \/ \E r \in Requests :
       \/ \E gate \in Gates : Refuse(r, gate)
       \/ Handle(r) \/ Expire(r) \/ Cancel(r) \/ Respond(r)

\* The deadline of the router is a timer as well.
RSpec == RInit /\ [][RNext]_<<vars, rvars>> /\ Settles /\ \A r \in Requests : WF_<<vars, rvars>>(Respond(r))

-----------------------------------------------------------------------------
\* Every handled request is answered, even when its worker dies for good.
EveryCallerIsAnswered == \A r \in Requests : (route[r] = "handling") ~> (route[r] # "handling")
=============================================================================
