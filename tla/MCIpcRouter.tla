----------------------------- MODULE MCIpcRouter -----------------------------
(* Two requests, one of them cancellable, over a worker that may die twice; and *)
(* the window that makes such requests.                                         *)
EXTENDS IpcRouter, Renderer, TLC

CONSTANTS r1, r2

MCRequests == {r1, r2}

\* The two move apart: the window sees of a request that it is answered, fails
\* or waits, which RequestReply promises.
RouterVars == <<vars, rvars>>
MCInit == RInit /\ WindowInit
MCNext ==
  \/ app = "loading" /\ acts = 0 /\ RNext /\ UNCHANGED windowVars
  \/ RInit /\ WindowNext /\ UNCHANGED RouterVars

\* The fairness is that of RSpec, which says nothing of the window.
MCSpec ==
  /\ MCInit /\ [][MCNext]_<<RouterVars, windowVars>>
  /\ Settles /\ \A r \in Requests : WF_RouterVars(Respond(r))
=============================================================================
