---------------------------- MODULE RequestReply ----------------------------
(***************************************************************************)
(* What a supervised worker promises to the code that calls request():     *)
(* each request is asked once, settles once, the worker does its work at   *)
(* most once, and an answer is given only for work that was done.          *)
(***************************************************************************)
CONSTANT Requests

VARIABLES outcome,  \* of each request, as its caller sees it
          done      \* whether the worker has done its work

rvars == <<outcome, done>>

Outcomes == {"idle", "waiting", "answered", "failed"}

Init == outcome = [r \in Requests |-> "idle"] /\ done = [r \in Requests |-> 0]

Ask(r) ==
  /\ outcome[r] = "idle"
  /\ outcome' = [outcome EXCEPT ![r] = "waiting"]
  /\ UNCHANGED done

\* The work may be done after the caller has given up.
Execute(r) ==
  /\ outcome[r] # "idle" /\ done[r] = 0
  /\ done' = [done EXCEPT ![r] = 1]
  /\ UNCHANGED outcome

Answer(r) ==
  /\ outcome[r] = "waiting" /\ done[r] = 1
  /\ outcome' = [outcome EXCEPT ![r] = "answered"]
  /\ UNCHANGED done

\* Any set of waiting requests fails at once: a process took them with it.
Fail(rs) ==
  /\ \A r \in rs : outcome[r] = "waiting"
  /\ outcome' = [r \in Requests |-> IF r \in rs THEN "failed" ELSE outcome[r]]
  /\ UNCHANGED done

Next == \/ \E r \in Requests : Ask(r) \/ Execute(r) \/ Answer(r)
        \/ \E rs \in SUBSET Requests : Fail(rs)

Spec == Init /\ [][Next]_rvars
=============================================================================
