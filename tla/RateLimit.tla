------------------------------ MODULE RateLimit ------------------------------
(***************************************************************************)
(* What a source's navigation budget promises when several pieces of work  *)
(* share it (scheduler.ts:4-9, 508-515): each of them navigates the source *)
(* at most once in any Spacing, whatever the others do in between, and     *)
(* nothing but a navigation spends the budget.  So no span of Spacing ever *)
(* holds more navigations than there are pieces of work.                   *)
(***************************************************************************)
EXTENDS Naturals

CONSTANTS Work, Spacing, MaxClock
VARIABLES
  clock,
  last,       \* the last navigation of all
  grants      \* every navigation: when, and whose

rvars == <<clock, last, grants>>

Init == clock = 0 /\ last = 0 /\ grants = {}

\* One navigation, a minimum interval after the caller's one before.
Grant(w) ==
  /\ \A g \in grants : g.by = w => clock >= g.at + Spacing
  /\ last' = clock
  /\ grants' = grants \cup {[at |-> clock, by |-> w]}
  /\ UNCHANGED clock

Tick == clock < MaxClock /\ clock' = clock + 1 /\ UNCHANGED <<last, grants>>

Next == Tick \/ \E w \in Work : Grant(w)

Spec == Init /\ [][Next]_rvars
=============================================================================
