-------------------------- MODULE MCSchedulerClaims --------------------------
(* Instances of SchedulerClaims and NavigationBudget for TLC.  The two share no *)
(* state, and the properties of the queue speak of reads, of saved rows, and of *)
(* the wall clock: each is explored with the others standing still.             *)
EXTENDS SchedulerClaims, NavigationBudget

CONSTANTS chargepoint, cycle, discovery
VARIABLE part

\* What the properties of a run read; nothing reads the other histories, so that
\* states which differ in those alone are one state.
Seen == <<vars, asked, rowAsked, gotAsked, budgetVars, part>>

AllOnOne == [b \in 1..N |-> chargepoint]

MCInit == HInit /\ BudgetInit /\ part \in {"reads", "slots", "clock", "rows", "budget"}

\* No more failures in a row than open a circuit.
FewFailures ==
  /\ \A s \in Sources : srcFailures'[s] <= Threshold
  /\ \A b \in Bindings : failures'[b] <= Threshold

\* Both bindings are read, and time passes.
Reads == UNCHANGED <<rowVars, lastNav>> /\ now' >= now /\ FewFailures

\* One binding is read; navigations count, and the wall clock may be set back.
Slots == UNCHANGED rowVars /\ reading' \subseteq {1} /\ FewFailures

\* One binding is read; the wall clock may be set back, and the probe of an
\* expired circuit may fail too.
Clock == UNCHANGED <<rowVars, lastNav>> /\ reading' \subseteq {1}

\* One binding is read, and its row is saved, fetched and loaded.
Reloads ==
  /\ UNCHANGED lastNav /\ now' >= now /\ FewFailures
  /\ reading' \subseteq {1} /\ fetched'[2] = NoRow

MCNext ==
  /\ UNCHANGED part
  /\ IF part = "budget" THEN BudgetNext /\ UNCHANGED hvars
     ELSE /\ HNext /\ UNCHANGED budgetVars
          /\ part = "reads" => Reads
          /\ part = "slots" => Slots
          /\ part = "clock" => Clock
          /\ part = "rows" => Reloads

MCSpec == MCInit /\ [][MCNext]_<<hvars, budgetVars, part>>
=============================================================================
