----------------------------- MODULE MCMonitoring -----------------------------
(* Instances of Monitoring for TLC.  The windows read the clock and which       *)
(* stations are on, and nothing the two workers have under way; the workers     *)
(* never read the clock.  So the two are explored apart: either time passes,    *)
(* and the collector stands still, or the collector works, within one instant.  *)
EXTENDS Monitoring

VARIABLE timed

MCInit == MInit /\ timed \in BOOLEAN

MCNext ==
  /\ MNext
  /\ IF timed THEN UNCHANGED <<mail, loads, collector>> ELSE UNCHANGED clock
  /\ UNCHANGED timed

MCSpec == MCInit /\ [][MCNext]_<<mvars, timed>> /\ MFairness
===============================================================================
