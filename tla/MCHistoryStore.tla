---------------------------- MODULE MCHistoryStore ----------------------------
(* Three processes in a row: of one build; with an upgrade before the second;  *)
(* with an older build in the middle, followed by one whose first migration    *)
(* was edited.  The requests are made in the last two cases.                   *)
EXTENDS HistoryStore

OneBuild == <<<<"a">>, <<"a">>, <<"a">>>>
MCBuilds ==
  {OneBuild,
   <<<<"a">>, <<"a", "b">>, <<"a", "b">>>>,
   <<<<"a", "b">>, <<"a">>, <<"edited", "b">>>>}

MCInit == HInit /\ (build = OneBuild => session = 1)
MCSpec == MCInit /\ [][HNext]_hvars /\ HFairness
=============================================================================
