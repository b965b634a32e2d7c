------------------------- MODULE MCCollectorService -------------------------
(* Two stations; two cycles are enough for one to begin while another waits.  *)
(* What the surroundings do is explored in parts, each with everything that   *)
(* can meet it.                                                               *)
EXTENDS CollectorService

CONSTANTS b1, b2, c1, c2

VARIABLE part

Parts ==
  {"stations",   \* two stations, one cycle at a time
   "network",    \* a lost network and restores
   "discovery",  \* the map in the shared page
   "sleep",      \* sleeps
   "exits",      \* exits and restarts, restores
   "pauses"}     \* pauses, sleeps, exits and restores over time, without cycles

Stations ==
  [p \in Parts |-> IF p = "stations" THEN {b1, b2} ELSE IF p = "pauses" THEN {} ELSE {b1}]

\* What a part leaves out never happens in it.
Within ==
  /\ due' \cup manual' \subseteq Stations[part]
  /\ pc'[c2] = "idle" \/ part # "stations"
  /\ online' \/ part = "network"
  /\ stopped' # "restored" \/ part \in {"network", "exits", "pauses"}
  /\ pc'[Discovery] = "idle" \/ part = "discovery"
  /\ ~asleep' \/ part \in {"sleep", "pauses"}
  /\ (alive' /\ restarts' = 0) \/ part \in {"exits", "pauses"}
  /\ now' = 0 \/ part = "pauses"

MCInit == part \in Parts /\ Init /\ due \subseteq Stations[part]
MCNext == Next /\ Within /\ UNCHANGED part
MCSpec == MCInit /\ [][MCNext]_<<vars, part>> /\ Fairness

=============================================================================
