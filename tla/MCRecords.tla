------------------------------- MODULE MCRecords -------------------------------
(* Two stations of two ports, three sites and three files for TLC. *)
EXTENDS Records

Row(words, code, id) == [words |-> words, code |-> code, id |-> id, connector |-> "j1772", power |-> 66]
Page(station, pageRows, summary) ==
  [state |-> "status_present", station |-> station, rows |-> pageRows, summary |-> summary,
   updated |-> [kind |-> "none"]]
Free(id) == Row({"available"}, "none", id)
Busy(id) == Row({"in use"}, "in_use", id)
\* The words and the code disagree.
Broken(id) == Row({"unavailable", "available"}, "in_use", id)

MCPagesOf ==
  (1 :> {Page(1, <<Free(1), Free(2)>>, NoSummary), Page(1, <<Busy(1), Free(2)>>, NoSummary),
         Page(1, <<Busy(1), Broken(2)>>, NoSummary), Page(1, <<>>, [available |-> 1, total |-> 2])})
  @@ (2 :> {Page(2, <<Busy(1)>>, NoSummary)})
MCPortsOf == (1 :> {2, 1}) @@ (2 :> {1})
MCPolicy == [interval |-> 1, cap |-> 2, limit |-> Null]
MCRequests == {[preset |-> "all"], [preset |-> "custom", from |-> 3, to |-> 1]}

\* Sites 1 and 2 are banks of one lot, with the same words; the second file
\* renames site 2 to the very name of site 1 and adds a third site.
Named(words, rest) == [words |-> words, rest |-> rest]
Site(id, name, place) == [id |-> id, name |-> name, network |-> "c", address |-> None, place |-> place]
Bank(n) == Named({"banner", "mesa"}, n)
MCFiles ==
  {[source |-> 1, sha |-> 1, readable |-> TRUE, rejected |-> FALSE,
    rows |-> <<Site(1, Bank(1), 1), Site(2, Bank(2), 2)>>],
   [source |-> 1, sha |-> 2, readable |-> TRUE, rejected |-> TRUE,
    rows |-> <<Site(2, Bank(1), 2), Site(3, Named({"rio"}, 0), 5)>>]}
MCPastes == {[allowed |-> TRUE, station |-> 7], [allowed |-> TRUE, station |-> 8]}
Found(station, name, place) == [station |-> station, name |-> name, network |-> "c", place |-> place, address |-> None]
MCDiscoveries ==
  {<<Found(7, Bank(1), 1), Found(8, Bank(2), 2)>>,
   <<Found(8, Bank(1), 1), Found(9, Bank(1), 1), Found(9, Named({"rio"}, 0), 5)>>}

Visitors(site, lo, hi, count) == [site |-> site, period |-> [lo |-> lo, hi |-> hi], count |-> count, definition |-> "vehicles"]
MCVisitFiles ==
  {<<Visitors(1, 0, 2, 5), Visitors(1, 0, 2, 5), Visitors(1, 1, 3, 4), Visitors(1, 2, 3, 1)>>,
   <<Visitors(1, 0, 3, 7), Visitors(9, 0, 1, 1)>>}
MCManualRows == {Visitors(1, 0, 2, 6), Visitors(2, 0, 2, 6)}
MCPanels == {[lo |-> 0, hi |-> 3], [lo |-> 0, hi |-> 2]}

\* The two parts move apart: neither reads what the other writes.
Untouched ==
  /\ now = 1 /\ events = 0
  /\ rows[1].readings = {Stored(1, Page(1, <<Free(1), Free(2)>>, NoSummary), 0)}

MCNext ==
  \/ catalogSteps + visitSteps = 0 /\ StudyStep
  \/ Untouched /\ catalogSteps + visitSteps < 5 /\ (CatalogStep \/ VisitsStep)

\* The catalogue first gives station 1 two ports.
MCInit == RecordsInit /\ rows[1].ports = 2

MCSpec == MCInit /\ [][MCNext]_recordsVars
=============================================================================
