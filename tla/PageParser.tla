------------------------------ MODULE PageParser ------------------------------
(* What one reading of a station's page becomes: parsePageReading of           *)
(* collector/adapters/chargepoint/parse.ts, and what the adapter and the       *)
(* service put round it.  The words of a status are the set of the phrases the *)
(* table knows that occur in them; a summary is its two numbers; warnings and  *)
(* the sanitised evidence are left out.                                        *)
EXTENDS Intervals

NoSummary == [available |-> Null, total |-> Null]

\* The phrases a status may hold, the most specific first.
StatusPatterns ==
  << <<"out of service", "out_of_service">>, <<"unavailable", "out_of_service">>,
     <<"offline", "out_of_service">>, <<"coming soon", "out_of_service">>,
     <<"under repair", "out_of_service">>, <<"closed", "out_of_service">>,
     <<"reserved", "reserved">>, <<"charging", "occupied">>, <<"in use", "occupied">>,
     <<"occupied", "occupied">>, <<"plugged in", "occupied">>,
     <<"available", "available">>, <<"open", "available">> >>

\* The provider's own codes; any other code says nothing.
StatusCodes ==
  [available |-> "available", in_use |-> "occupied", in_use_by_driver |-> "occupied",
   unavailable |-> "out_of_service", maintenance_required |-> "out_of_service",
   out_of_service |-> "out_of_service", fault |-> "out_of_service",
   out_of_order |-> "out_of_service", closed |-> "out_of_service",
   unreachable |-> "unknown", unknown |-> "unknown", out_of_network |-> "unknown"]

ClassifyStatusCode(code) == IF code \in DOMAIN StatusCodes THEN StatusCodes[code] ELSE "none"

\* The first phrase of the table found in the words.
ClassifyStatus(words) ==
  LET found == {i \in DOMAIN StatusPatterns : StatusPatterns[i][1] \in words}
      first == CHOOSE i \in found : \A j \in found : i <= j
  IN  IF found = {} THEN "none" ELSE StatusPatterns[first][2]

\* The visible words decide, and the code only where they say nothing.
\* Mutant of ClassifyRow: the code is believed first.
ClassifyRowByCode(row) ==
  IF ClassifyStatusCode(row.code) # "none" THEN ClassifyStatusCode(row.code)
  ELSE IF ClassifyStatus(row.words) = "none" THEN "unknown" ELSE ClassifyStatus(row.words)
ClassifyRow(row) ==
  CASE ClassifyStatus(row.words) # "none"   -> ClassifyStatus(row.words)
    [] /\ ClassifyStatus(row.words) = "none"
       /\ ClassifyStatusCode(row.code) # "none" -> ClassifyStatusCode(row.code)
    [] OTHER                                -> "unknown"

\* The connector decides, then the power, in tenths of a kilowatt.
ClassifyLevel(row) ==
  CASE row.connector = "ccs"   -> "dc_fast"
    [] row.connector = "j1772" -> "level_2"
    [] row.connector = "nema"  -> "level_1"
    [] OTHER -> IF row.power >= 250 THEN "dc_fast"
                ELSE IF row.power >= 33 THEN "level_2" ELSE "unknown"

\* "3 minutes ago", read back from the time of the reading; Null when the page
\* shows no time, or one that cannot be read.
ParseUpdatedText(updated, at) ==
  CASE updated.kind = "ago"     -> at - updated.amount
    [] updated.kind = "instant" -> updated.amount
    [] OTHER                    -> Null

\* The outcome of a page that shows no status.
PageOutcome(state) ==
  CASE state = "loading"        -> "timeout"
    [] state = "source_error"   -> "offline"
    [] state = "empty_status"   -> "partial"
    [] state = "login_required" -> "login_required"
    [] state = "challenge"      -> "source_blocked"
    [] OTHER                    -> "invalid_data"

\* Every row has an identifier of its own, so that ports have a history.
IdentityReliable(rows) ==
  /\ rows # <<>>
  /\ \A i \in DOMAIN rows : rows[i].id # Null
  /\ \A i, j \in DOMAIN rows : rows[i].id = rows[j].id => i = j

RowsIn(rows, state) == Cardinality({i \in DOMAIN rows : ClassifyRow(rows[i]) = state})

\* The rows are counted; a summary alone gives what it says and nothing else.
\* Mutant of Counts: what is not available is in use.
CountsBySubtraction(page) ==
  IF page.rows # <<>>
  THEN [available |-> RowsIn(page.rows, "available"), occupied |-> RowsIn(page.rows, "occupied"),
        reserved |-> RowsIn(page.rows, "reserved"), outOfService |-> RowsIn(page.rows, "out_of_service"),
        unknown |-> RowsIn(page.rows, "unknown"), total |-> Len(page.rows)]
  ELSE [available |-> page.summary.available, occupied |-> page.summary.total - page.summary.available,
        reserved |-> Null, outOfService |-> Null, unknown |-> Null, total |-> page.summary.total]
Counts(page) ==
  IF page.rows # <<>>
  THEN [available |-> RowsIn(page.rows, "available"), occupied |-> RowsIn(page.rows, "occupied"),
        reserved |-> RowsIn(page.rows, "reserved"), outOfService |-> RowsIn(page.rows, "out_of_service"),
        unknown |-> RowsIn(page.rows, "unknown"), total |-> Len(page.rows)]
  ELSE [available |-> page.summary.available, occupied |-> Null, reserved |-> Null,
        outOfService |-> Null, unknown |-> Null, total |-> page.summary.total]

\* A reading that is less than whole: a row nobody can classify, a summary that
\* stands alone or says otherwise than the rows.
Partial(page) ==
  \/ page.rows = <<>>
  \/ RowsIn(page.rows, "unknown") > 0
  \/ page.summary.total \notin {Null, Len(page.rows)}
  \/ page.summary.available \notin {Null, RowsIn(page.rows, "available")}

Failed(outcome) == [ok |-> FALSE, outcome |-> outcome]

\* An identity is asked for on every page whose station is known.
ParsePageReading(page, expected, at) ==
  CASE page.state # "status_present" -> Failed(PageOutcome(page.state))
    [] /\ page.state = "status_present"
       /\ expected # Null /\ page.station # expected -> Failed("invalid_data")
    [] /\ page.state = "status_present" /\ expected \in {Null, page.station}
       /\ page.rows = <<>> /\ page.summary = NoSummary -> Failed("layout_changed")
    [] OTHER ->
         [ok      |-> TRUE,
          outcome |-> IF Partial(page) THEN "partial" ELSE "succeeded",
          quality |-> IF Partial(page) THEN "provisional" ELSE "reliable",
          counts  |-> Counts(page),
          ports   |-> IF IdentityReliable(page.rows)
                      THEN {[id |-> page.rows[i].id, state |-> ClassifyRow(page.rows[i])] : i \in DOMAIN page.rows}
                      ELSE {},
          level   |-> MixLevels({ClassifyLevel(page.rows[i]) : i \in DOMAIN page.rows}),
          updated |-> ParseUpdatedText(page.updated, at)]

\* The envelope of CollectorService: the policy in force is stored with the
\* reading, and ports only of a binding whose identity is durable.
Envelope(id, at, parsed, policy, durable) ==
  [id |-> id, at |-> at, quality |-> parsed.quality, counts |-> parsed.counts,
   updated |-> parsed.updated, level |-> parsed.level,
   interval |-> policy.interval, cap |-> policy.cap, limit |-> policy.limit,
   ports |-> IF durable THEN parsed.ports ELSE {}]
=============================================================================
