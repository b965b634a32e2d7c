--------------------------------- MODULE Visits ---------------------------------
(* Counts of visitors to a site, from a file or entered by hand: domain/        *)
(* visits.ts, previewVisitImport, commitVisitImport and addManualVisit of       *)
(* database/worker.ts, and the panel of database/queries.ts.  A row is          *)
(* [site, period, count, definition].                                           *)
EXTENDS Catalog

Iv == INSTANCE Intervals WITH FarFuture <- 0

CONSTANTS
  VisitFiles,       \* files a user may import: sequences of rows, unreadable ones left out
  ManualRows,       \* rows a user may enter
  Panels,           \* windows through which the counts are seen
  MaxVisitSteps     \* bound

\* A row whose period cannot be read is left out before (worker.ts:1853).
ASSUME VisitsAssumption ==
  \A file \in VisitFiles :
    /\ file \in Seq(ToSet(file))
    /\ \A row \in ToSet(file) : row.period.lo \in Int /\ row.period.hi \in Int

VARIABLES
  pending,          \* previews not yet committed, each [id, rows, overlaps]
  datasets,         \* data sets stored, each [id, authoritative, definition]
  visits,           \* rows stored, each with its data set
  visitSteps        \* also the clock data sets are named after

visitVars == <<pending, datasets, visits, visitSteps>>

Manual == 0

VisitsInit ==
  /\ pending = {}
  /\ datasets = {}
  /\ visits = {}
  /\ visitSteps = 0

VisitsMove == visitSteps < MaxVisitSteps /\ visitSteps' = visitSteps + 1 /\ UNCHANGED catalogVars

Overlap(a, b) == Iv!Intersect(a, b) # {}
Sound(row) == /\ row.count >= 0
              /\ row.period.lo < row.period.hi
              /\ \E s \in sites : s.id = row.site

\* The rows of a file that are accepted: each sound, none over a period that an
\* accepted row of its site overlaps.  In their order.
\* Mutant of ValidateVisitRows: only the very same period is a duplicate.
ValidateVisitRowsOnce(fileRows) ==
  LET Accept(accepted, row) ==
        IF Sound(row) /\ ~\E a \in ToSet(accepted) : a.site = row.site /\ a.period = row.period
        THEN Append(accepted, row) ELSE accepted
  IN  FoldLeft(Accept, <<>>, fileRows)
ValidateVisitRows(fileRows) ==
  LET Accept(accepted, row) ==
        IF Sound(row) /\ ~\E a \in ToSet(accepted) : a.site = row.site /\ Overlap(a.period, row.period)
        THEN Append(accepted, row) ELSE accepted
  IN  FoldLeft(Accept, <<>>, fileRows)

\* The data sets a preview warns of: reported, never merged.
OverlapsExisting(accepted) ==
  {v.dataset : v \in {w \in visits : \E a \in ToSet(accepted) : a.site = w.site /\ Overlap(a.period, w.period)}}

\* A preview stores nothing in the database; it is named after the clock.
PreviewVisitImport(file) ==
  LET accepted == ValidateVisitRows(file)
  IN  /\ pending' = pending \cup {[id |-> visitSteps + 1, rows |-> accepted, overlaps |-> OverlapsExisting(accepted)]}
      /\ VisitsMove /\ UNCHANGED <<datasets, visits>>

StoredVisit(dataset, row) == [dataset |-> dataset, site |-> row.site, period |-> row.period, count |-> row.count]

\* A preview is committed once, as the authoritative counts or beside them.  All
\* its rows are filed under what the first of them counts.
CommitVisitImport(preview, authoritative) ==
  LET definition == IF preview.rows = <<>> THEN "other" ELSE preview.rows[1].definition
  IN  /\ pending' = pending \ {preview}
      /\ datasets' = {IF authoritative THEN [d EXCEPT !.authoritative = FALSE] ELSE d : d \in datasets}
                     \cup {[id |-> preview.id, authoritative |-> authoritative, definition |-> definition]}
      /\ visits' = visits \cup {StoredVisit(preview.id, row) : row \in ToSet(preview.rows)}
      /\ VisitsMove

\* A row entered by hand goes to the data set of such rows, which is
\* authoritative when it is new and counts what its first row did; the same
\* period is changed, not added.
AddManualVisit(row) ==
  /\ ValidateVisitRows(<<row>>) # <<>>
  /\ datasets' = IF \E d \in datasets : d.id = Manual THEN datasets
                 ELSE datasets \cup {[id |-> Manual, authoritative |-> TRUE, definition |-> row.definition]}
  /\ visits' = {v \in visits : ~(v.dataset = Manual /\ v.site = row.site /\ v.period = row.period)}
               \cup {StoredVisit(Manual, row)}
  /\ VisitsMove /\ UNCHANGED pending

\* The previews are kept in the worker's memory.
WorkerRestarts == pending # {} /\ pending' = {} /\ VisitsMove /\ UNCHANGED <<datasets, visits>>

VisitsNext ==
  \/ \E file \in VisitFiles : PreviewVisitImport(file)
  \/ \E preview \in pending, authoritative \in BOOLEAN : CommitVisitImport(preview, authoritative)
  \/ \E row \in ManualRows : AddManualVisit(row)
  \/ WorkerRestarts

VisitsSpec ==
  CatalogInit /\ VisitsInit
  /\ [][(CatalogNext /\ UNCHANGED visitVars) \/ VisitsNext]_<<catalogVars, visitVars>>

-------------------------------------------------------------------------------
\* What the panel of a site adds up: whole periods inside the window, of every
\* data set that is authoritative.
Counted(site, window) ==
  {v \in visits : /\ v.site = site
                  /\ \E d \in datasets : d.id = v.dataset /\ d.authoritative
                  /\ window.lo <= v.period.lo /\ v.period.hi <= window.hi}
VisitsPanel(site, window) ==
  LET counted == Counted(site, window)
  IN  IF counted = {} THEN [hasData |-> FALSE]
      ELSE [hasData |-> TRUE, visitCount |-> MapThenSumSet(LAMBDA v : v.count, counted)]

-------------------------------------------------------------------------------
\* What a panel shows of imported counts is the visitors of each period once,
\* whatever the files repeat or overlap and whichever were committed as
\* authoritative in whatever order: no instant is counted twice, neither by two
\* rows of a file nor by two files (domain/visits.ts:66, worker.ts:1935,
\* queries.ts:653).
ImportsCountOnce ==
  LET Imported(site, window) == {v \in Counted(site, window) : v.dataset # Manual}
  IN  \A s \in sites, window \in Panels : \A v, w \in Imported(s.id, window) :
        v # w => ~Overlap(v.period, w.period)

\* "Only one dataset is authoritative per site at a time, so two sources'
\* estimates can never be added together" (worker.ts:1967): what a panel adds up
\* comes from one data set.
NeverAddedTogether ==
  \A s \in sites, window \in Panels : \A v, w \in Counted(s.id, window) : v.dataset = w.dataset
=============================================================================
