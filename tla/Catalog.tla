-------------------------------- MODULE Catalog --------------------------------
(* The catalogue of sites and the links between sites and the stations of a    *)
(* source: importCatalogFile, addManualLink and bindDiscoveredStations of      *)
(* database/worker.ts, upsertFromCatalog of database/repositories.ts and the   *)
(* matching of domain/matching.ts.  A name is the set of its words of more     *)
(* than one letter and the rest of it; a place is a number, and two places are *)
(* close when they are neighbours; confidences are in hundredths.  User        *)
(* corrections are left out: nothing in the program makes one.                 *)
EXTENDS Integers, Sequences, SequencesExt, FiniteSets

CONSTANTS
  None,             \* no network, address or station
  Files,            \* catalogue files the application may ship
  Pastes,           \* links the user may paste
  Discoveries,      \* sequences of stations a discovery may report
  MaxCatalogSteps   \* bound

ASSUME CatalogAssumption ==
  /\ \A file \in Files : file.rows \in Seq(ToSet(file.rows))
  /\ \A found \in Discoveries : found \in Seq(ToSet(found))

VARIABLES
  sites,        \* rows of the catalogue
  bindings,     \* links, each [station, site, actor]
  imports,      \* catalogue files recorded, each [sha, outcome]
  catalogSteps

catalogVars == <<sites, bindings, imports, catalogSteps>>

CatalogInit ==
  /\ sites = {}
  /\ bindings = {}
  /\ imports = {}
  /\ catalogSteps = 0

CatalogMoves == catalogSteps < MaxCatalogSteps /\ catalogSteps' = catalogSteps + 1

-------------------------------------------------------------------------------
\* Matching.
AutoConfirm == 95
MinProposal == 50

\* Twice the shared words over all the words, in hundredths.
NameSimilarity(a, b) ==
  CASE a = b                                            -> 100
    [] a # b /\ (a.words = {} \/ b.words = {})          -> 0
    [] OTHER -> (200 * Cardinality(a.words \cap b.words)) \div (Cardinality(a.words) + Cardinality(b.words))

Close(a, b) == a.place - b.place \in {-1, 0, 1}
SameNetwork(a, b) == a.network # None /\ a.network = b.network
SameAddress(a, b) == a.address # None /\ a.address = b.address

\* Only the provider's own name at the same spot on the same network is certain.
Confidence(subject, site) ==
  LET similar == NameSimilarity(subject.name, site.name)
      coordinates == 70 + similar \div 5
  IN  CASE subject.name = site.name /\ SameNetwork(subject, site) /\ Close(subject, site) -> 97
        [] OTHER ->
           IF SameAddress(subject, site) /\ SameNetwork(subject, site)
           THEN IF Close(subject, site) THEN 93 ELSE 90
           ELSE IF ~Close(subject, site) THEN 0
           ELSE IF similar < 60 THEN 55
           ELSE IF ~SameNetwork(subject, site) THEN coordinates
           ELSE IF coordinates + 5 > 92 THEN 92 ELSE coordinates + 5

ProposeMatches(subject) ==
  {p \in {[site |-> s.id, confidence |-> Confidence(subject, s)] : s \in sites} : p.confidence >= MinProposal}

\* Two candidates that are certain are an ambiguity, not a coin flip: none is taken.
ChooseAutomaticMatch(proposals) ==
  LET confirmed == {p \in proposals : p.confidence >= AutoConfirm}
  IN  IF Cardinality(confirmed) = 1 THEN {p.site : p \in confirmed} ELSE {}

-------------------------------------------------------------------------------
Sha(file) == [source |-> file.source, sha |-> file.sha]

\* One row of the file after another: a site that is known is changed, a new one
\* is added, none is ever removed.
UpsertFromCatalog(old, fileRows) ==
  LET Upsert(known, row) == {s \in known : s.id # row.id} \cup {row}
  IN  FoldLeft(Upsert, old, fileRows)

\* The file of this release, at the start of the application.  One recorded as
\* succeeded is not read again; one with rejected rows is, and is then refused by
\* the unique index on its hash, with all it would have changed.
ImportCatalogFile(file) ==
  /\ file.readable /\ file.rows # <<>>
  /\ ~\E i \in imports : i.of = Sha(file)
  /\ imports' = imports \cup {[of |-> Sha(file), outcome |-> IF file.rejected THEN "partial" ELSE "succeeded"]}
  /\ sites' = UpsertFromCatalog(sites, file.rows)
  /\ CatalogMoves /\ UNCHANGED bindings

BoundSites == {b.site : b \in bindings}
BoundStations == {b.station : b \in bindings}

Binding(station, site, actor) == [station |-> station, site |-> site, actor |-> actor]

\* A link pasted by the user: to a known site without a link, of an address the
\* source owns, of one station; the database refuses a station linked before.
AddManualLink(site, url) ==
  /\ \E s \in sites : s.id = site
  /\ url.allowed /\ url.station # None
  /\ site \notin BoundSites
  /\ url.station \notin BoundStations
  /\ bindings' = bindings \cup {Binding(url.station, site, "user")}
  /\ CatalogMoves /\ UNCHANGED <<sites, imports>>

\* The stations a discovery reports, one after another in one transaction: each
\* is linked when it is certain and its site is free, and is then taken.
\* Mutant of LinkDiscovered: what this discovery linked is not remembered.
LinkDiscoveredAtOnce(found) ==
  UNION {{Binding(d.station, site, "automatic") : site \in ChooseAutomaticMatch(ProposeMatches(d)) \ BoundSites} :
         d \in {e \in ToSet(found) : e.station \notin BoundStations}}
  \cup bindings
LinkDiscovered(found) ==
  LET Link(linked, d) ==
        linked \cup
        {Binding(d.station, site, "automatic") :
           site \in IF \E b \in linked : b.station = d.station
                    THEN {}
                    ELSE ChooseAutomaticMatch(ProposeMatches(d)) \ {b.site : b \in linked}}
  IN  FoldLeft(Link, bindings, found)

BindDiscoveredStations(found) ==
  /\ bindings' = LinkDiscovered(found)
  /\ CatalogMoves /\ UNCHANGED <<sites, imports>>

CatalogNext ==
  \/ \E file \in Files : ImportCatalogFile(file)
  \/ \E s \in sites, url \in Pastes : AddManualLink(s.id, url)
  \/ \E found \in Discoveries : BindDiscoveredStations(found)

-------------------------------------------------------------------------------
\* One station, one site: whatever was imported, pasted and discovered in
\* whatever order, no two stations are counted for one site and no station for
\* two sites, and no link is left without its site (worker.ts:1458, 1307).
OneStationPerSite ==
  /\ \A a, b \in bindings : a.site = b.site \/ a.station = b.station => a = b
  /\ BoundSites \subseteq {s.id : s \in sites}
=============================================================================
