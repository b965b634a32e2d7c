----------------------------- MODULE RecordsProofs -----------------------------
(* The links of the catalogue and the counts of visitors, for any files,       *)
(* discoveries and rows, and sequences of any length; the spells of a port, for *)
(* any snapshots; the port-minutes of a station, for any readings; the figures   *)
(* of a window and the order of the ranking, for any stations and pages.  What  *)
(* folds along a file is unfolded into its steps (FoldExists), and what every   *)
(* step keeps follows by induction over the numbers, for a property given as a  *)
(* set of them.                                                                 *)
EXTENDS Records, IntervalsProofs, SequenceTheorems

\* The links of a catalogue that is finite.
CatalogInv == OneStationPerSite /\ IsFiniteSet(sites)

\* Accepted rows of one site share no time.
Apart(accepted) ==
  \A i, j \in DOMAIN accepted : i # j /\ accepted[i].site = accepted[j].site => ~Overlap(accepted[i].period, accepted[j].period)

\* A preview has a name of its own that no data set has yet, and one data set
\* of an import, at most, is authoritative.
Previews ==
  /\ visitSteps \in Nat
  /\ \A p \in pending : p.id \in 1..visitSteps /\ Apart(p.rows) /\ \A d \in datasets : d.id # p.id
  /\ \A p, q \in pending : p.id = q.id => p = q
Datasets ==
  /\ \A d \in datasets : /\ d.id \in 0..visitSteps /\ d.authoritative \in BOOLEAN
                          /\ d = [id |-> d.id, authoritative |-> d.authoritative, definition |-> d.definition]
  /\ \A d, e \in datasets : d.authoritative /\ e.authoritative /\ d.id # Manual /\ e.id # Manual => d.id = e.id
Filed ==
  /\ \A v \in visits : \E d \in datasets : d.id = v.dataset
  /\ \A v, w \in visits :
       v.dataset = w.dataset /\ v.dataset # Manual /\ v.site = w.site /\ v # w => ~Overlap(v.period, w.period)
VisitsInv == Previews /\ Datasets /\ Filed

Largest(s) == CHOOSE x \in s : \A y \in s : x >= y

\* The largest of numbers is one no other exceeds.
LEMMA LargestIs ==
  ASSUME NEW s \in SUBSET Int, NEW m \in s, \A y \in s : m >= y PROVE Largest(s) = m
  <1>1. \A x \in s : (\A y \in s : x >= y) => x = m
    OBVIOUS
  <1> QED BY <1>1 DEF Largest

LEMMA LargestIn ==
  ASSUME NEW n \in Nat, NEW s \in SUBSET (1..n), s # {} PROVE Largest(s) \in s
  <1> DEFINE T == {m \in Nat : \A t \in SUBSET (1..m) : t # {} => \E x \in t : \A y \in t : x >= y}
  <1>1. 0 \in T
    <2>1. 1..0 = {}
      OBVIOUS
    <2> QED BY <2>1
  <1>2. ASSUME NEW m \in Nat, m \in T, NEW t \in SUBSET (1..(m + 1)), t # {}
        PROVE  \E x \in t : \A y \in t : x >= y
    <2>1. CASE m + 1 \in t
      BY <2>1
    <2>2. CASE m + 1 \notin t
      <3>1. t \in SUBSET (1..m)
        BY <2>2
      <3> QED BY <1>2, <3>1
    <2> QED BY <2>1, <2>2
  <1>3. \A m \in Nat : m \in T
    <2>1. ASSUME NEW m \in Nat, m \in T PROVE m + 1 \in T
      BY <1>2, <2>1
    <2> HIDE DEF T
    <2> QED BY <1>1, <2>1, SetInduction
  <1>4. \E x \in s : \A y \in s : x >= y
    BY <1>3
  <1> QED BY <1>4 DEF Largest

LEMMA UptoLargest ==
  ASSUME NEW k \in Nat, k # 0 PROVE Largest(1..k) = k /\ (1..k) \ {k} = 1..(k - 1) /\ 1..k # {}
  <1>1. 1..k \in SUBSET Int /\ k \in 1..k /\ \A y \in 1..k : k >= y
    OBVIOUS
  <1>2. Largest(1..k) = k
    BY <1>1, LargestIs
  <1> QED BY <1>1, <1>2

\* A step folded over every set of the numbers up to n, the largest last: what
\* the community modules fold a sequence with.
Folds(n, base, step, it) ==
  \A s \in SUBSET (1..n) : it[s] = IF s = {} THEN base ELSE step[<<Largest(s), it[s \ {Largest(s)}]>>]

CanFold(n, S, base, step) == \E it \in [SUBSET (1..n) -> S] : Folds(n, base, step, it)

LEMMA FoldExists ==
  ASSUME NEW n \in Nat, NEW S, NEW base \in S, NEW step \in [(1..n) \X S -> S]
  PROVE  CanFold(n, S, base, step)
  <1> DEFINE T == {m \in Nat : m <= n => CanFold(m, S, base, step)}
  <1>1. CanFold(0, S, base, step)
    <2> DEFINE it == [s \in SUBSET (1..0) |-> base]
    <2>1. it \in [SUBSET (1..0) -> S] /\ Folds(0, base, step, it)
      BY DEF Folds
    <2> QED BY <2>1 DEF CanFold
  <1>2. ASSUME NEW m \in Nat, CanFold(m, S, base, step), m + 1 <= n
        PROVE  CanFold(m + 1, S, base, step)
    <2>0. m <= n /\ m + 1 \in 1..n
      BY <1>2
    <2>1. PICK old \in [SUBSET (1..m) -> S] : Folds(m, base, step, old)
      BY <1>2 DEF CanFold
    <2> DEFINE it == [s \in SUBSET (1..(m + 1)) |->
                        IF m + 1 \in s THEN step[<<m + 1, old[s \ {m + 1}]>>] ELSE old[s]]
    <2>2. ASSUME NEW s \in SUBSET (1..(m + 1)), m + 1 \in s
          PROVE  Largest(s) = m + 1 /\ s \ {m + 1} \in SUBSET (1..m) /\ s # {}
      <3>1. s \in SUBSET Int /\ \A y \in s : m + 1 >= y
        OBVIOUS
      <3>2. Largest(s) = m + 1
        BY <2>2, <3>1, LargestIs
      <3> QED BY <2>2, <3>2
    <2>3. ASSUME NEW s \in SUBSET (1..(m + 1)), m + 1 \notin s PROVE s \in SUBSET (1..m)
      BY <2>3
    <2>4. ASSUME NEW s \in SUBSET (1..(m + 1))
          PROVE  (IF m + 1 \in s THEN step[<<m + 1, old[s \ {m + 1}]>>] ELSE old[s]) \in S
      <3>1. CASE m + 1 \in s
        <4>1. <<m + 1, old[s \ {m + 1}]>> \in (1..n) \X S
          BY <2>0, <2>2, <3>1
        <4> QED BY <3>1, <4>1
      <3>2. CASE m + 1 \notin s
        BY <2>3, <3>2
      <3> QED BY <3>1, <3>2
    <2>5. it \in [SUBSET (1..(m + 1)) -> S]
      BY <2>4
    <2>6. ASSUME NEW s \in SUBSET (1..m) PROVE it[s] = old[s] /\ s \in SUBSET (1..(m + 1)) /\ m + 1 \notin s
      OBVIOUS
    <2>7. ASSUME NEW s \in SUBSET (1..(m + 1))
          PROVE  it[s] = IF s = {} THEN base ELSE step[<<Largest(s), it[s \ {Largest(s)}]>>]
      <3>1. CASE m + 1 \in s
        <4>1. it[s] = step[<<m + 1, old[s \ {m + 1}]>>]
          BY <3>1
        <4> QED BY <2>2, <2>6, <3>1, <4>1
      <3>2. CASE m + 1 \notin s
        <4>1. s \in SUBSET (1..m) /\ s \ {Largest(s)} \in SUBSET (1..m)
          BY <2>3, <3>2
        <4>2. old[s] = IF s = {} THEN base ELSE step[<<Largest(s), old[s \ {Largest(s)}]>>]
          BY <2>1, <4>1 DEF Folds
        <4> HIDE DEF it
        <4> QED BY <2>6, <4>1, <4>2
      <3> QED BY <3>1, <3>2
    <2> HIDE DEF it
    <2>8. Folds(m + 1, base, step, it)
      BY <2>7 DEF Folds
    <2> QED BY <2>5, <2>8 DEF CanFold
  <1>3. \A m \in Nat : m \in T
    <2>1. 0 \in T /\ \A m \in Nat : m \in T => m + 1 \in T
      BY <1>1, <1>2
    <2> HIDE DEF T
    <2> QED BY <2>1, SetInduction
  <1> QED BY <1>3

Upserted(known, row) == {s \in known : s.id # row.id} \cup {row}

\* Folding a catalogue file over the sites: one row after another.
LEMMA UpsertFold ==
  ASSUME NEW old, NEW n \in Nat, NEW r, DOMAIN r = 1..n
  PROVE  \E u :
           /\ u[0] = old /\ UpsertFromCatalog(old, r) = u[n]
           /\ \A k \in 1..n : u[k] = Upserted(u[k - 1], r[k])
  <1> DEFINE S == SUBSET (old \cup {r[i] : i \in 1..n})
             step == [p \in (1..n) \X S |-> {s \in p[2] : s.id # r[p[1]].id} \cup {r[p[1]]}]
             Is(it) == it = [s \in SUBSET (1..n) |->
                              IF s = {} THEN old ELSE {t \in it[s \ {Largest(s)}] : t.id # r[Largest(s)].id} \cup {r[Largest(s)]}]
  <1>1. \E it : Is(it)
    <2>1. old \in S
      OBVIOUS
    <2>2. step \in [(1..n) \X S -> S]
      OBVIOUS
    <2>3. PICK it \in [SUBSET (1..n) -> S] : Folds(n, old, step, it)
      <3> HIDE DEF S, step
      <3> QED BY <2>1, <2>2, FoldExists DEF CanFold
    <2>4. ASSUME NEW s \in SUBSET (1..n), s # {}
          PROVE  it[s] = {t \in it[s \ {Largest(s)}] : t.id # r[Largest(s)].id} \cup {r[Largest(s)]}
      <3>1. Largest(s) \in 1..n /\ s \ {Largest(s)} \in SUBSET (1..n)
        BY <2>4, LargestIn
      <3>2. it[s] = step[<<Largest(s), it[s \ {Largest(s)}]>>]
        BY <2>3, <2>4 DEF Folds
      <3> QED BY <3>1, <3>2
    <2>5. it[{}] = old
      BY <2>3 DEF Folds
    <2>6. Is(it)
      BY <2>4, <2>5
    <2> QED BY <2>6
  <1>2. UpsertFromCatalog(old, r) = (CHOOSE it : Is(it))[1..n]
    BY DEF UpsertFromCatalog, FoldLeft, MapThenFoldSet, Max, Largest
  <1>3. PICK it : Is(it) /\ it = CHOOSE i : Is(i)
    <2> HIDE DEF Is
    <2> QED BY <1>1
  <1>4. ASSUME NEW k \in 1..n
        PROVE  it[1..k] = {t \in it[1..(k - 1)] : t.id # r[k].id} \cup {r[k]}
    <2>0. k \in Nat /\ k # 0 /\ 1..k \in SUBSET (1..n)
      OBVIOUS
    <2>1. Largest(1..k) = k /\ (1..k) \ {k} = 1..(k - 1) /\ 1..k # {} /\ 1..k \in SUBSET (1..n)
      <3> HIDE DEF step, Is
      <3> QED BY <2>0, UptoLargest
    <2>2. it[1..k] = IF 1..k = {} THEN old
                     ELSE {t \in it[(1..k) \ {Largest(1..k)}] : t.id # r[Largest(1..k)].id} \cup {r[Largest(1..k)]}
      BY <1>3, <2>1
    <2> QED BY <2>1, <2>2
  <1>5. it[1..0] = old
    BY <1>3
  <1> DEFINE u == [k \in 0..n |-> it[1..k]]
  <1>6. u[0] = old /\ u[n] = it[1..n] /\ \A k \in 1..n : u[k] = it[1..k] /\ u[k - 1] = it[1..(k - 1)]
    BY <1>5
  <1>7. UpsertFromCatalog(old, r) = u[n]
    BY <1>2, <1>3, <1>6
  <1>8. \A k \in 1..n : u[k] = Upserted(u[k - 1], r[k])
    <2> HIDE DEF u, Is
    <2> QED BY <1>4, <1>6 DEF Upserted
  <1> HIDE DEF u
  <1> QED BY <1>6, <1>7, <1>8

-----------------------------------------------------------------------------
(* The catalogue and its links. *)

LEMMA SequenceIs ==
  ASSUME NEW r, r \in Seq(ToSet(r))
  PROVE  Len(r) \in Nat /\ DOMAIN r = 1..Len(r) /\ \A i \in 1..Len(r) : r[i] \in ToSet(r)
  BY DEF ToSet

Ids(s) == {t.id : t \in s}

\* No site is lost by an import, and a finite catalogue stays finite.
LEMMA UpsertKeeps ==
  ASSUME NEW old, IsFiniteSet(old), NEW r, r \in Seq(ToSet(r))
  PROVE  IsFiniteSet(UpsertFromCatalog(old, r)) /\ Ids(old) \subseteq Ids(UpsertFromCatalog(old, r))
  <1> DEFINE n == Len(r)
  <1>1. n \in Nat /\ DOMAIN r = 1..n
    BY SequenceIs
  <1>2. PICK u : /\ u[0] = old /\ UpsertFromCatalog(old, r) = u[n]
                 /\ \A k \in 1..n : u[k] = Upserted(u[k - 1], r[k])
    <2> HIDE DEF n
    <2> QED BY <1>1, UpsertFold
  <1> DEFINE T == {k \in Nat : k <= n => IsFiniteSet(u[k]) /\ Ids(old) \subseteq Ids(u[k])}
  <1>3. ASSUME NEW k \in Nat, IsFiniteSet(u[k]), Ids(old) \subseteq Ids(u[k]), k + 1 <= n
        PROVE  IsFiniteSet(u[k + 1]) /\ Ids(old) \subseteq Ids(u[k + 1])
    <2>1. k + 1 \in 1..n /\ (k + 1) - 1 = k
      BY <1>1, <1>3
    <2>2. u[k + 1] = {s \in u[k] : s.id # r[k + 1].id} \cup {r[k + 1]}
      BY <1>2, <2>1 DEF Upserted
    <2>3. \A v \in SUBSET u[k] : \A row : IsFiniteSet(v \cup {row})
      <3> TAKE v \in SUBSET u[k]
      <3> TAKE row
      <3>1. IsFiniteSet(v)
        BY <1>3, FS_Subset
      <3> QED BY <3>1, FS_AddElement
    <2>4. IsFiniteSet(u[k + 1])
      <3>1. {s \in u[k] : s.id # r[k + 1].id} \in SUBSET u[k]
        OBVIOUS
      <3> QED BY <2>2, <2>3, <3>1
    <2>5. Ids(u[k]) \subseteq Ids(u[k + 1])
      BY <2>2 DEF Ids
    <2> QED BY <1>3, <2>4, <2>5
  <1>4. 0 \in T /\ \A k \in Nat : k \in T => k + 1 \in T
    BY <1>1, <1>2, <1>3
  <1>5. \A k \in Nat : k \in T
    <2> HIDE DEF T
    <2> QED BY <1>4, SetInduction
  <1> QED BY <1>1, <1>2, <1>5

\* A certain match is one site of the catalogue, or none.
LEMMA MatchIsOne ==
  ASSUME NEW d, IsFiniteSet(sites)
  PROVE  LET match == ChooseAutomaticMatch(ProposeMatches(d)) IN
         match \subseteq Ids(sites) /\ \A x, y \in match : x = y
  <1> DEFINE all == {[site |-> s.id, confidence |-> Confidence(d, s)] : s \in sites}
             proposals == ProposeMatches(d)
             confirmed == {p \in proposals : p.confidence >= AutoConfirm}
  <1>1. IsFiniteSet(all)
    <2> DEFINE f == [s \in sites |-> [site |-> s.id, confidence |-> Confidence(d, s)]]
    <2>1. f \in Surjection(sites, all)
      BY DEF Surjection
    <2> HIDE DEF f, all
    <2> QED BY <2>1, FS_Surjection
  <1>2. confirmed \subseteq all /\ \A p \in all : p.site \in Ids(sites)
    BY DEF ProposeMatches, Ids
  <1>3. IsFiniteSet(confirmed)
    BY <1>1, <1>2, FS_Subset
  <1> HIDE DEF proposals, all
  <1>4. ChooseAutomaticMatch(proposals) = IF Cardinality(confirmed) = 1 THEN {p.site : p \in confirmed} ELSE {}
    BY DEF ChooseAutomaticMatch
  <1>5. CASE Cardinality(confirmed) = 1
    <2>1. PICK p : confirmed = {p}
      BY <1>3, <1>5, FS_Singleton
    <2> HIDE DEF confirmed
    <2>2. ChooseAutomaticMatch(proposals) = {p.site} /\ p.site \in Ids(sites)
      BY <1>2, <1>4, <1>5, <2>1
    <2> QED BY <2>2 DEF proposals
  <1>6. CASE Cardinality(confirmed) # 1
    BY <1>4, <1>6 DEF proposals
  <1> QED BY <1>5, <1>6

\* What one discovered station adds to the links.
Added(linked, d, match) ==
  {Binding(d.station, site, "automatic") :
     site \in IF \E b \in linked : b.station = d.station THEN {} ELSE match \ {b.site : b \in linked}}
Linked(linked, d, match) == linked \cup Added(linked, d, match)

LEMMA LinkFold ==
  ASSUME NEW n \in Nat, NEW found, DOMAIN found = 1..n
  PROVE  \E u :
           /\ u[0] = bindings /\ LinkDiscovered(found) = u[n]
           /\ \A k \in 1..n : u[k] = Linked(u[k - 1], found[k], ChooseAutomaticMatch(ProposeMatches(found[k])))
  <1> DEFINE Match(i) == ChooseAutomaticMatch(ProposeMatches(found[i]))
             S == SUBSET (bindings \cup UNION {{Binding(found[i].station, site, "automatic") : site \in Match(i)} : i \in 1..n})
             step == [p \in (1..n) \X S |-> p[2] \cup Added(p[2], found[p[1]], Match(p[1]))]
             Is(it) == it = [s \in SUBSET (1..n) |->
                              IF s = {} THEN bindings
                              ELSE it[s \ {Largest(s)}] \cup Added(it[s \ {Largest(s)}], found[Largest(s)], Match(Largest(s)))]
  <1>1. \E it : Is(it)
    <2>1. bindings \in S
      OBVIOUS
    <2>2. ASSUME NEW i \in 1..n, NEW l \in S PROVE l \cup Added(l, found[i], Match(i)) \in S
      <3> HIDE DEF Match
      <3>1. Added(l, found[i], Match(i)) \subseteq {Binding(found[i].station, site, "automatic") : site \in Match(i)}
        BY DEF Added
      <3> QED BY <3>1
    <2>3. step \in [(1..n) \X S -> S]
      <3> HIDE DEF S, Match
      <3> QED BY <2>2
    <2>4. PICK it \in [SUBSET (1..n) -> S] : Folds(n, bindings, step, it)
      <3> HIDE DEF S, step
      <3> QED BY <2>1, <2>3, FoldExists DEF CanFold
    <2> HIDE DEF S, Match
    <2>5. ASSUME NEW s \in SUBSET (1..n), s # {}
          PROVE  it[s] = it[s \ {Largest(s)}] \cup Added(it[s \ {Largest(s)}], found[Largest(s)], Match(Largest(s)))
      <3>1. Largest(s) \in 1..n /\ s \ {Largest(s)} \in SUBSET (1..n)
        BY <2>5, LargestIn
      <3>2. it[s] = step[<<Largest(s), it[s \ {Largest(s)}]>>]
        BY <2>4, <2>5 DEF Folds
      <3> QED BY <3>1, <3>2
    <2>6. it[{}] = bindings
      BY <2>4 DEF Folds
    <2>7. Is(it)
      BY <2>5, <2>6
    <2> QED BY <2>7
  <1>2. LinkDiscovered(found) = (CHOOSE it : Is(it))[1..n]
    BY DEF LinkDiscovered, Added, FoldLeft, MapThenFoldSet, Max, Largest
  <1>3. PICK it : Is(it) /\ it = CHOOSE i : Is(i)
    <2> HIDE DEF Is
    <2> QED BY <1>1
  <1> HIDE DEF Match
  <1>4. ASSUME NEW k \in 1..n PROVE it[1..k] = it[1..(k - 1)] \cup Added(it[1..(k - 1)], found[k], Match(k))
    <2>0. k \in Nat /\ k # 0 /\ 1..k \in SUBSET (1..n)
      OBVIOUS
    <2>1. Largest(1..k) = k /\ (1..k) \ {k} = 1..(k - 1) /\ 1..k # {} /\ 1..k \in SUBSET (1..n)
      <3> HIDE DEF step, Is
      <3> QED BY <2>0, UptoLargest
    <2>2. it[1..k] = IF 1..k = {} THEN bindings
                     ELSE it[(1..k) \ {Largest(1..k)}] \cup Added(it[(1..k) \ {Largest(1..k)}], found[Largest(1..k)], Match(Largest(1..k)))
      BY <1>3, <2>1
    <2> QED BY <2>1, <2>2
  <1>5. it[1..0] = bindings
    BY <1>3
  <1> DEFINE u == [k \in 0..n |-> it[1..k]]
  <1>6. u[0] = bindings /\ u[n] = it[1..n] /\ \A k \in 1..n : u[k] = it[1..k] /\ u[k - 1] = it[1..(k - 1)]
    BY <1>5
  <1>7. LinkDiscovered(found) = u[n]
    BY <1>2, <1>3, <1>6
  <1>8. \A k \in 1..n : u[k] = Linked(u[k - 1], found[k], Match(k))
    <2> HIDE DEF u, Is
    <2> QED BY <1>4, <1>6 DEF Linked
  <1> HIDE DEF u
  <1> QED BY <1>6, <1>7, <1>8 DEF Match

\* What a set of links must keep.
OneLink(linked) ==
  /\ \A a, b \in linked : a.site = b.site \/ a.station = b.station => a = b
  /\ \A b \in linked : b.site \in Ids(sites)

LEMMA AddedKeeps ==
  ASSUME NEW linked, OneLink(linked), NEW d, NEW match, match \subseteq Ids(sites), \A x, y \in match : x = y
  PROVE  OneLink(linked \cup Added(linked, d, match))
  <1>1. CASE \E b \in linked : b.station = d.station
    <2>1. Added(linked, d, match) = {}
      BY <1>1 DEF Added
    <2>2. linked \cup Added(linked, d, match) = linked
      BY <2>1
    <2> QED BY <2>2
  <1>2. CASE ~\E b \in linked : b.station = d.station
    <2>1. Added(linked, d, match) = {Binding(d.station, site, "automatic") : site \in match \ {b.site : b \in linked}}
      BY <1>2 DEF Added
    <2>2. ASSUME NEW a \in Added(linked, d, match)
          PROVE  /\ a.station = d.station /\ a.site \in match
                 /\ a = Binding(d.station, a.site, "automatic")
                 /\ \A b \in linked : b.site # a.site
      BY <2>1 DEF Binding
    <2>3. \A a, b \in Added(linked, d, match) : a = b
      BY <2>2
    <2> HIDE DEF Added
    <2> QED BY <1>2, <2>2, <2>3 DEF OneLink
  <1> QED BY <1>1, <1>2

LEMMA LinkKeeps ==
  ASSUME CatalogInv, NEW found, found \in Seq(ToSet(found))
  PROVE  OneLink(LinkDiscovered(found))
  <1> DEFINE n == Len(found)
  <1>1. n \in Nat /\ DOMAIN found = 1..n
    BY SequenceIs
  <1>2. PICK u : /\ u[0] = bindings /\ LinkDiscovered(found) = u[n]
                 /\ \A k \in 1..n : u[k] = Linked(u[k - 1], found[k], ChooseAutomaticMatch(ProposeMatches(found[k])))
    <2> HIDE DEF n
    <2> QED BY <1>1, LinkFold
  <1> DEFINE T == {k \in Nat : k <= n => OneLink(u[k])}
  <1>3. OneLink(u[0])
    BY <1>2 DEF CatalogInv, OneStationPerSite, OneLink, BoundSites, Ids
  <1>4. ASSUME NEW k \in Nat, OneLink(u[k]), k + 1 <= n PROVE OneLink(u[k + 1])
    <2>1. k + 1 \in 1..n /\ (k + 1) - 1 = k
      BY <1>1, <1>4
    <2> DEFINE match == ChooseAutomaticMatch(ProposeMatches(found[k + 1]))
    <2>2. u[k + 1] = u[k] \cup Added(u[k], found[k + 1], match)
      BY <1>2, <2>1 DEF Linked
    <2>3. match \subseteq Ids(sites) /\ \A x, y \in match : x = y
      BY MatchIsOne DEF CatalogInv
    <2> HIDE DEF match
    <2> QED BY <1>4, <2>2, <2>3, AddedKeeps
  <1>5. 0 \in T /\ \A k \in Nat : k \in T => k + 1 \in T
    BY <1>1, <1>3, <1>4
  <1>6. \A k \in Nat : k \in T
    <2> HIDE DEF T
    <2> QED BY <1>5, SetInduction
  <1> QED BY <1>1, <1>2, <1>6

\* Every step of the catalogue keeps the links apart, and the study and the
\* counts of visitors touch neither.
LEMMA CatalogKept ==
  ASSUME CatalogAssumption, CatalogInv, [RecordsNext]_recordsVars PROVE CatalogInv'
  <1> USE DEF CatalogInv, OneStationPerSite, BoundSites
  <1>1. CASE UNCHANGED <<sites, bindings>>
    BY <1>1
  <1>2. ASSUME NEW file \in Files, ImportCatalogFile(file) PROVE CatalogInv'
    <2>1. sites' = UpsertFromCatalog(sites, file.rows) /\ bindings' = bindings /\ file.rows \in Seq(ToSet(file.rows))
      BY <1>2 DEF ImportCatalogFile, CatalogAssumption
    <2>2. IsFiniteSet(sites') /\ Ids(sites) \subseteq Ids(sites')
      BY <2>1, UpsertKeeps
    <2> QED BY <2>1, <2>2 DEF Ids
  <1>3. ASSUME NEW s \in sites, NEW url \in Pastes, AddManualLink(s.id, url) PROVE CatalogInv'
    <2>1. /\ sites' = sites /\ s.id \notin {b.site : b \in bindings}
          /\ url.station \notin {b.station : b \in bindings}
          /\ bindings' = bindings \cup {Binding(url.station, s.id, "user")}
      BY <1>3 DEF AddManualLink, BoundStations
    <2>2. /\ Binding(url.station, s.id, "user").site = s.id
          /\ Binding(url.station, s.id, "user").station = url.station
      BY DEF Binding
    <2> QED BY <2>1, <2>2
  <1>4. ASSUME NEW found \in Discoveries, BindDiscoveredStations(found) PROVE CatalogInv'
    <2>1. bindings' = LinkDiscovered(found) /\ sites' = sites /\ found \in Seq(ToSet(found))
      BY <1>4 DEF BindDiscoveredStations, CatalogAssumption
    <2>2. OneLink(LinkDiscovered(found))
      BY <2>1, LinkKeeps
    <2> QED BY <2>1, <2>2 DEF OneLink, Ids
  <1>5. CatalogNext => CatalogInv'
    BY <1>2, <1>3, <1>4 DEF CatalogNext
  <1>6. CASE RecordsNext /\ ~CatalogNext
    <2>1. UNCHANGED <<sites, bindings>>
      BY <1>6 DEF RecordsNext, StudyStep, CatalogStep, VisitsStep, VisitsNext, catalogVars, VisitsMove,
           PreviewVisitImport, CommitVisitImport, AddManualVisit, WorkerRestarts
    <2> QED BY <1>1, <2>1
  <1>7. CASE UNCHANGED recordsVars
    BY <1>1, <1>7 DEF recordsVars, catalogVars
  <1> QED BY <1>5, <1>6, <1>7

\* Whatever files, pasted links and discoveries come in whatever order, no two
\* stations are counted for one site, no station for two, and no link is left
\* without its site (worker.ts:1458, 1307).
THEOREM OneLinkPerSite ==
  ASSUME CatalogAssumption PROVE RecordsSpec => []OneStationPerSite
  <1>1. RecordsInit => CatalogInv
    BY FS_EmptySet DEF RecordsInit, CatalogInit, CatalogInv, OneStationPerSite, BoundSites
  <1>2. CatalogInv /\ [RecordsNext]_recordsVars => CatalogInv'
    BY CatalogKept
  <1>3. CatalogInv => OneStationPerSite
    BY DEF CatalogInv
  <1> QED BY <1>1, <1>2, <1>3, PTL DEF RecordsSpec

-----------------------------------------------------------------------------
(* The counts of visitors. *)

\* Rows with a period that can be read.
Timed(rowsOf) == \A row \in rowsOf : row.period.lo \in Int /\ row.period.hi \in Int

\* What overlaps is overlapped.
LEMMA OverlapIsMutual ==
  ASSUME NEW a, NEW b, a.lo \in Int, a.hi \in Int, b.lo \in Int, b.hi \in Int
  PROVE  Overlap(a, b) <=> Overlap(b, a)
  <1>1. /\ Iv!Higher(a.lo, b.lo) = Iv!Higher(b.lo, a.lo)
        /\ Iv!Lower(a.hi, b.hi) = Iv!Lower(b.hi, a.hi)
    BY DEF Iv!Higher, Iv!Lower
  <1>2. Iv!Intersect(a, b) = Iv!Intersect(b, a)
    BY <1>1 DEF Iv!Intersect
  <1> QED BY <1>2 DEF Overlap

\* What one row of a file adds to the rows accepted before it.
Accepted(accepted, row) ==
  IF Sound(row) /\ ~\E a \in ToSet(accepted) : a.site = row.site /\ Overlap(a.period, row.period)
  THEN Append(accepted, row) ELSE accepted

LEMMA AcceptFold ==
  ASSUME NEW n \in Nat, NEW r, DOMAIN r = 1..n
  PROVE  \E u :
           /\ u[0] = <<>> /\ ValidateVisitRows(r) = u[n]
           /\ \A k \in 1..n : u[k] = Accepted(u[k - 1], r[k])
  <1> DEFINE S == Seq({r[i] : i \in 1..n})
             step == [p \in (1..n) \X S |-> Accepted(p[2], r[p[1]])]
             Is(it) == it = [s \in SUBSET (1..n) |->
                              IF s = {} THEN <<>> ELSE Accepted(it[s \ {Largest(s)}], r[Largest(s)])]
  <1>1. \E it : Is(it)
    <2>1. <<>> \in S
      OBVIOUS
    <2>2. ASSUME NEW i \in 1..n, NEW l \in S PROVE Accepted(l, r[i]) \in S
      BY DEF Accepted
    <2>3. step \in [(1..n) \X S -> S]
      <3> HIDE DEF S
      <3> QED BY <2>2
    <2>4. PICK it \in [SUBSET (1..n) -> S] : Folds(n, <<>>, step, it)
      <3> HIDE DEF S, step
      <3> QED BY <2>1, <2>3, FoldExists DEF CanFold
    <2> HIDE DEF S
    <2>5. ASSUME NEW s \in SUBSET (1..n), s # {}
          PROVE  it[s] = Accepted(it[s \ {Largest(s)}], r[Largest(s)])
      <3>1. Largest(s) \in 1..n /\ s \ {Largest(s)} \in SUBSET (1..n)
        BY <2>5, LargestIn
      <3>2. it[s] = step[<<Largest(s), it[s \ {Largest(s)}]>>]
        BY <2>4, <2>5 DEF Folds
      <3> QED BY <3>1, <3>2
    <2>6. it[{}] = <<>>
      BY <2>4 DEF Folds
    <2>7. Is(it)
      BY <2>5, <2>6
    <2> QED BY <2>7
  <1>2. ValidateVisitRows(r) = (CHOOSE it : Is(it))[1..n]
    BY DEF ValidateVisitRows, Accepted, FoldLeft, MapThenFoldSet, Max, Largest
  <1>3. PICK it : Is(it) /\ it = CHOOSE i : Is(i)
    <2> HIDE DEF Is
    <2> QED BY <1>1
  <1>4. ASSUME NEW k \in 1..n PROVE it[1..k] = Accepted(it[1..(k - 1)], r[k])
    <2>0. k \in Nat /\ k # 0 /\ 1..k \in SUBSET (1..n)
      OBVIOUS
    <2>1. Largest(1..k) = k /\ (1..k) \ {k} = 1..(k - 1) /\ 1..k # {} /\ 1..k \in SUBSET (1..n)
      <3> HIDE DEF step, Is
      <3> QED BY <2>0, UptoLargest
    <2>2. it[1..k] = IF 1..k = {} THEN <<>> ELSE Accepted(it[(1..k) \ {Largest(1..k)}], r[Largest(1..k)])
      BY <1>3, <2>1
    <2> QED BY <2>1, <2>2
  <1>5. it[1..0] = <<>>
    BY <1>3
  <1> DEFINE u == [k \in 0..n |-> it[1..k]]
  <1>6. u[0] = <<>> /\ u[n] = it[1..n] /\ \A k \in 1..n : u[k] = it[1..k] /\ u[k - 1] = it[1..(k - 1)]
    BY <1>5
  <1>7. ValidateVisitRows(r) = u[n]
    BY <1>2, <1>3, <1>6
  <1>8. \A k \in 1..n : u[k] = Accepted(u[k - 1], r[k])
    <2> HIDE DEF u, Is
    <2> QED BY <1>4, <1>6
  <1> HIDE DEF u
  <1> QED BY <1>6, <1>7, <1>8

\* Rows accepted so far: of the file, and apart.
Good(l, rowsOf) == l \in Seq(rowsOf) /\ Apart(l)

LEMMA AcceptKeeps ==
  ASSUME NEW rowsOf, Timed(rowsOf), NEW l, Good(l, rowsOf), NEW row \in rowsOf
  PROVE  Good(Accepted(l, row), rowsOf)
  <1>1. CASE Accepted(l, row) = l
    BY <1>1
  <1>2. CASE Accepted(l, row) # l
    <2>1. /\ Accepted(l, row) = Append(l, row)
          /\ \A a \in ToSet(l) : a.site = row.site => ~Overlap(a.period, row.period)
      BY <1>2 DEF Accepted
    <2> DEFINE m == Append(l, row)
               n == Len(l)
    <2>2. /\ m \in Seq(rowsOf) /\ n \in Nat /\ DOMAIN l = 1..n /\ DOMAIN m = 1..(n + 1)
          /\ m[n + 1] = row /\ \A i \in 1..n : m[i] = l[i] /\ l[i] \in rowsOf
      BY DEF Good
    <2>3. ASSUME NEW i \in 1..n, l[i].site = row.site
          PROVE  ~Overlap(l[i].period, row.period) /\ ~Overlap(row.period, l[i].period)
      <3>1. l[i] \in ToSet(l)
        BY <2>2 DEF ToSet
      <3>2. ~Overlap(l[i].period, row.period)
        BY <2>1, <2>3, <3>1
      <3>3. Overlap(l[i].period, row.period) <=> Overlap(row.period, l[i].period)
        BY <2>2, OverlapIsMutual DEF Timed
      <3> QED BY <3>2, <3>3
    <2> HIDE DEF m, n
    <2>4. ASSUME NEW i \in 1..(n + 1), NEW j \in 1..(n + 1), i # j, m[i].site = m[j].site
          PROVE  ~Overlap(m[i].period, m[j].period)
      <3>1. CASE i = n + 1
        <4>1. j \in 1..n
          BY <2>2, <2>4, <3>1
        <4>2. m[i] = row /\ m[j] = l[j] /\ l[j].site = row.site
          BY <2>2, <2>4, <3>1, <4>1
        <4>3. ~Overlap(row.period, l[j].period)
          BY <2>3, <4>1, <4>2
        <4> QED BY <4>2, <4>3
      <3>2. CASE j = n + 1
        <4>1. i \in 1..n
          BY <2>2, <2>4, <3>2
        <4>2. m[j] = row /\ m[i] = l[i] /\ l[i].site = row.site
          BY <2>2, <2>4, <3>2, <4>1
        <4>3. ~Overlap(l[i].period, row.period)
          BY <2>3, <4>1, <4>2
        <4> QED BY <4>2, <4>3
      <3>3. CASE i # n + 1 /\ j # n + 1
        <4>1. i \in 1..n /\ j \in 1..n
          BY <2>2, <3>3
        <4>2. m[i] = l[i] /\ m[j] = l[j] /\ i \in DOMAIN l /\ j \in DOMAIN l
          BY <2>2, <4>1
        <4> QED BY <2>4, <4>2 DEF Good, Apart
      <3> QED BY <3>1, <3>2, <3>3
    <2>5. Apart(m)
      BY <2>2, <2>4 DEF Apart
    <2> QED BY <2>1, <2>2, <2>5 DEF Good, m
  <1> QED BY <1>1, <1>2

\* The rows a preview accepts share no time at a site.
LEMMA AcceptedAreApart ==
  ASSUME NEW r, r \in Seq(ToSet(r)), Timed(ToSet(r))
  PROVE  Good(ValidateVisitRows(r), ToSet(r))
  <1> DEFINE n == Len(r)
  <1>1. n \in Nat /\ DOMAIN r = 1..n /\ \A i \in 1..n : r[i] \in ToSet(r)
    BY SequenceIs
  <1>2. PICK u : /\ u[0] = <<>> /\ ValidateVisitRows(r) = u[n]
                 /\ \A k \in 1..n : u[k] = Accepted(u[k - 1], r[k])
    <2> HIDE DEF n
    <2> QED BY <1>1, AcceptFold
  <1> DEFINE T == {k \in Nat : k <= n => Good(u[k], ToSet(r))}
  <1>3. Good(u[0], ToSet(r))
    BY <1>2 DEF Good, Apart
  <1>4. ASSUME NEW k \in Nat, Good(u[k], ToSet(r)), k + 1 <= n PROVE Good(u[k + 1], ToSet(r))
    <2>1. k + 1 \in 1..n /\ (k + 1) - 1 = k
      BY <1>1, <1>4
    <2>2. u[k + 1] = Accepted(u[k], r[k + 1]) /\ r[k + 1] \in ToSet(r)
      BY <1>1, <1>2, <2>1
    <2> QED BY <1>4, <2>2, AcceptKeeps
  <1>5. 0 \in T /\ \A k \in Nat : k \in T => k + 1 \in T
    BY <1>1, <1>3, <1>4
  <1>6. \A k \in Nat : k \in T
    <2> HIDE DEF T
    <2> QED BY <1>5, SetInduction
  <1> QED BY <1>1, <1>2, <1>6

\* What a data set becomes when another is made authoritative, or is not.
Yielded(d, authoritative) == IF authoritative THEN [d EXCEPT !.authoritative = FALSE] ELSE d

LEMMA YieldedIs ==
  ASSUME NEW d, d = [id |-> d.id, authoritative |-> d.authoritative, definition |-> d.definition],
         d.authoritative \in BOOLEAN, NEW authoritative \in BOOLEAN
  PROVE  LET e == Yielded(d, authoritative) IN
         /\ e.id = d.id /\ e.authoritative \in BOOLEAN
         /\ e.authoritative <=> d.authoritative /\ ~authoritative
         /\ e = [id |-> e.id, authoritative |-> e.authoritative, definition |-> e.definition]
  BY DEF Yielded

LEMMA PreviewKept ==
  ASSUME VisitsAssumption, VisitsInv, NEW file \in VisitFiles, PreviewVisitImport(file) PROVE VisitsInv'
  <1> DEFINE new == [id |-> visitSteps + 1, rows |-> ValidateVisitRows(file), overlaps |-> OverlapsExisting(ValidateVisitRows(file))]
  <1>1. /\ pending' = pending \cup {new} /\ visitSteps' = visitSteps + 1
        /\ datasets' = datasets /\ visits' = visits
    BY DEF PreviewVisitImport, VisitsMove
  <1>2. Apart(ValidateVisitRows(file))
    <2>1. file \in Seq(ToSet(file)) /\ Timed(ToSet(file))
      BY DEF VisitsAssumption, Timed
    <2> QED BY <2>1, AcceptedAreApart DEF Good
  <1>3. new.id = visitSteps + 1 /\ Apart(new.rows)
    BY <1>2
  <1> HIDE DEF new
  <1>4. Previews'
    <2>1. visitSteps' \in Nat
      BY <1>1 DEF VisitsInv, Previews
    <2>2. ASSUME NEW p \in pending' PROVE p.id \in 1..visitSteps' /\ Apart(p.rows) /\ \A d \in datasets' : d.id # p.id
      BY <1>1, <1>3 DEF VisitsInv, Previews, Datasets
    <2>3. ASSUME NEW p \in pending', NEW q \in pending', p.id = q.id PROVE p = q
      BY <1>1, <1>3, <2>3 DEF VisitsInv, Previews
    <2> QED BY <2>1, <2>2, <2>3 DEF Previews
  <1>5. Datasets'
    BY <1>1 DEF VisitsInv, Previews, Datasets
  <1>6. Filed'
    BY <1>1 DEF VisitsInv, Filed
  <1> QED BY <1>4, <1>5, <1>6 DEF VisitsInv

LEMMA CommitKept ==
  ASSUME VisitsInv, NEW preview \in pending, NEW authoritative \in BOOLEAN, CommitVisitImport(preview, authoritative)
  PROVE  VisitsInv'
  <1> DEFINE definition == IF preview.rows = <<>> THEN "other" ELSE preview.rows[1].definition
             new == [id |-> preview.id, authoritative |-> authoritative, definition |-> definition]
             filed == {StoredVisit(preview.id, row) : row \in ToSet(preview.rows)}
  <1>1. /\ pending' = pending \ {preview} /\ visitSteps' = visitSteps + 1
        /\ datasets' = {Yielded(d, authoritative) : d \in datasets} \cup {new}
        /\ visits' = visits \cup filed
    BY DEF CommitVisitImport, VisitsMove, Yielded
  <1>2. /\ new.id = preview.id /\ new.authoritative = authoritative
        /\ new = [id |-> new.id, authoritative |-> new.authoritative, definition |-> new.definition]
    OBVIOUS
  <1> HIDE DEF new
  <1>3. /\ visitSteps \in Nat /\ preview.id \in 1..visitSteps /\ preview.id # Manual
        /\ Apart(preview.rows) /\ \A d \in datasets : d.id # preview.id
    BY DEF VisitsInv, Previews, Manual
  <1>4. ASSUME NEW e \in datasets'
        PROVE  \/ e = new
               \/ \E d \in datasets : /\ e.id = d.id /\ e.authoritative \in BOOLEAN
                                      /\ e.authoritative <=> d.authoritative /\ ~authoritative
                                      /\ e = [id |-> e.id, authoritative |-> e.authoritative, definition |-> e.definition]
    <2>1. CASE e = new
      BY <2>1
    <2>2. CASE e # new
      <3>1. PICK d \in datasets : e = Yielded(d, authoritative)
        BY <1>1, <2>2
      <3> QED BY <3>1, YieldedIs DEF VisitsInv, Datasets
    <2> QED BY <2>1, <2>2
  <1>5. Previews'
    <2>1. visitSteps' \in Nat
      BY <1>1, <1>3
    <2>2. ASSUME NEW p \in pending' PROVE p.id \in 1..visitSteps' /\ Apart(p.rows)
      BY <1>1 DEF VisitsInv, Previews
    <2>3. ASSUME NEW p \in pending', NEW e \in datasets' PROVE e.id # p.id
      <3>1. p \in pending /\ p.id # preview.id /\ \A d \in datasets : d.id # p.id
        BY <1>1 DEF VisitsInv, Previews
      <3> QED BY <1>2, <1>4, <3>1
    <2>4. \A p, q \in pending' : p.id = q.id => p = q
      BY <1>1 DEF VisitsInv, Previews
    <2> QED BY <2>1, <2>2, <2>3, <2>4 DEF Previews
  <1>6. Datasets'
    <2>1. ASSUME NEW e \in datasets'
          PROVE  /\ e.id \in 0..visitSteps' /\ e.authoritative \in BOOLEAN
                 /\ e = [id |-> e.id, authoritative |-> e.authoritative, definition |-> e.definition]
      <3>1. \A d \in datasets : d.id \in 0..visitSteps
        BY DEF VisitsInv, Datasets
      <3> QED BY <1>1, <1>2, <1>3, <1>4, <3>1
    <2>2. ASSUME NEW d \in datasets', NEW e \in datasets',
                 d.authoritative, e.authoritative, d.id # Manual, e.id # Manual
          PROVE  d.id = e.id
      <3>1. \A f, g \in datasets : f.authoritative /\ g.authoritative /\ f.id # Manual /\ g.id # Manual => f.id = g.id
        BY DEF VisitsInv, Datasets
      <3>2. CASE authoritative
        <4>1. d = new /\ e = new
          BY <1>4, <2>2, <3>2
        <4> QED BY <4>1
      <3>3. CASE ~authoritative
        <4>1. d # new /\ e # new
          BY <1>2, <2>2, <3>3
        <4> QED BY <1>4, <2>2, <3>1, <4>1
      <3> QED BY <3>2, <3>3
    <2> QED BY <2>1, <2>2 DEF Datasets
  <1>7. Filed'
    <2>1. ASSUME NEW v \in filed
          PROVE  v.dataset = preview.id /\ \E i \in DOMAIN preview.rows : v = StoredVisit(preview.id, preview.rows[i])
      BY DEF ToSet, StoredVisit
    <2>2. ASSUME NEW v \in visits PROVE \E e \in datasets' : e.id = v.dataset
      <3>1. PICK d \in datasets : d.id = v.dataset
        BY DEF VisitsInv, Filed
      <3>2. Yielded(d, authoritative) \in datasets' /\ Yielded(d, authoritative).id = d.id
        BY <1>1, YieldedIs DEF VisitsInv, Datasets
      <3> QED BY <3>1, <3>2
    <2>3. new \in datasets'
      BY <1>1
    <2>4. \A v \in visits' : \E e \in datasets' : e.id = v.dataset
      BY <1>1, <1>2, <2>1, <2>2, <2>3
    <2>5. \A v \in visits : v.dataset # preview.id
      BY <1>3 DEF VisitsInv, Filed
    <2>6. ASSUME NEW v \in visits', NEW w \in visits',
                 v.dataset = w.dataset, v.dataset # Manual, v.site = w.site, v # w
          PROVE  ~Overlap(v.period, w.period)
      <3>1. CASE v \in visits /\ w \in visits
        BY <2>6, <3>1 DEF VisitsInv, Filed
      <3>2. CASE v \in filed /\ w \in filed
        <4>1. PICK i \in DOMAIN preview.rows : v = StoredVisit(preview.id, preview.rows[i])
          BY <2>1, <3>2
        <4>2. PICK j \in DOMAIN preview.rows : w = StoredVisit(preview.id, preview.rows[j])
          BY <2>1, <3>2
        <4>3. /\ v.site = preview.rows[i].site /\ v.period = preview.rows[i].period
              /\ w.site = preview.rows[j].site /\ w.period = preview.rows[j].period
          BY <4>1, <4>2 DEF StoredVisit
        <4>4. i # j
          BY <2>6, <4>1, <4>2
        <4> QED BY <1>3, <2>6, <4>3, <4>4 DEF Apart
      <3> HIDE DEF filed
      <3> QED BY <1>1, <2>1, <2>5, <2>6, <3>1, <3>2
    <2> QED BY <2>4, <2>6 DEF Filed
  <1> QED BY <1>5, <1>6, <1>7 DEF VisitsInv

LEMMA ManualKept ==
  ASSUME VisitsInv, NEW row, AddManualVisit(row) PROVE VisitsInv'
  <1> DEFINE new == [id |-> Manual, authoritative |-> TRUE, definition |-> row.definition]
             entered == StoredVisit(Manual, row)
  <1>1. /\ pending' = pending /\ visitSteps' = visitSteps + 1
        /\ datasets' = datasets \/ datasets' = datasets \cup {new}
        /\ \E d \in datasets' : d.id = Manual
        /\ visits' \subseteq visits \cup {entered}
    <2>1. /\ pending' = pending /\ visitSteps' = visitSteps + 1
          /\ datasets' = IF \E d \in datasets : d.id = Manual THEN datasets ELSE datasets \cup {new}
          /\ visits' = {v \in visits : ~(v.dataset = Manual /\ v.site = row.site /\ v.period = row.period)} \cup {entered}
      BY DEF AddManualVisit, VisitsMove
    <2>2. new.id = Manual
      OBVIOUS
    <2> HIDE DEF new, entered
    <2> QED BY <2>1, <2>2
  <1>2. /\ new.id = Manual /\ new.authoritative = TRUE
        /\ new = [id |-> new.id, authoritative |-> new.authoritative, definition |-> new.definition]
        /\ entered.dataset = Manual /\ Manual = 0
    BY DEF StoredVisit, Manual
  <1> HIDE DEF new, entered
  <1>3. Previews'
    BY <1>1, <1>2 DEF VisitsInv, Previews
  <1>4. Datasets'
    <2>1. visitSteps \in Nat /\ \A d \in datasets' : d \in datasets \/ d = new
      BY <1>1 DEF VisitsInv, Previews
    <2>2. ASSUME NEW d \in datasets'
          PROVE  /\ d.id \in 0..visitSteps' /\ d.authoritative \in BOOLEAN
                 /\ d = [id |-> d.id, authoritative |-> d.authoritative, definition |-> d.definition]
      <3>1. CASE d = new
        <4>1. d.id \in 0..visitSteps'
          BY <1>1, <1>2, <2>1, <3>1
        <4>2. d.authoritative \in BOOLEAN
          BY <1>2, <3>1
        <4>3. d = [id |-> d.id, authoritative |-> d.authoritative, definition |-> d.definition]
          BY <1>2, <3>1, Zenon
        <4> QED BY <4>1, <4>2, <4>3
      <3>2. CASE d \in datasets
        BY <1>1, <2>1, <3>2 DEF VisitsInv, Datasets
      <3> QED BY <2>1, <3>1, <3>2
    <2>3. \A d, e \in datasets' : d.authoritative /\ e.authoritative /\ d.id # Manual /\ e.id # Manual => d.id = e.id
      BY <1>2, <2>1 DEF VisitsInv, Datasets
    <2> QED BY <2>2, <2>3 DEF Datasets
  <1>5. Filed'
    <2>1. \A v \in visits' : v \in visits \/ v = entered
      BY <1>1
    <2> QED BY <1>1, <1>2, <2>1 DEF VisitsInv, Filed
  <1> QED BY <1>3, <1>4, <1>5 DEF VisitsInv

LEMMA VisitsKept ==
  ASSUME VisitsAssumption, VisitsInv, [RecordsNext]_recordsVars PROVE VisitsInv'
  <1>1. CASE UNCHANGED visitVars
    BY <1>1 DEF visitVars, VisitsInv, Previews, Datasets, Filed
  <1>2. CASE WorkerRestarts
    BY <1>2 DEF WorkerRestarts, VisitsMove, VisitsInv, Previews, Datasets, Filed
  <1>3. VisitsNext => VisitsInv'
    BY <1>2, PreviewKept, CommitKept, ManualKept DEF VisitsNext
  <1> QED BY <1>1, <1>3 DEF RecordsNext, StudyStep, CatalogStep, VisitsStep, recordsVars

\* What a panel shows of imported counts is the visitors of each period once:
\* whatever files are previewed and committed, as authoritative or beside the
\* counts that are, no instant of a site is counted by two rows
\* (domain/visits.ts:66, worker.ts:1935, queries.ts:653).
THEOREM ImportsAreCountedOnce ==
  ASSUME VisitsAssumption PROVE RecordsSpec => []ImportsCountOnce
  <1>1. RecordsInit => VisitsInv
    BY DEF RecordsInit, VisitsInit, VisitsInv, Previews, Datasets, Filed
  <1>2. VisitsInv /\ [RecordsNext]_recordsVars => VisitsInv'
    BY VisitsKept
  <1>3. ASSUME VisitsInv PROVE ImportsCountOnce
    <2>1. ASSUME NEW s \in sites, NEW window \in Panels,
                 NEW v \in Counted(s.id, window), NEW w \in Counted(s.id, window),
                 v.dataset # Manual, w.dataset # Manual, v # w
          PROVE  ~Overlap(v.period, w.period)
      <3>1. v \in visits /\ w \in visits /\ v.site = w.site
        BY DEF Counted
      <3>2. PICK d \in datasets : d.id = v.dataset /\ d.authoritative
        BY DEF Counted
      <3>3. PICK e \in datasets : e.id = w.dataset /\ e.authoritative
        BY DEF Counted
      <3>4. v.dataset = w.dataset
        BY <1>3, <2>1, <3>2, <3>3 DEF VisitsInv, Datasets
      <3> QED BY <1>3, <2>1, <3>1, <3>4 DEF VisitsInv, Filed
    <2> QED BY <2>1 DEF ImportsCountOnce
  <1> QED BY <1>1, <1>2, <1>3, PTL DEF RecordsSpec

-----------------------------------------------------------------------------
(* Spells of use: what the snapshots of one port become. *)

\* Snapshots in the order of their times, each with a name of its own.
Ordered(series, n) ==
  /\ n \in Nat /\ DOMAIN series = 1..n /\ Len(series) = n
  /\ \A i \in 1..n : series[i].at \in Int
  /\ \A i, j \in 1..n : i < j => series[i].at < series[j].at /\ series[i].id # series[j].id

Arrives(series, breaks, i) ==
  Joined(series, i, breaks) /\ series[i - 1].state = "available" /\ series[i].state = "occupied"

\* A spell that began at one of the first k snapshots, and holds such only.
Told(series, breaks, k, e) ==
  /\ \E j \in 1..k : /\ e.startHi = series[j].at /\ series[j].state = "occupied"
                     /\ e.leftCensored = ~Arrives(series, breaks, j)
  /\ e.ids \subseteq {series[j].id : j \in 1..k}

IsOpen(e) ==
  /\ e.open = TRUE
  /\ e = [open |-> e.open, startLo |-> e.startLo, startHi |-> e.startHi, leftCensored |-> e.leftCensored,
          interrupted |-> e.interrupted, ids |-> e.ids]

\* What the first k snapshots became: each in use belongs to one spell, and each
\* arrival began one.
SpellsUpto(series, breaks, k, st) ==
  /\ st.now = NotOpen \/ (k > 0 /\ IsOpen(st.now) /\ Told(series, breaks, k, st.now) /\ series[k].state = "occupied")
  /\ \A e \in st.done : Told(series, breaks, k, e) /\ (st.now # NotOpen => e.startHi # st.now.startHi)
  /\ \A e, f \in st.done : e.startHi = f.startHi => e = f
  /\ \A i \in 1..k : Arrives(series, breaks, i) =>
       (\E e \in st.done : e.startHi = series[i].at) \/ (st.now # NotOpen /\ st.now.startHi = series[i].at)
  /\ \A i \in 1..k : series[i].state = "occupied" =>
       /\ (\E e \in st.done : series[i].id \in e.ids) \/ (st.now # NotOpen /\ series[i].id \in st.now.ids)
       /\ \A e \in st.done : series[i].id \in e.ids =>
            /\ st.now # NotOpen => series[i].id \notin st.now.ids
            /\ \A f \in st.done : series[i].id \in f.ids => e = f

LEMMA NotOpenIs == ASSUME NEW e PROVE (IsOpen(e) => e # NotOpen /\ e.open = TRUE) /\ NotOpen.open = FALSE
  BY DEF IsOpen, NotOpen

LEMMA ToldLater ==
  ASSUME NEW series, NEW breaks, NEW k \in Nat, NEW e, Told(series, breaks, k, e)
  PROVE  Told(series, breaks, k + 1, e)
  <1>1. PICK j \in 1..k : /\ e.startHi = series[j].at /\ series[j].state = "occupied"
                          /\ e.leftCensored = ~Arrives(series, breaks, j)
    BY DEF Told
  <1>2. j \in 1..(k + 1) /\ \A i \in 1..k : i \in 1..(k + 1)
    OBVIOUS
  <1>3. e.ids \subseteq {series[i].id : i \in 1..(k + 1)}
    BY <1>2 DEF Told
  <1> QED BY <1>1, <1>2, <1>3 DEF Told

\* A spell is closed, at a break before the next snapshot or by one that is not
\* in use.
LEMMA ClosingKeeps ==
  ASSUME NEW n, NEW series, NEW breaks, Ordered(series, n), NEW k \in Nat, NEW m \in {k, k + 1}, m <= n,
         m = k + 1 => series[m].state # "occupied",
         NEW st, SpellsUpto(series, breaks, k, st), st.now # NotOpen,
         NEW c, c.startHi = st.now.startHi, c.leftCensored = st.now.leftCensored,
         st.now.ids \subseteq c.ids, c.ids \subseteq st.now.ids \cup {series[i].id : i \in (k + 1)..m}
  PROVE  SpellsUpto(series, breaks, m, [done |-> st.done \cup {c}, now |-> NotOpen])
  <1> DEFINE done == st.done \cup {c}
  <1>0. m \in Nat /\ k <= m /\ 1..k \subseteq 1..m /\ (k + 1)..m \subseteq 1..m
    OBVIOUS
  <1>1. \A i \in 1..m : i \notin 1..k => series[i].state # "occupied"
    OBVIOUS
  <1>2. ASSUME NEW e, Told(series, breaks, k, e) PROVE Told(series, breaks, m, e)
    BY <1>2, ToldLater
  <1>3. Told(series, breaks, m, c)
    <2>1. Told(series, breaks, k, st.now)
      BY DEF SpellsUpto
    <2>2. PICK j \in 1..k : /\ st.now.startHi = series[j].at /\ series[j].state = "occupied"
                            /\ st.now.leftCensored = ~Arrives(series, breaks, j)
      BY <2>1 DEF Told
    <2>3. st.now.ids \subseteq {series[i].id : i \in 1..k}
      BY <2>1 DEF Told
    <2>4. c.ids \subseteq {series[i].id : i \in 1..m}
      BY <1>0, <2>3
    <2> QED BY <1>0, <2>2, <2>4 DEF Told
  <1>4. \A e \in done : Told(series, breaks, m, e)
    BY <1>2, <1>3 DEF SpellsUpto
  <1>5. \A e, f \in done : e.startHi = f.startHi => e = f
    BY DEF SpellsUpto
  <1>6. ASSUME NEW i \in 1..m, Arrives(series, breaks, i) PROVE \E e \in done : e.startHi = series[i].at
    BY <1>1, <1>6 DEF SpellsUpto, Arrives
  <1>7. ASSUME NEW i \in 1..m, series[i].state = "occupied"
        PROVE  /\ \E e \in done : series[i].id \in e.ids
               /\ \A e, f \in done : series[i].id \in e.ids /\ series[i].id \in f.ids => e = f
    <2>0. n \in Nat
      BY DEF Ordered
    <2>1. i \in 1..k /\ i \in 1..n
      <3>1. i \in 1..k
        BY <1>1, <1>7
      <3> QED BY <1>0, <2>0, <3>1
    <2>2. series[i].id \in c.ids <=> series[i].id \in st.now.ids
      <3>1. \A j \in (k + 1)..m : series[j].id # series[i].id
        BY <1>0, <2>1 DEF Ordered
      <3> QED BY <3>1
    <2>3. /\ (\E e \in st.done : series[i].id \in e.ids) \/ series[i].id \in st.now.ids
          /\ \A e \in st.done : series[i].id \in e.ids =>
               /\ series[i].id \notin st.now.ids
               /\ \A f \in st.done : series[i].id \in f.ids => e = f
      BY <1>7, <2>1 DEF SpellsUpto
    <2> QED BY <2>2, <2>3
  <1> HIDE DEF done
  <1>8. SpellsUpto(series, breaks, m, [done |-> done, now |-> NotOpen])
    BY <1>4, <1>5, <1>6, <1>7 DEF SpellsUpto
  <1> QED BY <1>8 DEF done

\* A snapshot that is not in use, met while no spell is open.
LEMMA StayingKeeps ==
  ASSUME NEW n, NEW series, NEW breaks, Ordered(series, n), NEW k \in Nat, k + 1 <= n,
         series[k + 1].state # "occupied",
         NEW st, SpellsUpto(series, breaks, k, st), st.now = NotOpen
  PROVE  SpellsUpto(series, breaks, k + 1, [done |-> st.done, now |-> NotOpen])
  <1>1. \A i \in 1..(k + 1) : i \in 1..k \/ series[i].state # "occupied"
    OBVIOUS
  <1>2. \A e \in st.done : Told(series, breaks, k + 1, e)
    BY ToldLater DEF SpellsUpto
  <1>3. ASSUME NEW i \in 1..(k + 1), Arrives(series, breaks, i) PROVE \E e \in st.done : e.startHi = series[i].at
    BY <1>1, <1>3 DEF SpellsUpto, Arrives
  <1>4. ASSUME NEW i \in 1..(k + 1), series[i].state = "occupied"
        PROVE  /\ \E e \in st.done : series[i].id \in e.ids
               /\ \A e, f \in st.done : series[i].id \in e.ids /\ series[i].id \in f.ids => e = f
    <2>1. i \in 1..k
      BY <1>1, <1>4
    <2> QED BY <1>4, <2>1 DEF SpellsUpto
  <1> QED BY <1>2, <1>3, <1>4 DEF SpellsUpto

LEMMA GrownIs ==
  ASSUME NEW e, IsOpen(e), NEW id
  PROVE  [e EXCEPT !.ids = @ \cup {id}] =
           [open |-> e.open, startLo |-> e.startLo, startHi |-> e.startHi, leftCensored |-> e.leftCensored,
            interrupted |-> e.interrupted, ids |-> e.ids \cup {id}]
  BY DEF IsOpen

\* A snapshot in use, met while a spell is open: the spell goes on.
LEMMA GoingOnKeeps ==
  ASSUME NEW n, NEW series, NEW breaks, Ordered(series, n), NEW k \in Nat, k + 1 <= n,
         series[k + 1].state = "occupied",
         NEW st, SpellsUpto(series, breaks, k, st), st.now # NotOpen,
         NEW o, o = [st.now EXCEPT !.ids = @ \cup {series[k + 1].id}]
  PROVE  SpellsUpto(series, breaks, k + 1, [done |-> st.done, now |-> o])
  <1> DEFINE id == series[k + 1].id
  <1>0. n \in Nat /\ k + 1 \in 1..n /\ 1..k \subseteq 1..n
    BY DEF Ordered
  <1>1. k > 0 /\ IsOpen(st.now) /\ Told(series, breaks, k, st.now) /\ series[k].state = "occupied"
    BY DEF SpellsUpto
  <1>2. /\ o = [open |-> st.now.open, startLo |-> st.now.startLo, startHi |-> st.now.startHi, leftCensored |-> st.now.leftCensored,
                interrupted |-> st.now.interrupted, ids |-> st.now.ids \cup {id}]
    BY <1>1, GrownIs
  <1>3. /\ o.startHi = st.now.startHi /\ o.leftCensored = st.now.leftCensored /\ o.ids = st.now.ids \cup {id}
        /\ IsOpen(o) /\ o # NotOpen
    <2>1. st.now.open = TRUE
      BY <1>1 DEF IsOpen
    <2>2. o.startHi = st.now.startHi /\ o.leftCensored = st.now.leftCensored /\ o.ids = st.now.ids \cup {id} /\ o.open = st.now.open
      BY <1>2
    <2>3. o = [open |-> o.open, startLo |-> o.startLo, startHi |-> o.startHi, leftCensored |-> o.leftCensored,
               interrupted |-> o.interrupted, ids |-> o.ids]
      BY <1>2
    <2>4. IsOpen(o)
      BY <2>1, <2>2, <2>3 DEF IsOpen
    <2> QED BY <2>2, <2>4, NotOpenIs
  <1>4. ~Arrives(series, breaks, k + 1)
    BY <1>1 DEF Arrives
  <1>5. \A i \in 1..(k + 1) : i \in 1..k \/ i = k + 1
    OBVIOUS
  <1>6. Told(series, breaks, k + 1, o)
    <2>1. Told(series, breaks, k + 1, st.now)
      BY <1>1, ToldLater
    <2>2. id \in {series[i].id : i \in 1..(k + 1)}
      OBVIOUS
    <2> QED BY <1>3, <2>1, <2>2 DEF Told
  <1>7. \A e \in st.done : Told(series, breaks, k + 1, e) /\ e.startHi # o.startHi
    BY <1>3, ToldLater DEF SpellsUpto
  <1>8. ASSUME NEW i \in 1..(k + 1), Arrives(series, breaks, i)
        PROVE  (\E e \in st.done : e.startHi = series[i].at) \/ o.startHi = series[i].at
    BY <1>3, <1>4, <1>5, <1>8 DEF SpellsUpto
  <1>9. ASSUME NEW e \in st.done PROVE id \notin e.ids
    <2>1. e.ids \subseteq {series[j].id : j \in 1..k}
      BY DEF SpellsUpto, Told
    <2>2. \A j \in 1..k : series[j].id # id
      BY <1>0 DEF Ordered
    <2> QED BY <2>1, <2>2
  <1>10. ASSUME NEW i \in 1..(k + 1), series[i].state = "occupied"
         PROVE  /\ (\E e \in st.done : series[i].id \in e.ids) \/ series[i].id \in o.ids
                /\ \A e \in st.done : series[i].id \in e.ids =>
                     /\ series[i].id \notin o.ids
                     /\ \A f \in st.done : series[i].id \in f.ids => e = f
    <2>1. CASE i = k + 1
      BY <1>3, <1>9, <2>1
    <2>2. CASE i \in 1..k
      <3>1. series[i].id # id
        BY <1>0, <2>2 DEF Ordered
      <3> QED BY <1>3, <1>10, <2>2, <3>1 DEF SpellsUpto
    <2> QED BY <1>5, <2>1, <2>2
  <1> HIDE DEF id
  <1>11. \A e, f \in st.done : e.startHi = f.startHi => e = f
    BY DEF SpellsUpto
  <1> DEFINE next == [done |-> st.done, now |-> o]
  <1>12. next.done = st.done /\ next.now = o
    OBVIOUS
  <1> HIDE DEF next
  <1>13. SpellsUpto(series, breaks, k + 1, next)
    BY <1>3, <1>6, <1>7, <1>8, <1>10, <1>11, <1>12 DEF SpellsUpto
  <1> QED BY <1>13 DEF next

\* A snapshot in use, met while no spell is open, begins one.
LEMMA OpeningKeeps ==
  ASSUME NEW n, NEW series, NEW breaks, Ordered(series, n), NEW k \in Nat, k + 1 <= n,
         series[k + 1].state = "occupied",
         NEW st, SpellsUpto(series, breaks, k, st), st.now = NotOpen,
         NEW o, IsOpen(o), o.startHi = series[k + 1].at, o.ids = {series[k + 1].id},
         o.leftCensored = ~Arrives(series, breaks, k + 1)
  PROVE  SpellsUpto(series, breaks, k + 1, [done |-> st.done, now |-> o])
  <1> DEFINE id == series[k + 1].id
             at == series[k + 1].at
  <1>0. n \in Nat /\ k + 1 \in 1..n /\ 1..k \subseteq 1..n
    BY DEF Ordered
  <1>1. \A i \in 1..(k + 1) : i \in 1..k \/ i = k + 1
    OBVIOUS
  <1>2. Told(series, breaks, k + 1, o)
    BY DEF Told
  <1>3. ASSUME NEW e \in st.done PROVE Told(series, breaks, k + 1, e) /\ e.startHi # at /\ id \notin e.ids
    <2>1. Told(series, breaks, k, e)
      BY DEF SpellsUpto
    <2>2. \A j \in 1..k : series[j].id # id /\ series[j].at # at
      <3>1. \A j \in 1..k : series[j].at \in Int /\ at \in Int /\ series[j].at < at /\ series[j].id # id
        BY <1>0 DEF Ordered
      <3> HIDE DEF at, id
      <3> QED BY <3>1
    <2> HIDE DEF at, id
    <2>3. e.startHi # at /\ id \notin e.ids
      BY <2>1, <2>2 DEF Told
    <2> QED BY <2>1, <2>3, ToldLater
  <1>4. ASSUME NEW i \in 1..(k + 1), Arrives(series, breaks, i)
        PROVE  (\E e \in st.done : e.startHi = series[i].at) \/ o.startHi = series[i].at
    BY <1>1, <1>4 DEF SpellsUpto
  <1>5. ASSUME NEW i \in 1..(k + 1), series[i].state = "occupied"
        PROVE  /\ (\E e \in st.done : series[i].id \in e.ids) \/ series[i].id \in o.ids
               /\ \A e \in st.done : series[i].id \in e.ids =>
                    /\ series[i].id \notin o.ids
                    /\ \A f \in st.done : series[i].id \in f.ids => e = f
    <2>1. CASE i = k + 1
      BY <1>3, <2>1
    <2>2. CASE i \in 1..k
      <3>1. series[i].id # id
        BY <1>0, <2>2 DEF Ordered
      <3> QED BY <1>5, <2>2, <3>1 DEF SpellsUpto
    <2> QED BY <1>1, <2>1, <2>2
  <1>6. o # NotOpen
    BY NotOpenIs
  <1>7. \A e, f \in st.done : e.startHi = f.startHi => e = f
    BY DEF SpellsUpto
  <1> DEFINE next == [done |-> st.done, now |-> o]
  <1>8. next.done = st.done /\ next.now = o
    OBVIOUS
  <1>9. \A e \in st.done : Told(series, breaks, k + 1, e) /\ e.startHi # o.startHi
    BY <1>3
  <1> HIDE DEF next, id, at
  <1>10. SpellsUpto(series, breaks, k + 1, next)
    BY <1>2, <1>4, <1>5, <1>6, <1>7, <1>8, <1>9 DEF SpellsUpto
  <1> QED BY <1>10 DEF next

LEMMA OpenedIs ==
  ASSUME NEW series, NEW breaks, NEW i, series[i].state = "occupied", NEW joined, joined = Joined(series, i, breaks)
  PROVE  LET o == Opened(series, i, joined)
         IN  /\ IsOpen(o) /\ o.startHi = series[i].at /\ o.ids = {series[i].id}
             /\ o.leftCensored = ~Arrives(series, breaks, i)
  <1> DEFINE arrival == joined /\ series[i - 1].state = "available"
             o == Opened(series, i, joined)
  <1>1. arrival <=> Arrives(series, breaks, i)
    BY DEF Arrives
  <1>2. o = [open |-> TRUE, startLo |-> IF arrival THEN series[i - 1].at ELSE Null, startHi |-> series[i].at,
             leftCensored |-> ~arrival, interrupted |-> i > 1 /\ ~joined, ids |-> {series[i].id}]
    BY DEF Opened
  <1> HIDE DEF o, arrival
  <1>3. /\ o.open = TRUE /\ o.startHi = series[i].at /\ o.ids = {series[i].id} /\ o.leftCensored = ~arrival
    BY <1>2
  <1>4. o = [open |-> o.open, startLo |-> o.startLo, startHi |-> o.startHi, leftCensored |-> o.leftCensored,
             interrupted |-> o.interrupted, ids |-> o.ids]
    BY <1>2
  <1> QED BY <1>1, <1>3, <1>4 DEF IsOpen, o

LEMMA ClosedIs ==
  ASSUME NEW e, NEW endLo, NEW endHi, NEW censored, NEW interrupted
  PROVE  LET c == Closed(e, endLo, endHi, censored, interrupted)
         IN  c.startHi = e.startHi /\ c.leftCensored = e.leftCensored /\ c.ids = e.ids
  BY DEF Closed

\* One snapshot, whatever its state and whatever lies before it.
LEMMA MetKeeps ==
  ASSUME NEW n, NEW series, NEW breaks, Ordered(series, n), NEW i \in 1..n,
         NEW st, SpellsUpto(series, breaks, i - 1, st)
  PROVE  SpellsUpto(series, breaks, i, Met(series, i, breaks, st))
  <1> DEFINE joined == Joined(series, i, breaks)
             previous == IF i > 1 THEN series[i - 1].at ELSE Null
             cut == st.now.open /\ i > 1 /\ ~joined
             done == IF cut THEN st.done \cup {Closed(st.now, previous, Null, TRUE, TRUE)} ELSE st.done
             now1 == IF cut THEN NotOpen ELSE st.now
             at == series[i].at
             id == series[i].id
             k == i - 1
             mid == [done |-> done, now |-> now1]
  <1>0. n \in Nat /\ k \in Nat /\ k + 1 = i /\ i <= n
    BY DEF Ordered
  <1>1. (st.now # NotOpen <=> st.now.open) /\ (st.now # NotOpen => i > 1)
    <2>1. st.now = NotOpen \/ (i - 1 > 0 /\ IsOpen(st.now))
      BY DEF SpellsUpto
    <2>2. CASE st.now = NotOpen
      BY <2>2, NotOpenIs
    <2>3. CASE i - 1 > 0 /\ IsOpen(st.now)
      <3>1. i > 1
        BY <2>3
      <3> QED BY <2>3, <3>1, NotOpenIs
    <2> QED BY <2>1, <2>2, <2>3
  <1>2. mid.done = done /\ mid.now = now1 /\ SpellsUpto(series, breaks, k, mid)
    <2>1. CASE cut
      <3> DEFINE c == Closed(st.now, previous, Null, TRUE, TRUE)
      <3>1. c.startHi = st.now.startHi /\ c.leftCensored = st.now.leftCensored /\ c.ids = st.now.ids
        <4> HIDE DEF previous
        <4> QED BY DEF Closed
      <3> HIDE DEF c, previous, k, now1, done
      <3>2. SpellsUpto(series, breaks, k, [done |-> st.done \cup {c}, now |-> NotOpen])
        <4>1. st.now # NotOpen
          BY <1>1, <2>1
        <4>2. k \in {k, k + 1} /\ k <= n /\ k # k + 1
          BY <1>0
        <4>3. SpellsUpto(series, breaks, k, st)
          BY DEF k
        <4> QED BY <1>0, <3>1, <4>1, <4>2, <4>3, ClosingKeeps
      <3>3. done = st.done \cup {c} /\ now1 = NotOpen
        BY <2>1 DEF c, done, now1
      <3> QED BY <3>2, <3>3
    <2>2. CASE ~cut
      BY <2>2 DEF SpellsUpto
    <2> QED BY <2>1, <2>2
  <1>3. now1 # NotOpen => now1.open /\ joined
    BY <1>1
  <1>4. now1 = NotOpen => ~now1.open
    BY NotOpenIs
  <1>5. now1 # NotOpen => IsOpen(now1)
    BY <1>2 DEF SpellsUpto
  <1>6. Met(series, i, breaks, st) =
          CASE series[i].state = "occupied" ->
                 [done |-> done, now |-> IF now1.open THEN [now1 EXCEPT !.ids = @ \cup {id}] ELSE Opened(series, i, joined)]
            [] series[i].state = "available" ->
                 [done |-> IF now1.open THEN done \cup {Closed([now1 EXCEPT !.ids = @ \cup {id}], previous, at, FALSE, FALSE)}
                           ELSE done,
                  now |-> NotOpen]
            [] OTHER ->
                 [done |-> IF now1.open THEN done \cup {Closed(now1, previous, at, TRUE, TRUE)} ELSE done,
                  now |-> NotOpen]
    BY DEF Met
  <1> HIDE DEF done, now1, mid, k, previous, at, joined
  <1>7. CASE series[i].state = "occupied"
    <2>1. CASE now1 # NotOpen
      <3>1. Met(series, i, breaks, st) = [done |-> done, now |-> [now1 EXCEPT !.ids = @ \cup {id}]]
        BY <1>3, <1>6, <1>7, <2>1
      <3> QED BY <1>0, <1>2, <1>7, <2>1, <3>1, GoingOnKeeps
    <2>2. CASE now1 = NotOpen
      <3> DEFINE o == Opened(series, i, joined)
      <3>1. Met(series, i, breaks, st) = [done |-> done, now |-> o]
        BY <1>4, <1>6, <1>7, <2>2
      <3>2. IsOpen(o) /\ o.startHi = series[i].at /\ o.ids = {series[i].id} /\ o.leftCensored = ~Arrives(series, breaks, i)
        BY <1>7, OpenedIs DEF joined
      <3> HIDE DEF o
      <3> QED BY <1>0, <1>2, <1>7, <2>2, <3>1, <3>2, OpeningKeeps
    <2> QED BY <2>1, <2>2
  <1>8. CASE series[i].state # "occupied" /\ now1 = NotOpen
    <2>1. Met(series, i, breaks, st) = [done |-> done, now |-> NotOpen]
      BY <1>4, <1>6, <1>8
    <2> QED BY <1>0, <1>2, <1>8, <2>1, StayingKeeps
  <1>9. CASE series[i].state # "occupied" /\ now1 # NotOpen
    <2>1. PICK e, x, y, a, b :
            /\ Met(series, i, breaks, st) = [done |-> done \cup {Closed(e, x, y, a, b)}, now |-> NotOpen]
            /\ e = now1 \/ e = [now1 EXCEPT !.ids = @ \cup {id}]
      <3>1. CASE series[i].state = "available"
        BY <1>3, <1>6, <1>9, <3>1
      <3>2. CASE series[i].state # "available"
        BY <1>3, <1>6, <1>9, <3>2
      <3> QED BY <3>1, <3>2
    <2> DEFINE c == Closed(e, x, y, a, b)
    <2>2. /\ e.startHi = now1.startHi /\ e.leftCensored = now1.leftCensored
          /\ now1.ids \subseteq e.ids /\ e.ids \subseteq now1.ids \cup {id}
      <3>1. CASE e = now1
        BY <3>1
      <3>2. CASE e = [now1 EXCEPT !.ids = @ \cup {id}]
        BY <1>5, <1>9, <3>2, GrownIs
      <3> QED BY <2>1, <3>1, <3>2
    <2>3. c.startHi = e.startHi /\ c.leftCensored = e.leftCensored /\ c.ids = e.ids
      BY ClosedIs
    <2> HIDE DEF c
    <2>4. {series[j].id : j \in (k + 1)..i} = {id}
      <3>1. (k + 1)..i = {i}
        BY <1>0
      <3> QED BY <3>1
    <2>5. Met(series, i, breaks, st) = [done |-> done \cup {c}, now |-> NotOpen]
      BY <2>1 DEF c
    <2>6. i \in {k, k + 1}
      BY <1>0
    <2> HIDE DEF id
    <2>7. SpellsUpto(series, breaks, i, [done |-> mid.done \cup {c}, now |-> NotOpen])
      BY <1>0, <1>2, <1>9, <2>2, <2>3, <2>4, <2>6, ClosingKeeps
    <2> QED BY <1>2, <2>5, <2>7
  <1> QED BY <1>7, <1>8, <1>9

\* The snapshots met one after another.
Start == [done |-> {}, now |-> NotOpen]
Meets(series, breaks, m, it) ==
  it = [s \in SUBSET (1..m) |-> IF s = {} THEN Start ELSE Met(series, Largest(s), breaks, it[s \ {Largest(s)}])]

LEMMA MeetsExists ==
  ASSUME NEW n \in Nat, NEW series, NEW breaks
  PROVE  \E it : Meets(series, breaks, n, it)
  <1> DEFINE T == {m \in Nat : \E it : Meets(series, breaks, m, it)}
  <1>1. 0 \in T
    <2> DEFINE it == [s \in SUBSET (1..0) |-> Start]
    <2>1. \A s \in SUBSET (1..0) : s = {}
      OBVIOUS
    <2>2. it = [s \in SUBSET (1..0) |-> IF s = {} THEN Start ELSE Met(series, Largest(s), breaks, it[s \ {Largest(s)}])]
      BY <2>1
    <2> QED BY <2>2 DEF Meets
  <1>2. ASSUME NEW m \in Nat, m \in T PROVE m + 1 \in T
    <2>1. PICK old : Meets(series, breaks, m, old)
      BY <1>2
    <2> DEFINE it == [s \in SUBSET (1..(m + 1)) |->
                        IF m + 1 \in s THEN Met(series, m + 1, breaks, old[s \ {m + 1}]) ELSE old[s]]
    <2>2. ASSUME NEW s \in SUBSET (1..(m + 1)), m + 1 \in s
          PROVE  Largest(s) = m + 1 /\ s \ {m + 1} \in SUBSET (1..m) /\ s # {}
      <3>1. s \in SUBSET Int /\ \A y \in s : m + 1 >= y
        OBVIOUS
      <3>2. Largest(s) = m + 1
        BY <2>2, <3>1, LargestIs
      <3> QED BY <2>2, <3>2
    <2>3. ASSUME NEW s \in SUBSET (1..(m + 1)), m + 1 \notin s PROVE s \in SUBSET (1..m)
      BY <2>3
    <2>4. ASSUME NEW s \in SUBSET (1..m) PROVE it[s] = old[s] /\ s \in SUBSET (1..(m + 1)) /\ m + 1 \notin s
      OBVIOUS
    <2>5. ASSUME NEW s \in SUBSET (1..(m + 1))
          PROVE  it[s] = IF s = {} THEN Start ELSE Met(series, Largest(s), breaks, it[s \ {Largest(s)}])
      <3>1. CASE m + 1 \in s
        <4>1. it[s] = Met(series, m + 1, breaks, old[s \ {m + 1}])
          BY <3>1
        <4> HIDE DEF it
        <4> QED BY <2>2, <2>4, <3>1, <4>1
      <3>2. CASE m + 1 \notin s
        <4>1. s \in SUBSET (1..m) /\ s \ {Largest(s)} \in SUBSET (1..m)
          BY <2>3, <3>2
        <4>2. old[s] = IF s = {} THEN Start ELSE Met(series, Largest(s), breaks, old[s \ {Largest(s)}])
          BY <2>1, <4>1 DEF Meets
        <4> HIDE DEF it
        <4> QED BY <2>4, <4>1, <4>2
      <3> QED BY <3>1, <3>2
    <2>6. it = [s \in SUBSET (1..(m + 1)) |-> it[s]]
      OBVIOUS
    <2> HIDE DEF it
    <2>7. Meets(series, breaks, m + 1, it)
      BY <2>5, <2>6 DEF Meets
    <2> QED BY <2>7
  <1> HIDE DEF T
  <1>3. \A m \in Nat : m \in T
    BY <1>1, <1>2, SetInduction
  <1> QED BY <1>3 DEF T

\* What is known after each snapshot, and in the end.
Detects(series, breaks, n, u) ==
  /\ u[0] = Start
  /\ DetectPortEpisodes(series, breaks) =
       IF u[n].now.open THEN u[n].done \cup {Closed(u[n].now, Last(series).at, Null, TRUE, FALSE)} ELSE u[n].done
  /\ \A k \in 1..n : u[k] = Met(series, k, breaks, u[k - 1])

LEMMA MetFold ==
  ASSUME NEW n, NEW series, NEW breaks, Ordered(series, n)
  PROVE  \E u : Detects(series, breaks, n, u)
  <1> DEFINE index == [i \in DOMAIN series |-> i]
             Is(it) == it = [s \in SUBSET (DOMAIN index) |->
                               IF s = {} THEN [done |-> {}, now |-> NotOpen]
                               ELSE Met(series, index[Largest(s)], breaks, it[s \ {Largest(s)}])]
             met == (CHOOSE it : Is(it))[DOMAIN index]
  <1>0. n \in Nat /\ DOMAIN index = 1..n /\ \A i \in 1..n : index[i] = i
    BY DEF Ordered
  <1>1. DetectPortEpisodes(series, breaks) =
          IF met.now.open THEN met.done \cup {Closed(met.now, Last(series).at, Null, TRUE, FALSE)} ELSE met.done
    BY DEF DetectPortEpisodes, FoldLeftDomain, FoldLeft, MapThenFoldSet, Max, Largest
  <1>2. ASSUME NEW it PROVE Meets(series, breaks, n, it) <=> Is(it)
    <2>1. \A s \in SUBSET (1..n) : s # {} => index[Largest(s)] = Largest(s)
      BY <1>0, LargestIn
    <2> HIDE DEF index
    <2> QED BY <1>0, <2>1 DEF Meets, Start
  <1> HIDE DEF index, Is
  <1>3. \E it : Is(it)
    BY <1>0, <1>2, MeetsExists
  <1>4. PICK it : Is(it) /\ it = CHOOSE i : Is(i)
    BY <1>3
  <1>5. Meets(series, breaks, n, it) /\ met = it[1..n]
    BY <1>0, <1>2, <1>4
  <1>6. ASSUME NEW k \in 1..n PROVE it[1..k] = Met(series, k, breaks, it[1..(k - 1)])
    <2>0. k \in Nat /\ k # 0 /\ 1..k \in SUBSET (1..n)
      BY <1>0
    <2>1. Largest(1..k) = k /\ (1..k) \ {k} = 1..(k - 1) /\ 1..k # {}
      BY <2>0, UptoLargest
    <2>2. it[1..k] = IF 1..k = {} THEN Start ELSE Met(series, Largest(1..k), breaks, it[(1..k) \ {Largest(1..k)}])
      BY <1>5, <2>0 DEF Meets
    <2> QED BY <2>0, <2>1, <2>2
  <1>7. it[1..0] = Start
    <2>1. 1..0 = {} /\ 1..0 \in SUBSET (1..n)
      OBVIOUS
    <2> QED BY <1>5, <2>1 DEF Meets
  <1> DEFINE u == [k \in 0..n |-> it[1..k]]
  <1>8. u[0] = Start /\ u[n] = met /\ \A k \in 1..n : u[k] = it[1..k] /\ u[k - 1] = it[1..(k - 1)]
    BY <1>0, <1>5, <1>7
  <1> HIDE DEF u, met
  <1>9. \A k \in 1..n : u[k] = Met(series, k, breaks, u[k - 1])
    BY <1>6, <1>8
  <1>10. DetectPortEpisodes(series, breaks) =
           IF u[n].now.open THEN u[n].done \cup {Closed(u[n].now, Last(series).at, Null, TRUE, FALSE)} ELSE u[n].done
    BY <1>1, <1>8
  <1> QED BY <1>8, <1>9, <1>10 DEF Detects

\* What the episodes of a series tell of it.
Tells(series, breaks, n, episodes) ==
  /\ \A e \in episodes : Told(series, breaks, n, e)
  /\ \A e, f \in episodes : e.startHi = f.startHi => e = f
  /\ \A i \in 1..n : Arrives(series, breaks, i) => \E e \in episodes : e.startHi = series[i].at
  /\ \A i \in 1..n : series[i].state = "occupied" =>
       \E e \in episodes : series[i].id \in e.ids /\ \A f \in episodes : series[i].id \in f.ids => f = e

LEMMA NothingOpenTells ==
  ASSUME NEW series, NEW breaks, NEW n, NEW st, SpellsUpto(series, breaks, n, st), st.now = NotOpen
  PROVE  Tells(series, breaks, n, st.done)
  <1>1. \A i \in 1..n : series[i].state = "occupied" =>
          \E e \in st.done : series[i].id \in e.ids /\ \A f \in st.done : series[i].id \in f.ids => f = e
    BY DEF SpellsUpto
  <1> QED BY <1>1 DEF SpellsUpto, Tells

LEMMA EpisodesTell ==
  ASSUME NEW n, NEW series, NEW breaks, Ordered(series, n)
  PROVE  Tells(series, breaks, n, DetectPortEpisodes(series, breaks))
  <1>0. n \in Nat
    BY DEF Ordered
  <1>a. PICK u : Detects(series, breaks, n, u)
    BY MetFold
  <1>1. /\ u[0] = Start
        /\ DetectPortEpisodes(series, breaks) =
             IF u[n].now.open THEN u[n].done \cup {Closed(u[n].now, Last(series).at, Null, TRUE, FALSE)} ELSE u[n].done
        /\ \A k \in 1..n : u[k] = Met(series, k, breaks, u[k - 1])
    BY <1>a DEF Detects
  <1> DEFINE T == {k \in Nat : k <= n => SpellsUpto(series, breaks, k, u[k])}
  <1>2. 0 \in T
    <2>1. Start.done = {} /\ Start.now = NotOpen
      BY DEF Start
    <2>2. SpellsUpto(series, breaks, 0, Start)
      BY <2>1 DEF SpellsUpto
    <2> QED BY <1>1, <2>2
  <1>3. ASSUME NEW k \in Nat, k \in T PROVE k + 1 \in T
    <2>1. ASSUME k + 1 <= n PROVE SpellsUpto(series, breaks, k + 1, u[k + 1])
      <3>1. k + 1 \in 1..n /\ (k + 1) - 1 = k /\ SpellsUpto(series, breaks, k, u[k])
        BY <1>0, <1>3, <2>1
      <3>2. u[k + 1] = Met(series, k + 1, breaks, u[k])
        BY <1>1, <3>1
      <3> QED BY <3>1, <3>2, MetKeeps
    <2> QED BY <2>1
  <1> HIDE DEF T
  <1>4. n \in T
    BY <1>0, <1>2, <1>3, SetInduction
  <1>5. SpellsUpto(series, breaks, n, u[n])
    BY <1>0, <1>4 DEF T
  <1>6. CASE u[n].now = NotOpen
    <2>1. DetectPortEpisodes(series, breaks) = u[n].done
      BY <1>1, <1>6, NotOpenIs
    <2> QED BY <1>5, <1>6, <2>1, NothingOpenTells
  <1>7. CASE u[n].now # NotOpen
    <2> DEFINE last == Last(series).at
               c == Closed(u[n].now, last, Null, TRUE, FALSE)
               st == [done |-> u[n].done \cup {c}, now |-> NotOpen]
    <2>1. IsOpen(u[n].now)
      BY <1>5, <1>7 DEF SpellsUpto
    <2>2. u[n].now.open
      BY <2>1, NotOpenIs
    <2> HIDE DEF last
    <2>3. DetectPortEpisodes(series, breaks) = u[n].done \cup {c}
      BY <1>1, <2>2 DEF last
    <2>4. c.startHi = u[n].now.startHi /\ c.leftCensored = u[n].now.leftCensored /\ c.ids = u[n].now.ids
      BY DEF Closed
    <2> HIDE DEF c
    <2>5. n \in {n, n + 1} /\ n <= n /\ n # n + 1
      BY <1>0
    <2>6. SpellsUpto(series, breaks, n, st)
      BY <1>0, <1>5, <1>7, <2>4, <2>5, ClosingKeeps
    <2>7. st.now = NotOpen /\ st.done = u[n].done \cup {c}
      OBVIOUS
    <2> HIDE DEF st
    <2>8. Tells(series, breaks, n, st.done)
      BY <2>6, <2>7, NothingOpenTells
    <2> QED BY <2>3, <2>7, <2>8
  <1> QED BY <1>6, <1>7

\* A series of snapshots of one port, in the order of their times, yields as many
\* detected starts as it holds arrivals: snapshots in use next to one at which the
\* port was available, no break or long silence between them.  And each snapshot in
\* use belongs to exactly one episode (detectPortEpisodes).
THEOREM SpellsAreArrivals ==
  ASSUME NEW n, NEW series, NEW breaks, Ordered(series, n)
  PROVE  LET episodes == DetectPortEpisodes(series, breaks)
             arrivals == {i \in 1..n : Arrives(series, breaks, i)}
         IN  /\ {e.startHi : e \in DetectedStarts(episodes)} = {series[i].at : i \in arrivals}
             /\ Cardinality(DetectedStarts(episodes)) = Cardinality(arrivals)
             /\ \A i \in 1..n : series[i].state = "occupied" =>
                  \E e \in episodes : series[i].id \in e.ids /\ \A f \in episodes : series[i].id \in f.ids => f = e
  <1> DEFINE episodes == DetectPortEpisodes(series, breaks)
             arrivals == {i \in 1..n : Arrives(series, breaks, i)}
             starts == DetectedStarts(episodes)
             f == [i \in arrivals |-> CHOOSE e \in episodes : e.startHi = series[i].at]
  <1>1. Tells(series, breaks, n, episodes)
    BY EpisodesTell
  <1> HIDE DEF episodes
  <1>2. n \in Nat /\ \A i, j \in 1..n : series[i].at = series[j].at => i = j
    <2>1. ASSUME NEW i \in 1..n, NEW j \in 1..n, i # j PROVE series[i].at # series[j].at
      <3>1. n \in Nat /\ series[i].at \in Int /\ series[j].at \in Int
        BY DEF Ordered
      <3>2. i < j \/ j < i
        BY <2>1, <3>1
      <3>3. series[i].at < series[j].at \/ series[j].at < series[i].at
        BY <3>2 DEF Ordered
      <3> QED BY <3>1, <3>3
    <2> QED BY <2>1 DEF Ordered
  <1>3. ASSUME NEW i \in arrivals PROVE f[i] \in starts /\ f[i].startHi = series[i].at
    <2>1. \E e \in episodes : e.startHi = series[i].at
      BY <1>1 DEF Tells
    <2>2. f[i] \in episodes /\ f[i].startHi = series[i].at
      BY <2>1
    <2>3. PICK j \in 1..n : f[i].startHi = series[j].at /\ f[i].leftCensored = ~Arrives(series, breaks, j)
      BY <1>1, <2>2 DEF Tells, Told
    <2>4. j = i
      BY <1>2, <2>2, <2>3
    <2> QED BY <2>2, <2>3, <2>4 DEF DetectedStarts
  <1>4. ASSUME NEW e \in starts PROVE \E i \in arrivals : f[i] = e
    <2>1. PICK j \in 1..n : e.startHi = series[j].at /\ e.leftCensored = ~Arrives(series, breaks, j)
      BY <1>1 DEF Tells, Told, DetectedStarts
    <2>2. j \in arrivals
      BY <2>1 DEF DetectedStarts
    <2>3. f[j] = e
      BY <1>1, <1>3, <2>1, <2>2 DEF Tells, DetectedStarts
    <2> QED BY <2>2, <2>3
  <1>5. \A i, j \in arrivals : f[i] = f[j] => i = j
    BY <1>2, <1>3
  <1>6. ExistsBijection(arrivals, starts)
    <2>1. f \in [arrivals -> starts]
      BY <1>3
    <2> HIDE DEF f, starts, arrivals
    <2> QED BY <2>1, <1>4, <1>5 DEF ExistsBijection, Bijection, Injection, Surjection, IsInjective
  <1>7. IsFiniteSet(arrivals)
    BY <1>2, FS_Interval, FS_Subset
  <1> HIDE DEF f, starts, arrivals
  <1>8. Cardinality(starts) = Cardinality(arrivals)
    BY <1>6, <1>7, FS_Bijection
  <1>9. {e.startHi : e \in starts} = {series[i].at : i \in arrivals}
    BY <1>3, <1>4
  <1> QED BY <1>1, <1>8, <1>9 DEF starts, arrivals, Tells, episodes

-----------------------------------------------------------------------------
(* The port-minutes of one scope. *)

\* Counts that can all be true add up, what is unknown counted once.
LEMMA CountsAddUp ==
  ASSUME NEW c, Reconciles(c), MaxPorts \in Nat
  PROVE  /\ Known(ReconcileCounts(c).known) \in Nat /\ Known(ReconcileCounts(c).unknown) \in Nat
         /\ Known(ReconcileCounts(c).known) + Known(ReconcileCounts(c).unknown) =
              IF c.total = Null THEN AllSum(c) ELSE c.total
  <1> DEFINE r == ReconcileCounts(c)
             residual == IF c.total = Null THEN 0 ELSE c.total - AllSum(c)
             named == \E i \in 1..4 : NamedStates(c)[i] # Null
  <1>1. \A n \in {c.available, c.occupied, c.reserved, c.outOfService, c.unknown, c.total} : n = Null \/ n \in Nat
    BY DEF Reconciles
  <1>2. /\ Known(c.available) \in Nat /\ Known(c.occupied) \in Nat /\ Known(c.reserved) \in Nat
        /\ Known(c.outOfService) \in Nat /\ Known(c.unknown) \in Nat
    BY <1>1 DEF Known
  <1>3. KnownSum(c) \in Nat /\ AllSum(c) = KnownSum(c) + Known(c.unknown) /\ Known(KnownSum(c)) = KnownSum(c)
    BY <1>2 DEF KnownSum, AllSum, Known, Null
  <1>4. c.total # Null => c.total \in Nat /\ AllSum(c) <= c.total
    BY <1>1 DEF Reconciles
  <1>5. residual \in Nat
    BY <1>2, <1>3, <1>4
  <1>6. ~named => KnownSum(c) = 0
    <2>1. NamedStates(c)[1] = c.available /\ NamedStates(c)[2] = c.occupied /\ NamedStates(c)[3] = c.reserved
          /\ NamedStates(c)[4] = c.outOfService
      BY DEF NamedStates
    <2> QED BY <2>1 DEF KnownSum, Known
  <1>7. r.known = IF named THEN KnownSum(c) ELSE Null
    BY DEF ReconcileCounts
  <1>8. r.unknown = CASE residual > 0 -> Known(c.unknown) + residual
                      [] residual = 0 /\ c.unknown = Null /\ c.total # Null /\ KnownSum(c) > 0 -> 0
                      [] OTHER -> c.unknown
    BY DEF ReconcileCounts
  <1> HIDE DEF r, residual, named
  <1>9. Known(r.known) = KnownSum(c)
    BY <1>3, <1>6, <1>7 DEF Known, Null
  <1>10. Known(r.unknown) = Known(c.unknown) + residual
    <2>1. CASE residual > 0
      <3>1. r.unknown = Known(c.unknown) + residual
        BY <1>5, <1>8, <2>1
      <3> QED BY <1>2, <1>5, <3>1 DEF Known, Null
    <2>2. CASE residual = 0
      <3>1. r.unknown = c.unknown \/ (c.unknown = Null /\ r.unknown = 0)
        BY <1>8, <2>2
      <3>2. c.unknown = Null => Known(c.unknown) = 0
        BY DEF Known
      <3>3. Known(0) = 0
        BY DEF Known
      <3> QED BY <1>2, <2>2, <3>1, <3>2, <3>3
    <2> QED BY <1>5, <2>1, <2>2
  <1>11. c.total = Null => residual = 0
    BY DEF residual
  <1>12. c.total # Null => residual = c.total - AllSum(c)
    BY DEF residual
  <1> QED BY <1>2, <1>3, <1>4, <1>5, <1>9, <1>10, <1>11, <1>12 DEF r

\* The ports a reading accounts for.
Load(i) == Known(ReconcileCounts(i.reading.counts).known) + Known(ReconcileCounts(i.reading.counts).unknown)
Loads(intervals) == [i \in intervals |-> Load(i)]

LEMMA WeighedIs ==
  ASSUME NEW intervals, NEW count
  PROVE  Weighed(intervals, count) =
           SumOf([i \in intervals |-> Known(ReconcileCounts(i.reading.counts)[count]) * (i.span.hi - i.span.lo)], intervals)
  <1> DEFINE f == [i \in intervals |-> Known(ReconcileCounts(i.reading.counts)[count]) * (i.span.hi - i.span.lo)]
             A(it) == it = [s \in SUBSET intervals |->
                              IF s = {} THEN 0
                              ELSE Known(ReconcileCounts(AnyOf(s).reading.counts)[count]) * (AnyOf(s).span.hi - AnyOf(s).span.lo)
                                   + it[s \ {AnyOf(s)}]]
             B(it) == it = [s \in SUBSET intervals |-> IF s = {} THEN 0 ELSE f[AnyOf(s)] + it[s \ {AnyOf(s)}]]
  <1>1. Weighed(intervals, count) = (CHOOSE it : A(it))[intervals]
    BY DEF Weighed, MapThenSumSet, MapThenFoldSet, AnyOf
  <1>2. SumOf(f, intervals) = (CHOOSE it : B(it))[intervals]
    BY DEF SumOf, MapThenSumSet, MapThenFoldSet, AnyOf
  <1>3. \A s \in SUBSET intervals : s # {} =>
          f[AnyOf(s)] = Known(ReconcileCounts(AnyOf(s).reading.counts)[count]) * (AnyOf(s).span.hi - AnyOf(s).span.lo)
    BY DEF AnyOf
  <1> HIDE DEF f
  <1>4. ASSUME NEW it PROVE A(it) <=> B(it)
    BY <1>3
  <1> HIDE DEF A, B
  <1>5. (CHOOSE it : A(it)) = (CHOOSE it : B(it))
    BY <1>4
  <1> QED BY <1>1, <1>2, <1>5 DEF f

\* What is known and what is unknown, together.
LEMMA WeighedAddUp ==
  ASSUME NEW intervals, IsFiniteSet(intervals), MaxPorts \in Nat,
         \A i \in intervals : i.span.lo \in Int /\ i.span.hi \in Int /\ Reconciles(i.reading.counts)
  PROVE  /\ Weighed(intervals, "known") \in Int /\ Weighed(intervals, "unknown") \in Int
         /\ Weighed(intervals, "known") + Weighed(intervals, "unknown") =
              SumOf(Lengths(Loads(intervals), SpansOf(intervals), intervals), intervals)
  <1> DEFINE known == [i \in intervals |-> Known(ReconcileCounts(i.reading.counts)["known"]) * (i.span.hi - i.span.lo)]
             unknown == [i \in intervals |-> Known(ReconcileCounts(i.reading.counts)["unknown"]) * (i.span.hi - i.span.lo)]
             both == Lengths(Loads(intervals), SpansOf(intervals), intervals)
  <1>1. Weighed(intervals, "known") = SumOf(known, intervals) /\ Weighed(intervals, "unknown") = SumOf(unknown, intervals)
    BY WeighedIs
  <1>2. ASSUME NEW i \in intervals
        PROVE  known[i] \in Int /\ unknown[i] \in Int /\ both[i] = known[i] + unknown[i]
    <2> DEFINE c == ReconcileCounts(i.reading.counts)
               a == Known(c.known)
               b == Known(c.unknown)
               l == i.span.hi - i.span.lo
    <2>1. c["known"] = c.known /\ c["unknown"] = c.unknown
      OBVIOUS
    <2>2. a \in Nat /\ b \in Nat /\ l \in Int
      BY CountsAddUp
    <2>3. known[i] = a * l /\ unknown[i] = b * l
      BY <2>1
    <2>4. both[i] = (a + b) * l
      BY DEF Lengths, Loads, SpansOf, Load
    <2> HIDE DEF a, b, l, known, unknown, both
    <2>5. (a + b) * l = a * l + b * l /\ a * l \in Int /\ b * l \in Int
      BY <2>2
    <2> QED BY <2>3, <2>4, <2>5
  <1> HIDE DEF known, unknown, both
  <1> QED BY <1>1, <1>2, SumAdds DEF both

\* No reading accounts for more ports than were in force when it was made.
Fitting(scope) ==
  \A r \in scope.readings : Reconciles(r.counts) /\ CapacityAt(scope.capacity, r.at) # {} =>
    Known(ReconcileCounts(r.counts).known) + Known(ReconcileCounts(r.counts).unknown) <= PortsInForce(scope.capacity, r.at)

IsScope(scope) ==
  /\ Shots(scope.readings) /\ IsFiniteSet(scope.readings)
  /\ Finite(scope.windows) /\ Finite(scope.gaps)
  /\ Dated(scope.capacity) /\ Equipped(scope.capacity)

\* Whatever was read and when, monitored and missed, and however the capacity
\* changed: port-minutes known and unknown are no more than those expected, when
\* no reading accounts for more ports than there were (domain/metrics.ts:87).
THEOREM NoMoreThanExpected ==
  ASSUME NEW scope, IsScope(scope), Fitting(scope), FarFuture \in Int, MaxPorts \in Nat,
         NEW window, window.lo \in Int, window.hi \in Int,
         ComputeScopeMetrics(scope, window).expected # Null
  PROVE  LET m == ComputeScopeMetrics(scope, window)
         IN  /\ m.known \in Int /\ m.unknown \in Int /\ m.expected \in Int
             /\ m.known + m.unknown <= m.expected
             /\ m.unobserved = m.expected - m.known - m.unknown
  <1> DEFINE m == ComputeScopeMetrics(scope, window)
             capacity == scope.capacity
             monitored == Monitored(scope.windows, scope.gaps)
             spans == IntersectAll(window, monitored)
             reconciled == {r \in scope.readings : Reconciles(r.counts)}
             readings == scope.readings
             intervals == ValidIntervals(readings, monitored, capacity, window, reconciled)
             times == {t \in Int : Within(t, spans)}
             ports == [t \in times |-> PortsInForce(capacity, t)]
             at == SpansOf(intervals)
             held == Held(intervals, at)
             load == [t \in held |-> Load(CHOOSE i \in intervals : Holds(i.span, t))]
  <1>1. /\ m.known = Weighed(intervals, "known") /\ m.unknown = Weighed(intervals, "unknown")
        /\ m.expected = ExpectedPortMinutes(spans, capacity)
        /\ m.unobserved = IF m.expected = Null THEN Null ELSE Higher(0, m.expected - m.known - m.unknown)
    BY DEF ComputeScopeMetrics, IntervalsOf
  <1>2. monitored \in SUBSET Times /\ \A x, y \in monitored : x # y => x.hi < y.lo \/ y.hi < x.lo
    BY MonitoredIsExact DEF IsScope, Finite
  <1>3. Dated(capacity) /\ Equipped(capacity) /\ Shots(readings) /\ IsFiniteSet(readings)
    BY DEF IsScope
  <1> HIDE DEF monitored, capacity, readings, reconciled
  <1>4. /\ Parted(spans, window)
        /\ \A t \in Int : Within(t, spans) <=> Holds(window, t) /\ Within(t, monitored)
    BY <1>2, SharedIs
  <1>5. /\ IsFiniteSet(intervals) /\ Separate(intervals, at)
        /\ \A i \in intervals : \A t \in Int : Holds(i.span, t) =>
             /\ Holds(window, t) /\ Within(t, monitored)
             /\ CapacityAt(capacity, t) = CapacityAt(capacity, i.reading.at)
    BY <1>2, <1>3, IntervalsAre
  <1>6. \A i \in intervals : /\ i.span.lo \in Int /\ i.span.hi \in Int
                             /\ i.reading \in readings /\ i.reading \in reconciled
    BY <1>2, <1>3, IntervalIs
  <1> HIDE DEF spans, intervals
  <1>7. m.expected = ExpectedPortMinutes(spans, capacity) /\ ExpectedPortMinutes(spans, capacity) # Null
    BY <1>1
  <1>8. /\ IsFiniteSet(times) /\ \A t \in times : CapacityAt(capacity, t) # {}
        /\ m.expected = SumOf(ports, times)
    BY <1>3, <1>4, <1>7, ExpectedIs
  <1>9. /\ m.known \in Int /\ m.unknown \in Int
        /\ m.known + m.unknown = SumOf(Lengths(Loads(intervals), at, intervals), intervals)
    BY <1>1, <1>5, <1>6, WeighedAddUp DEF reconciled
  <1> HIDE DEF m
  <1>10. \A i \in intervals : at[i] = i.span /\ Loads(intervals)[i] = Load(i) /\ Load(i) \in Nat
    BY <1>6, CountsAddUp DEF SpansOf, Loads, Load, reconciled
  <1> HIDE DEF at
  <1>11. ASSUME NEW t \in Int, NEW i \in intervals, Holds(i.span, t)
         PROVE  /\ t \in held /\ t \in times /\ load[t] = Load(i) /\ load[t] <= ports[t]
    <2>1. t \in held
      BY <1>10, <1>11 DEF Held
    <2>2. \A j \in intervals : Holds(j.span, t) => j = i
      BY <1>5, <1>10, <1>11 DEF Separate
    <2>3. (CHOOSE j \in intervals : Holds(j.span, t)) = i
      BY <1>11, <2>2
    <2>4. load[t] = Load(i)
      BY <2>1, <2>3
    <2>5. t \in times
      BY <1>4, <1>5, <1>11
    <2>6. ports[t] = PortsInForce(capacity, i.reading.at) /\ CapacityAt(capacity, i.reading.at) # {}
      <3>1. CapacityAt(capacity, t) = CapacityAt(capacity, i.reading.at)
        BY <1>5, <1>11
      <3>2. PortsInForce(capacity, t) = PortsInForce(capacity, i.reading.at)
        BY <3>1 DEF PortsInForce
      <3> QED BY <1>8, <2>5, <3>1, <3>2
    <2>7. Load(i) <= PortsInForce(capacity, i.reading.at)
      BY <1>6, <2>6 DEF Fitting, Load, capacity, readings, reconciled
    <2> QED BY <2>1, <2>4, <2>5, <2>6, <2>7
  <1>12. \A t \in held : \E i \in intervals : t \in Int /\ Holds(i.span, t)
    BY <1>10 DEF Held
  <1>13. /\ IsFiniteSet(held)
         /\ SumOf(load, held) = SumOf(Lengths(Loads(intervals), at, intervals), intervals)
    <2>1. \A i \in intervals : Loads(intervals)[i] \in Int
      BY <1>10
    <2>2. \A i \in intervals : \A t \in Int : Holds(at[i], t) => load[t] = Loads(intervals)[i]
      BY <1>10, <1>11
    <2> HIDE DEF load
    <2> QED BY <1>5, <2>1, <2>2, SumOfSpans
  <1>14. /\ held \in SUBSET times /\ \A t \in held : load[t] \in Int /\ load[t] <= ports[t]
    <2>1. ASSUME NEW t \in held PROVE t \in times /\ load[t] \in Int /\ load[t] <= ports[t]
      <3>1. PICK i \in intervals : t \in Int /\ Holds(i.span, t)
        BY <1>12
      <3>2. t \in times /\ load[t] = Load(i) /\ load[t] <= ports[t]
        BY <1>11, <3>1
      <3> HIDE DEF load, ports, held, times
      <3> QED BY <1>10, <3>2
    <2> HIDE DEF load, ports, held, times
    <2> QED BY <2>1
  <1>15. \A t \in times : ports[t] \in Nat
    <2> TAKE t \in times
    <2>1. PortsInForce(capacity, t) \in Nat
      BY <1>3, <1>8, PortsAre
    <2> QED BY <2>1
  <1> HIDE DEF load, ports, held, times
  <1>16. SumOf(load, held) <= SumOf(ports, times)
    BY <1>8, <1>14, <1>15, SumGrows
  <1>17. m.expected \in Int
    <2>1. \A t \in times : ports[t] \in Int
      BY <1>15
    <2> QED BY <1>8, <2>1, SumIs
  <1>18. m.known + m.unknown <= m.expected
    BY <1>8, <1>9, <1>13, <1>16
  <1>19. m.unobserved = m.expected - m.known - m.unknown
    BY <1>1, <1>7, <1>9, <1>17, <1>18 DEF Higher, m
  <1> QED BY <1>9, <1>17, <1>18, <1>19 DEF m

-----------------------------------------------------------------------------
(* The study: its readings, and the window a series is taken from. *)

\* A page that says something.
IsPage(page) ==
  /\ Len(page.rows) \in Nat /\ DOMAIN page.rows = 1..Len(page.rows)
  /\ page.summary \in [available : Int, total : Int]

\* A reading stored in the instant "at".
IsReading(r, at) ==
  /\ r.at = at /\ r.id = at /\ at \in Int
  /\ IsShot(r)
  /\ r.interval = Policy.interval /\ r.cap = Policy.cap /\ r.limit = Policy.limit
  /\ r.counts = Counts(r.page) /\ IsPage(r.page) /\ r.quality \in {"reliable", "provisional"}
  /\ \A p, q \in r.ports : p.id = q.id => p = q

IsCapacity(capacity) ==
  /\ Dated(capacity) /\ Equipped(capacity)
  /\ \A c \in capacity : c.hi = Null
  /\ \A c, d \in capacity : c.lo = d.lo => c = d

\* A row whose readings have each an instant of its own, none later than this one.
Kept(row, at) ==
  /\ {"key", "linked", "readings", "durable", "ports", "windows", "capacity"} \subseteq DOMAIN row
  /\ row.linked = TRUE
  /\ \A r \in row.readings : r.at \in 0..at /\ IsReading(r, r.at)
  /\ \A q, r \in row.readings : q.at = r.at => q = r
  /\ row.ports \in Nat \cup {Null}
  /\ Finite(row.windows)
  /\ IsCapacity(row.capacity)

StudyInv ==
  /\ now \in 1..MaxTime
  /\ gaps \in SUBSET Times /\ IsFiniteSet(gaps)
  /\ rows = [s \in Stations |-> rows[s]]
  /\ \A s \in Stations : Kept(rows[s], now) /\ rows[s].key = s

LEMMA ParsedIs ==
  ASSUME NEW page, NEW station, NEW at, ParsePageReading(page, station, at).ok
  PROVE  /\ ParsePageReading(page, station, at).counts = Counts(page)
         /\ ParsePageReading(page, station, at).quality \in {"reliable", "provisional"}
         /\ \A p, q \in ParsePageReading(page, station, at).ports : p.id = q.id => p = q
  <1> DEFINE parsed == ParsePageReading(page, station, at)
             portsOf == IF IdentityReliable(page.rows)
                        THEN {[id |-> page.rows[i].id, state |-> ClassifyRow(page.rows[i])] : i \in DOMAIN page.rows}
                        ELSE {}
  <1>1. ASSUME NEW o, parsed = Failed(o) PROVE FALSE
    BY <1>1 DEF Failed
  <1>2. PICK outcome, quality, level, updated :
          \/ \E o : parsed = Failed(o)
          \/ /\ parsed = [ok |-> TRUE, outcome |-> outcome, quality |-> quality, counts |-> Counts(page), ports |-> portsOf,
                          level |-> level, updated |-> updated]
             /\ quality \in {"reliable", "provisional"}
    BY DEF ParsePageReading
  <1>3. parsed.ports = portsOf /\ parsed.counts = Counts(page) /\ parsed.quality = quality
    <2> HIDE DEF portsOf, parsed
    <2> QED BY <1>1, <1>2
  <1>4. \A p, q \in portsOf : p.id = q.id => p = q
    BY DEF IdentityReliable
  <1>5. quality \in {"reliable", "provisional"}
    BY <1>1, <1>2
  <1> QED BY <1>3, <1>4, <1>5

LEMMA StoredIs ==
  ASSUME StudyAssumption, NEW station \in Stations, NEW page \in PagesOf[station], NEW at \in Int,
         ParsePageReading(page, station, at).ok
  PROVE  IsReading(Stored(station, page, at), at)
  <1> DEFINE parsed == ParsePageReading(page, station, at)
             e == Envelope(at, at, parsed, Policy, TRUE)
             r == With(e, "page", page)
  <1>1. /\ parsed.counts = Counts(page) /\ parsed.quality \in {"reliable", "provisional"}
        /\ \A p, q \in parsed.ports : p.id = q.id => p = q
    BY ParsedIs
  <1> HIDE DEF parsed
  <1>2. /\ e.id = at /\ e.at = at /\ e.ports = parsed.ports /\ e.counts = parsed.counts
        /\ e.interval = Policy.interval /\ e.cap = Policy.cap /\ e.limit = Policy.limit /\ e.quality = parsed.quality
        /\ {"id", "at", "ports", "counts", "interval", "cap", "limit", "quality"} \subseteq DOMAIN e
    BY DEF Envelope
  <1> HIDE DEF e
  <1>3. Stored(station, page, at) = r
    BY DEF Stored, e, parsed
  <1>4. /\ r.id = at /\ r.at = at /\ r.ports = parsed.ports /\ r.counts = parsed.counts
        /\ r.interval = Policy.interval /\ r.cap = Policy.cap /\ r.limit = Policy.limit /\ r.page = page
        /\ r.quality = parsed.quality
    BY <1>2 DEF With
  <1> HIDE DEF r
  <1>5. IsShot(r) /\ IsPage(page)
    BY <1>4 DEF IsShot, IsPage, StudyAssumption
  <1> QED BY <1>1, <1>3, <1>4, <1>5 DEF IsReading

LEMMA NewCapacityIs ==
  ASSUME NEW capacity, IsCapacity(capacity), NEW c, c.lo \in Int, c.hi = Null, c.ports \in Nat
  PROVE  IsCapacity({d \in capacity : d.lo # c.lo} \cup {c})
  BY DEF IsCapacity, Dated, Equipped, Null

LEMMA WindowsStay ==
  ASSUME NEW spans, Finite(spans), NEW at \in Int
  PROVE  Finite({IF w.hi = Null /\ w.lo < at THEN Span(w.lo, at) ELSE w : w \in spans})
  <1> DEFINE f == [w \in spans |-> IF w.hi = Null /\ w.lo < at THEN Span(w.lo, at) ELSE w]
             closed == {IF w.hi = Null /\ w.lo < at THEN Span(w.lo, at) ELSE w : w \in spans}
  <1>1. f \in Surjection(spans, closed)
    BY DEF Surjection
  <1>2. closed \in SUBSET Times
    BY DEF Finite, Times, Span
  <1> HIDE DEF f, closed
  <1>3. IsFiniteSet(closed)
    BY <1>1, FS_Surjection DEF Finite
  <1> QED BY <1>2, <1>3 DEF Finite, closed

LEMMA WindowAdded ==
  ASSUME NEW spans, Finite(spans), NEW at \in Int
  PROVE  Finite(spans \cup {Span(at, Null)})
  <1>1. Span(at, Null) \in Times
    BY DEF Span, Times, Null
  <1> QED BY <1>1, FS_AddElement DEF Finite

LEMMA StudyInitIs == ASSUME StudyAssumption, StudyInit PROVE StudyInv
  <1>1. PICK ports \in [Stations -> UNION {PortsOf[s] : s \in Stations}],
             first \in [Stations -> UNION {PagesOf[s] : s \in Stations}] :
          /\ \A s \in Stations : ports[s] \in PortsOf[s] /\ first[s] \in PagesOf[s]
          /\ \A s \in Stations : ParsePageReading(first[s], s, 0).ok
          /\ rows = [s \in Stations |->
                      [key |-> s, linked |-> TRUE, enabled |-> TRUE, durable |-> TRUE, saved |-> FALSE,
                       catalogLevel |-> "level_2", ports |-> ports[s], readings |-> {Stored(s, first[s], 0)},
                       windows |-> {Span(0, Null)},
                       capacity |-> IF ports[s] = Null THEN {}
                                    ELSE {[lo |-> 0, hi |-> Null, ports |-> ports[s], level |-> "level_2"]}]]
    BY DEF StudyInit
  <1>2. ASSUME NEW s \in Stations PROVE Kept(rows[s], now) /\ rows[s].key = s
    <2> DEFINE one == [lo |-> 0, hi |-> Null, ports |-> ports[s], level |-> "level_2"]
               r == Stored(s, first[s], 0)
    <2>1. /\ rows[s].readings = {r} /\ rows[s].ports = ports[s] /\ rows[s].windows = {Span(0, Null)}
          /\ rows[s].capacity = IF ports[s] = Null THEN {} ELSE {one}
          /\ {"key", "linked", "readings", "durable", "ports", "windows", "capacity"} \subseteq DOMAIN rows[s]
          /\ rows[s].linked = TRUE /\ rows[s].key = s
      BY <1>1
    <2>2. IsReading(r, 0)
      <3> DEFINE page == first[s]
      <3>1. page \in PagesOf[s] /\ ParsePageReading(page, s, 0).ok
        BY <1>1
      <3> HIDE DEF page
      <3>2. IsReading(Stored(s, page, 0), 0)
        BY <3>1, StoredIs
      <3> QED BY <3>2 DEF page
    <2>3. now = 1
      BY DEF StudyInit
    <2>4. ports[s] \in Nat \cup {Null}
      BY <1>1 DEF StudyAssumption
    <2>5. IsCapacity(rows[s].capacity)
      BY <2>1, <2>4 DEF IsCapacity, Dated, Equipped, Null
    <2>6. Finite(rows[s].windows)
      <3> DEFINE w == Span(0, Null)
      <3>1. w \in Times
        BY DEF Span, Times, Null
      <3> HIDE DEF w
      <3>2. Finite({w})
        BY <3>1, FS_Singleton DEF Finite
      <3> QED BY <2>1, <3>2 DEF w
    <2>7. r.at = 0
      BY <2>2 DEF IsReading
    <2> HIDE DEF r, one
    <2> QED BY <2>1, <2>2, <2>3, <2>4, <2>5, <2>6, <2>7 DEF Kept
  <1>3. now = 1 /\ gaps = {} /\ rows = [s \in Stations |-> rows[s]]
    BY <1>1 DEF StudyInit
  <1>4. now \in 1..MaxTime
    BY <1>3 DEF StudyAssumption
  <1> QED BY <1>2, <1>3, <1>4, FS_EmptySet DEF StudyInv

LEMMA StudyKept == ASSUME StudyAssumption, StudyInv, [RecordsNext]_recordsVars PROVE StudyInv'
  <1>0. now \in Nat /\ \A s \in Stations : Kept(rows[s], now) /\ rows[s].key = s
    BY DEF StudyInv, StudyAssumption
  <1>1. ASSUME UNCHANGED studyVars PROVE StudyInv'
    BY <1>1 DEF StudyInv, studyVars
  <1>3. ASSUME UNCHANGED <<now, gaps>>, NEW s \in Stations, NEW new, rows' = [rows EXCEPT ![s] = new],
                Kept(new, now), new.key = s
        PROVE  StudyInv'
    <2>1. ASSUME NEW t \in Stations PROVE Kept(rows'[t], now) /\ rows'[t].key = t
      <3>1. rows'[t] = IF t = s THEN new ELSE rows[t]
        BY <1>3 DEF StudyInv
      <3> QED BY <1>0, <1>3, <3>1
    <2>2. rows' = [t \in Stations |-> rows'[t]]
      BY <1>3 DEF StudyInv
    <2> QED BY <1>3, <2>1, <2>2 DEF StudyInv
  <1>2. ASSUME NEW s \in Stations, NEW page \in PagesOf[s], ReadPage(s, page) PROVE StudyInv'
    <2> DEFINE r == Stored(s, page, now)
               new == [rows[s] EXCEPT !.readings = @ \cup {r}]
    <2>1. IsReading(r, now)
      <3>1. ParsePageReading(page, s, now).ok /\ now \in Int
        BY <1>0, <1>2 DEF ReadPage
      <3> QED BY <3>1, StoredIs
    <2>2. /\ rows' = [rows EXCEPT ![s] = new] /\ UNCHANGED <<now, gaps>>
          /\ ~\E q \in rows[s].readings : q.at = now
      BY <1>2 DEF ReadPage, Happens
    <2> HIDE DEF r
    <2>3. /\ new.readings = rows[s].readings \cup {r} /\ DOMAIN new = DOMAIN rows[s]
          /\ new.ports = rows[s].ports /\ new.windows = rows[s].windows /\ new.capacity = rows[s].capacity
            /\ new.linked = rows[s].linked /\ new.key = rows[s].key
      BY <1>0 DEF Kept
    <2> HIDE DEF new
    <2>4. r.at = now
      BY <2>1 DEF IsReading
    <2>5. Kept(new, now) /\ new.key = s
      BY <1>0, <2>1, <2>2, <2>3, <2>4 DEF Kept
    <2> QED BY <1>3, <2>2, <2>5
  <1>4. ASSUME NEW s \in Stations, TurnOn(s) PROVE StudyInv'
    <2> DEFINE row == rows[s]
               opened == row.windows \cup (IF \E w \in row.windows : w.lo = now THEN {} ELSE {Span(now, Null)})
               one == Capacity(s, now)
               capacity == IF row.ports = Null THEN row.capacity ELSE {c \in row.capacity : c.lo # now} \cup {one}
               new == [row EXCEPT !.enabled = TRUE, !.windows = opened, !.capacity = capacity]
    <2>1. rows' = [rows EXCEPT ![s] = new] /\ UNCHANGED <<now, gaps>>
      BY <1>4 DEF TurnOn, Happens
    <2>2. /\ DOMAIN new = DOMAIN row /\ new.readings = row.readings
          /\ new.ports = row.ports /\ new.windows = opened /\ new.capacity = capacity
          /\ new.linked = row.linked /\ new.key = row.key
      BY <1>0 DEF Kept
    <2>3. Finite(opened)
      <3>1. Finite(row.windows) /\ Finite(row.windows \cup {Span(now, Null)})
        BY <1>0, WindowAdded DEF Kept
      <3>2. opened = row.windows \/ opened = row.windows \cup {Span(now, Null)}
        OBVIOUS
      <3> QED BY <3>1, <3>2
    <2>4. IsCapacity(capacity)
      <3>1. one.lo = now /\ one.hi = Null /\ one.ports = row.ports
        BY DEF Capacity
      <3>2. IsCapacity(row.capacity) /\ row.ports \in Nat \cup {Null}
        BY <1>0 DEF Kept
      <3> HIDE DEF one, row
      <3>3. row.ports # Null => one.lo \in Int /\ one.hi = Null /\ one.ports \in Nat
        BY <1>0, <3>1, <3>2 DEF Null
      <3>4. row.ports # Null => IsCapacity({c \in row.capacity : c.lo # one.lo} \cup {one})
        BY <3>2, <3>3, NewCapacityIs
      <3> QED BY <3>1, <3>2, <3>4
    <2> HIDE DEF new, opened, capacity
    <2>5. Kept(new, now) /\ new.key = s
      BY <1>0, <2>2, <2>3, <2>4 DEF Kept
    <2> QED BY <1>3, <2>1, <2>5
  <1>5. ASSUME NEW s \in Stations, TurnOff(s) PROVE StudyInv'
    <2> DEFINE row == rows[s]
               closed == {IF w.hi = Null /\ w.lo < now THEN Span(w.lo, now) ELSE w : w \in row.windows}
               new == [row EXCEPT !.enabled = FALSE, !.windows = closed]
    <2>1. rows' = [rows EXCEPT ![s] = new] /\ UNCHANGED <<now, gaps>>
      BY <1>5 DEF TurnOff, Happens
    <2>2. /\ DOMAIN new = DOMAIN row /\ new.readings = row.readings
          /\ new.ports = row.ports /\ new.windows = closed /\ new.capacity = row.capacity
          /\ new.linked = row.linked /\ new.key = row.key
      BY <1>0 DEF Kept
    <2>3. Finite(closed)
      <3> DEFINE spans == row.windows
      <3>1. Finite(spans)
        BY <1>0 DEF Kept
      <3> HIDE DEF spans
      <3>2. Finite({IF w.hi = Null /\ w.lo < now THEN Span(w.lo, now) ELSE w : w \in spans})
        BY <1>0, <3>1, WindowsStay
      <3> QED BY <3>2 DEF spans
    <2> HIDE DEF new, closed
    <2>4. Kept(new, now) /\ new.key = s
      BY <1>0, <2>2, <2>3 DEF Kept
    <2> QED BY <1>3, <2>1, <2>4
  <1>6. ASSUME NEW s \in Stations, NEW ports \in PortsOf[s], CatalogueChanges(s, ports) PROVE StudyInv'
    <2> DEFINE new == [rows[s] EXCEPT !.ports = ports]
    <2>1. rows' = [rows EXCEPT ![s] = new] /\ UNCHANGED <<now, gaps>>
      BY <1>6 DEF CatalogueChanges, Happens
    <2>2. /\ DOMAIN new = DOMAIN rows[s] /\ new.readings = rows[s].readings
          /\ new.ports = ports /\ new.windows = rows[s].windows /\ new.capacity = rows[s].capacity
            /\ new.linked = rows[s].linked /\ new.key = rows[s].key
      BY <1>0 DEF Kept
    <2>3. ports \in Nat \cup {Null}
      BY DEF StudyAssumption
    <2> HIDE DEF new
    <2>4. Kept(new, now) /\ new.key = s
      BY <1>0, <2>2, <2>3 DEF Kept
    <2> QED BY <1>3, <2>1, <2>4
  <1>7. ASSUME RecordGap(now - 1, now) PROVE StudyInv'
    <2>1. Span(now - 1, now) \in Times
      BY DEF StudyInv, Span, Times
    <2>2. gaps' = gaps \cup {Span(now - 1, now)} /\ UNCHANGED <<now, rows>>
      BY <1>7 DEF RecordGap, Happens
    <2>3. IsFiniteSet(gaps')
      BY <2>2, FS_AddElement DEF StudyInv
    <2> QED BY <2>1, <2>2, <2>3 DEF StudyInv
  <1>8. ASSUME DeleteObservationsBefore(now) PROVE StudyInv'
    <2>1. /\ rows' = [s \in Stations |-> [rows[s] EXCEPT !.readings = {r \in @ : r.at >= now}]]
          /\ UNCHANGED <<now, gaps>>
      BY <1>8 DEF DeleteObservationsBefore, Happens
    <2>2. ASSUME NEW s \in Stations PROVE Kept(rows'[s], now) /\ rows'[s].key = s
      <3> DEFINE new == [rows[s] EXCEPT !.readings = {r \in @ : r.at >= now}]
      <3>1. rows'[s] = new
        BY <2>1
      <3>2. /\ DOMAIN new = DOMAIN rows[s] /\ new.readings \subseteq rows[s].readings
            /\ new.ports = rows[s].ports /\ new.windows = rows[s].windows /\ new.capacity = rows[s].capacity
            /\ new.linked = rows[s].linked /\ new.key = rows[s].key
        BY <1>0 DEF Kept
      <3> HIDE DEF new
      <3>3. Kept(new, now) /\ new.key = s
        BY <1>0, <3>2 DEF Kept
      <3> QED BY <3>1, <3>3
    <2>3. rows' = [s \in Stations |-> rows'[s]]
      BY <2>1
    <2> QED BY <2>1, <2>2, <2>3 DEF StudyInv
  <1>9. ASSUME Wait PROVE StudyInv'
    <2>1. now' = now + 1 /\ UNCHANGED <<rows, gaps>>
      BY <1>9 DEF Wait
    <2>2. \A s \in Stations : Kept(rows[s], now + 1)
      BY <1>0 DEF Kept
    <2>3. now + 1 \in 1..MaxTime
      BY <1>0, <1>9 DEF Wait, StudyAssumption
    <2> QED BY <1>0, <2>1, <2>2, <2>3 DEF StudyInv
  <1>10. CASE StudyStep
    BY <1>2, <1>4, <1>5, <1>6, <1>7, <1>8, <1>9, <1>10, StudyAssumption DEF StudyStep, StudyNext, StudyAssumption
  <1>11. CASE ~StudyStep
    BY <1>1, <1>11 DEF RecordsNext, CatalogStep, VisitsStep, recordsVars
  <1> QED BY <1>10, <1>11

-----------------------------------------------------------------------------
(* The series of a port, and what separates its snapshots. *)

\* Snapshots of different instants have one order, and all of them are in it.
LEMMA InOrderIs ==
  ASSUME NEW shots, IsFiniteSet(shots), \A a \in shots : a.at \in Int,
         \A a, b \in shots : a.at = b.at => a = b
  PROVE  LET n == Cardinality(shots)
             series == InOrder(shots)
         IN  /\ n \in Nat /\ series \in [1..n -> shots]
             /\ \A i, j \in 1..n : i < j => series[i].at < series[j].at
  <1> DEFINE n == Cardinality(shots)
             Until(a) == {b \in shots : b.at <= a.at}
             rank == [a \in shots |-> Cardinality(Until(a))]
             series == InOrder(shots)
  <1>0. n \in Nat
    BY FS_CardinalityType
  <1>1. ASSUME NEW a \in shots PROVE rank[a] \in 1..n
    <2>1. IsFiniteSet(Until(a)) /\ Cardinality(Until(a)) <= n
      BY FS_Subset
    <2>2. a \in Until(a)
      OBVIOUS
    <2>3. Cardinality(Until(a)) \in Nat /\ Cardinality(Until(a)) # 0
      BY <2>1, <2>2, FS_CardinalityType, FS_EmptySet
    <2> QED BY <1>0, <2>1, <2>3
  <1>2. ASSUME NEW a \in shots, NEW b \in shots, a.at < b.at PROVE rank[a] < rank[b]
    <2>1. Until(a) \in SUBSET Until(b) /\ b \in Until(b) /\ b \notin Until(a)
      BY <1>2
    <2>2. IsFiniteSet(Until(b))
      BY FS_Subset
    <2>3. Cardinality(Until(a)) <= Cardinality(Until(b)) /\ Cardinality(Until(a)) # Cardinality(Until(b))
      BY <2>1, <2>2, FS_Subset
    <2> QED BY <1>1, <2>3
  <1> HIDE DEF n
  <1>3. \A a, b \in shots : rank[a] = rank[b] => a = b
    <2> HIDE DEF rank
    <2>1. \A a, b \in shots : rank[a] \in Int /\ (a.at < b.at => rank[a] < rank[b])
      BY <1>0, <1>1, <1>2
    <2>2. \A a, b \in shots : a = b \/ a.at < b.at \/ b.at < a.at
      OBVIOUS
    <2> QED BY <2>1, <2>2
  <1>4. rank \in Injection(shots, 1..n)
    BY <1>1, <1>3 DEF Injection, IsInjective
  <1>5. IsFiniteSet(1..n) /\ Cardinality(1..n) = n
    BY <1>0, FS_Interval
  <1>6. rank \in Surjection(shots, 1..n)
    <2> HIDE DEF rank
    <2> QED BY <1>4, <1>5, FS_Injection DEF n
  <1>7. ASSUME NEW i \in 1..n PROVE series[i] \in shots /\ rank[series[i]] = i
    <2>1. \E a \in shots : rank[a] = i
      BY <1>6 DEF Surjection
    <2>2. series[i] = CHOOSE a \in shots : rank[a] = i
      BY DEF InOrder, n
    <2> HIDE DEF rank, series
    <2> QED BY <2>1, <2>2
  <1>8. series \in [1..n -> shots]
    BY <1>7 DEF InOrder, n
  <1> HIDE DEF rank, series
  <1>9. ASSUME NEW i \in 1..n, NEW j \in 1..n, i < j PROVE series[i].at < series[j].at
    BY <1>0, <1>2, <1>7, <1>9
  <1> QED BY <1>0, <1>8, <1>9 DEF n, series

LEMMA RowIs ==
  ASSUME StudyInv, NEW s \in Stations
  PROVE  RowOf(s).readings = rows[s].readings /\ RowOf(s).gaps = gaps
  BY DEF RowOf, With, StudyInv, Kept

\* The readings of a station are finitely many, for there is one in an instant.
LEMMA ReadingsAreFinite ==
  ASSUME NEW row, NEW at \in Nat, Kept(row, at)
  PROVE  IsFiniteSet(row.readings)
  <1> DEFINE f == [r \in row.readings |-> r.at]
  <1>1. f \in Injection(row.readings, 0..at)
    BY DEF Injection, IsInjective, Kept
  <1>2. IsFiniteSet(0..at)
    BY FS_Interval
  <1> QED BY <1>1, <1>2, FS_Injection

\* Snapshots lie in the window, in the order of their times.
LEMMA SeriesIs ==
  ASSUME StudyInv, NEW s \in Stations, NEW window, window.lo \in Int, window.hi \in Int, NEW port
  PROVE  LET series == PortSeries(RowOf(s), window, port)
         IN  \E n \in Nat : /\ Ordered(series, n)
                            /\ \A i \in 1..n : window.lo <= series[i].at /\ series[i].at < window.hi
  <1> DEFINE readings == SnapshotsFor(rows[s].readings, window.lo, window.hi)
             Of(r) == {[at |-> r.at, id |-> r.id, state |-> p.state] : p \in {q \in r.ports : q.id = port}}
             shots == UNION {Of(r) : r \in readings}
             n == Cardinality(shots)
             series == PortSeries(RowOf(s), window, port)
  <1>1. Kept(rows[s], now) /\ now \in Nat
    BY DEF StudyInv
  <1>2. series = InOrder(shots)
    BY RowIs DEF PortSeries
  <1>3. \A r \in readings : r \in rows[s].readings /\ window.lo <= r.at /\ r.at < window.hi
    BY DEF SnapshotsFor
  <1>4. ASSUME NEW a \in shots
        PROVE  /\ a.at \in 0..now /\ a.id = a.at /\ window.lo <= a.at /\ a.at < window.hi
               /\ \E r \in rows[s].readings : a.at = r.at /\ a \in Of(r)
    <2>1. PICK r \in readings : a \in Of(r)
      OBVIOUS
    <2>2. a.at = r.at /\ a.id = r.id
      BY <2>1
    <2>3. r.at \in 0..now /\ r.id = r.at
      BY <1>1, <1>3 DEF Kept, IsReading
    <2> QED BY <1>3, <2>1, <2>2, <2>3
  <1>5. ASSUME NEW a \in shots, NEW b \in shots, a.at = b.at PROVE a = b
    <2>1. PICK r \in rows[s].readings : a.at = r.at /\ a \in Of(r)
      BY <1>4
    <2>2. PICK q \in rows[s].readings : b.at = q.at /\ b \in Of(q)
      BY <1>4
    <2>3. q = r
      BY <1>1, <1>5, <2>1, <2>2 DEF Kept
    <2>4. \A x, y \in r.ports : x.id = y.id => x = y
      BY <1>1 DEF Kept, IsReading
    <2> QED BY <2>1, <2>2, <2>3, <2>4
  <1>6. IsFiniteSet(shots)
    <2> DEFINE f == [a \in shots |-> a.at]
    <2>1. f \in Injection(shots, 0..now)
      <3> HIDE DEF shots
      <3> QED BY <1>4, <1>5 DEF Injection, IsInjective
    <2>2. IsFiniteSet(0..now)
      BY <1>1, FS_Interval
    <2> QED BY <2>1, <2>2, FS_Injection
  <1> HIDE DEF shots, series
  <1>7. /\ n \in Nat /\ series \in [1..n -> shots]
        /\ \A i, j \in 1..n : i < j => series[i].at < series[j].at
    BY <1>1, <1>2, <1>4, <1>5, <1>6, InOrderIs
  <1> HIDE DEF n
  <1>8. Len(series) = n
    <2>1. series \in Seq(shots)
      BY <1>7, SeqDef
    <2> QED BY <1>7, <2>1, LenProperties
  <1>9. \A i \in 1..n : series[i] \in shots
    BY <1>7
  <1>10. Ordered(series, n)
    <2>1. \A i \in 1..n : series[i].at \in Int /\ series[i].id = series[i].at
      BY <1>4, <1>9
    <2> QED BY <1>7, <1>8, <2>1 DEF Ordered
  <1> QED BY <1>4, <1>7, <1>9, <1>10 DEF series

\* A break lies between two instants of the window when a gap was recorded over
\* one of the instants from the first up to the second.
LEMMA BreaksAreGaps ==
  ASSUME NEW row, Finite(row.gaps), NEW window, window.lo \in Int, window.hi \in Int,
         NEW a \in Int, NEW b \in Int, window.lo <= a, b < window.hi
  PROVE  BreaksBetween(a, b, GapSpans(row, window)) <=> \E t \in a..(b - 1) : \E g \in row.gaps : Holds(g, t)
  <1> DEFINE missing == Normalize(row.gaps)
             breaks == GapSpans(row, window)
             seen == Span(a, b)
  <1>1. missing \in SUBSET Times /\ \A t \in Int : Within(t, missing) <=> Within(t, row.gaps)
    BY NormalizeIs DEF Merged, Finite
  <1> HIDE DEF missing
  <1>3. ASSUME NEW brk \in breaks
        PROVE  /\ brk.lo \in Int /\ brk.hi \in Int
               /\ \A t \in Int : Holds(brk, t) => Within(t, row.gaps)
    <2>1. PICK o \in missing : brk \in Intersect(window, o)
      BY DEF GapSpans, IntersectAll, missing
    <2>2. o.lo \in Int /\ o.hi \in Int
      BY <1>1 DEF Times
    <2> QED BY <1>1, IntersectIs, <2>1, <2>2 DEF Within
  <1>4. seen.lo = a /\ seen.hi = b
    BY DEF Span
  <1>5. ASSUME BreaksBetween(a, b, breaks) PROVE \E t \in a..(b - 1) : \E g \in row.gaps : Holds(g, t)
    <2>1. PICK brk \in breaks : Intersect(seen, brk) # {}
      BY <1>5 DEF BreaksBetween
    <2> HIDE DEF seen, breaks
    <2>2. PICK t \in Int : Holds(seen, t) /\ Holds(brk, t)
      BY IntersectIs, <1>3, <1>4, <2>1
    <2>3. t \in a..(b - 1)
      BY <1>4, <2>2 DEF Holds
    <2> QED BY <1>3, <2>2, <2>3 DEF Within
  <1>6. ASSUME NEW t \in a..(b - 1), NEW g \in row.gaps, Holds(g, t) PROVE BreaksBetween(a, b, breaks)
    <2>1. t \in Int /\ a < b /\ Holds(window, t) /\ Holds(seen, t)
      BY <1>4, <1>6 DEF Holds
    <2> HIDE DEF seen
    <2>2. PICK o \in missing : Holds(o, t)
      BY <1>1, <1>6, <2>1 DEF Within
    <2>3. o.lo \in Int /\ o.hi \in Int
      BY <1>1 DEF Times
    <2>4. PICK brk : brk \in Intersect(window, o) /\ brk.lo \in Int /\ brk.hi \in Int /\ Holds(brk, t)
      BY IntersectIs, <2>1, <2>2, <2>3
    <2>5. brk \in breaks
      BY <2>2, <2>4 DEF GapSpans, IntersectAll, missing
    <2>6. Intersect(seen, brk) # {}
      BY IntersectIs, <1>4, <2>1, <2>4
    <2> QED BY <2>1, <2>5, <2>6 DEF BreaksBetween, seen
  <1> QED BY <1>5, <1>6

\* Whatever the user asks for, a window shown is between two instants, and ends
\* no later than the last that can be asked for.
LEMMA WindowIs ==
  ASSUME StudyInv, StudyAssumption, RankingAssumption, NEW window \in Windows
  PROVE  window.lo \in Int /\ window.hi \in Int /\ window.lo <= window.hi /\ window.hi <= FarFuture
  <1> DEFINE times == UNION {{r.at : r \in row.readings} : row \in StudyRows}
             start == StudyStart(StudyRows)
  <1>1. times \in SUBSET Int /\ \A t \in times : 0 <= t /\ t <= now
    <2>1. ASSUME NEW row \in StudyRows, NEW r \in row.readings PROVE r.at \in Int /\ 0 <= r.at /\ r.at <= now
      <3>1. PICK s \in Stations : row = RowOf(s)
        BY DEF StudyRows
      <3>2. row.readings = rows[s].readings
        BY <3>1, RowIs
      <3> QED BY <3>2 DEF StudyInv, Kept
    <2> QED BY <2>1
  <1>2. start = IF times = {} THEN Null ELSE CHOOSE t \in times : \A u \in times : t <= u
    BY DEF StudyStart
  <1> HIDE DEF times, start
  <1>0. now \in Int /\ 1 <= now /\ now <= FarFuture /\ FarFuture \in Int
    BY DEF StudyInv, StudyAssumption
  <1>3. start \in Int /\ start <= now
    <2>1. times # {} => \E t \in times : \A u \in times : t <= u
      BY <1>1, LeastIs
    <2>2. CASE times = {}
      BY <1>0, <1>2, <2>2 DEF Null
    <2>3. CASE times # {}
      <3> DEFINE first == CHOOSE t \in times : \A u \in times : t <= u
      <3>1. first \in times
        BY <2>1, <2>3
      <3>2. start = first
        BY <1>2, <2>3
      <3> HIDE DEF first
      <3> QED BY <1>1, <3>1, <3>2
    <2> QED BY <2>2, <2>3
  <1>4. PICK request \in Requests : window = ResolveWindow(request, now, start)
    BY DEF Windows, SharedWindow, start
  <1> DEFINE asked == Requested(request, now, start)
  <1>5. asked.lo \in Int /\ asked.hi \in Int /\ asked.lo <= FarFuture /\ asked.hi <= FarFuture
    <2>1. Day \in Nat
      BY DEF RankingAssumption
    <2>2. CASE request.preset = "days" /\ request.days \in Nat
      <3>1. asked = Span(now - request.days * Day, now)
        BY <2>2 DEF Requested
      <3>2. request.days * Day \in Nat
        BY <2>1, <2>2
      <3> DEFINE back == request.days * Day
      <3> HIDE DEF back
      <3> QED BY <1>0, <3>1, <3>2 DEF Span, back
    <2>3. CASE request.preset = "all"
      BY <1>0, <1>3, <2>3 DEF Requested, Span
    <2>4. CASE request.preset = "custom" /\ request.from \in 0..FarFuture /\ request.to \in 0..FarFuture
      BY <1>0, <2>4 DEF Requested, Span, Lower, Higher
    <2> QED BY <2>2, <2>3, <2>4 DEF StudyAssumption
  <1> HIDE DEF asked
  <1>6. window = Span(IF start = Null THEN asked.lo ELSE Higher(asked.lo, start),
                      Higher(Higher(asked.lo, asked.hi), IF start = Null THEN asked.lo ELSE Higher(asked.lo, start)))
    BY <1>4 DEF ResolveWindow, asked
  <1> QED BY <1>0, <1>3, <1>5, <1>6 DEF Span, Higher

LEMMA StartsAre ==
  ASSUME StudyInv, StudyAssumption, RankingAssumption PROVE StartsAreArrivals
  <1> SUFFICES ASSUME NEW s \in Stations, NEW window \in Windows, NEW port \in PortsSeen(RowOf(s), window)
      PROVE  LET row == RowOf(s)
                 series == PortSeries(row, window, port)
                 episodes == EpisodesOf(row, window, port)
                 arrivals == {i \in 2..Len(series) :
                                /\ series[i - 1].state = "available" /\ series[i].state = "occupied"
                                /\ series[i].at - series[i - 1].at <= MaxObservationGap
                                /\ \A t \in series[i - 1].at..(series[i].at - 1) : ~\E g \in gaps : Holds(g, t)}
             IN  /\ {e.startHi : e \in DetectedStarts(episodes)} = {series[i].at : i \in arrivals}
                 /\ Cardinality(DetectedStarts(episodes)) = Cardinality(arrivals)
                 /\ \A i \in DOMAIN series : series[i].state = "occupied" =>
                      Cardinality({e \in episodes : series[i].id \in e.ids}) = 1
    BY DEF StartsAreArrivals
  <1> DEFINE row == RowOf(s)
             series == PortSeries(row, window, port)
             breaks == GapSpans(row, window)
             episodes == EpisodesOf(row, window, port)
             arrivals == {i \in 2..Len(series) :
                            /\ series[i - 1].state = "available" /\ series[i].state = "occupied"
                            /\ series[i].at - series[i - 1].at <= MaxObservationGap
                            /\ \A t \in series[i - 1].at..(series[i].at - 1) : ~\E g \in gaps : Holds(g, t)}
  <1>1. window.lo \in Int /\ window.hi \in Int
    BY WindowIs
  <1>2. PICK n \in Nat : /\ Ordered(series, n)
                         /\ \A i \in 1..n : window.lo <= series[i].at /\ series[i].at < window.hi
    BY <1>1, SeriesIs
  <1>3. episodes = DetectPortEpisodes(series, breaks)
    BY DEF EpisodesOf
  <1>4. row.gaps = gaps /\ Finite(row.gaps)
    BY RowIs DEF StudyInv, Finite
  <1> HIDE DEF row, series, breaks, episodes
  <1>5. ASSUME NEW i \in 2..n
        PROVE  BreaksBetween(series[i - 1].at, series[i].at, breaks) <=>
                 \E t \in series[i - 1].at..(series[i].at - 1) : \E g \in gaps : Holds(g, t)
    <2>1. i \in 1..n /\ i - 1 \in 1..n
      OBVIOUS
    <2>2. series[i - 1].at \in Int /\ series[i].at \in Int /\ window.lo <= series[i - 1].at /\ series[i].at < window.hi
      BY <1>2, <2>1 DEF Ordered
    <2> QED BY <1>1, <1>4, <2>2, BreaksAreGaps DEF breaks
  <1>6. arrivals = {i \in 1..n : Arrives(series, breaks, i)}
    <2>1. Len(series) = n
      BY <1>2 DEF Ordered
    <2>2. \A i \in 1..n : i > 1 <=> i \in 2..n
      OBVIOUS
    <2>3. \A i \in 2..n : i \in 1..n
      OBVIOUS
    <2> QED BY <1>5, <2>1, <2>2, <2>3 DEF Arrives, Joined
  <1> HIDE DEF arrivals
  <1>7. /\ {e.startHi : e \in DetectedStarts(episodes)} = {series[i].at : i \in arrivals}
        /\ Cardinality(DetectedStarts(episodes)) = Cardinality(arrivals)
        /\ \A i \in 1..n : series[i].state = "occupied" =>
             \E e \in episodes : series[i].id \in e.ids /\ \A f \in episodes : series[i].id \in f.ids => f = e
    BY <1>2, <1>3, <1>6, SpellsAreArrivals
  <1>8. ASSUME NEW i \in DOMAIN series, series[i].state = "occupied"
        PROVE  Cardinality({e \in episodes : series[i].id \in e.ids}) = 1
    <2>1. i \in 1..n
      BY <1>2 DEF Ordered
    <2>2. PICK e \in episodes : series[i].id \in e.ids /\ \A f \in episodes : series[i].id \in f.ids => f = e
      BY <1>7, <1>8, <2>1
    <2>3. {f \in episodes : series[i].id \in f.ids} = {e}
      BY <2>2
    <2> QED BY <2>3, FS_Singleton
  <1> QED BY <1>7, <1>8 DEF row, series, episodes, arrivals

\* Whatever was read, turned on and off, missed and deleted: in every window shown
\* the starts of each port are the arrivals its readings show, each counted once,
\* and a reading in use belongs to one spell (domain/episodes.ts:100, queries.ts:560).
THEOREM StartsWereSeen ==
  ASSUME StudyAssumption, RankingAssumption PROVE RecordsSpec => []StartsAreArrivals
  <1>1. RecordsInit => StudyInv
    BY StudyInitIs DEF RecordsInit
  <1>2. StudyInv /\ [RecordsNext]_recordsVars => StudyInv'
    BY StudyKept
  <1>3. StudyInv => StartsAreArrivals
    BY StartsAre
  <1> QED BY <1>1, <1>2, <1>3, PTL DEF RecordsSpec

-----------------------------------------------------------------------------
(* The port-minutes of the stations. *)

\* A page never accounts for more ports than it shows.
LEMMA PageLoad ==
  ASSUME NEW page, IsPage(page), Reconciles(Counts(page)), MaxPorts \in Nat,
         NEW most \in Nat, Higher(Len(page.rows), Higher(page.summary.total, page.summary.available)) <= most
  PROVE  Known(ReconcileCounts(Counts(page)).known) + Known(ReconcileCounts(Counts(page)).unknown) <= most
  <1> DEFINE c == Counts(page)
             n == Len(page.rows)
             total == page.summary.total
             available == page.summary.available
  <1>0. n \in Nat /\ total \in Int /\ available \in Int
    BY DEF IsPage
  <1>1. Known(ReconcileCounts(c).known) + Known(ReconcileCounts(c).unknown) = IF c.total = Null THEN AllSum(c) ELSE c.total
    BY CountsAddUp
  <1>2. CASE page.rows # <<>>
    <2>1. c.total = n /\ n # Null
      BY <1>0, <1>2 DEF Counts, Null
    <2>2. n <= most
      BY <1>0 DEF Higher
    <2> HIDE DEF c, n
    <2> QED BY <1>1, <2>1, <2>2 DEF c
  <1>3. CASE page.rows = <<>>
    <2>1. /\ c.total = total /\ c.available = available /\ c.occupied = Null /\ c.reserved = Null
          /\ c.outOfService = Null /\ c.unknown = Null
      BY <1>3 DEF Counts
    <2>2. /\ total = Null \/ total \in Nat
          /\ available = Null \/ available \in Nat
      <3> HIDE DEF total, available
      <3>1. \A m \in {c.available, c.total} : m = Null \/ m \in 0..MaxPorts
        BY DEF Reconciles
      <3> QED BY <2>1, <3>1
    <2>3. total <= most /\ available <= most
      <3> HIDE DEF total, available, n
      <3>1. Higher(n, Higher(total, available)) <= most /\ n \in Nat
        BY <1>0 DEF total, available, n
      <3> QED BY <2>2, <3>1 DEF Higher, Null
    <2>4. AllSum(c) = IF available = Null THEN 0 ELSE available
      <3> HIDE DEF c, available
      <3> QED BY <2>1, <2>2 DEF AllSum, KnownSum, Known, Null
    <2> HIDE DEF c, total, available
    <2> QED BY <1>1, <2>1, <2>2, <2>3, <2>4 DEF c
  <1> QED BY <1>2, <1>3

\* The installed ports are those of the one record in force, or none.
LEMMA PortsAtIs ==
  ASSUME NEW row, IsCapacity(row.capacity), NEW t
  PROVE  PortsAt(row, t) = IF CapacityAt(row.capacity, t) = {} THEN 0 ELSE PortsInForce(row.capacity, t)
  <1> DEFINE inForce == CapacityAt(row.capacity, t)
             f == [c \in inForce |-> c.ports]
             A(it) == it = [s \in SUBSET inForce |-> IF s = {} THEN 0 ELSE AnyOf(s).ports + it[s \ {AnyOf(s)}]]
             B(it) == it = [s \in SUBSET inForce |-> IF s = {} THEN 0 ELSE f[AnyOf(s)] + it[s \ {AnyOf(s)}]]
  <1>1. PortsAt(row, t) = (CHOOSE it : A(it))[inForce]
    BY DEF PortsAt, MapThenSumSet, MapThenFoldSet, AnyOf
  <1>2. SumOf(f, inForce) = (CHOOSE it : B(it))[inForce]
    BY DEF SumOf, MapThenSumSet, MapThenFoldSet, AnyOf
  <1>3. \A s \in SUBSET inForce : s # {} => f[AnyOf(s)] = AnyOf(s).ports
    BY DEF AnyOf
  <1>4. \A c \in inForce : c \in row.capacity /\ f[c] = c.ports /\ f[c] \in Nat
    BY DEF CapacityAt, IsCapacity, Equipped
  <1>5. \A c, d \in inForce : c = d
    <2>1. ASSUME NEW c \in inForce, NEW d \in inForce PROVE c.lo <= d.lo /\ d.lo <= c.lo
      BY DEF CapacityAt
    <2>2. \A c, d \in inForce : c.lo \in Int /\ d.lo \in Int
      BY <1>4 DEF IsCapacity, Dated
    <2>3. \A c, d \in inForce : c.lo = d.lo
      BY <2>1, <2>2
    <2> QED BY <1>4, <2>3 DEF IsCapacity
  <1> HIDE DEF f, inForce
  <1>6. ASSUME NEW it PROVE A(it) <=> B(it)
    BY <1>3
  <1> HIDE DEF A, B
  <1>7. PortsAt(row, t) = SumOf(f, inForce)
    <2>1. (CHOOSE it : A(it)) = (CHOOSE it : B(it))
      BY <1>6
    <2> QED BY <1>1, <1>2, <2>1
  <1>8. CASE inForce = {}
    <2>1. IsFiniteSet(inForce)
      BY <1>8, FS_EmptySet
    <2>2. SumOf(f, inForce) = 0
      BY <1>4, <1>8, <2>1, SumIs
    <2> QED BY <1>7, <1>8, <2>2 DEF inForce
  <1>9. CASE inForce # {}
    <2> DEFINE c == CHOOSE d \in inForce : TRUE
    <2>1. c \in inForce
      BY <1>9
    <2>2. PortsInForce(row.capacity, t) = c.ports
      BY DEF PortsInForce, inForce
    <2> HIDE DEF c
    <2>3. inForce = {c} /\ IsFiniteSet(inForce)
      BY <1>5, <2>1, FS_Singleton
    <2>4. SumOf(f, inForce) = f[c] + SumOf(f, {}) /\ SumOf(f, {}) = 0 /\ f[c] \in Int
      <3> DEFINE none == {}
      <3>1. none = inForce \ {c}
        BY <2>3
      <3>2. SumOf(f, inForce) = f[c] + SumOf(f, none) /\ f[c] \in Int
        BY <1>4, <2>1, <2>3, <3>1, SumTake
      <3>3. SumOf(f, {}) = 0
        BY <1>4, <2>3, SumIs
      <3> QED BY <3>2, <3>3
    <2> QED BY <1>4, <1>7, <1>9, <2>1, <2>2, <2>4 DEF inForce
  <1> QED BY <1>8, <1>9

\* A row of the queries, with what StudyInv says of it.
LEMMA RowFields ==
  ASSUME StudyInv, NEW s \in Stations
  PROVE  LET row == RowOf(s)
         IN  /\ row.readings = rows[s].readings /\ row.gaps = gaps /\ row.windows = rows[s].windows
             /\ row.capacity = rows[s].capacity /\ row.linked = TRUE /\ row.key = s
             /\ Finite(row.windows) /\ Finite(row.gaps) /\ IsCapacity(row.capacity)
             /\ Shots(row.readings) /\ IsFiniteSet(row.readings)
             /\ \A r \in row.readings : r.at \in 0..now /\ IsReading(r, r.at)
  <1> DEFINE row == RowOf(s)
  <1>1. Kept(rows[s], now) /\ rows[s].key = s /\ now \in Nat /\ gaps \in SUBSET Times /\ IsFiniteSet(gaps)
    BY DEF StudyInv
  <1>2. /\ row.readings = rows[s].readings /\ row.gaps = gaps /\ row.windows = rows[s].windows
        /\ row.capacity = rows[s].capacity /\ row.linked = rows[s].linked /\ row.key = rows[s].key
    BY <1>1 DEF RowOf, With, Kept
  <1> HIDE DEF row
  <1>3. IsFiniteSet(row.readings)
    BY <1>1, <1>2, ReadingsAreFinite
  <1>4. Shots(row.readings)
    BY <1>1, <1>2 DEF Kept, Shots, IsReading
  <1>5. \A r \in row.readings : r.at \in 0..now /\ IsReading(r, r.at)
    BY <1>1, <1>2 DEF Kept
  <1>6. row.linked = TRUE /\ Finite(row.windows) /\ Finite(row.gaps) /\ IsCapacity(row.capacity)
    BY <1>1, <1>2 DEF Kept, Finite
  <1> QED BY <1>1, <1>2, <1>3, <1>4, <1>5, <1>6 DEF row

\* The readings, windows and capacity of a station make a scope; it fits when
\* no page shows more ports than are installed.
LEMMA ScopeIs ==
  ASSUME StudyInv, MetricsAssumption, NEW s \in Stations, NEW window
  PROVE  LET scope == ScopeOf(RowOf(s), window)
         IN  /\ IsScope(scope) /\ scope.capacity = RowOf(s).capacity /\ IsCapacity(RowOf(s).capacity)
             /\ Fits(RowOf(s)) => Fitting(scope)
  <1> DEFINE row == RowOf(s)
             scope == ScopeOf(row, window)
  <1>1. /\ Finite(row.windows) /\ Finite(row.gaps) /\ IsCapacity(row.capacity)
        /\ Shots(row.readings) /\ IsFiniteSet(row.readings)
        /\ \A r \in row.readings : IsReading(r, r.at)
    BY RowFields
  <1> HIDE DEF row
  <1>2. /\ scope.readings = SnapshotsFor(row.readings, window.lo - LookBack, window.hi)
        /\ scope.windows = row.windows /\ scope.gaps = row.gaps /\ scope.capacity = row.capacity
    BY DEF ScopeOf
  <1> HIDE DEF scope
  <1>3. scope.readings \subseteq row.readings
    BY <1>2 DEF SnapshotsFor
  <1>4. IsScope(scope)
    <2>1. IsFiniteSet(scope.readings)
      BY <1>1, <1>3, FS_Subset
    <2>2. Shots(scope.readings)
      BY <1>1, <1>3 DEF Shots
    <2> QED BY <1>1, <1>2, <2>1, <2>2 DEF IsScope, IsCapacity
  <1>5. ASSUME Fits(row) PROVE Fitting(scope)
    <2> SUFFICES ASSUME NEW r \in scope.readings, Reconciles(r.counts), CapacityAt(scope.capacity, r.at) # {}
                 PROVE  Known(ReconcileCounts(r.counts).known) + Known(ReconcileCounts(r.counts).unknown)
                          <= PortsInForce(scope.capacity, r.at)
      BY DEF Fitting
    <2>1. r.counts = Counts(r.page) /\ IsPage(r.page)
      BY <1>1, <1>3 DEF IsReading
    <2>2. PortsAt(row, r.at) = PortsInForce(scope.capacity, r.at)
      BY <1>1, <1>2, PortsAtIs
    <2>3. PortsInForce(scope.capacity, r.at) \in Nat
      BY <1>4, PortsAre DEF IsScope
    <2>4. Higher(Len(r.page.rows), Higher(r.page.summary.total, r.page.summary.available)) <= PortsAt(row, r.at)
      BY <1>3, <1>5 DEF Fits
    <2> DEFINE most == PortsInForce(scope.capacity, r.at)
               page == r.page
    <2>5. most \in Nat /\ IsPage(page) /\ Reconciles(Counts(page))
          /\ Higher(Len(page.rows), Higher(page.summary.total, page.summary.available)) <= most
      BY <2>1, <2>2, <2>3, <2>4
    <2> HIDE DEF most, page
    <2>6. Known(ReconcileCounts(Counts(page)).known) + Known(ReconcileCounts(Counts(page)).unknown) <= most
      BY <2>5, PageLoad DEF MetricsAssumption
    <2> QED BY <2>1, <2>6 DEF most, page
  <1> QED BY <1>1, <1>2, <1>4, <1>5 DEF row, scope

\* A row's minutes per port are known, unknown or unobserved, and nothing else.
LEMMA PortMinutesAre ==
  ASSUME StudyAssumption, RankingAssumption, MetricsAssumption, StudyInv PROVE PortMinutesAddUp
  <1> SUFFICES ASSUME NEW s \in Stations, NEW window \in Windows,
                      MetricsOf(RowOf(s), window).expected # Null, Fits(RowOf(s))
               PROVE  LET m == MetricsOf(RowOf(s), window)
                      IN  m.known + m.unknown + m.unobserved = m.expected
    BY DEF PortMinutesAddUp
  <1> DEFINE row == RowOf(s)
             scope == ScopeOf(row, window)
             m == ComputeScopeMetrics(scope, window)
  <1>1. MetricsOf(row, window) = m
    BY DEF MetricsOf
  <1>2. window.lo \in Int /\ window.hi \in Int
    BY WindowIs
  <1>3. IsScope(scope) /\ Fitting(scope)
    BY ScopeIs
  <1>4. m.expected # Null
    BY <1>1
  <1> HIDE DEF scope, row
  <1>5. /\ m.known \in Int /\ m.unknown \in Int /\ m.expected \in Int
        /\ m.unobserved = m.expected - m.known - m.unknown
    <2>1. FarFuture \in Int /\ MaxPorts \in Nat
      BY DEF StudyAssumption, MetricsAssumption
    <2> QED BY <1>2, <1>3, <1>4, <2>1, NoMoreThanExpected
  <1> HIDE DEF m
  <1>6. m.known + m.unknown + m.unobserved = m.expected
    BY <1>5
  <1> QED BY <1>1, <1>6 DEF row

\* Whatever was read, turned on and off, missed and deleted, and whatever the
\* catalogue says: in every window shown, as long as no page shows more ports
\* than are installed, the port-minutes known, unknown and unobserved are those
\* expected, none lost and none counted twice (domain/metrics.ts:87-156).
THEOREM NothingHidden ==
  ASSUME StudyAssumption, RankingAssumption, MetricsAssumption PROVE RecordsSpec => []PortMinutesAddUp
  <1>1. RecordsInit => StudyInv
    BY StudyInitIs DEF RecordsInit
  <1>2. StudyInv /\ [RecordsNext]_recordsVars => StudyInv'
    BY StudyKept
  <1>3. StudyInv => PortMinutesAddUp
    BY PortMinutesAre
  <1> QED BY <1>1, <1>2, <1>3, PTL DEF RecordsSpec

-----------------------------------------------------------------------------
(* The figures of a window, and what the pages showed in its instants. *)

\* A station is watched in the instants its monitored time holds.
LEMMA WatchedIs ==
  ASSUME NEW row, Finite(row.windows), Finite(row.gaps), FarFuture \in Int
  PROVE  LET monitored == Monitored(row.windows, row.gaps)
         IN  /\ monitored \in SUBSET Times /\ IsFiniteSet(monitored)
             /\ \A x, y \in monitored : x # y => x.hi < y.lo \/ y.hi < x.lo
             /\ \A u \in Int : u < FarFuture => (WatchedAt(row, u) <=> Within(u, monitored))
  <1> DEFINE periods == row.windows
             lost == row.gaps
  <1> HIDE DEF periods, lost
  <1>1. /\ Finite(Monitored(periods, lost))
        /\ \A t \in Int : Within(t, Monitored(periods, lost)) <=> Covered(periods, t) /\ ~Within(t, lost)
        /\ \A x, y \in Monitored(periods, lost) : x # y => x.hi < y.lo \/ y.hi < x.lo
    BY MonitoredIsExact DEF periods, lost
  <1>2. ASSUME NEW u \in Int, u < FarFuture PROVE WatchedAt(row, u) <=> Covered(periods, u) /\ ~Within(u, lost)
    BY <1>2 DEF WatchedAt, Covered, Within, periods, lost
  <1> QED BY <1>1, <1>2 DEF Finite, periods, lost

\* How far a reading may be carried, of any reading of the study.
LEMMA BudgetIs ==
  ASSUME StudyAssumption, LookBackAssumption, NEW r, r.interval = Policy.interval, r.cap = Policy.cap, r.limit = Policy.limit
  PROVE  CarryForwardBudget(r) = Higher(0, Carried) /\ Carried \in Int /\ Carried <= LookBack
  <1> DEFINE most == Lower(2 * Policy.interval, Policy.cap)
  <1>1. most \in Int /\ most <= LookBack /\ most <= FarFuture
    BY DEF StudyAssumption, LookBackAssumption, Lower
  <1>2. Policy.limit \in Int /\ FarFuture \in Int /\ LookBack \in Int
    BY DEF StudyAssumption, LookBackAssumption
  <1>3. CarryForwardBudget(r) = Higher(0, Lower(most, IF Policy.limit = Null THEN FarFuture ELSE Policy.limit))
    BY DEF CarryForwardBudget
  <1>4. Carried = IF Policy.limit = Null THEN most ELSE Lower(most, Policy.limit)
    BY DEF Carried
  <1> HIDE DEF most
  <1>5. Lower(most, IF Policy.limit = Null THEN FarFuture ELSE Policy.limit) = Carried
    BY <1>1, <1>2, <1>4 DEF Lower
  <1>6. Carried \in Int /\ Carried <= LookBack
    BY <1>1, <1>2, <1>4 DEF Lower
  <1> QED BY <1>3, <1>5, <1>6

\* What the queries take for the intervals of a scope.
Used(r) == Reconciles(r.counts) /\ ClassifySourceFreshness(r) # "stale"

\* At an instant of a window the interval is that of the reading that speaks.
LEMMA SpeaksIs ==
  ASSUME StudyAssumption, LookBackAssumption, StudyInv, NEW s \in Stations,
         NEW window, window.lo \in Int, window.hi \in Int, window.hi <= FarFuture,
         NEW t \in Int, Holds(window, t), NEW r
  PROVE  r \in Speaks(RowOf(s), t) /\ Used(r) <=>
           \E i \in IntervalsOf(ScopeOf(RowOf(s), window), window) : i.reading = r /\ Holds(i.span, t)
  <1> DEFINE row == RowOf(s)
             readings == SnapshotsFor(row.readings, window.lo - LookBack, window.hi)
             monitored == Monitored(row.windows, row.gaps)
             capacity == row.capacity
             reconciled == {q \in readings : Reconciles(q.counts)}
             intervals == ValidIntervals(readings, monitored, capacity, window, reconciled)
             Until(q) == HoldsUntil(q, readings, monitored, capacity)
  <1>1. IntervalsOf(ScopeOf(RowOf(s), window), window) = intervals
    BY DEF IntervalsOf, ScopeOf
  <1>2. /\ Finite(row.windows) /\ Finite(row.gaps) /\ IsCapacity(row.capacity)
        /\ Shots(row.readings) /\ \A q \in row.readings : q.at \in Nat /\ IsReading(q, q.at)
    <2>1. now \in Nat
      BY DEF StudyInv
    <2>2. /\ Finite(row.windows) /\ Finite(row.gaps) /\ IsCapacity(row.capacity)
          /\ Shots(row.readings) /\ \A q \in row.readings : q.at \in 0..now /\ IsReading(q, q.at)
      BY RowFields
    <2> HIDE DEF row
    <2> QED BY <2>1, <2>2 DEF row
  <1> HIDE DEF row
  <1>3. FarFuture \in Int /\ LookBack \in Nat /\ window.lo <= t /\ t < window.hi
    BY DEF StudyAssumption, LookBackAssumption, Holds
  <1>4. /\ monitored \in SUBSET Times
        /\ \A x, y \in monitored : x # y => x.hi < y.lo \/ y.hi < x.lo
        /\ \A u \in Int : u < FarFuture => (WatchedAt(row, u) <=> Within(u, monitored))
    BY <1>2, <1>3, WatchedIs
  <1>5. \A q : q \in readings <=> q \in row.readings /\ window.lo - LookBack <= q.at /\ q.at < window.hi
    BY DEF SnapshotsFor
  <1>6. Shots(readings) /\ Dated(capacity) /\ \A c \in capacity : c.hi = Null /\ c.lo \in Int
    BY <1>2, <1>5 DEF Shots, IsCapacity, Dated
  <1>7. \A b : b \in Boundaries(capacity) <=> \E c \in capacity : b = c.lo
    BY <1>6 DEF Boundaries
  <1> HIDE DEF readings, monitored, capacity
  <1>8. \A q \in readings : q \in reconciled <=> Reconciles(q.counts)
    OBVIOUS
  <1> HIDE DEF reconciled
  <1>9. ASSUME NEW q \in readings
        PROVE  /\ Until(q) \in Int /\ q.at <= Until(q) /\ q.at \in Int
               /\ \A m \in monitored : Holds(m, q.at) => Until(q) <= m.hi
               /\ \A p \in readings : Precedes(q, p) => Until(q) <= p.at
               /\ \A c \in capacity : q.at < c.lo => Until(q) <= c.lo
               /\ Until(q) <= q.at + Higher(0, Carried)
               /\ \/ Until(q) = q.at + Higher(0, Carried)
                  \/ \E m \in monitored : Holds(m, q.at) /\ Until(q) = m.hi
                  \/ \E p \in readings : Precedes(q, p) /\ Until(q) = p.at
                  \/ \E c \in capacity : q.at < c.lo /\ Until(q) = c.lo
    <2>1. IsShot(q) /\ \A p \in readings : p.at \in Int
      BY <1>6 DEF Shots, IsShot
    <2>2. IsReading(q, q.at)
      BY <1>2, <1>5
    <2>3. CarryForwardBudget(q) = Higher(0, Carried)
      BY <2>2, BudgetIs DEF IsReading
    <2>4. /\ Until(q) \in Int /\ q.at <= Until(q)
          /\ \A m \in monitored : Holds(m, q.at) => Until(q) <= m.hi
          /\ \A p \in readings : Precedes(q, p) => Until(q) <= p.at
          /\ \A b \in Boundaries(capacity) : q.at < b => Until(q) <= b
          /\ Until(q) <= q.at + CarryForwardBudget(q)
          /\ \/ Until(q) = q.at + CarryForwardBudget(q)
             \/ \E m \in monitored : Holds(m, q.at) /\ Until(q) = m.hi
             \/ \E p \in readings : Precedes(q, p) /\ Until(q) = p.at
             \/ \E b \in Boundaries(capacity) : q.at < b /\ Until(q) = b
      BY <1>3, <1>4, <1>6, <2>1, HoldsUntilIs
    <2> HIDE DEF Until
    <2> QED BY <1>7, <2>1, <2>3, <2>4 DEF IsShot
  <1>10. Carried \in Int /\ Carried <= LookBack
    <2> DEFINE any == [interval |-> Policy.interval, cap |-> Policy.cap, limit |-> Policy.limit]
    <2> QED BY BudgetIs
  <1>11. ASSUME r \in readings, r.at <= t
         PROVE  /\ \A q \in readings : Precedes(r, q) <=> r.at < q.at
                /\ \A q \in readings : q.at \in Int
    <2>1. \A q \in readings : q.at \in Int /\ q.id = q.at
      BY <1>2, <1>5 DEF IsReading
    <2> QED BY <1>11, <2>1 DEF Precedes
  <1>12. ASSUME NEW i \in intervals, i.reading = r, Holds(i.span, t)
         PROVE  r \in Speaks(row, t) /\ Used(r)
    <2>1. /\ r \in readings /\ r \in reconciled /\ Verdict(r, monitored, r \in reconciled) = "used"
          /\ r.at <= i.span.lo /\ i.span.hi <= Until(r) /\ i.span.lo \in Int /\ i.span.hi \in Int
          /\ \E m \in monitored : Holds(m, r.at)
      BY <1>3, <1>4, <1>6, <1>12, IntervalIs
    <2>2. r.at \in Int /\ r.at <= t /\ t < Until(r) /\ Until(r) \in Int
      <3>1. i.span.lo <= t /\ t < i.span.hi
        BY <1>12 DEF Holds
      <3>2. Until(r) \in Int /\ r.at \in Int
        BY <1>9, <2>1
      <3> HIDE DEF Until, intervals
      <3> QED BY <2>1, <3>1, <3>2
    <2>3. Used(r)
      <3>1. ClassifySourceFreshness(r) # "stale"
        BY <2>1 DEF Verdict
      <3> QED BY <1>8, <2>1, <3>1 DEF Used
    <2> HIDE DEF Until, intervals
    <2>4. t < r.at + Carried
      BY <1>9, <1>10, <2>1, <2>2 DEF Higher
    <2>5. ASSUME NEW q \in row.readings, r.at < q.at, q.at <= t PROVE FALSE
      <3>1. q.at \in Int /\ window.lo - LookBack <= q.at /\ q.at < window.hi
        BY <1>2, <1>3, <1>5, <2>1, <2>2, <2>5
      <3>2. q \in readings
        BY <1>5, <3>1
      <3>3. Until(r) <= q.at
        BY <1>9, <1>11, <2>1, <2>2, <2>5, <3>2
      <3> QED BY <2>2, <2>5, <3>1, <3>3
    <2>6. \A u \in r.at..t : WatchedAt(row, u)
      <3>1. \A m \in monitored : Holds(m, r.at) => t < m.hi
        BY <1>4, <1>9, <2>1, <2>2 DEF Times
      <3>2. \A u \in r.at..t : Within(u, monitored)
        BY <1>4, <2>1, <2>2, <3>1, UnbrokenIs
      <3> QED BY <1>3, <1>4, <2>2, <3>2
    <2>7. ASSUME NEW c \in capacity, r.at < c.lo, c.lo <= t PROVE FALSE
      BY <1>6, <1>9, <2>1, <2>2, <2>7
    <2>8. r \in row.readings /\ \A q \in row.readings : q.at <= r.at \/ t < q.at
      BY <1>2, <1>5, <2>1, <2>2, <2>5
    <2> QED BY <2>2, <2>3, <2>4, <2>6, <2>7, <2>8 DEF Speaks, capacity
  <1>13. ASSUME r \in Speaks(row, t), Used(r)
         PROVE  \E i \in intervals : i.reading = r /\ Holds(i.span, t)
    <2>1. /\ r \in row.readings /\ r.at <= t /\ t < r.at + Carried
          /\ \A q \in row.readings : q.at <= r.at \/ t < q.at
          /\ \A u \in r.at..t : WatchedAt(row, u)
          /\ ~\E c \in capacity : r.at < c.lo /\ c.lo <= t
      BY <1>13 DEF Speaks, capacity
    <2>2. r.at \in Int /\ IsReading(r, r.at)
      BY <1>2, <2>1
    <2>3. r \in readings
      BY <1>3, <1>5, <1>10, <2>1, <2>2
    <2>4. (\E m \in monitored : Holds(m, r.at)) /\ \A m \in monitored : Holds(m, r.at) => t < m.hi
      <3>1. \A u \in r.at..t : Within(u, monitored)
        BY <1>3, <1>4, <2>1, <2>2
      <3> QED BY <1>4, <2>1, <2>2, <3>1, UnbrokenIs
    <2>5. Verdict(r, monitored, r \in reconciled) = "used"
      <3>1. r.quality \in {"reliable", "provisional"}
        BY <2>2 DEF IsReading
      <3>2. r \in reconciled /\ ClassifySourceFreshness(r) # "stale"
        BY <1>8, <1>13, <2>3 DEF Used
      <3> QED BY <2>4, <3>1, <3>2 DEF Verdict
    <2>6. t < Until(r)
      <3> HIDE DEF Until
      <3>1. \A q \in readings : Precedes(r, q) => t < q.at
        BY <1>5, <1>11, <2>1, <2>2, <2>3
      <3>2. t < r.at + Higher(0, Carried)
        BY <1>10, <2>1, <2>2 DEF Higher
      <3>3. \A c \in capacity : r.at < c.lo => t < c.lo
        BY <1>6, <2>1
      <3> QED BY <1>9, <2>3, <2>4, <3>1, <3>2, <3>3
    <2> QED BY <1>3, <1>4, <1>6, <2>1, <2>3, <2>5, <2>6, IntervalAt
  <1> QED BY <1>1, <1>12, <1>13 DEF row

\* The rows of a page are counted once each.
LEMMA RowsAre ==
  ASSUME NEW page, IsPage(page)
  PROVE  LET N(state) == RowsIn(page.rows, state)
         IN  /\ \A state : N(state) \in Nat
             /\ N("available") + N("occupied") + N("reserved") + N("out_of_service") + N("unknown") <= Len(page.rows)
  <1> DEFINE all == DOMAIN page.rows
             At(state) == {i \in all : ClassifyRow(page.rows[i]) = state}
             N(state) == Cardinality(At(state))
  <1>1. IsFiniteSet(all) /\ Cardinality(all) = Len(page.rows)
    BY FS_Interval DEF IsPage
  <1>2. \A state : At(state) \subseteq all
    OBVIOUS
  <1>3. \A a, b : a # b => At(a) \cap At(b) = {}
    OBVIOUS
  <1>4. \A state : N(state) = RowsIn(page.rows, state)
    BY DEF RowsIn
  <1> HIDE DEF all, At
  <1>5. \A state : IsFiniteSet(At(state)) /\ N(state) \in Nat
    BY <1>1, <1>2, FS_Subset, FS_CardinalityType
  <1> DEFINE A == At("available")
             B == At("occupied")
             C == At("reserved")
             D == At("out_of_service")
             E == At("unknown")
  <1>6. /\ A \cap B = {} /\ A \cap C = {} /\ A \cap D = {} /\ A \cap E = {} /\ B \cap C = {} /\ B \cap D = {}
        /\ B \cap E = {} /\ C \cap D = {} /\ C \cap E = {} /\ D \cap E = {}
    <2>1. /\ "available" # "occupied" /\ "available" # "reserved" /\ "available" # "out_of_service" /\ "available" # "unknown"
          /\ "occupied" # "reserved" /\ "occupied" # "out_of_service" /\ "occupied" # "unknown"
          /\ "reserved" # "out_of_service" /\ "reserved" # "unknown" /\ "out_of_service" # "unknown"
      OBVIOUS
    <2> QED BY <1>3, <2>1
  <1>7. /\ IsFiniteSet(A) /\ IsFiniteSet(B) /\ IsFiniteSet(C) /\ IsFiniteSet(D) /\ IsFiniteSet(E)
        /\ A \cup B \cup C \cup D \cup E \subseteq all
    BY <1>2, <1>5
  <1> HIDE DEF A, B, C, D, E
  <1>8. IsFiniteSet(A \cup B) /\ Cardinality(A \cup B) = Cardinality(A) + Cardinality(B)
    BY <1>6, <1>7, CardApart
  <1>9. IsFiniteSet((A \cup B) \cup C) /\ Cardinality((A \cup B) \cup C) = Cardinality(A \cup B) + Cardinality(C)
    <2>1. (A \cup B) \cap C = {}
      BY <1>6
    <2> QED BY <1>7, <1>8, <2>1, CardApart
  <1>10. IsFiniteSet((A \cup B \cup C) \cup D) /\ Cardinality((A \cup B \cup C) \cup D) = Cardinality(A \cup B \cup C) + Cardinality(D)
    <2>1. (A \cup B \cup C) \cap D = {}
      BY <1>6
    <2> QED BY <1>7, <1>9, <2>1, CardApart
  <1>11. IsFiniteSet((A \cup B \cup C \cup D) \cup E)
         /\ Cardinality((A \cup B \cup C \cup D) \cup E) = Cardinality(A \cup B \cup C \cup D) + Cardinality(E)
    <2>1. (A \cup B \cup C \cup D) \cap E = {}
      BY <1>6
    <2> QED BY <1>7, <1>10, <2>1, CardApart
  <1>12. Cardinality(A \cup B \cup C \cup D \cup E) <= Cardinality(all)
    BY <1>1, <1>7, FS_Subset
  <1>13. /\ Cardinality(A) = N("available") /\ Cardinality(B) = N("occupied") /\ Cardinality(C) = N("reserved")
         /\ Cardinality(D) = N("out_of_service") /\ Cardinality(E) = N("unknown")
    BY DEF A, B, C, D, E
  <1> HIDE DEF N
  <1>14. N("available") + N("occupied") + N("reserved") + N("out_of_service") + N("unknown") <= Len(page.rows)
    BY <1>1, <1>5, <1>8, <1>9, <1>10, <1>11, <1>12, <1>13
  <1> QED BY <1>4, <1>5, <1>14

\* A page with rows reports both counts, and can be true when its rows are no
\* more than the bound; a page without rows reports no port in use.
LEMMA PageReports ==
  ASSUME NEW page, IsPage(page), MaxPorts \in Nat
  PROVE  LET c == ReconcileCounts(Counts(page))
             N(state) == RowsIn(page.rows, state)
         IN  /\ page.rows # <<>> => /\ c.supports /\ c.occupied = N("occupied") /\ c.operational = N("available") + N("occupied")
                                    /\ Reconciles(Counts(page)) <=> Len(page.rows) <= MaxPorts
             /\ page.rows = <<>> => ~c.supports /\ \A state : N(state) = 0
  <1> DEFINE n == Counts(page)
             c == ReconcileCounts(n)
             a == RowsIn(page.rows, "available")
             o == RowsIn(page.rows, "occupied")
             h == RowsIn(page.rows, "reserved")
             d == RowsIn(page.rows, "out_of_service")
             u == RowsIn(page.rows, "unknown")
             all == Len(page.rows)
  <1>1. a \in Nat /\ o \in Nat /\ h \in Nat /\ d \in Nat /\ u \in Nat /\ all \in Nat /\ a + o + h + d + u <= all
    BY RowsAre DEF IsPage
  <1>2. CASE page.rows # <<>>
    <2>1. n = [available |-> a, occupied |-> o, reserved |-> h, outOfService |-> d, unknown |-> u, total |-> all]
      BY <1>2 DEF Counts
    <2> HIDE DEF n, a, o, h, d, u, all
    <2>2. n.available = a /\ n.occupied = o /\ n.reserved = h /\ n.outOfService = d /\ n.unknown = u /\ n.total = all
      BY <2>1
    <2>3. c.supports /\ c.occupied = o /\ c.operational = a + o
      <3>1. n.available # Null /\ n.occupied # Null
        BY <1>1, <2>2 DEF Null
      <3>2. c.supports = (n.available # Null /\ n.occupied # Null) /\ c.occupied = n.occupied
        BY DEF ReconcileCounts
      <3>3. c.operational = n.available + n.occupied
        BY <3>1 DEF ReconcileCounts
      <3> HIDE DEF c
      <3> QED BY <2>2, <3>1, <3>2, <3>3
    <2>4. AllSum(n) = a + o + h + d + u
      BY <1>1, <2>2 DEF AllSum, KnownSum, Known, Null
    <2>5. Reconciles(n) <=> all <= MaxPorts
      BY <1>1, <2>2, <2>4 DEF Reconciles, Null
    <2> QED BY <1>2, <2>3, <2>5 DEF n, a, o, all
  <1>3. CASE page.rows = <<>>
    <2>1. n.occupied = Null
      BY <1>3 DEF Counts
    <2>2. ~c.supports
      BY <2>1 DEF ReconcileCounts
    <2>3. ASSUME NEW state PROVE RowsIn(page.rows, state) = 0
      <3>1. {i \in DOMAIN page.rows : ClassifyRow(page.rows[i]) = state} = {}
        BY <1>3
      <3> QED BY <3>1, FS_EmptySet DEF RowsIn
    <2> QED BY <1>3, <2>2, <2>3
  <1> QED BY <1>2, <1>3

\* What is shown at an instant is what one page says, or nothing.
LEMMA ShownIs ==
  ASSUME NEW row, Shots(row.readings), \A r \in row.readings : IsReading(r, r.at), NEW t \in Int, NEW state
  PROVE  /\ (\A r \in Speaks(row, t) : ~Believed(r)) => Shown(row, t, state) = 0
         /\ \A r \in Speaks(row, t) : Believed(r) => Shown(row, t, state) = RowsIn(r.page.rows, state)
         /\ Shown(row, t, state) \in Nat
  <1> DEFINE told == {r \in Speaks(row, t) : Believed(r)}
             Of(r) == RowsIn(r.page.rows, state)
             f == [r \in told |-> Of(r)]
             A(it) == it = [s \in SUBSET told |-> IF s = {} THEN 0 ELSE Of(AnyOf(s)) + it[s \ {AnyOf(s)}]]
             B(it) == it = [s \in SUBSET told |-> IF s = {} THEN 0 ELSE f[AnyOf(s)] + it[s \ {AnyOf(s)}]]
  <1>1. Shown(row, t, state) = (CHOOSE it : A(it))[told]
    BY DEF Shown, MapThenSumSet, MapThenFoldSet, AnyOf, RowsIn
  <1>2. SumOf(f, told) = (CHOOSE it : B(it))[told]
    BY DEF SumOf, MapThenSumSet, MapThenFoldSet, AnyOf
  <1>3. \A s \in SUBSET told : s # {} => f[AnyOf(s)] = Of(AnyOf(s))
    BY DEF AnyOf
  <1>4. \A r \in told : r \in row.readings /\ r \in Speaks(row, t) /\ Believed(r) /\ f[r] = Of(r)
    BY DEF Speaks
  <1>5. ASSUME NEW q \in told, NEW r \in told PROVE q = r
    <2>1. q.at \in Int /\ r.at \in Int
      BY <1>4 DEF Shots, IsShot
    <2>2. q.at <= t /\ r.at <= t /\ (q.at <= r.at \/ t < q.at) /\ (r.at <= q.at \/ t < r.at)
      BY <1>4 DEF Speaks
    <2>3. q.at <= r.at /\ r.at <= q.at
      BY <2>1, <2>2
    <2> QED BY <1>4, <2>1, <2>3 DEF Shots
  <1>6. \A r \in told : Of(r) \in Nat
    BY <1>4, RowsAre DEF IsReading
  <1>7. \A r \in Speaks(row, t) : Believed(r) => r \in told
    OBVIOUS
  <1> HIDE DEF f, told, Of
  <1>8. ASSUME NEW it PROVE A(it) <=> B(it)
    BY <1>3
  <1> HIDE DEF A, B
  <1>9. Shown(row, t, state) = SumOf(f, told)
    <2>1. (CHOOSE it : A(it)) = (CHOOSE it : B(it))
      BY <1>8
    <2> QED BY <1>1, <1>2, <2>1
  <1>10. CASE told = {}
    <2>1. IsFiniteSet(told) /\ \A r \in told : f[r] = 0
      BY <1>10, FS_EmptySet
    <2>2. SumOf(f, told) = 0
      BY <2>1, SumOfNone
    <2> QED BY <1>7, <1>9, <1>10, <2>2
  <1>11. CASE told # {}
    <2>1. PICK r : r \in told
      BY <1>11
    <2>2. told = {r} /\ f[r] \in Int
      BY <1>4, <1>5, <1>6, <2>1
    <2>3. SumOf(f, told) = f[r]
      BY <2>2, SumOfOne
    <2>4. Shown(row, t, state) = Of(r) /\ Of(r) \in Nat /\ r \in Speaks(row, t) /\ Believed(r)
      BY <1>4, <1>6, <1>9, <2>1, <2>3
    <2>5. \A q \in Speaks(row, t) : Believed(q) => q = r
      BY <1>5, <1>7, <2>1
    <2> QED BY <2>4, <2>5 DEF Of
  <1> QED BY <1>10, <1>11

\* What an interval says of the ports, when it reports both counts.
Reports(i) == ReconcileCounts(i.reading.counts).supports

\* At an instant of a window the interval that holds it says what is shown, and
\* without one that reports both counts nothing is.
LEMMA ShownAt ==
  ASSUME StudyAssumption, MetricsAssumption, LookBackAssumption, StudyInv, NEW s \in Stations,
         NEW window, window.lo \in Int, window.hi \in Int, window.hi <= FarFuture,
         NEW t \in Int, Holds(window, t)
  PROVE  LET row == RowOf(s)
             intervals == IntervalsOf(ScopeOf(row, window), window)
         IN  /\ Shown(row, t, "occupied") \in Nat /\ Shown(row, t, "available") \in Nat
             /\ \A i \in intervals : Holds(i.span, t) /\ Reports(i) =>
                  /\ Shown(row, t, "occupied") = ReconcileCounts(i.reading.counts).occupied
                  /\ Shown(row, t, "available") + Shown(row, t, "occupied") = ReconcileCounts(i.reading.counts).operational
             /\ (\A i \in intervals : Holds(i.span, t) => ~Reports(i)) =>
                  Shown(row, t, "occupied") = 0 /\ Shown(row, t, "available") = 0
  <1> DEFINE row == RowOf(s)
             intervals == IntervalsOf(ScopeOf(row, window), window)
  <1>1. \A r : r \in Speaks(row, t) /\ Used(r) <=> \E i \in intervals : i.reading = r /\ Holds(i.span, t)
    BY SpeaksIs
  <1>2. Shots(row.readings) /\ \A r \in row.readings : IsReading(r, r.at)
    BY RowFields
  <1> HIDE DEF row, intervals
  <1>3. ASSUME NEW r \in Speaks(row, t)
        PROVE  /\ IsPage(r.page) /\ r.counts = Counts(r.page)
               /\ r.page.rows # <<>> => (Used(r) <=> Believed(r))
    <2>1. IsReading(r, r.at)
      BY <1>2 DEF Speaks
    <2>2. ClassifySourceFreshness(r) = "stale" <=> r.updated # Null /\ Policy.limit # Null /\ r.at - r.updated > Policy.limit
      BY <2>1 DEF ClassifySourceFreshness, IsReading
    <2>3. MaxPorts \in Nat /\ IsPage(r.page) /\ r.counts = Counts(r.page)
      BY <2>1 DEF IsReading, MetricsAssumption
    <2>4. r.page.rows # <<>> => (Reconciles(r.counts) <=> Len(r.page.rows) <= MaxPorts)
      BY <2>3, PageReports
    <2> QED BY <2>2, <2>3, <2>4 DEF Used, Believed
  <1>4. MaxPorts \in Nat
    BY DEF MetricsAssumption
  <1>5. ASSUME NEW i \in intervals, Holds(i.span, t), Reports(i)
        PROVE  /\ Shown(row, t, "occupied") = ReconcileCounts(i.reading.counts).occupied
               /\ Shown(row, t, "available") + Shown(row, t, "occupied") = ReconcileCounts(i.reading.counts).operational
    <2> DEFINE r == i.reading
    <2>1. r \in Speaks(row, t) /\ Used(r)
      BY <1>1, <1>5
    <2>2. IsPage(r.page) /\ r.counts = Counts(r.page)
      BY <1>3, <2>1
    <2>3. r.page.rows # <<>>
      BY <1>4, <1>5, <2>2, PageReports DEF Reports
    <2>4. Believed(r)
      BY <1>3, <2>1, <2>3
    <2>5. \A state : Shown(row, t, state) = RowsIn(r.page.rows, state)
      BY <1>2, <2>1, <2>4, ShownIs
    <2>6. /\ ReconcileCounts(r.counts).occupied = RowsIn(r.page.rows, "occupied")
          /\ ReconcileCounts(r.counts).operational = RowsIn(r.page.rows, "available") + RowsIn(r.page.rows, "occupied")
      BY <1>4, <2>2, <2>3, PageReports
    <2> QED BY <2>5, <2>6
  <1>6. ASSUME \A i \in intervals : Holds(i.span, t) => ~Reports(i), NEW state
        PROVE  Shown(row, t, state) = 0
    <2>1. ASSUME NEW r \in Speaks(row, t), Believed(r) PROVE Shown(row, t, state) = 0
      <3>1. Shown(row, t, state) = RowsIn(r.page.rows, state)
        BY <1>2, <2>1, ShownIs
      <3>2. IsPage(r.page) /\ r.counts = Counts(r.page)
        BY <1>3
      <3>3. ASSUME r.page.rows # <<>> PROVE FALSE
        <4>1. Used(r)
          BY <1>3, <2>1, <3>3
        <4>2. PICK i \in intervals : i.reading = r /\ Holds(i.span, t)
          BY <1>1, <4>1
        <4>3. Reports(i)
          BY <1>4, <3>2, <3>3, <4>2, PageReports DEF Reports
        <4> QED BY <1>6, <4>2, <4>3
      <3>4. RowsIn(r.page.rows, state) = 0
        BY <1>4, <3>2, <3>3, PageReports
      <3> QED BY <3>1, <3>4
    <2> QED BY <1>2, <2>1, ShownIs
  <1>7. Shown(row, t, "occupied") \in Nat /\ Shown(row, t, "available") \in Nat
    BY <1>2, ShownIs
  <1>8. /\ \A i \in intervals : Holds(i.span, t) /\ Reports(i) =>
             /\ Shown(row, t, "occupied") = ReconcileCounts(i.reading.counts).occupied
             /\ Shown(row, t, "available") + Shown(row, t, "occupied") = ReconcileCounts(i.reading.counts).operational
        /\ (\A i \in intervals : Holds(i.span, t) => ~Reports(i)) =>
             Shown(row, t, "occupied") = 0 /\ Shown(row, t, "available") = 0
    BY <1>5, <1>6
  <1> QED BY <1>7, <1>8 DEF row, intervals

ShownOver(row, times, state) == [t \in times |-> Shown(row, t, state)]

\* The instants of a figure are added up.
LEMMA UsedIs ==
  ASSUME NEW row, NEW times, NEW state
  PROVE  MapThenSumSet(LAMBDA t : Shown(row, t, state), times) = SumOf(ShownOver(row, times, state), times)
  <1> DEFINE f == ShownOver(row, times, state)
             A(it) == it = [s \in SUBSET times |-> IF s = {} THEN 0 ELSE Shown(row, AnyOf(s), state) + it[s \ {AnyOf(s)}]]
             B(it) == it = [s \in SUBSET times |-> IF s = {} THEN 0 ELSE f[AnyOf(s)] + it[s \ {AnyOf(s)}]]
  <1>1. MapThenSumSet(LAMBDA t : Shown(row, t, state), times) = (CHOOSE it : A(it))[times]
    BY DEF MapThenSumSet, MapThenFoldSet, AnyOf
  <1>2. SumOf(f, times) = (CHOOSE it : B(it))[times]
    BY DEF SumOf, MapThenSumSet, MapThenFoldSet, AnyOf
  <1>3. \A s \in SUBSET times : s # {} => f[AnyOf(s)] = Shown(row, AnyOf(s), state)
    BY DEF AnyOf, ShownOver
  <1> HIDE DEF f
  <1>4. ASSUME NEW it PROVE A(it) <=> B(it)
    BY <1>3
  <1> HIDE DEF A, B
  <1>5. (CHOOSE it : A(it)) = (CHOOSE it : B(it))
    BY <1>4
  <1> QED BY <1>1, <1>2, <1>5 DEF f

\* What the source shows at an instant is what "occ" and "op" say, of the one
\* span that holds it.
Says(row, t, occ, op) ==
  /\ Shown(row, t, "occupied") = occ
  /\ Shown(row, t, "available") + Shown(row, t, "occupied") = op

\* A figure is that of weighed spans that share no instant, when they say what is
\* shown in the instants they hold and nothing is shown in the others.
LEMMA FigureIs ==
  ASSUME NEW row, NEW times \in SUBSET Int, IsFiniteSet(times),
         \A t \in times : Shown(row, t, "occupied") \in Nat /\ Shown(row, t, "available") \in Nat,
         NEW D, IsFiniteSet(D), NEW at, Separate(D, at), NEW occ, NEW op,
         \A d \in D : occ[d] \in Int /\ op[d] \in Int,
         \A d \in D : \A t \in Int : Holds(at[d], t) => t \in times /\ Says(row, t, occ[d], op[d]),
         \A t \in times : (\E d \in D : Holds(at[d], t)) \/ Says(row, t, 0, 0)
  PROVE  Figure(row, times) = Share(SumOf(Lengths(occ, at, D), D), SumOf(Lengths(op, at, D), D))
  <1> DEFINE busy == ShownOver(row, times, "occupied")
             free == ShownOver(row, times, "available")
             both == [t \in times |-> Shown(row, t, "available") + Shown(row, t, "occupied")]
             a == SumOf(busy, times)
             b == SumOf(free, times)
             c == SumOf(both, times)
  <1>1. InUse(row, times) = a /\ Working(row, times) = a + b
    <2>1. InUse(row, times) = a
      BY UsedIs DEF InUse
    <2>2. Working(row, times) = InUse(row, times) + b
      BY UsedIs DEF Working
    <2> QED BY <2>1, <2>2
  <1>2. \A t \in times : /\ busy[t] = Shown(row, t, "occupied") /\ free[t] = Shown(row, t, "available")
                         /\ both[t] = free[t] + busy[t] /\ busy[t] \in Nat /\ free[t] \in Nat
    BY DEF ShownOver
  <1>3. /\ \A d \in D : \A t \in Int : Holds(at[d], t) => t \in times /\ busy[t] = occ[d] /\ both[t] = op[d]
        /\ \A t \in times : (\E d \in D : Holds(at[d], t)) \/ (busy[t] = 0 /\ both[t] = 0)
    BY <1>2 DEF Says
  <1> HIDE DEF busy, free, both
  <1>4. a \in Nat /\ b \in Nat
    BY <1>2, SumOfNats
  <1>5. c = b + a
    <2>1. \A t \in times : free[t] \in Int
      BY <1>2
    <2>2. \A t \in times : busy[t] \in Int
      BY <1>2
    <2>3. \A t \in times : both[t] = free[t] + busy[t]
      BY <1>2
    <2>4. SumOf(both, times) = SumOf(free, times) + SumOf(busy, times)
      BY <2>1, <2>2, <2>3, SumAdds
    <2> QED BY <2>4
  <1>6. a = SumOf(Lengths(occ, at, D), D)
    BY <1>3, SumOfInstants
  <1>7. c = SumOf(Lengths(op, at, D), D)
    BY <1>3, SumOfInstants
  <1>8. Figure(row, times) = IF a + b = 0 THEN NoShare ELSE <<a, a + b>>
    BY <1>1 DEF Figure
  <1> HIDE DEF a, b, c
  <1>9. Figure(row, times) = Share(a, c)
    BY <1>4, <1>5, <1>8 DEF Share
  <1> QED BY <1>6, <1>7, <1>9

InUseOf(i) == ReconcileCounts(i.reading.counts).occupied
WorkingOf(i) == ReconcileCounts(i.reading.counts).operational

\* Counts that can all be true and report both give two numbers.
LEMMA ReportsIs ==
  ASSUME NEW i, Reconciles(i.reading.counts), Reports(i), MaxPorts \in Nat
  PROVE  InUseOf(i) \in Nat /\ WorkingOf(i) \in Nat
  <1> DEFINE c == i.reading.counts
  <1>1. c.available # Null /\ c.occupied # Null
    BY DEF Reports, ReconcileCounts
  <1>2. c.available \in 0..MaxPorts /\ c.occupied \in 0..MaxPorts
    <2> HIDE DEF c
    <2>1. \A n \in {c.available, c.occupied} : n = Null \/ n \in 0..MaxPorts
      BY DEF Reconciles, c
    <2> QED BY <1>1, <2>1
  <1>3. InUseOf(i) = c.occupied
    BY DEF InUseOf, ReconcileCounts
  <1>4. WorkingOf(i) = c.available + c.occupied
    BY <1>1 DEF WorkingOf, ReconcileCounts
  <1> HIDE DEF c
  <1> QED BY <1>2, <1>3, <1>4

\* The intervals of a station are spans apart, in the window, and say what its
\* pages show.
LEMMA IntervalsTell ==
  ASSUME StudyAssumption, MetricsAssumption, LookBackAssumption, StudyInv, NEW s \in Stations,
         NEW window, window.lo \in Int, window.hi \in Int, window.hi <= FarFuture
  PROVE  LET row == RowOf(s)
             intervals == IntervalsOf(ScopeOf(row, window), window)
         IN  /\ IsFiniteSet(intervals) /\ Separate(intervals, SpansOf(intervals))
             /\ \A i \in intervals : /\ i.span = Span(i.span.lo, i.span.hi)
                                     /\ i.span.lo \in Int /\ i.span.hi \in Int /\ i.span.lo < i.span.hi
                                     /\ window.lo <= i.span.lo /\ i.span.hi <= window.hi
                                     /\ Reports(i) => InUseOf(i) \in Nat /\ WorkingOf(i) \in Nat
             /\ \A t \in Int : Holds(window, t) =>
                  /\ Shown(row, t, "occupied") \in Nat /\ Shown(row, t, "available") \in Nat
                  /\ \A i \in intervals : Holds(i.span, t) /\ Reports(i) => Says(row, t, InUseOf(i), WorkingOf(i))
                  /\ (\A i \in intervals : Holds(i.span, t) => ~Reports(i)) => Says(row, t, 0, 0)
  <1> DEFINE row == RowOf(s)
             readings == SnapshotsFor(row.readings, window.lo - LookBack, window.hi)
             monitored == Monitored(row.windows, row.gaps)
             capacity == row.capacity
             reconciled == {q \in readings : Reconciles(q.counts)}
             intervals == ValidIntervals(readings, monitored, capacity, window, reconciled)
  <1>1. IntervalsOf(ScopeOf(row, window), window) = intervals
    BY DEF IntervalsOf, ScopeOf
  <1>2. /\ Finite(row.windows) /\ Finite(row.gaps) /\ IsCapacity(row.capacity)
        /\ Shots(row.readings) /\ IsFiniteSet(row.readings)
    BY RowFields
  <1>3. ASSUME NEW t \in Int, Holds(window, t)
        PROVE  /\ Shown(row, t, "occupied") \in Nat /\ Shown(row, t, "available") \in Nat
               /\ \A i \in intervals : Holds(i.span, t) /\ Reports(i) => Says(row, t, InUseOf(i), WorkingOf(i))
               /\ (\A i \in intervals : Holds(i.span, t) => ~Reports(i)) => Says(row, t, 0, 0)
    <2> DEFINE of == IntervalsOf(ScopeOf(row, window), window)
    <2>1. /\ Shown(row, t, "occupied") \in Nat /\ Shown(row, t, "available") \in Nat
          /\ \A i \in of : Holds(i.span, t) /\ Reports(i) =>
               /\ Shown(row, t, "occupied") = ReconcileCounts(i.reading.counts).occupied
               /\ Shown(row, t, "available") + Shown(row, t, "occupied") = ReconcileCounts(i.reading.counts).operational
          /\ (\A i \in of : Holds(i.span, t) => ~Reports(i)) =>
               Shown(row, t, "occupied") = 0 /\ Shown(row, t, "available") = 0
      BY <1>3, ShownAt
    <2>2. of = intervals
      BY <1>1
    <2> HIDE DEF of, intervals, row
    <2> QED BY <2>1, <2>2 DEF Says, InUseOf, WorkingOf
  <1> HIDE DEF row
  <1>4. FarFuture \in Int /\ MaxPorts \in Nat
    BY DEF StudyAssumption, MetricsAssumption
  <1>5. monitored \in SUBSET Times
    BY <1>2, <1>4, WatchedIs
  <1>6. Shots(readings) /\ IsFiniteSet(readings) /\ Dated(capacity)
    <2>1. readings \subseteq row.readings
      BY DEF SnapshotsFor
    <2>2. IsFiniteSet(readings)
      BY <1>2, <2>1, FS_Subset
    <2>3. Shots(readings)
      BY <1>2, <2>1 DEF Shots
    <2> QED BY <1>2, <2>2, <2>3 DEF IsCapacity
  <1> HIDE DEF readings, monitored, capacity
  <1>7. \A q \in readings : q \in reconciled <=> Reconciles(q.counts)
    OBVIOUS
  <1> HIDE DEF reconciled
  <1>8. IsFiniteSet(intervals) /\ Separate(intervals, SpansOf(intervals))
    BY <1>4, <1>5, <1>6, IntervalsAre
  <1>9. ASSUME NEW i \in intervals
        PROVE  /\ i.span = Span(i.span.lo, i.span.hi)
               /\ i.span.lo \in Int /\ i.span.hi \in Int /\ i.span.lo < i.span.hi
               /\ window.lo <= i.span.lo /\ i.span.hi <= window.hi
               /\ Reports(i) => InUseOf(i) \in Nat /\ WorkingOf(i) \in Nat
    <2> DEFINE held == Span(i.reading.at, HoldsUntil(i.reading, readings, monitored, capacity))
    <2>1. /\ i.reading \in readings /\ i.reading \in reconciled
          /\ i.span \in Intersect(held, window)
          /\ i.span.lo \in Int /\ i.span.hi \in Int /\ i.span.lo < i.span.hi
      BY <1>4, <1>5, <1>6, IntervalIs
    <2>2. Reports(i) => InUseOf(i) \in Nat /\ WorkingOf(i) \in Nat
      BY <1>4, <1>7, <2>1, ReportsIs
    <2>3. held.lo \in Int /\ held.hi \in Int
      <3>1. \A q \in readings : IsShot(q) /\ q.at \in Int
        BY <1>6 DEF Shots, IsShot
      <3>2. HoldsUntil(i.reading, readings, monitored, capacity) \in Int
        BY <1>4, <1>5, <1>6, <2>1, <3>1, HoldsUntilIs
      <3> QED BY <2>1, <3>1, <3>2 DEF Span
    <2> HIDE DEF held, intervals
    <2>4. i.span = Span(i.span.lo, i.span.hi) /\ window.lo <= i.span.lo /\ i.span.hi <= window.hi
      BY <2>1, <2>3, IntersectIs
    <2> QED BY <2>1, <2>2, <2>4
  <1> HIDE DEF intervals
  <1> QED BY <1>1, <1>3, <1>8, <1>9 DEF row

\* The occupancy of a station is what its pages show.
LEMMA OccupancyIs ==
  ASSUME StudyAssumption, MetricsAssumption, LookBackAssumption, StudyInv, NEW s \in Stations,
         NEW window, window.lo \in Int, window.hi \in Int, window.hi <= FarFuture
  PROVE  LET m == MetricsOf(RowOf(s), window)
         IN  /\ OccupancyOf(m) = Figure(RowOf(s), window.lo..(window.hi - 1))
             /\ m.occupied \in Int /\ m.operational \in Int
  <1> DEFINE row == RowOf(s)
             times == window.lo..(window.hi - 1)
             intervals == IntervalsOf(ScopeOf(row, window), window)
             D == {i \in intervals : Reports(i)}
             at == SpansOf(D)
             occ == [i \in D |-> InUseOf(i)]
             op == [i \in D |-> WorkingOf(i)]
             m == MetricsOf(row, window)
             a == SumOf(Lengths(occ, at, D), D)
             b == SumOf(Lengths(op, at, D), D)
  <1>1. /\ IsFiniteSet(intervals) /\ Separate(intervals, SpansOf(intervals))
        /\ \A i \in intervals : /\ i.span.lo \in Int /\ i.span.hi \in Int /\ i.span.lo < i.span.hi
                                /\ window.lo <= i.span.lo /\ i.span.hi <= window.hi
                                /\ Reports(i) => InUseOf(i) \in Nat /\ WorkingOf(i) \in Nat
        /\ \A t \in Int : Holds(window, t) =>
             /\ Shown(row, t, "occupied") \in Nat /\ Shown(row, t, "available") \in Nat
             /\ \A i \in intervals : Holds(i.span, t) /\ Reports(i) => Says(row, t, InUseOf(i), WorkingOf(i))
             /\ (\A i \in intervals : Holds(i.span, t) => ~Reports(i)) => Says(row, t, 0, 0)
    BY IntervalsTell
  <1>2. /\ m.supports = (D # {}) /\ m.occupied = Weighed(D, "occupied") /\ m.operational = Weighed(D, "operational")
    BY DEF MetricsOf, ComputeScopeMetrics, Reports
  <1> HIDE DEF row, intervals, m
  <1>3. IsFiniteSet(times) /\ times \in SUBSET Int /\ \A t \in Int : t \in times <=> Holds(window, t)
    BY FS_Interval DEF Holds
  <1> HIDE DEF times
  <1>4. \A i : i \in D <=> i \in intervals /\ Reports(i)
    OBVIOUS
  <1>5. IsFiniteSet(D) /\ D \subseteq intervals
    BY <1>1, FS_Subset
  <1> HIDE DEF D
  <1>6. /\ \A d \in D : at[d] = d.span /\ occ[d] = InUseOf(d) /\ op[d] = WorkingOf(d) /\ occ[d] \in Nat /\ op[d] \in Nat
    BY <1>1, <1>4 DEF SpansOf
  <1>7. Lengths(occ, at, D) = [i \in D |-> Known(ReconcileCounts(i.reading.counts)["occupied"]) * (i.span.hi - i.span.lo)]
    <2>1. ASSUME NEW i \in D PROVE occ[i] * (at[i].hi - at[i].lo) = Known(ReconcileCounts(i.reading.counts)["occupied"]) * (i.span.hi - i.span.lo)
      <3>1. ReconcileCounts(i.reading.counts)["occupied"] = InUseOf(i)
        BY DEF InUseOf
      <3>2. Known(InUseOf(i)) = InUseOf(i)
        BY <1>6 DEF Known, Null
      <3> HIDE DEF occ, at
      <3> QED BY <1>6, <3>1, <3>2
    <2> QED BY <2>1 DEF Lengths
  <1>8. Lengths(op, at, D) = [i \in D |-> Known(ReconcileCounts(i.reading.counts)["operational"]) * (i.span.hi - i.span.lo)]
    <2>1. ASSUME NEW i \in D PROVE op[i] * (at[i].hi - at[i].lo) = Known(ReconcileCounts(i.reading.counts)["operational"]) * (i.span.hi - i.span.lo)
      <3>1. ReconcileCounts(i.reading.counts)["operational"] = WorkingOf(i)
        BY DEF WorkingOf
      <3>2. Known(WorkingOf(i)) = WorkingOf(i)
        BY <1>6 DEF Known, Null
      <3> HIDE DEF op, at
      <3> QED BY <1>6, <3>1, <3>2
    <2> QED BY <2>1 DEF Lengths
  <1>9. m.occupied = a /\ m.operational = b
    BY <1>2, <1>7, <1>8, WeighedIs
  <1> HIDE DEF occ, op
  <1>10. Separate(D, at)
    <2>1. \A i \in intervals : SpansOf(intervals)[i] = i.span
      BY DEF SpansOf
    <2> HIDE DEF at
    <2> QED BY <1>1, <1>5, <1>6, <2>1 DEF Separate
  <1> HIDE DEF at
  <1>11. Figure(row, times) = Share(a, b)
    <2>1. \A t \in times : t \in Int /\ Holds(window, t) /\ Shown(row, t, "occupied") \in Nat /\ Shown(row, t, "available") \in Nat
      BY <1>1, <1>3
    <2>2. \A d \in D : occ[d] \in Int /\ op[d] \in Int
      BY <1>6
    <2>3. ASSUME NEW d \in D, NEW t \in Int, Holds(at[d], t) PROVE t \in times /\ Says(row, t, occ[d], op[d])
      <3>1. d \in intervals /\ Reports(d) /\ Holds(d.span, t) /\ d.span.lo <= t /\ t < d.span.hi
        BY <1>4, <1>6, <2>3 DEF Holds
      <3>2. window.lo <= t /\ t < window.hi
        BY <1>1, <3>1
      <3>3. Holds(window, t)
        BY <3>2 DEF Holds
      <3> QED BY <1>1, <1>3, <1>6, <3>1, <3>3
    <2>4. ASSUME NEW t \in times PROVE (\E d \in D : Holds(at[d], t)) \/ Says(row, t, 0, 0)
      BY <1>1, <1>4, <1>6, <2>1
    <2> HIDE DEF a, b
    <2> QED BY <1>3, <1>5, <1>10, <2>1, <2>2, <2>3, <2>4, FigureIs DEF a, b
  <1>12. D = {} => a = 0 /\ b = 0
    <2> DEFINE f == Lengths(occ, at, D)
               g == Lengths(op, at, D)
    <2>1. ASSUME D = {} PROVE (\A d \in D : f[d] = 0) /\ (\A d \in D : g[d] = 0)
      BY <2>1
    <2> HIDE DEF f, g
    <2>2. D = {} => SumOf(f, D) = 0 /\ SumOf(g, D) = 0
      BY <1>5, <2>1, SumOfNone
    <2> QED BY <2>2 DEF f, g
  <1>14. a \in Int /\ b \in Int
    <2> DEFINE f == Lengths(occ, at, D)
               g == Lengths(op, at, D)
    <2>1. \A d \in D : occ[d] \in Int /\ op[d] \in Int /\ at[d].lo \in Int /\ at[d].hi \in Int
      BY <1>1, <1>4, <1>6
    <2>2. \A d \in D : f[d] \in Int /\ g[d] \in Int
      BY <2>1 DEF Lengths
    <2> HIDE DEF f, g
    <2> QED BY <1>5, <2>2, SumIs DEF f, g
  <1> HIDE DEF a, b
  <1>13. OccupancyOf(m) = Share(a, b)
    BY <1>2, <1>9, <1>12 DEF OccupancyOf, Share, NoShare
  <1> QED BY <1>9, <1>11, <1>13, <1>14 DEF row, times, m

\* A piece of a span lies in one local hour, no two share an instant, and
\* together they hold every instant of it.
LEMMA SplitIs ==
  ASSUME MetricsAssumption, NEW span, span.lo \in Int, span.hi \in Int, span.lo < span.hi
  PROVE  LET pieces == SplitByLocalHour(span)
         IN  /\ \A p \in pieces : /\ p = Span(p.lo, p.hi) /\ p.lo \in Int /\ p.hi \in Int /\ p.lo < p.hi
                                  /\ span.lo <= p.lo /\ p.hi <= span.hi
                                  /\ \A t \in Int : Holds(p, t) => LocalHour(t) = LocalHour(p.lo)
             /\ \A p, q \in pieces : \A t \in Int : Holds(p, t) /\ Holds(q, t) => p = q
             /\ \A t \in Int : Holds(span, t) => \E p \in pieces : Holds(p, t)
  <1> DEFINE lo == span.lo
             hi == span.hi
             edges == {lo, hi} \cup {t \in lo..hi : (t + ZoneOffset) % HourLength = 0}
             pieces == SplitByLocalHour(span)
  <1>1. \A p : p \in pieces <=> \E a, b \in edges : p = Span(a, b) /\ a < b /\ \A t \in edges : ~(a < t /\ t < b)
    <2>1. pieces = {Span(e[1], e[2]) : e \in {x \in edges \X edges : x[1] < x[2] /\ \A t \in edges : ~(x[1] < t /\ t < x[2])}}
      BY DEF SplitByLocalHour
    <2> HIDE DEF edges, pieces
    <2>2. ASSUME NEW p \in pieces PROVE \E a, b \in edges : p = Span(a, b) /\ a < b /\ \A t \in edges : ~(a < t /\ t < b)
      <3>1. PICK e \in {x \in edges \X edges : x[1] < x[2] /\ \A t \in edges : ~(x[1] < t /\ t < x[2])} : p = Span(e[1], e[2])
        BY <2>1
      <3>2. e[1] \in edges /\ e[2] \in edges /\ e[1] < e[2] /\ \A t \in edges : ~(e[1] < t /\ t < e[2])
        BY <3>1
      <3> QED BY <3>1, <3>2
    <2>3. ASSUME NEW a \in edges, NEW b \in edges, a < b, \A t \in edges : ~(a < t /\ t < b) PROVE Span(a, b) \in pieces
      <3> DEFINE e == <<a, b>>
      <3>1. e \in edges \X edges /\ e[1] = a /\ e[2] = b
        OBVIOUS
      <3> HIDE DEF e
      <3>2. e \in {x \in edges \X edges : x[1] < x[2] /\ \A t \in edges : ~(x[1] < t /\ t < x[2])}
        BY <2>3, <3>1
      <3> QED BY <2>1, <3>1, <3>2
    <2> QED BY <2>2, <2>3
  <1> HIDE DEF pieces
  <1>2. lo \in Int /\ hi \in Int /\ lo < hi /\ ZoneOffset \in Int /\ HourLength \in Nat \ {0}
    BY DEF MetricsAssumption
  <1>3. /\ \A t \in edges : t \in Int /\ lo <= t /\ t <= hi
        /\ lo \in edges /\ hi \in edges
        /\ \A t \in Int : lo <= t /\ t <= hi /\ (t + ZoneOffset) % HourLength = 0 => t \in edges
    BY <1>2
  <1> HIDE DEF edges, lo, hi
  <1>4. ASSUME NEW p \in pieces
        PROVE  /\ p = Span(p.lo, p.hi) /\ p.lo \in edges /\ p.hi \in edges /\ p.lo < p.hi
               /\ \A t \in edges : ~(p.lo < t /\ t < p.hi)
    BY <1>1 DEF Span
  <1>5. ASSUME NEW p \in pieces, NEW t \in Int, Holds(p, t) PROVE LocalHour(t) = LocalHour(p.lo)
    <2> DEFINE z == ZoneOffset
               b == HourLength
               k == (t + z) \div b
               n == (p.lo + z) \div b
               e == (b * k) - z
    <2>1. p.lo \in Int /\ p.hi \in Int /\ p.lo <= t /\ t < p.hi /\ lo <= p.lo /\ p.hi <= hi
      BY <1>3, <1>4, <1>5 DEF Holds
    <2>2. LocalHour(t) = k /\ LocalHour(p.lo) = n
      BY DEF LocalHour
    <2>3. k \in Int /\ n \in Int /\ n <= k /\ (b * k) \in Int /\ b * k <= t + z /\ (n < k => p.lo + z < b * k) /\ (b * k) % b = 0
      <3> HIDE DEF z, b
      <3>0. z \in Int /\ b \in Nat \ {0}
        BY <1>2 DEF z, b
      <3> DEFINE x == t + z
                 y == p.lo + z
                 r == x % b
                 q == y % b
      <3>1. x \in Int /\ y \in Int /\ y <= x
        BY <2>1, <3>0
      <3> HIDE DEF x, y
      <3>2. /\ x \div b \in Int /\ r \in 0..(b - 1) /\ x = (b * (x \div b)) + r
            /\ y \div b \in Int /\ q \in 0..(b - 1) /\ y = (b * (y \div b)) + q
        BY <3>0, <3>1
      <3>3. k = x \div b /\ n = y \div b
        BY DEF x, y
      <3> HIDE DEF k, n, r, q
      <3>4. k \in Int /\ n \in Int /\ x = (b * k) + r /\ y = (b * n) + q
        BY <3>2, <3>3
      <3>5. ASSUME n < k PROVE y < b * k
        <4>1. b * (n + 1) <= b * k /\ b * (n + 1) = (b * n) + b /\ b * n \in Int /\ b * k \in Int
          BY <3>0, <3>4, <3>5
        <4> QED BY <3>0, <3>1, <3>2, <3>4, <4>1
      <3>6. ASSUME k < n PROVE FALSE
        <4>1. b * (k + 1) <= b * n /\ b * (k + 1) = (b * k) + b /\ b * n \in Int /\ b * k \in Int
          BY <3>0, <3>4, <3>6
        <4> QED BY <3>0, <3>1, <3>2, <3>4, <4>1
      <3>7. (b * k) % b = 0
        BY <3>0, <3>4
      <3>8. b * k \in Int /\ b * k <= x
        BY <3>0, <3>1, <3>2, <3>4
      <3> QED BY <3>4, <3>5, <3>6, <3>7, <3>8 DEF x, y
    <2>4. ASSUME n < k PROVE FALSE
      <3>1. e \in Int /\ e + z = b * k /\ p.lo < e /\ e <= t
        <4> HIDE DEF k, n
        <4>1. z \in Int
          BY <1>2
        <4> DEFINE m == b * k
        <4>2. m \in Int /\ m <= t + z /\ p.lo + z < m
          BY <2>3, <2>4
        <4> HIDE DEF z, m, b
        <4>3. e = m - z
          BY DEF m
        <4> HIDE DEF e
        <4>4. e \in Int /\ e + z = m /\ p.lo < e /\ e <= t
          BY <2>1, <4>1, <4>2, <4>3
        <4> QED BY <4>4 DEF m
      <3> HIDE DEF e, k, n
      <3>2. (e + ZoneOffset) % HourLength = 0
        BY <2>3, <3>1
      <3>3. lo <= e /\ e <= hi /\ e < p.hi
        BY <1>2, <2>1, <3>1
      <3> QED BY <1>3, <1>4, <3>1, <3>2, <3>3
    <2> HIDE DEF k, n
    <2> QED BY <2>2, <2>3, <2>4
  <1>6. ASSUME NEW p \in pieces, NEW q \in pieces, NEW t \in Int, Holds(p, t), Holds(q, t) PROVE p = q
    <2>1. p.lo \in Int /\ p.hi \in Int /\ q.lo \in Int /\ q.hi \in Int /\ p.lo <= t /\ t < p.hi /\ q.lo <= t /\ t < q.hi
      BY <1>3, <1>4, <1>6 DEF Holds
    <2>2. ~(p.lo < q.lo /\ q.lo < p.hi) /\ ~(q.lo < p.lo /\ p.lo < q.hi)
          /\ ~(p.lo < q.hi /\ q.hi < p.hi) /\ ~(q.lo < p.hi /\ p.hi < q.hi)
      BY <1>4
    <2>3. p.lo = q.lo /\ p.hi = q.hi
      BY <2>1, <2>2
    <2> QED BY <1>4, <2>3
  <1>7. ASSUME NEW t \in Int, Holds(span, t) PROVE \E p \in pieces : Holds(p, t)
    <2> DEFINE before == {c \in edges : c <= t}
               after == {c \in edges : t < c}
    <2>1. lo <= t /\ t < hi
      BY <1>7 DEF Holds, lo, hi
    <2>2. before # {} /\ after # {} /\ before \in SUBSET Int /\ after \in SUBSET Int
          /\ (\A c \in before : c <= t) /\ \A c \in after : t <= c
      BY <1>3, <2>1
    <2>3. \A c \in edges : c \in before \/ c \in after
      BY <1>3
    <2>4. \A c \in before : c \in edges /\ c <= t
      OBVIOUS
    <2>5. \A c \in after : c \in edges /\ t < c
      OBVIOUS
    <2> HIDE DEF before, after
    <2>6. PICK a \in before : \A c \in before : c <= a
      BY <2>2, GreatestIs
    <2>7. PICK b \in after : \A c \in after : b <= c
      BY <2>2, LeastIs
    <2>8. a \in edges /\ b \in edges /\ a \in Int /\ b \in Int /\ a <= t /\ t < b
      BY <1>3, <2>4, <2>5
    <2>9. ASSUME NEW c \in edges, a < c, c < b PROVE FALSE
      BY <1>3, <2>3, <2>6, <2>7, <2>8, <2>9
    <2>10. Span(a, b) \in pieces
      BY <1>1, <2>8, <2>9
    <2>11. Holds(Span(a, b), t)
      BY <2>8 DEF Holds, Span
    <2> QED BY <2>10, <2>11
  <1>8. \A p \in pieces : p.lo \in Int /\ p.hi \in Int /\ span.lo <= p.lo /\ p.hi <= span.hi
    BY <1>3, <1>4 DEF lo, hi
  <1> QED BY <1>4, <1>5, <1>6, <1>7, <1>8 DEF pieces

\* What a bin of a chart is made of.
PiecesIn(intervals, chart, place) ==
  {p \in UNION {{[scope |-> 1, counts |-> ReconcileCounts(i.reading.counts), span |-> x] : x \in SplitByLocalHour(i.span)} : i \in intervals} :
     p.counts.supports /\ PlaceOf(chart, p.span.lo) = place}
Busy(p) == p.counts.occupied * (p.span.hi - p.span.lo)
Open(p) == p.counts.operational * (p.span.hi - p.span.lo)

\* A bin adds up its pieces.
LEMMA BinIs ==
  ASSUME NEW intervals, NEW chart, NEW place
  PROVE  LET bin == BinOf(<<intervals>>, chart, place)
             here == PiecesIn(intervals, chart, place)
         IN  /\ bin.touched = (here # {})
             /\ bin.occupied = SumOf([p \in here |-> Busy(p)], here)
             /\ bin.operational = SumOf([p \in here |-> Open(p)], here)
  <1> DEFINE sets == <<intervals>>
             bin == BinOf(sets, chart, place)
             all == UNION {UNION {{[scope |-> n, counts |-> ReconcileCounts(i.reading.counts), span |-> x] :
                                   x \in SplitByLocalHour(i.span)} : i \in sets[n]} : n \in DOMAIN sets}
             one == UNION {{[scope |-> 1, counts |-> ReconcileCounts(i.reading.counts), span |-> x] :
                                   x \in SplitByLocalHour(i.span)} : i \in intervals}
             here == {p \in all : p.counts.supports /\ PlaceOf(chart, p.span.lo) = place}
             f == [p \in here |-> Busy(p)]
             g == [p \in here |-> Open(p)]
             A(it) == it = [s \in SUBSET here |-> IF s = {} THEN 0
                                                  ELSE AnyOf(s).counts.occupied * (AnyOf(s).span.hi - AnyOf(s).span.lo) + it[s \ {AnyOf(s)}]]
             B(it) == it = [s \in SUBSET here |-> IF s = {} THEN 0 ELSE f[AnyOf(s)] + it[s \ {AnyOf(s)}]]
             C(it) == it = [s \in SUBSET here |-> IF s = {} THEN 0
                                                  ELSE AnyOf(s).counts.operational * (AnyOf(s).span.hi - AnyOf(s).span.lo) + it[s \ {AnyOf(s)}]]
             D(it) == it = [s \in SUBSET here |-> IF s = {} THEN 0 ELSE g[AnyOf(s)] + it[s \ {AnyOf(s)}]]
  <1>1. DOMAIN sets = {1} /\ sets[1] = intervals
    OBVIOUS
  <1>2. all = one
    BY <1>1
  <1>3. here = PiecesIn(intervals, chart, place)
    BY <1>2 DEF PiecesIn
  <1>4. /\ bin.touched = (here # {})
        /\ bin.occupied = (CHOOSE it : A(it))[here]
        /\ bin.operational = (CHOOSE it : C(it))[here]
    BY DEF BinOf, MapThenSumSet, MapThenFoldSet, AnyOf
  <1>5. SumOf(f, here) = (CHOOSE it : B(it))[here] /\ SumOf(g, here) = (CHOOSE it : D(it))[here]
    BY DEF SumOf, MapThenSumSet, MapThenFoldSet, AnyOf
  <1>6. \A s \in SUBSET here : s # {} => /\ f[AnyOf(s)] = AnyOf(s).counts.occupied * (AnyOf(s).span.hi - AnyOf(s).span.lo)
                                         /\ g[AnyOf(s)] = AnyOf(s).counts.operational * (AnyOf(s).span.hi - AnyOf(s).span.lo)
    <2> HIDE DEF here
    <2> QED BY DEF AnyOf, Busy, Open
  <1> HIDE DEF f, g, here
  <1>7. ASSUME NEW it PROVE (A(it) <=> B(it)) /\ (C(it) <=> D(it))
    BY <1>6
  <1> HIDE DEF A, B, C, D
  <1>8. (CHOOSE it : A(it)) = (CHOOSE it : B(it)) /\ (CHOOSE it : C(it)) = (CHOOSE it : D(it))
    BY <1>7
  <1>9. bin.occupied = SumOf(f, here) /\ bin.operational = SumOf(g, here)
    BY <1>4, <1>5, <1>8
  <1> QED BY <1>3, <1>4, <1>9 DEF f, g

\* A bin of the heatmap, or a day of the trend, is what the pages show in the
\* instants of its place.
LEMMA ChartIs ==
  ASSUME StudyAssumption, MetricsAssumption, LookBackAssumption, StudyInv, NEW s \in Stations,
         NEW window, window.lo \in Int, window.hi \in Int, window.hi <= FarFuture, NEW chart, NEW place
  PROVE  ShownIn(BinOf(<<IntervalsOf(ScopeOf(RowOf(s), window), window)>>, chart, place)) =
           Figure(RowOf(s), {t \in window.lo..(window.hi - 1) : PlaceOf(chart, t) = place})
  <1> DEFINE row == RowOf(s)
             whole == window.lo..(window.hi - 1)
             times == {t \in whole : PlaceOf(chart, t) = place}
             intervals == IntervalsOf(ScopeOf(row, window), window)
             bin == BinOf(<<intervals>>, chart, place)
             D == PiecesIn(intervals, chart, place)
             at == [p \in D |-> p.span]
             occ == [p \in D |-> p.counts.occupied]
             op == [p \in D |-> p.counts.operational]
             a == SumOf(Lengths(occ, at, D), D)
             b == SumOf(Lengths(op, at, D), D)
  <1>1. /\ IsFiniteSet(intervals) /\ Separate(intervals, SpansOf(intervals))
        /\ \A i \in intervals : /\ i.span.lo \in Int /\ i.span.hi \in Int /\ i.span.lo < i.span.hi
                                /\ window.lo <= i.span.lo /\ i.span.hi <= window.hi
                                /\ Reports(i) => InUseOf(i) \in Nat /\ WorkingOf(i) \in Nat
        /\ \A t \in Int : Holds(window, t) =>
             /\ Shown(row, t, "occupied") \in Nat /\ Shown(row, t, "available") \in Nat
             /\ \A i \in intervals : Holds(i.span, t) /\ Reports(i) => Says(row, t, InUseOf(i), WorkingOf(i))
             /\ (\A i \in intervals : Holds(i.span, t) => ~Reports(i)) => Says(row, t, 0, 0)
    BY IntervalsTell
  <1>2. /\ bin.touched = (D # {})
        /\ bin.occupied = SumOf([p \in D |-> Busy(p)], D)
        /\ bin.operational = SumOf([p \in D |-> Open(p)], D)
    BY BinIs
  <1> HIDE DEF row, intervals, bin
  <1>3. whole \in SUBSET Int /\ IsFiniteSet(whole) /\ \A t \in Int : t \in whole <=> Holds(window, t)
    BY FS_Interval DEF Holds
  <1> HIDE DEF whole
  <1>4. IsFiniteSet(times) /\ times \in SUBSET Int /\ \A t \in Int : t \in times <=> Holds(window, t) /\ PlaceOf(chart, t) = place
    BY <1>3, FS_Subset
  <1> HIDE DEF times
  <1>5. \A i, j \in intervals : \A t \in Int : Holds(i.span, t) /\ Holds(j.span, t) => i = j
    <2>1. \A i \in intervals : SpansOf(intervals)[i] = i.span
      BY DEF SpansOf
    <2> QED BY <1>1, <2>1 DEF Separate
  <1>6. ASSUME NEW i \in intervals
        PROVE  LET pieces == SplitByLocalHour(i.span)
               IN  /\ \A p \in pieces : /\ p.lo \in Int /\ p.hi \in Int /\ p.lo < p.hi
                                        /\ i.span.lo <= p.lo /\ p.hi <= i.span.hi
                                        /\ \A t \in Int : Holds(p, t) => LocalHour(t) = LocalHour(p.lo)
                   /\ \A p, q \in pieces : \A t \in Int : Holds(p, t) /\ Holds(q, t) => p = q
                   /\ \A t \in Int : Holds(i.span, t) => \E p \in pieces : Holds(p, t)
    <2> DEFINE x == i.span
    <2>1. x.lo \in Int /\ x.hi \in Int /\ x.lo < x.hi
      BY <1>1
    <2> HIDE DEF x
    <2> QED BY <2>1, SplitIs DEF x
  <1>7. ASSUME NEW p
        PROVE  p \in D <=> \E i \in intervals : \E x \in SplitByLocalHour(i.span) :
                             /\ p = [scope |-> 1, counts |-> ReconcileCounts(i.reading.counts), span |-> x]
                             /\ Reports(i) /\ PlaceOf(chart, x.lo) = place
    BY DEF PiecesIn, Reports
  <1> HIDE DEF D
  <1>8. ASSUME NEW p \in D
        PROVE  /\ p.span.lo \in Int /\ p.span.hi \in Int /\ p.span.lo < p.span.hi
               /\ p.counts.occupied \in Nat /\ p.counts.operational \in Nat
               /\ \A t \in Int : Holds(p.span, t) =>
                    t \in times /\ Says(row, t, p.counts.occupied, p.counts.operational)
    <2>1. PICK i \in intervals : \E x \in SplitByLocalHour(i.span) :
                             /\ p = [scope |-> 1, counts |-> ReconcileCounts(i.reading.counts), span |-> x]
                             /\ Reports(i) /\ PlaceOf(chart, x.lo) = place
      BY <1>7
    <2>2. PICK x \in SplitByLocalHour(i.span) :
                             /\ p = [scope |-> 1, counts |-> ReconcileCounts(i.reading.counts), span |-> x]
                             /\ Reports(i) /\ PlaceOf(chart, x.lo) = place
      BY <2>1
    <2>3. p.span = x /\ p.counts.occupied = InUseOf(i) /\ p.counts.operational = WorkingOf(i)
      BY <2>2 DEF InUseOf, WorkingOf
    <2>4. x.lo \in Int /\ x.hi \in Int /\ x.lo < x.hi /\ i.span.lo <= x.lo /\ x.hi <= i.span.hi
          /\ \A t \in Int : Holds(x, t) => LocalHour(t) = LocalHour(x.lo)
      BY <1>6
    <2>5. ASSUME NEW t \in Int, Holds(x, t)
          PROVE  t \in times /\ Says(row, t, InUseOf(i), WorkingOf(i))
      <3>1. x.lo <= t /\ t < x.hi
        BY <2>5 DEF Holds
      <3>2. Holds(i.span, t) /\ Holds(window, t)
        BY <1>1, <2>4, <3>1 DEF Holds
      <3>3. PlaceOf(chart, t) = PlaceOf(chart, x.lo)
        BY <2>4, <2>5 DEF PlaceOf, HourOfWeek, LocalDay
      <3> QED BY <1>1, <1>4, <2>2, <3>2, <3>3
    <2>6. InUseOf(i) \in Nat /\ WorkingOf(i) \in Nat
      BY <1>1, <2>2
    <2> QED BY <2>3, <2>4, <2>5, <2>6
  <1>9. ASSUME NEW p \in D, NEW q \in D, NEW t \in Int, Holds(p.span, t), Holds(q.span, t) PROVE p = q
    <2>1. PICK i \in intervals : \E x \in SplitByLocalHour(i.span) :
                             p = [scope |-> 1, counts |-> ReconcileCounts(i.reading.counts), span |-> x]
      BY <1>7
    <2>2. PICK x \in SplitByLocalHour(i.span) : p = [scope |-> 1, counts |-> ReconcileCounts(i.reading.counts), span |-> x]
      BY <2>1
    <2>3. PICK j \in intervals : \E y \in SplitByLocalHour(j.span) :
                             q = [scope |-> 1, counts |-> ReconcileCounts(j.reading.counts), span |-> y]
      BY <1>7
    <2>4. PICK y \in SplitByLocalHour(j.span) : q = [scope |-> 1, counts |-> ReconcileCounts(j.reading.counts), span |-> y]
      BY <2>3
    <2>5. p.span = x /\ q.span = y
      BY <2>2, <2>4
    <2>6. x.lo <= t /\ t < x.hi /\ y.lo <= t /\ t < y.hi
      BY <1>9, <2>5 DEF Holds
    <2>7. Holds(i.span, t) /\ Holds(j.span, t)
      <3>1. i.span.lo \in Int /\ i.span.hi \in Int /\ j.span.lo \in Int /\ j.span.hi \in Int
        BY <1>1
      <3>2. x.lo \in Int /\ x.hi \in Int /\ i.span.lo <= x.lo /\ x.hi <= i.span.hi
        BY <1>6
      <3>3. y.lo \in Int /\ y.hi \in Int /\ j.span.lo <= y.lo /\ y.hi <= j.span.hi
        BY <1>6
      <3> QED BY <2>6, <3>1, <3>2, <3>3 DEF Holds
    <2>8. i = j
      BY <1>5, <2>7
    <2>9. x = y
      BY <1>6, <1>9, <2>5, <2>8
    <2> QED BY <2>2, <2>4, <2>8, <2>9
  <1>10. \A p \in D : at[p] = p.span /\ occ[p] = p.counts.occupied /\ op[p] = p.counts.operational
    OBVIOUS
  <1>11. Lengths(occ, at, D) = [p \in D |-> Busy(p)] /\ Lengths(op, at, D) = [p \in D |-> Open(p)]
    BY DEF Lengths, Busy, Open
  <1> HIDE DEF at, occ, op
  <1>12. Separate(D, at)
    <2>1. \A d \in D : at[d].lo \in Int /\ at[d].hi \in Int /\ at[d].lo <= at[d].hi
      BY <1>8, <1>10
    <2>2. \A d, e \in D : d # e => \A t \in Int : ~(Holds(at[d], t) /\ Holds(at[e], t))
      BY <1>9, <1>10
    <2> QED BY <2>1, <2>2 DEF Separate
  <1>13. IsFiniteSet(D)
    <2> DEFINE f == [p \in D |-> p.span.lo]
    <2>1. \A p \in D : f[p] \in times /\ Holds(p.span, f[p]) /\ f[p] \in Int
      BY <1>8 DEF Holds
    <2>2. \A p, q \in D : f[p] = f[q] => p = q
      BY <1>9, <2>1
    <2>3. f \in [D -> times]
      BY <2>1
    <2> HIDE DEF f
    <2>4. f \in Injection(D, times)
      BY <2>2, <2>3 DEF Injection, IsInjective
    <2> QED BY <1>4, <2>4, FS_Injection
  <1>14. Figure(row, times) = Share(a, b)
    <2>1. \A t \in times : t \in Int /\ Holds(window, t) /\ PlaceOf(chart, t) = place
                           /\ Shown(row, t, "occupied") \in Nat /\ Shown(row, t, "available") \in Nat
      BY <1>1, <1>4
    <2>2. \A d \in D : occ[d] \in Int /\ op[d] \in Int
      BY <1>8, <1>10
    <2>3. \A d \in D : \A t \in Int : Holds(at[d], t) => t \in times /\ Says(row, t, occ[d], op[d])
      BY <1>8, <1>10
    <2>4. ASSUME NEW t \in times PROVE (\E d \in D : Holds(at[d], t)) \/ Says(row, t, 0, 0)
      <3>1. ASSUME NEW i \in intervals, Holds(i.span, t), Reports(i) PROVE \E d \in D : Holds(at[d], t)
        <4>1. PICK x \in SplitByLocalHour(i.span) : Holds(x, t)
          BY <1>6, <2>1, <3>1
        <4>2. LocalHour(t) = LocalHour(x.lo)
          BY <1>6, <2>1, <4>1
        <4>3. PlaceOf(chart, x.lo) = place
          BY <2>1, <4>2 DEF PlaceOf, HourOfWeek, LocalDay
        <4> DEFINE d == [scope |-> 1, counts |-> ReconcileCounts(i.reading.counts), span |-> x]
        <4>4. d.span = x
          OBVIOUS
        <4>5. d \in D
          BY <1>7, <3>1, <4>3
        <4> HIDE DEF d
        <4> QED BY <1>10, <4>1, <4>4, <4>5
      <3> QED BY <1>1, <2>1, <3>1
    <2> HIDE DEF a, b
    <2> QED BY <1>4, <1>12, <1>13, <2>1, <2>2, <2>3, <2>4, FigureIs DEF a, b
  <1>15. D = {} => a = 0 /\ b = 0
    <2> DEFINE f == Lengths(occ, at, D)
               g == Lengths(op, at, D)
    <2>1. D = {} => (\A d \in D : f[d] = 0) /\ (\A d \in D : g[d] = 0)
      OBVIOUS
    <2> HIDE DEF f, g
    <2>2. D = {} => SumOf(f, D) = 0 /\ SumOf(g, D) = 0
      BY <1>13, <2>1, SumOfNone
    <2> QED BY <2>2 DEF f, g
  <1>16. bin.occupied = a /\ bin.operational = b
    BY <1>2, <1>11
  <1> HIDE DEF a, b
  <1>17. ShownIn(bin) = Share(a, b)
    BY <1>2, <1>15, <1>16 DEF ShownIn, Share, NoShare
  <1> QED BY <1>14, <1>17 DEF row, times, whole, intervals, bin

\* The local day grows with the instant, and goes on by one in the length of a day.
LEMMA LocalDayIs ==
  ASSUME MetricsAssumption
  PROVE  /\ \A t \in Int : LocalDay(t) \in Int
         /\ \A t, u \in Int : t <= u => LocalDay(t) <= LocalDay(u)
         /\ \A t, n \in Int : LocalDay(t + (n * (HourLength * HoursInDay))) = LocalDay(t) + n
  <1> DEFINE h == HourLength
             k == HoursInDay
             z == ZoneOffset
  <1>1. h \in Nat \ {0} /\ k \in Nat \ {0} /\ z \in Int
    BY DEF MetricsAssumption
  <1>2. \A t : LocalDay(t) = ((t + z) \div h) \div k
    BY DEF LocalDay, LocalHour
  <1> HIDE DEF h, k, z
  <1>3. \A t \in Int : (t + z) \div h \in Int /\ LocalDay(t) \in Int
    BY <1>1, <1>2
  <1>4. ASSUME NEW t \in Int, NEW u \in Int, t <= u PROVE LocalDay(t) <= LocalDay(u)
    <2> DEFINE x == t + z
               y == u + z
               p == x \div h
               q == y \div h
    <2>1. x \in Int /\ y \in Int /\ x <= y
      BY <1>1, <1>4
    <2> HIDE DEF x, y
    <2>2. p <= q /\ p \in Int /\ q \in Int
      BY <1>1, <2>1, QuotientGrows
    <2> HIDE DEF p, q
    <2>3. p \div k <= q \div k
      BY <1>1, <2>2, QuotientGrows
    <2> QED BY <1>2, <2>3 DEF p, q, x, y
  <1>5. ASSUME NEW t \in Int, NEW n \in Int PROVE LocalDay(t + (n * (h * k))) = LocalDay(t) + n
    <2> DEFINE u == t + (n * (h * k))
               x == t + z
               y == u + z
               p == x \div h
               q == y \div h
               m == k * n
    <2>1. x \in Int /\ y \in Int /\ m \in Int /\ y = x + (h * m)
      <3>1. n * (h * k) = h * (k * n) /\ n * (h * k) \in Int /\ k * n \in Int
        BY <1>1
      <3> DEFINE l == n * (h * k)
      <3>2. l \in Int /\ u = t + l
        BY <3>1
      <3> HIDE DEF l, u
      <3>3. x \in Int /\ y \in Int /\ y = x + l
        BY <1>1, <3>2
      <3> QED BY <3>1, <3>3 DEF l
    <2> HIDE DEF x, y, m
    <2>2. q = p + m
      <3>1. h \in Nat \ {0} /\ x \in Int /\ y \in Int /\ m \in Int
        BY <1>1, <2>1
      <3>2. y = x + (h * m)
        BY <2>1
      <3>3. y \div h = (x \div h) + m
        <4> DEFINE l == h * m
        <4>1. l = h * m /\ y = x + l
          BY <3>2
        <4> HIDE DEF l
        <4> QED BY <3>1, <4>1, QuotientShifts
      <3> QED BY <3>3
    <2>3. p \in Int /\ q \in Int
      BY <1>1, <2>1
    <2> HIDE DEF p, q
    <2>4. q = p + (k * n)
      BY <2>2 DEF m
    <2>5. q \div k = (p \div k) + n
      <3> DEFINE l == k * n
      <3>1. l = k * n /\ q = p + l
        BY <2>4
      <3> HIDE DEF l
      <3> QED BY <1>1, <2>3, <3>1, QuotientShifts
    <2> QED BY <1>2, <2>5 DEF p, q, x, y
  <1> QED BY <1>3, <1>4, <1>5 DEF h, k

\* No day of the window is missing from its trend before the trend has all its points.
LEMMA TrendDaysIs ==
  ASSUME MetricsAssumption, NEW window, window.lo \in Int, window.hi \in Int, NEW t \in window.lo..(window.hi - 1),
         LocalDay(t) < LocalDay(window.lo) + MaxTrendPoints
  PROVE  LocalDay(t) \in TrendDays(window)
  <1> DEFINE day == HourLength * HoursInDay
             lo == window.lo
             hi == window.hi
             x == hi - lo + day - 1
             points == x \div day
             n == LocalDay(t) - LocalDay(lo)
             far == lo + n * day
             u == Lower(far, hi - 1)
  <1>0. TrendDays(window) = {LocalDay(Lower(lo + i * day, hi - 1)) : i \in 0..(Lower(MaxTrendPoints, points + 1) - 1)}
    BY DEF TrendDays
  <1>1. day \in Nat \ {0} /\ lo \in Int /\ hi \in Int /\ t \in Int /\ lo <= t /\ t < hi
    <2> DEFINE h == HourLength
               k == HoursInDay
    <2>1. h \in Nat \ {0} /\ k \in Nat \ {0}
      BY DEF MetricsAssumption
    <2> HIDE DEF h, k
    <2>2. h * k \in Nat \ {0}
      BY <2>1
    <2> QED BY <2>2 DEF h, k
  <1>2. \A v \in Int : LocalDay(v) \in Int
    BY LocalDayIs
  <1>a. \A v, w \in Int : v <= w => LocalDay(v) <= LocalDay(w)
    BY LocalDayIs
  <1>b. \A v, i \in Int : LocalDay(v + (i * day)) = LocalDay(v) + i
    BY LocalDayIs
  <1> HIDE DEF day, lo, hi
  <1>3. n \in Nat
    BY <1>1, <1>2, <1>a
  <1> HIDE DEF n
  <1>4. LocalDay(t) = LocalDay(lo) + n
    <2>1. LocalDay(t) \in Int /\ LocalDay(lo) \in Int
      BY <1>1, <1>2
    <2> QED BY <2>1 DEF n
  <1>5. points \in Int /\ 0 <= points /\ hi <= lo + (points * day)
    <2> DEFINE r == x % day
    <2>1. x \in Int /\ x >= 0
      BY <1>1
    <2> HIDE DEF x
    <2>2. points \in Int /\ r \in 0..(day - 1) /\ x = (day * points) + r
      BY <1>1, <2>1
    <2> HIDE DEF points, r
    <2>3. ASSUME points < 0 PROVE FALSE
      <3>1. day * (points + 1) <= 0 /\ day * (points + 1) = (day * points) + day /\ day * points \in Int
        BY <1>1, <2>2, <2>3
      <3> QED BY <1>1, <2>1, <2>2, <3>1
    <2>4. points * day = day * points /\ day * points \in Int
      BY <1>1, <2>2
    <2>5. x = hi - lo + day - 1
      BY DEF x
    <2>6. hi <= lo + (points * day)
      BY <1>1, <2>2, <2>4, <2>5
    <2> QED BY <2>2, <2>3, <2>6
  <1> HIDE DEF points
  <1>6. n <= points
    <2> DEFINE v == lo + (points * day)
    <2>1. v \in Int /\ t <= v
      BY <1>1, <1>5
    <2>2. LocalDay(v) = LocalDay(lo) + points
      BY <1>1, <1>b, <1>5
    <2> HIDE DEF v
    <2>3. LocalDay(t) <= LocalDay(v)
      BY <1>1, <1>a, <2>1
    <2>4. LocalDay(lo) \in Int
      BY <1>1, <1>2
    <2> QED BY <1>3, <1>4, <1>5, <2>2, <2>3, <2>4
  <1>7. far \in Int /\ LocalDay(far) = LocalDay(t)
    BY <1>1, <1>b, <1>3, <1>4
  <1> HIDE DEF far
  <1>8. LocalDay(u) = LocalDay(t)
    <2>1. CASE far < hi - 1
      BY <1>7, <2>1 DEF Lower
    <2>2. CASE ~(far < hi - 1)
      <3> DEFINE w == hi - 1
      <3>1. w \in Int /\ t <= w /\ w <= far /\ u = w
        BY <1>1, <1>7, <2>2 DEF Lower
      <3> HIDE DEF w, u
      <3>2. LocalDay(t) <= LocalDay(w) /\ LocalDay(w) <= LocalDay(far)
        BY <1>1, <1>a, <1>7, <3>1
      <3>3. LocalDay(t) \in Int /\ LocalDay(w) \in Int
        BY <1>1, <1>2, <3>1
      <3> QED BY <1>7, <3>1, <3>2, <3>3
    <2> QED BY <2>1, <2>2
  <1>9. n \in 0..(Lower(MaxTrendPoints, points + 1) - 1)
    <2>1. LocalDay(lo) \in Int /\ MaxTrendPoints \in Nat
      BY <1>1, <1>2 DEF MetricsAssumption
    <2>2. n < MaxTrendPoints
      BY <1>3, <1>4, <2>1 DEF lo
    <2> QED BY <1>3, <1>5, <1>6, <2>1, <2>2 DEF Lower
  <1> QED BY <1>0, <1>8, <1>9 DEF far, u

\* What is shown in a window is what the pages showed.
LEMMA FiguresAre ==
  ASSUME StudyAssumption, RankingAssumption, MetricsAssumption, LookBackAssumption, StudyInv
  PROVE  FiguresArePointwise
  <1> SUFFICES ASSUME NEW s \in Stations, NEW window \in Windows
               PROVE  ShowsThePages(RowOf(s), window, IntervalsOf(ScopeOf(RowOf(s), window), window), GetStationDetail(RowOf(s), window))
    BY DEF FiguresArePointwise
  <1> DEFINE row == RowOf(s)
             times == window.lo..(window.hi - 1)
             intervals == IntervalsOf(ScopeOf(row, window), window)
             detail == GetStationDetail(row, window)
  <1>1. window.lo \in Int /\ window.hi \in Int /\ window.hi <= FarFuture
    BY WindowIs
  <1>2. detail.station.occupancy = Figure(row, times)
    <2>1. row.linked = TRUE
      BY RowFields
    <2>2. OccupancyOf(MetricsOf(row, window)) = Figure(row, times)
      BY <1>1, OccupancyIs
    <2>3. detail.station.occupancy = OccupancyOf(MetricsOf(row, window))
      <3> HIDE DEF row
      <3> QED BY <2>1 DEF GetStationDetail, ToStationView, ViewOf
    <2> QED BY <2>2, <2>3
  <1>3. detail.trend = [d \in TrendDays(window) |-> ShownIn(BinOf(<<intervals>>, "trend", d))]
    BY DEF GetStationDetail, BuildTrend
  <1>4. \A day : ShownIn(BinOf(<<intervals>>, "trend", day)) = Figure(row, {t \in times : PlaceOf("trend", t) = day})
    BY <1>1, ChartIs
  <1>5. \A place : ShownIn(BinOf(<<intervals>>, "heatmap", place)) = Figure(row, {t \in times : PlaceOf("heatmap", t) = place})
    BY <1>1, ChartIs
  <1>6. \A t \in times : LocalDay(t) < LocalDay(window.lo) + MaxTrendPoints => LocalDay(t) \in TrendDays(window)
    BY <1>1, TrendDaysIs
  <1>7. \A t : PlaceOf("trend", t) = LocalDay(t) /\ PlaceOf("heatmap", t) = HourOfWeek(t)
    BY DEF PlaceOf
  <1>8. ASSUME NEW day
        PROVE  {t \in times : PlaceOf("trend", t) = day} = {t \in times : LocalDay(t) = day}
    BY <1>7
  <1>9. ASSUME NEW place
        PROVE  {t \in times : PlaceOf("heatmap", t) = place} = {t \in times : HourOfWeek(t) = place}
    BY <1>7
  <1> HIDE DEF row, intervals, detail
  <1>10. {LocalDay(t) : t \in {u \in times : LocalDay(u) < LocalDay(window.lo) + MaxTrendPoints}} \subseteq DOMAIN detail.trend
    BY <1>3, <1>6
  <1>11. \A day \in DOMAIN detail.trend : detail.trend[day] = Figure(row, {t \in times : LocalDay(t) = day})
    BY <1>3, <1>4, <1>8
  <1>12. \A place \in {HourOfWeek(t) : t \in times} :
           ShownIn(BinOf(<<intervals>>, "heatmap", place)) = Figure(row, {t \in times : HourOfWeek(t) = place})
    BY <1>5, <1>9
  <1>13. ShowsThePages(row, window, intervals, detail)
    BY <1>2, <1>10, <1>11, <1>12 DEF ShowsThePages
  <1> QED BY <1>13 DEF row, intervals, detail

\* Whatever pages were read, with whatever failures, changes of monitoring and of
\* capacity between them, each of the ports in use and of the ports that worked
\* that the pages showed in the monitored instants of a window is counted once, at
\* its instant and nowhere else: in the figures of a row (domain/metrics.ts:87), in
\* those of its trend and in the hour of the heatmap it lies in
\* (domain/intervals.ts:213, database/queries.ts:477).
THEOREM FiguresShowThePages ==
  ASSUME StudyAssumption, RankingAssumption, MetricsAssumption, LookBackAssumption
  PROVE  RecordsSpec => []FiguresArePointwise
  <1>1. RecordsInit => StudyInv
    BY StudyInitIs DEF RecordsInit
  <1>2. StudyInv /\ [RecordsNext]_recordsVars => StudyInv'
    BY StudyKept
  <1>3. StudyInv => FiguresArePointwise
    BY FiguresAre
  <1> QED BY <1>1, <1>2, <1>3, PTL DEF RecordsSpec

-----------------------------------------------------------------------------
(* The order of the ranking. *)

\* No less than what is no less is no less, of shares.
LEMMA SharesCompare ==
  ASSUME NEW a \in Int, NEW p \in Int, NEW b \in Int, NEW q \in Int, NEW c \in Int, NEW r \in Int,
         p > 0, q > 0, r > 0, a * q >= b * p, b * r >= c * q
  PROVE  a * r >= c * p
  <1> DEFINE x == a * q
             y == b * p
             z == b * r
             w == c * q
             u == a * r
             v == c * p
  <1>1. x \in Int /\ y \in Int /\ z \in Int /\ w \in Int /\ u \in Int /\ v \in Int
    OBVIOUS
  <1>2. x >= y /\ z >= w
    OBVIOUS
  <1>3. x * r = u * q /\ y * r = z * p /\ w * p = v * q
    OBVIOUS
  <1> HIDE DEF x, y, z, w, u, v
  <1>4. x * r >= y * r /\ z * p >= w * p
    BY <1>1, <1>2
  <1>5. u * q >= v * q
    BY <1>1, <1>3, <1>4
  <1>6. u >= v
    BY <1>1, <1>5
  <1> QED BY <1>6 DEF u, v

\* An entry that has an occupancy.
IsRankable(e) ==
  /\ e.key \in Int /\ e.metrics.occupied \in Int
  /\ OccupancyOf(e.metrics) # NoShare
  /\ OccupancyOf(e.metrics)[1] \in Int /\ OccupancyOf(e.metrics)[2] \in Int /\ OccupancyOf(e.metrics)[2] > 0

\* Stations with an occupancy stand in one order.
LEMMA BeforeIs ==
  ASSUME NEW S, \A e \in S : IsRankable(e), \A d, e \in S : d.key = e.key => d = e
  PROVE  /\ \A d \in S : ~Before(d, d, "occupancy")
         /\ \A d, e \in S : d = e \/ Before(d, e, "occupancy") \/ Before(e, d, "occupancy")
         /\ \A d, e, f \in S : Before(d, e, "occupancy") /\ Before(e, f, "occupancy") => Before(d, f, "occupancy")
         /\ \A d, e \in S : Exceeds(OccupancyOf(d.metrics), OccupancyOf(e.metrics)) => Before(d, e, "occupancy")
  <1> DEFINE O(e) == OccupancyOf(e.metrics)
             G(d, e) == Exceeds(O(d), O(e))
             H(e) == e.metrics.occupied
             B(d, e) == Before(d, e, "occupancy")
  <1>1. \A e \in S : /\ e.key \in Int /\ H(e) \in Int /\ O(e) # NoShare
                     /\ O(e)[1] \in Int /\ O(e)[2] \in Int /\ O(e)[2] > 0
    BY DEF IsRankable
  <1>2. ASSUME NEW d \in S, NEW e \in S
        PROVE  B(d, e) <=> G(d, e) \/ (~G(d, e) /\ ~G(e, d) /\ (H(d) - H(e) > 0 \/ (H(d) - H(e) = 0 /\ d.key < e.key)))
    <2>1. O(d) # NoShare /\ O(e) # NoShare
      BY <1>1
    <2> QED BY <2>1 DEF Before
  <1>3. \A d, e \in S : G(d, e) <=> O(d)[1] * O(e)[2] > O(e)[1] * O(d)[2]
    BY DEF Exceeds
  <1> HIDE DEF O, G, H, B
  <1>4. ASSUME NEW d \in S, NEW e \in S PROVE ~G(d, e) \/ ~G(e, d)
    <2> DEFINE x == O(d)[1] * O(e)[2]
               y == O(e)[1] * O(d)[2]
    <2>1. x \in Int /\ y \in Int
      BY <1>1
    <2>2. (G(d, e) <=> x > y) /\ (G(e, d) <=> y > x)
      BY <1>3
    <2> HIDE DEF x, y
    <2> QED BY <2>1, <2>2
  <1>5. ASSUME NEW d \in S, NEW e \in S, NEW f \in S, ~G(e, d), ~G(f, e) PROVE ~G(f, d)
    <2> DEFINE a == O(d)[1]
               p == O(d)[2]
               b == O(e)[1]
               q == O(e)[2]
               c == O(f)[1]
               r == O(f)[2]
    <2>1. a \in Int /\ p \in Int /\ b \in Int /\ q \in Int /\ c \in Int /\ r \in Int /\ p > 0 /\ q > 0 /\ r > 0
      BY <1>1
    <2>2. ~(b * p > a * q) /\ ~(c * q > b * r) /\ (G(f, d) <=> c * p > a * r)
      BY <1>3, <1>5
    <2> HIDE DEF a, p, b, q, c, r
    <2>3. a * q >= b * p /\ b * r >= c * q
      BY <2>1, <2>2
    <2>4. a * r >= c * p
      BY <2>1, <2>3, SharesCompare
    <2>5. a * r \in Int /\ c * p \in Int
      BY <2>1
    <2> DEFINE u == a * r
               v == c * p
    <2>6. u \in Int /\ v \in Int /\ u >= v /\ (G(f, d) <=> v > u)
      BY <2>2, <2>4, <2>5
    <2> HIDE DEF u, v
    <2> QED BY <2>6
  <1>6. ASSUME NEW d \in S PROVE ~B(d, d)
    BY <1>1, <1>2, <1>4
  <1>7. ASSUME NEW d \in S, NEW e \in S PROVE d = e \/ B(d, e) \/ B(e, d)
    <2>1. CASE G(d, e) \/ G(e, d)
      BY <1>2, <2>1
    <2>2. CASE ~G(d, e) /\ ~G(e, d)
      <3>1. d.key = e.key => d = e
        OBVIOUS
      <3>2. d.key \in Int /\ e.key \in Int /\ H(d) \in Int /\ H(e) \in Int
        BY <1>1
      <3>3. d.key = e.key \/ (H(d) - H(e) > 0 \/ (H(d) - H(e) = 0 /\ d.key < e.key))
            \/ (H(e) - H(d) > 0 \/ (H(e) - H(d) = 0 /\ e.key < d.key))
        BY <3>2
      <3> QED BY <1>2, <2>2, <3>1, <3>3
    <2> QED BY <2>1, <2>2
  <1>8. ASSUME NEW d \in S, NEW e \in S, NEW f \in S, B(d, e), B(e, f) PROVE B(d, f)
    <2>1. ~G(e, d) /\ ~G(f, e)
      BY <1>2, <1>4, <1>8
    <2>2. ~G(f, d)
      BY <1>5, <2>1
    <2>3. CASE G(d, f)
      BY <1>2, <2>3
    <2>4. CASE ~G(d, f)
      <3>1. ~G(d, e)
        BY <1>5, <2>1, <2>4
      <3>2. ~G(e, f)
        BY <1>5, <2>1, <2>4
      <3>3. /\ H(d) - H(e) > 0 \/ (H(d) - H(e) = 0 /\ d.key < e.key)
            /\ H(e) - H(f) > 0 \/ (H(e) - H(f) = 0 /\ e.key < f.key)
        BY <1>2, <1>8, <3>1, <3>2
      <3>4. d.key \in Int /\ e.key \in Int /\ f.key \in Int /\ H(d) \in Int /\ H(e) \in Int /\ H(f) \in Int
        BY <1>1
      <3>5. H(d) - H(f) > 0 \/ (H(d) - H(f) = 0 /\ d.key < f.key)
        BY <3>3, <3>4
      <3> QED BY <1>2, <2>2, <2>4, <3>5
    <2> QED BY <2>3, <2>4
  <1>9. ASSUME NEW d \in S, NEW e \in S, G(d, e) PROVE B(d, e)
    BY <1>2, <1>9
  <1> QED BY <1>6, <1>7, <1>8, <1>9 DEF B, G, O

\* Entries in one order are all in the ranking, each in its place.
LEMMA RankedIs ==
  ASSUME NEW S, IsFiniteSet(S), NEW sort, \A d \in S : ~Before(d, d, sort),
         \A d, e \in S : d = e \/ Before(d, e, sort) \/ Before(e, d, sort),
         \A d, e, f \in S : Before(d, e, sort) /\ Before(e, f, sort) => Before(d, f, sort)
  PROVE  LET n == Cardinality(S)
             list == Ranked(S, sort)
         IN  /\ n \in Nat /\ list \in [1..n -> S]
             /\ \A i, j \in 1..n : i < j => ~Before(list[j], list[i], sort)
  <1> DEFINE n == Cardinality(S)
             Ahead(e) == {d \in S : Before(d, e, sort)}
             rank == [e \in S |-> Cardinality(Ahead(e)) + 1]
             list == Ranked(S, sort)
  <1>0. n \in Nat
    BY FS_CardinalityType
  <1>1. ASSUME NEW e \in S
        PROVE  /\ IsFiniteSet(Ahead(e)) /\ Cardinality(Ahead(e)) \in Nat
               /\ rank[e] = Cardinality(Ahead(e)) + 1 /\ rank[e] \in Int /\ rank[e] \in 1..n
    <2>1. Ahead(e) \in SUBSET S /\ e \notin Ahead(e)
      OBVIOUS
    <2>2. IsFiniteSet(Ahead(e)) /\ Cardinality(Ahead(e)) <= n /\ Cardinality(Ahead(e)) # n
      BY <2>1, FS_Subset
    <2>3. Cardinality(Ahead(e)) \in Nat
      BY <2>2, FS_CardinalityType
    <2> QED BY <1>0, <2>2, <2>3
  <1>2. ASSUME NEW d \in S, NEW e \in S, Before(d, e, sort) PROVE rank[d] < rank[e]
    <2>1. Ahead(d) \in SUBSET Ahead(e) /\ d \in Ahead(e) /\ d \notin Ahead(d)
      BY <1>2
    <2>2. Cardinality(Ahead(d)) <= Cardinality(Ahead(e)) /\ Cardinality(Ahead(d)) # Cardinality(Ahead(e))
      BY <1>1, <2>1, FS_Subset
    <2>3. /\ rank[d] = Cardinality(Ahead(d)) + 1 /\ rank[e] = Cardinality(Ahead(e)) + 1
          /\ Cardinality(Ahead(d)) \in Nat /\ Cardinality(Ahead(e)) \in Nat
      BY <1>1
    <2> DEFINE a == Cardinality(Ahead(d))
               b == Cardinality(Ahead(e))
    <2> HIDE DEF rank, a, b
    <2> QED BY <2>2, <2>3 DEF a, b
  <1>3. \A d, e \in S : rank[d] = rank[e] => d = e
    <2>1. \A d \in S : rank[d] \in Int
      BY <1>1
    <2> HIDE DEF rank
    <2> QED BY <1>2, <2>1
  <1> HIDE DEF n
  <1>4. rank \in Injection(S, 1..n)
    BY <1>1, <1>3 DEF Injection, IsInjective
  <1>5. IsFiniteSet(1..n) /\ Cardinality(1..n) = n
    BY <1>0, FS_Interval
  <1>6. rank \in Surjection(S, 1..n)
    <2> HIDE DEF rank
    <2> QED BY <1>4, <1>5, FS_Injection DEF n
  <1>7. ASSUME NEW i \in 1..n PROVE list[i] \in S /\ rank[list[i]] = i
    <2>1. PICK e \in S : rank[e] = i
      BY <1>6 DEF Surjection
    <2>2. Cardinality(Ahead(e)) = i - 1
      <3>1. rank[e] = Cardinality(Ahead(e)) + 1 /\ Cardinality(Ahead(e)) \in Nat
        BY <1>1
      <3> HIDE DEF rank, Ahead
      <3> QED BY <2>1, <3>1
    <2>3. list[i] = CHOOSE d \in S : Cardinality(Ahead(d)) = i - 1
      BY DEF Ranked, n
    <2> HIDE DEF list
    <2>4. list[i] \in S /\ Cardinality(Ahead(list[i])) = i - 1
      <3> HIDE DEF Ahead
      <3> QED BY <2>2, <2>3
    <2>5. rank[list[i]] = Cardinality(Ahead(list[i])) + 1
      BY <2>4
    <2> QED BY <2>4, <2>5
  <1>8. list \in [1..n -> S]
    BY <1>7 DEF Ranked, n
  <1> HIDE DEF rank, list
  <1>9. ASSUME NEW i \in 1..n, NEW j \in 1..n, i < j, Before(list[j], list[i], sort) PROVE FALSE
    BY <1>0, <1>2, <1>7, <1>9
  <1> QED BY <1>0, <1>8, <1>9 DEF n, list

PortsOver(row, times) == [t \in times |-> PortsAt(row, t)]

\* The ports installed are added up over instants.
LEMMA PortTimeIs ==
  ASSUME NEW row, NEW times
  PROVE  MapThenSumSet(LAMBDA t : PortsAt(row, t), times) = SumOf(PortsOver(row, times), times)
  <1> DEFINE f == PortsOver(row, times)
             A(it) == it = [s \in SUBSET times |-> IF s = {} THEN 0 ELSE PortsAt(row, AnyOf(s)) + it[s \ {AnyOf(s)}]]
             B(it) == it = [s \in SUBSET times |-> IF s = {} THEN 0 ELSE f[AnyOf(s)] + it[s \ {AnyOf(s)}]]
  <1>1. MapThenSumSet(LAMBDA t : PortsAt(row, t), times) = (CHOOSE it : A(it))[times]
    BY DEF MapThenSumSet, MapThenFoldSet, AnyOf
  <1>2. SumOf(f, times) = (CHOOSE it : B(it))[times]
    BY DEF SumOf, MapThenSumSet, MapThenFoldSet, AnyOf
  <1>3. \A s \in SUBSET times : s # {} => f[AnyOf(s)] = PortsAt(row, AnyOf(s))
    BY DEF AnyOf, PortsOver
  <1> HIDE DEF f
  <1>4. ASSUME NEW it PROVE A(it) <=> B(it)
    BY <1>3
  <1> HIDE DEF A, B
  <1>5. (CHOOSE it : A(it)) = (CHOOSE it : B(it))
    BY <1>4
  <1> QED BY <1>1, <1>2, <1>5 DEF f

\* The instants a station is watched in, and those a page speaks for.
WatchedIn(row, times) == {t \in times : WatchedAt(row, t)}
HeardIn(row, times) == {t \in WatchedIn(row, times) : Speaks(row, t) # {}}

IsExpected(m) == m.expected # Null

\* What is expected of a station is the ports installed while it was watched, and
\* what is known of it no more than those while a page spoke for it.
LEMMA HeardIs ==
  ASSUME StudyAssumption, MetricsAssumption, LookBackAssumption, StudyInv, NEW s \in Stations,
         NEW window, window.lo \in Int, window.hi \in Int, window.hi <= FarFuture,
         IsExpected(MetricsOf(RowOf(s), window)), Fits(RowOf(s))
  PROVE  LET row == RowOf(s)
             m == MetricsOf(row, window)
             watched == WatchedIn(row, window.lo..(window.hi - 1))
             heard == HeardIn(row, window.lo..(window.hi - 1))
         IN  /\ m.expected = SumOf(PortsOver(row, watched), watched) /\ m.expected \in Int
             /\ m.known <= SumOf(PortsOver(row, heard), heard) /\ m.known \in Int
             /\ SumOf(PortsOver(row, heard), heard) \in Int
  <1> DEFINE row == RowOf(s)
             scope == ScopeOf(row, window)
             capacity == row.capacity
             monitored == Monitored(row.windows, row.gaps)
             spans == IntersectAll(window, monitored)
             readings == SnapshotsFor(row.readings, window.lo - LookBack, window.hi)
             reconciled == {r \in readings : Reconciles(r.counts)}
             intervals == ValidIntervals(readings, monitored, capacity, window, reconciled)
             m == MetricsOf(row, window)
             whole == window.lo..(window.hi - 1)
             watched == WatchedIn(row, whole)
             heard == HeardIn(row, whole)
             at == SpansOf(intervals)
             k == [i \in intervals |-> Known(ReconcileCounts(i.reading.counts)["known"])]
             held == Held(intervals, at)
             g == [t \in held |-> k[CHOOSE i \in intervals : Holds(i.span, t)]]
  <1>1. /\ scope.readings = readings /\ scope.windows = row.windows /\ scope.gaps = row.gaps /\ scope.capacity = capacity
        /\ IntervalsOf(scope, window) = intervals
    BY DEF ScopeOf, IntervalsOf
  <1>2. m.known = Weighed(intervals, "known") /\ m.expected = ExpectedPortMinutes(spans, capacity)
    BY <1>1 DEF MetricsOf, ComputeScopeMetrics
  <1>3. IsScope(scope) /\ Fitting(scope) /\ IsCapacity(capacity)
    BY ScopeIs
  <1>4. /\ Shots(readings) /\ IsFiniteSet(readings) /\ Finite(row.windows) /\ Finite(row.gaps)
        /\ Dated(capacity) /\ Equipped(capacity)
    BY <1>1, <1>3 DEF IsScope
  <1>5. \A t \in Int : \A i \in intervals : Holds(window, t) /\ Holds(i.span, t) => i.reading \in Speaks(row, t)
    <2>1. ASSUME NEW t \in Int, Holds(window, t), NEW i \in IntervalsOf(ScopeOf(RowOf(s), window), window), Holds(i.span, t)
          PROVE  i.reading \in Speaks(RowOf(s), t)
      BY <2>1, SpeaksIs
    <2> QED BY <1>1, <2>1
  <1>6. m.expected # Null
    BY DEF IsExpected
  <1> HIDE DEF row, m
  <1>7. FarFuture \in Int /\ MaxPorts \in Nat
    BY DEF StudyAssumption, MetricsAssumption
  <1>8. /\ monitored \in SUBSET Times
        /\ \A x, y \in monitored : x # y => x.hi < y.lo \/ y.hi < x.lo
        /\ \A u \in Int : u < FarFuture => (WatchedAt(row, u) <=> Within(u, monitored))
    BY <1>4, <1>7, WatchedIs
  <1>9. \A r \in readings : r \in reconciled <=> Reconciles(r.counts)
    OBVIOUS
  <1>10. \A r \in readings : Reconciles(r.counts) /\ CapacityAt(capacity, r.at) # {} =>
           Known(ReconcileCounts(r.counts).known) + Known(ReconcileCounts(r.counts).unknown) <= PortsInForce(capacity, r.at)
    BY <1>1, <1>3 DEF Fitting
  <1> HIDE DEF monitored, capacity, readings, reconciled, scope, watched, heard, k, held, g
  <1>11. whole \in SUBSET Int /\ IsFiniteSet(whole) /\ \A t \in Int : t \in whole <=> Holds(window, t)
    BY FS_Interval DEF Holds
  <1> HIDE DEF whole
  <1>12. /\ Parted(spans, window)
         /\ \A t \in Int : Within(t, spans) <=> Holds(window, t) /\ Within(t, monitored)
    BY <1>8, SharedIs
  <1> HIDE DEF spans
  <1>13. /\ IsFiniteSet(intervals) /\ Separate(intervals, at)
         /\ \A i \in intervals : \A t \in Int : Holds(i.span, t) =>
              /\ Holds(window, t) /\ Within(t, monitored)
              /\ CapacityAt(capacity, t) = CapacityAt(capacity, i.reading.at)
    BY <1>4, <1>7, <1>8, IntervalsAre
  <1> USE DEF k, held, g, watched, heard
  <1>14. \A i \in intervals : /\ i.span.lo \in Int /\ i.span.hi \in Int
                              /\ i.reading \in readings /\ i.reading \in reconciled
    BY <1>4, <1>7, <1>8, IntervalIs
  <1> HIDE DEF intervals
  <1>15. ASSUME NEW t \in Int PROVE t \in watched <=> Within(t, spans)
    <2>1. t \in watched <=> Holds(window, t) /\ WatchedAt(row, t)
      BY <1>11 DEF WatchedIn
    <2>2. Holds(window, t) => t < FarFuture
      BY <1>7 DEF Holds
    <2> QED BY <1>8, <1>12, <2>1, <2>2
  <1>16. watched = {t \in Int : Within(t, spans)}
    <2>1. watched \in SUBSET Int
      BY <1>11 DEF WatchedIn
    <2> HIDE DEF watched
    <2> QED BY <1>15, <2>1
  <1>17. watched \in SUBSET whole /\ heard \in SUBSET watched /\ \A t \in watched : t \in heard <=> Speaks(row, t) # {}
    BY DEF WatchedIn, HeardIn
  <1> HIDE DEF watched, heard
  <1>18. IsFiniteSet(watched) /\ IsFiniteSet(heard) /\ watched \in SUBSET Int
    BY <1>11, <1>17, FS_Subset
  <1> DEFINE want == [t \in watched |-> PortsInForce(capacity, t)]
  <1>19. /\ \A t \in watched : CapacityAt(capacity, t) # {}
         /\ m.expected = SumOf(want, watched)
    <2>1. ExpectedPortMinutes(spans, capacity) # Null
      BY <1>2, <1>6
    <2>2. LET times == {t \in Int : Within(t, spans)}
          IN  /\ \A t \in times : CapacityAt(capacity, t) # {}
              /\ ExpectedPortMinutes(spans, capacity) = SumOf([t \in times |-> PortsInForce(capacity, t)], times)
      BY <1>4, <1>12, <2>1, ExpectedIs
    <2> QED BY <1>2, <1>16, <2>2
  <1>20. ASSUME NEW t \in watched PROVE PortsAt(row, t) = PortsInForce(capacity, t) /\ PortsAt(row, t) \in Nat
    <2>1. IsCapacity(row.capacity) /\ CapacityAt(row.capacity, t) # {}
      BY <1>3, <1>19 DEF capacity
    <2>2. PortsAt(row, t) = PortsInForce(row.capacity, t)
      BY <2>1, PortsAtIs
    <2>3. PortsInForce(row.capacity, t) \in Nat
      BY <2>1, PortsAre DEF IsCapacity
    <2> QED BY <2>2, <2>3 DEF capacity
  <1>21. m.expected = SumOf(PortsOver(row, watched), watched) /\ m.expected \in Int
    <2> DEFINE f == PortsOver(row, watched)
    <2>1. f = want /\ \A t \in watched : f[t] \in Int
      BY <1>20 DEF PortsOver
    <2> HIDE DEF f, want
    <2>2. SumOf(f, watched) \in Int
      BY <1>18, <2>1, SumIs
    <2> QED BY <1>19, <2>1, <2>2 DEF f
  <1>22. \A i \in intervals : /\ at[i] = i.span /\ k[i] \in Nat
                              /\ CapacityAt(capacity, i.reading.at) # {} => k[i] <= PortsInForce(capacity, i.reading.at)
    <2> TAKE i \in intervals
    <2> DEFINE c == ReconcileCounts(i.reading.counts)
               a == Known(c.known)
               b == Known(c.unknown)
               p == PortsInForce(capacity, i.reading.at)
    <2>1. Reconciles(i.reading.counts) /\ i.reading \in readings
      BY <1>9, <1>14
    <2>2. a \in Nat /\ b \in Nat
      BY <1>7, <2>1, CountsAddUp
    <2>3. k[i] = a
      OBVIOUS
    <2>4. CapacityAt(capacity, i.reading.at) # {} => p \in Nat /\ a + b <= p
      BY <1>4, <1>10, <2>1, PortsAre
    <2> HIDE DEF a, b, k, p
    <2>5. CapacityAt(capacity, i.reading.at) # {} => a <= p
      BY <2>2, <2>4
    <2> QED BY <2>2, <2>3, <2>5 DEF SpansOf, p
  <1>23. m.known = SumOf(Lengths(k, at, intervals), intervals)
    <2>1. Lengths(k, at, intervals) = [i \in intervals |-> Known(ReconcileCounts(i.reading.counts)["known"]) * (i.span.hi - i.span.lo)]
      BY DEF Lengths, SpansOf
    <2> QED BY <1>2, <2>1, WeighedIs
  <1> HIDE DEF at, k
  <1>24. ASSUME NEW t \in Int, NEW i \in intervals, Holds(i.span, t)
         PROVE  /\ t \in held /\ t \in heard /\ g[t] = k[i] /\ g[t] \in Nat /\ g[t] <= PortsAt(row, t)
    <2>1. t \in held
      BY <1>22, <1>24 DEF Held
    <2>2. \A j \in intervals : Holds(j.span, t) => j = i
      BY <1>13, <1>22, <1>24 DEF Separate
    <2>3. (CHOOSE j \in intervals : Holds(j.span, t)) = i
      BY <1>24, <2>2
    <2>4. g[t] = k[i]
      BY <2>1, <2>3
    <2>5. t \in watched
      BY <1>12, <1>13, <1>15, <1>24
    <2>6. t \in heard
      BY <1>5, <1>13, <1>17, <1>24, <2>5
    <2>7. PortsAt(row, t) = PortsInForce(capacity, i.reading.at) /\ CapacityAt(capacity, i.reading.at) # {}
      <3>1. CapacityAt(capacity, t) = CapacityAt(capacity, i.reading.at)
        BY <1>13, <1>24
      <3>2. PortsInForce(capacity, t) = PortsInForce(capacity, i.reading.at)
        BY <3>1 DEF PortsInForce
      <3> QED BY <1>19, <1>20, <2>5, <3>1, <3>2
    <2> HIDE DEF g
    <2> QED BY <1>22, <2>1, <2>4, <2>6, <2>7
  <1>25. \A t \in held : \E i \in intervals : t \in Int /\ Holds(i.span, t)
    BY <1>22 DEF Held
  <1>26. IsFiniteSet(held) /\ SumOf(g, held) = m.known
    <2>1. \A i \in intervals : k[i] \in Int
      BY <1>22
    <2>2. \A i \in intervals : \A t \in Int : Holds(at[i], t) => g[t] = k[i]
      BY <1>22, <1>24
    <2> HIDE DEF g
    <2>3. IsFiniteSet(held) /\ SumOf(g, held) = SumOf(Lengths(k, at, intervals), intervals)
      BY <1>13, <2>1, <2>2, SumOfSpans
    <2> QED BY <1>23, <2>3
  <1> DEFINE f == PortsOver(row, heard)
  <1>27. \A t \in heard : f[t] = PortsAt(row, t) /\ f[t] \in Nat
    BY <1>17, <1>20 DEF PortsOver
  <1>28. held \in SUBSET heard /\ \A t \in held : g[t] \in Int /\ g[t] <= f[t]
    <2>1. ASSUME NEW t \in held PROVE t \in heard /\ g[t] \in Int /\ g[t] <= f[t]
      <3>1. PICK i \in intervals : t \in Int /\ Holds(i.span, t)
        BY <1>25
      <3>2. t \in heard /\ g[t] \in Nat /\ g[t] <= PortsAt(row, t)
        BY <1>24, <3>1
      <3> HIDE DEF g, held, f
      <3> QED BY <1>27, <3>2
    <2> HIDE DEF g, held, f
    <2> QED BY <2>1
  <1> HIDE DEF g, held, f
  <1>29. SumOf(g, held) <= SumOf(f, heard)
    BY <1>18, <1>27, <1>28, SumGrows
  <1>30. SumOf(g, held) \in Int /\ SumOf(f, heard) \in Int
    <2>1. \A t \in heard : f[t] \in Int
      BY <1>27
    <2> QED BY <1>18, <1>26, <1>28, <2>1, SumIs
  <1> QED BY <1>21, <1>26, <1>29, <1>30 DEF row, m, watched, heard, whole, f

\* The entries that may be ranked: those of stations, whose figures pass the gates.
LEMMA EntryIs ==
  ASSUME StudyAssumption, MetricsAssumption, RankingAssumption, LookBackAssumption, StudyInv, NEW s \in Stations,
         NEW window, window.lo \in Int, window.hi \in Int, window.lo <= window.hi, window.hi <= FarFuture,
         NEW e, e.key = s, e.metrics = MetricsOf(RowOf(s), window), EvaluateEligibility(e.metrics)
  PROVE  LET times == window.lo..(window.hi - 1)
             watched == WatchedIn(RowOf(s), times)
             heard == HeardIn(RowOf(s), times)
         IN  /\ IsRankable(e) /\ e.metrics.supports
             /\ OccupancyOf(e.metrics) = Figure(RowOf(s), times)
             /\ OccupancyOf(e.metrics) = <<e.metrics.occupied, e.metrics.operational>>
             /\ e.metrics.occupied \in Int /\ e.metrics.operational \in Int /\ e.metrics.operational > 0
             /\ Cardinality(times) >= MinElapsedDays * Day
             /\ Fits(RowOf(s)) => 100 * SumOf(PortsOver(RowOf(s), heard), heard)
                                    >= MinStatusCoverage * SumOf(PortsOver(RowOf(s), watched), watched)
  <1> DEFINE row == RowOf(s)
             m == e.metrics
             times == window.lo..(window.hi - 1)
             watched == WatchedIn(row, times)
             heard == HeardIn(row, times)
             n == m.occupied
             d == m.operational
             w == SumOf(PortsOver(row, watched), watched)
             h == SumOf(PortsOver(row, heard), heard)
  <1>1. OccupancyOf(m) = Figure(row, times) /\ n \in Int /\ d \in Int
    <2>1. LET q == MetricsOf(RowOf(s), window)
          IN  /\ OccupancyOf(q) = Figure(RowOf(s), window.lo..(window.hi - 1))
              /\ q.occupied \in Int /\ q.operational \in Int
      BY OccupancyIs
    <2> QED BY <2>1
  <1>2. m.elapsed = window.hi - window.lo
    BY DEF MetricsOf, ComputeScopeMetrics
  <1>3. IsExpected(m) /\ Fits(row) => /\ m.expected = w /\ m.expected \in Int /\ m.known <= h /\ m.known \in Int /\ h \in Int
    <2>1. ASSUME IsExpected(MetricsOf(RowOf(s), window)), Fits(RowOf(s))
          PROVE  /\ MetricsOf(RowOf(s), window).expected = w /\ MetricsOf(RowOf(s), window).expected \in Int
                 /\ MetricsOf(RowOf(s), window).known <= h /\ MetricsOf(RowOf(s), window).known \in Int /\ h \in Int
      BY <2>1, HeardIs
    <2> QED BY <2>1
  <1>4. s \in Int
    BY DEF StudyAssumption
  <1> HIDE DEF m, w, h
  <1>5. /\ ~(m.elapsed < MinElapsedDays * Day) /\ IsExpected(m)
        /\ OccupancyOf(m) # NoShare /\ AtLeast(CoverageOf(m), MinStatusCoverage)
    <2>1. Failures(m) = {}
      BY DEF EvaluateEligibility, m
    <2>2. \A f \in {"insufficient_elapsed_days", "unknown_capacity", "occupancy_unsupported", "insufficient_status_coverage"} :
            ~(\/ f = "insufficient_elapsed_days" /\ m.elapsed < MinElapsedDays * Day
              \/ f = "unknown_capacity" /\ m.expected = Null
              \/ f = "occupancy_unsupported" /\ OccupancyOf(m) = NoShare
              \/ f = "insufficient_status_coverage" /\ ~AtLeast(CoverageOf(m), MinStatusCoverage))
      BY <2>1 DEF Failures
    <2> QED BY <2>2 DEF IsExpected
  <1>6. m.supports /\ OccupancyOf(m) = <<n, d>> /\ d > 0
    BY <1>1, <1>5 DEF OccupancyOf, Share, NoShare
  <1>7. IsRankable(e)
    BY <1>1, <1>4, <1>5, <1>6 DEF IsRankable, m
  <1>8. Cardinality(times) >= MinElapsedDays * Day
    <2>1. Cardinality(times) = window.hi - window.lo
      BY FS_Interval
    <2>2. MinElapsedDays * Day \in Nat
      BY DEF RankingAssumption
    <2> DEFINE least == MinElapsedDays * Day
               c == Cardinality(times)
    <2>3. least \in Nat /\ c = window.hi - window.lo /\ ~(window.hi - window.lo < least)
      BY <1>2, <1>5, <2>1, <2>2
    <2> HIDE DEF least, c
    <2>4. c >= least
      BY <2>3
    <2> QED BY <2>4 DEF least, c
  <1>9. ASSUME Fits(row) PROVE 100 * h >= MinStatusCoverage * w
    <2> DEFINE k == m.known
               x == m.expected
    <2>1. x = w /\ x \in Int /\ k <= h /\ k \in Int /\ h \in Int
      BY <1>3, <1>5, <1>9
    <2>2. CoverageOf(m) = Share(k, x)
      BY DEF CoverageOf
    <2> HIDE DEF k, x
    <2>3. Share(k, x) # NoShare /\ 100 * Share(k, x)[1] >= MinStatusCoverage * Share(k, x)[2]
      BY <1>5, <2>2 DEF AtLeast
    <2>4. 100 * k >= MinStatusCoverage * x
      <3>1. Share(k, x) = <<k, x>>
        BY <2>3 DEF Share
      <3> QED BY <2>3, <3>1
    <2> DEFINE y == MinStatusCoverage * x
    <2>5. y \in Int /\ 100 * k >= y
      BY <2>1, <2>4 DEF RankingAssumption
    <2>6. y = MinStatusCoverage * w
      BY <2>1
    <2> HIDE DEF y
    <2> QED BY <2>1, <2>5, <2>6
  <1> QED BY <1>1, <1>5, <1>6, <1>7, <1>8, <1>9 DEF m, w, h

\* The occupancy of a group is the share of what its members add up to.
LEMMA GroupIs ==
  ASSUME NEW n \in Nat, NEW scopes, DOMAIN scopes = 1..n, \A i \in 1..n : scopes[i].supports, n # 0
  PROVE  LET used == [i \in 1..n |-> scopes[i].occupied]
             open == [i \in 1..n |-> scopes[i].operational]
         IN  AggregateScopeMetrics(scopes).occupancy = Share(SumOf(used, 1..n), SumOf(open, 1..n))
  <1> DEFINE all == 1..n
             some == {i \in DOMAIN scopes : scopes[i].supports}
             f == [i \in all |-> scopes[i].occupied]
             g == [i \in all |-> scopes[i].operational]
             A(it) == it = [s \in SUBSET some |-> IF s = {} THEN 0 ELSE scopes[AnyOf(s)].occupied + it[s \ {AnyOf(s)}]]
             B(it) == it = [s \in SUBSET all |-> IF s = {} THEN 0 ELSE f[AnyOf(s)] + it[s \ {AnyOf(s)}]]
             C(it) == it = [s \in SUBSET some |-> IF s = {} THEN 0 ELSE scopes[AnyOf(s)].operational + it[s \ {AnyOf(s)}]]
             D(it) == it = [s \in SUBSET all |-> IF s = {} THEN 0 ELSE g[AnyOf(s)] + it[s \ {AnyOf(s)}]]
  <1>1. some = all /\ 1 \in all
    OBVIOUS
  <1>2. AggregateScopeMetrics(scopes).occupancy =
          IF some = {} THEN NoShare ELSE Share((CHOOSE it : A(it))[some], (CHOOSE it : C(it))[some])
    BY DEF AggregateScopeMetrics, MapThenSumSet, MapThenFoldSet, AnyOf
  <1>3. SumOf(f, all) = (CHOOSE it : B(it))[all] /\ SumOf(g, all) = (CHOOSE it : D(it))[all]
    BY DEF SumOf, MapThenSumSet, MapThenFoldSet, AnyOf
  <1>4. \A s \in SUBSET all : s # {} => f[AnyOf(s)] = scopes[AnyOf(s)].occupied /\ g[AnyOf(s)] = scopes[AnyOf(s)].operational
    BY DEF AnyOf
  <1> HIDE DEF f, g, all, some
  <1>5. ASSUME NEW it PROVE (A(it) <=> B(it)) /\ (C(it) <=> D(it))
    BY <1>1, <1>4
  <1> HIDE DEF A, B, C, D
  <1>6. (CHOOSE it : A(it)) = (CHOOSE it : B(it)) /\ (CHOOSE it : C(it)) = (CHOOSE it : D(it))
    BY <1>5
  <1>7. AggregateScopeMetrics(scopes).occupancy = Share(SumOf(f, all), SumOf(g, all))
    BY <1>1, <1>2, <1>3, <1>6
  <1> QED BY <1>7 DEF f, g, all

\* The ranking of any window is fair.
LEMMA RankingIs ==
  ASSUME StudyAssumption, MetricsAssumption, RankingAssumption, LookBackAssumption, StudyInv, NEW request \in Requests
  PROVE  FairlyRanked(RankedLists(StudyRows, request, Everything, "level_2", "occupancy", now))
  <1> DEFINE window == SharedWindow(StudyRows, request, now)
             filtered == {v.key : v \in ApplyFilters({ToStationView(row, window) : row \in StudyRows}, Everything)}
             linked == {row \in StudyRows : row.linked /\ row.key \in filtered}
             entries == {[key |-> row.key, metrics |-> MetricsOf(row, window)] : row \in linked}
             ranking == RankScopes(entries, "level_2", "occupancy")
             overview == RankedLists(StudyRows, request, Everything, "level_2", "occupancy", now)
             eligible == {e \in {d \in entries : CohortMatches("level_2", d.metrics.level)} : EvaluateEligibility(e.metrics)}
             primary == Ranked(eligible, "occupancy")
             times == window.lo..(window.hi - 1)
             n == Cardinality(eligible)
             ranked == DOMAIN overview.ranked
             scopes == [i \in DOMAIN primary |-> primary[i].metrics]
             Row(i) == RowOf(overview.ranked[i])
  <1>1. window.lo \in Int /\ window.hi \in Int /\ window.lo <= window.hi /\ window.hi <= FarFuture
    BY WindowIs DEF Windows
  <1>2. /\ overview.window = window
        /\ overview.ranked = [i \in DOMAIN primary |-> primary[i].key]
        /\ overview.group = AggregateScopeMetrics(scopes)
    <2>1. overview = ListsOf(window, linked, Cardinality({row \in StudyRows : row.linked /\ row.enabled}), ranking)
      BY DEF RankedLists, RankedListsIn
    <2>2. ranking.primary = primary
      BY DEF RankScopes
    <2> HIDE DEF ranking, overview, window, linked, primary
    <2> QED BY <2>1, <2>2 DEF ListsOf
  <1> HIDE DEF overview, window, filtered
  <1>3. ASSUME NEW e \in entries PROVE \E s \in Stations : e = [key |-> s, metrics |-> MetricsOf(RowOf(s), window)]
    <2>1. PICK row \in linked : e = [key |-> row.key, metrics |-> MetricsOf(row, window)]
      OBVIOUS
    <2>2. PICK s \in Stations : row = RowOf(s)
      BY <2>1 DEF StudyRows
    <2>3. row.key = s
      BY <2>2, RowFields
    <2> QED BY <2>1, <2>2, <2>3
  <1> HIDE DEF entries
  <1>4. ASSUME NEW e \in eligible
        PROVE  /\ e.key \in Stations /\ e = [key |-> e.key, metrics |-> MetricsOf(RowOf(e.key), window)]
               /\ e.metrics = MetricsOf(RowOf(e.key), window) /\ EvaluateEligibility(e.metrics)
    <2>1. e \in entries /\ EvaluateEligibility(e.metrics)
      OBVIOUS
    <2>2. PICK s \in Stations : e = [key |-> s, metrics |-> MetricsOf(RowOf(s), window)]
      BY <1>3, <2>1
    <2> HIDE DEF eligible
    <2>3. e.key = s /\ e.metrics = MetricsOf(RowOf(s), window)
      BY <2>2
    <2> QED BY <2>1, <2>2, <2>3
  <1> HIDE DEF eligible
  <1>5. ASSUME NEW e \in eligible
        PROVE  LET watched == WatchedIn(RowOf(e.key), times)
                   heard == HeardIn(RowOf(e.key), times)
               IN  /\ IsRankable(e) /\ e.metrics.supports
                   /\ OccupancyOf(e.metrics) = Figure(RowOf(e.key), times)
                   /\ OccupancyOf(e.metrics) = <<e.metrics.occupied, e.metrics.operational>>
                   /\ e.metrics.occupied \in Int /\ e.metrics.operational \in Int /\ e.metrics.operational > 0
                   /\ Cardinality(times) >= MinElapsedDays * Day
                   /\ Fits(RowOf(e.key)) => 100 * SumOf(PortsOver(RowOf(e.key), heard), heard)
                                              >= MinStatusCoverage * SumOf(PortsOver(RowOf(e.key), watched), watched)
    <2> DEFINE s == e.key
    <2>1. s \in Stations /\ e.key = s /\ e.metrics = MetricsOf(RowOf(s), window) /\ EvaluateEligibility(e.metrics)
      BY <1>4
    <2> HIDE DEF s
    <2> QED BY <1>1, <2>1, EntryIs
  <1>6. IsFiniteSet(eligible)
    <2> DEFINE f == [e \in eligible |-> e.key]
    <2>1. f \in Injection(eligible, Stations)
      BY <1>4 DEF Injection, IsInjective
    <2>2. IsFiniteSet(Stations)
      BY DEF StudyAssumption
    <2> HIDE DEF f
    <2> QED BY <2>1, <2>2, FS_Injection
  <1>7. /\ \A d \in eligible : ~Before(d, d, "occupancy")
        /\ \A d, e \in eligible : d = e \/ Before(d, e, "occupancy") \/ Before(e, d, "occupancy")
        /\ \A d, e, f \in eligible : Before(d, e, "occupancy") /\ Before(e, f, "occupancy") => Before(d, f, "occupancy")
        /\ \A d, e \in eligible : Exceeds(OccupancyOf(d.metrics), OccupancyOf(e.metrics)) => Before(d, e, "occupancy")
    <2>1. \A e \in eligible : IsRankable(e)
      BY <1>5
    <2>2. \A d, e \in eligible : d.key = e.key => d = e
      BY <1>4
    <2> QED BY <2>1, <2>2, BeforeIs
  <1>8. /\ n \in Nat /\ primary \in [1..n -> eligible]
        /\ \A i, j \in 1..n : i < j => ~Before(primary[j], primary[i], "occupancy")
    <2> DEFINE sort == "occupancy"
    <2>1. /\ \A d \in eligible : ~Before(d, d, sort)
          /\ \A d, e \in eligible : d = e \/ Before(d, e, sort) \/ Before(e, d, sort)
          /\ \A d, e, f \in eligible : Before(d, e, sort) /\ Before(e, f, sort) => Before(d, f, sort)
      BY <1>7
    <2> HIDE DEF sort
    <2> QED BY <1>6, <2>1, RankedIs DEF sort
  <1> HIDE DEF primary, n, times
  <1>9. ranked = 1..n /\ DOMAIN scopes = 1..n /\ \A i \in 1..n : /\ primary[i] \in eligible /\ scopes[i] = primary[i].metrics
                                                               /\ overview.ranked[i] = primary[i].key
    BY <1>2, <1>8
  <1> HIDE DEF ranked, scopes
  <1>10. ASSUME NEW i \in ranked
         PROVE  /\ primary[i] \in eligible /\ Row(i) = RowOf(primary[i].key)
                /\ Figure(Row(i), times) = OccupancyOf(primary[i].metrics)
    BY <1>5, <1>9
  <1>11. ASSUME NEW i \in ranked, NEW j \in ranked, i < j PROVE ~Exceeds(Figure(Row(j), times), Figure(Row(i), times))
    <2>1. ~Before(primary[j], primary[i], "occupancy")
      BY <1>8, <1>9, <1>11
    <2> QED BY <1>7, <1>10, <2>1
  <1>12. ASSUME NEW i \in ranked, Fits(Row(i))
         PROVE  LET watched == {t \in times : WatchedAt(Row(i), t)}
                    heard == {t \in watched : Speaks(Row(i), t) # {}}
                IN  100 * MapThenSumSet(LAMBDA t : PortsAt(Row(i), t), heard)
                      >= MinStatusCoverage * MapThenSumSet(LAMBDA t : PortsAt(Row(i), t), watched)
    <2> DEFINE row == Row(i)
               watched == WatchedIn(row, times)
               heard == HeardIn(row, times)
    <2>1. 100 * SumOf(PortsOver(row, heard), heard) >= MinStatusCoverage * SumOf(PortsOver(row, watched), watched)
      BY <1>5, <1>10, <1>12
    <2>2. /\ MapThenSumSet(LAMBDA t : PortsAt(row, t), heard) = SumOf(PortsOver(row, heard), heard)
          /\ MapThenSumSet(LAMBDA t : PortsAt(row, t), watched) = SumOf(PortsOver(row, watched), watched)
      BY PortTimeIs
    <2>3. watched = {t \in times : WatchedAt(row, t)} /\ heard = {t \in watched : Speaks(row, t) # {}}
      BY DEF WatchedIn, HeardIn
    <2> HIDE DEF row, watched, heard
    <2> QED BY <2>1, <2>2, <2>3 DEF row
  <1>13. ASSUME ranked # {} PROVE Cardinality(times) >= MinElapsedDays * Day
    BY <1>5, <1>10, <1>13
  <1>14. ASSUME ranked # {}
         PROVE  /\ \E i \in ranked : ~Exceeds(overview.group.occupancy, Figure(Row(i), times))
                /\ \E i \in ranked : ~Exceeds(Figure(Row(i), times), overview.group.occupancy)
    <2> DEFINE used == [i \in 1..n |-> scopes[i].occupied]
               open == [i \in 1..n |-> scopes[i].operational]
               N == SumOf(used, 1..n)
               D == SumOf(open, 1..n)
               none == [i \in 1..n |-> 0]
    <2>1. n # 0 /\ 1..n # {} /\ IsFiniteSet(1..n)
      BY <1>8, <1>9, <1>14, FS_Interval
    <2>2. \A i \in 1..n : /\ scopes[i].supports /\ used[i] \in Int /\ open[i] \in Int /\ open[i] > 0
                          /\ Figure(Row(i), times) = <<used[i], open[i]>>
      BY <1>5, <1>9, <1>10
    <2>3. overview.group.occupancy = Share(N, D)
      BY <1>2, <1>8, <1>9, <2>1, <2>2, GroupIs
    <2>4. /\ N \in Int /\ D \in Int
          /\ \E i \in 1..n : ~(N * open[i] > used[i] * D)
          /\ \E i \in 1..n : ~(used[i] * D > N * open[i])
      <3> HIDE DEF used, open
      <3> QED BY <2>1, <2>2, SharesBetween
    <2>5. D > 0
      <3>1. \A i \in 1..n : none[i] \in Int /\ open[i] \in Int /\ none[i] < open[i]
        BY <2>2
      <3>2. \A i \in 1..n : none[i] = 0
        OBVIOUS
      <3> HIDE DEF none, open
      <3>3. SumOf(none, 1..n) < SumOf(open, 1..n)
        BY <2>1, <3>1, SumExceeds
      <3>4. SumOf(none, 1..n) = 0
        BY <2>1, <3>2, SumOfNone
      <3> QED BY <3>3, <3>4
    <2> HIDE DEF N, D, used, open
    <2>6. overview.group.occupancy = <<N, D>>
      BY <2>3, <2>4, <2>5 DEF Share
    <2>7. \A i \in 1..n : /\ Exceeds(overview.group.occupancy, Figure(Row(i), times)) <=> N * open[i] > used[i] * D
                          /\ Exceeds(Figure(Row(i), times), overview.group.occupancy) <=> used[i] * D > N * open[i]
      BY <2>2, <2>6 DEF Exceeds
    <2> HIDE DEF Row
    <2> QED BY <1>9, <2>4, <2>7
  <1> DEFINE PortTime(i, some) == MapThenSumSet(LAMBDA t : PortsAt(Row(i), t), some)
             Watched(i) == {t \in times : WatchedAt(Row(i), t)}
             Heard(i) == {t \in Watched(i) : Speaks(Row(i), t) # {}}
  <1>15. \A i \in ranked : Fits(Row(i)) => 100 * PortTime(i, Heard(i)) >= MinStatusCoverage * PortTime(i, Watched(i))
    BY <1>12
  <1>16. times = overview.window.lo..(overview.window.hi - 1)
    BY <1>2 DEF times
  <1>17. FairlyRanked(overview)
    BY <1>11, <1>13, <1>14, <1>15, <1>16 DEF FairlyRanked, ranked
  <1> QED BY <1>17 DEF overview

\* Whatever was read of whichever stations: none stands above one whose pages
\* showed more of its ports in use, each was heard of in nine tenths of the
\* port-minutes it was watched in the window all share, a list is ranked only of a
\* window long enough, and the figure of the group lies between those of its
\* members (domain/ranking.ts:120, domain/metrics.ts:160).
THEOREM RanksAreFair ==
  ASSUME StudyAssumption, RankingAssumption, MetricsAssumption, LookBackAssumption
  PROVE  RecordsSpec => []RankingIsFair
  <1>1. RecordsInit => StudyInv
    BY StudyInitIs DEF RecordsInit
  <1>2. StudyInv /\ [RecordsNext]_recordsVars => StudyInv'
    BY StudyKept
  <1>3. StudyInv => RankingIsFair
    BY RankingIs DEF RankingIsFair
  <1> QED BY <1>1, <1>2, <1>3, PTL DEF RecordsSpec
=============================================================================
