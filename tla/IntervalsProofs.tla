--------------------------- MODULE IntervalsProofs ---------------------------
(* The operators on spans are exact for every finite set of them, in whatever   *)
(* order, overlapping and empty ones among them; readings stand for no instant  *)
(* twice and for none that is not monitored; and a sum over pieces of time is   *)
(* the sum over their instants.  A fold over a set is unfolded into its steps,  *)
(* and what every step keeps follows by induction over the sets.                *)
EXTENDS Intervals, WellFoundedInduction, FiniteSetTheorems, TLAPS

-----------------------------------------------------------------------------
(* Folds over a finite set. *)

\* Induction over the numbers, for a property that is a set.
LEMMA SetInduction ==
  ASSUME NEW T, 0 \in T, \A n \in Nat : n \in T => n + 1 \in T
  PROVE  \A n \in Nat : n \in T
  <1> DEFINE R == {ss \in Nat \X Nat : ss[1] < ss[2]}
             U == Nat \ T
  <1>1. IsWellFoundedOn(R, Nat)
    BY NatLessThanWellFounded DEF OpToRel
  <1>2. ASSUME U # {} PROVE FALSE
    <2>1. PICK x \in U : \A y \in U : <<y, x>> \notin R
      BY <1>1, <1>2, WFMin
    <2>2. x # 0 /\ x - 1 \in Nat /\ <<x - 1, x>> \in R
      BY <2>1
    <2>3. x - 1 \in T
      BY <2>1, <2>2
    <2>4. (x - 1) + 1 = x
      BY <2>1
    <2> QED BY <2>1, <2>2, <2>3, <2>4
  <1> QED BY <1>2

Upto(S, n) == {s \in SUBSET S : Cardinality(s) <= n}

LEMMA UptoIs ==
  ASSUME NEW S, IsFiniteSet(S)
  PROVE  /\ \A s \in SUBSET S : IsFiniteSet(s) /\ Cardinality(s) \in Nat /\ (Cardinality(s) = 0 <=> s = {})
         /\ \A n \in Nat : \A s \in Upto(S, n + 1) : \A x \in s : s \ {x} \in Upto(S, n)
         /\ Upto(S, Cardinality(S)) = SUBSET S
  <1>1. ASSUME NEW s \in SUBSET S PROVE IsFiniteSet(s) /\ Cardinality(s) \in Nat /\ Cardinality(s) <= Cardinality(S)
    BY FS_Subset, FS_CardinalityType
  <1>2. ASSUME NEW n \in Nat, NEW s \in Upto(S, n + 1), NEW x \in s PROVE s \ {x} \in Upto(S, n)
    <2>1. s \in SUBSET S /\ Cardinality(s) <= n + 1
      BY DEF Upto
    <2>2. Cardinality(s \ {x}) = Cardinality(s) - 1
      BY <1>1, <2>1, FS_RemoveElement
    <2>3. s \ {x} \in SUBSET S /\ Cardinality(s) \in Nat
      BY <1>1, <2>1
    <2> QED BY <2>1, <2>2, <2>3 DEF Upto
  <1>3. \A s \in SUBSET S : Cardinality(s) = 0 <=> s = {}
    BY <1>1, FS_EmptySet
  <1>4. Upto(S, Cardinality(S)) = SUBSET S
    BY <1>1 DEF Upto
  <1> QED BY <1>1, <1>2, <1>3, <1>4

\* A step folded over the subsets of a set, the one picked last.
FoldsSet(sets, V, base, step, pick, it) ==
  /\ it \in [sets -> V]
  /\ \A s \in sets : it[s] = IF s = {} THEN base ELSE step[<<pick[s], it[s \ {pick[s]}]>>]

CanFoldSet(sets, V, base, step, pick) == \E it : FoldsSet(sets, V, base, step, pick, it)

LEMMA SetFoldExists ==
  ASSUME NEW S, IsFiniteSet(S), NEW V, NEW base \in V, NEW step \in [S \X V -> V],
         NEW pick, \A s \in SUBSET S : s # {} => pick[s] \in s
  PROVE  CanFoldSet(SUBSET S, V, base, step, pick)
  <1> DEFINE T == {n \in Nat : CanFoldSet(Upto(S, n), V, base, step, pick)}
  <1>1. CanFoldSet(Upto(S, 0), V, base, step, pick)
    <2> DEFINE it == [s \in Upto(S, 0) |-> base]
    <2>1. \A s \in Upto(S, 0) : s = {}
      BY UptoIs DEF Upto
    <2>2. FoldsSet(Upto(S, 0), V, base, step, pick, it)
      BY <2>1 DEF FoldsSet
    <2> QED BY <2>2 DEF CanFoldSet
  <1>2. ASSUME NEW n \in Nat, CanFoldSet(Upto(S, n), V, base, step, pick)
        PROVE  CanFoldSet(Upto(S, n + 1), V, base, step, pick)
    <2>1. PICK old : FoldsSet(Upto(S, n), V, base, step, pick, old)
      BY <1>2 DEF CanFoldSet
    <2> DEFINE it == [s \in Upto(S, n + 1) |-> IF s = {} THEN base ELSE step[<<pick[s], old[s \ {pick[s]}]>>]]
    <2>2. ASSUME NEW s \in Upto(S, n + 1), s # {}
          PROVE  pick[s] \in s /\ pick[s] \in S /\ s \ {pick[s]} \in Upto(S, n)
      <3>1. s \in SUBSET S
        BY DEF Upto
      <3>2. pick[s] \in s
        BY <2>2, <3>1
      <3> QED BY <3>1, <3>2, UptoIs
    <2>3. ASSUME NEW s \in Upto(S, n) PROVE s \in Upto(S, n + 1) /\ it[s] = old[s]
      <3>1. s \in Upto(S, n + 1)
        BY UptoIs DEF Upto
      <3>2. it[s] = IF s = {} THEN base ELSE step[<<pick[s], old[s \ {pick[s]}]>>]
        BY <3>1
      <3> HIDE DEF it
      <3> QED BY <2>1, <3>1, <3>2 DEF FoldsSet
    <2>4. ASSUME NEW s \in Upto(S, n + 1) PROVE it[s] \in V
      <3>1. CASE s = {}
        BY <3>1
      <3>2. CASE s # {}
        <4>1. <<pick[s], old[s \ {pick[s]}]>> \in S \X V
          BY <2>1, <2>2, <3>2 DEF FoldsSet
        <4> QED BY <3>2, <4>1
      <3> QED BY <3>1, <3>2
    <2>5. ASSUME NEW s \in Upto(S, n + 1)
          PROVE  it[s] = IF s = {} THEN base ELSE step[<<pick[s], it[s \ {pick[s]}]>>]
      <3>1. it[s] = IF s = {} THEN base ELSE step[<<pick[s], old[s \ {pick[s]}]>>]
        OBVIOUS
      <3> HIDE DEF it
      <3> QED BY <2>2, <2>3, <3>1
    <2>6. it \in [Upto(S, n + 1) -> V]
      BY <2>4
    <2> HIDE DEF it
    <2>7. FoldsSet(Upto(S, n + 1), V, base, step, pick, it)
      BY <2>5, <2>6 DEF FoldsSet
    <2> QED BY <2>7 DEF CanFoldSet
  <1>3. \A n \in Nat : n \in T
    <2>1. 0 \in T /\ \A n \in Nat : n \in T => n + 1 \in T
      BY <1>1, <1>2
    <2> HIDE DEF T
    <2> QED BY <2>1, SetInduction
  <1>4. Cardinality(S) \in Nat /\ Upto(S, Cardinality(S)) = SUBSET S
    BY UptoIs, FS_CardinalityType
  <1> QED BY <1>3, <1>4

\* What holds of the empty set, and of a set when it holds of the set without the
\* element picked, holds of every subset.
LEMMA SubsetInduction ==
  ASSUME NEW S, IsFiniteSet(S), NEW pick, \A s \in SUBSET S : s # {} => pick[s] \in s,
         NEW Q, {} \in Q, \A s \in SUBSET S : s # {} /\ s \ {pick[s]} \in Q => s \in Q
  PROVE  \A s \in SUBSET S : s \in Q
  <1> DEFINE T == {n \in Nat : \A s \in Upto(S, n) : s \in Q}
  <1>1. \A s \in Upto(S, 0) : s \in Q
    <2>1. \A s \in Upto(S, 0) : s = {}
      BY UptoIs DEF Upto
    <2> QED BY <2>1
  <1>2. ASSUME NEW n \in Nat, \A s \in Upto(S, n) : s \in Q, NEW s \in Upto(S, n + 1) PROVE s \in Q
    <2>1. s \in SUBSET S
      BY DEF Upto
    <2>2. CASE s # {}
      <3>1. s \ {pick[s]} \in Upto(S, n)
        BY <2>1, <2>2, UptoIs
      <3> QED BY <1>2, <2>1, <2>2, <3>1
    <2> QED BY <2>2
  <1>3. \A n \in Nat : n \in T
    <2>1. 0 \in T /\ \A n \in Nat : n \in T => n + 1 \in T
      BY <1>1, <1>2
    <2> HIDE DEF T
    <2> QED BY <2>1, SetInduction
  <1>4. Cardinality(S) \in Nat /\ Upto(S, Cardinality(S)) = SUBSET S
    BY UptoIs, FS_CardinalityType
  <1> QED BY <1>3, <1>4

-----------------------------------------------------------------------------
(* Sums over a finite set. *)

SumOf(f, S) == MapThenSumSet(LAMBDA x : f[x], S)

AnyOf(s) == CHOOSE x \in s : TRUE

\* A sum of all subsets, built up by taking an element out.
Sums(f, S, pick, it) ==
  \A s \in SUBSET S : it[s] = IF s = {} THEN 0 ELSE f[pick[s]] + it[s \ {pick[s]}]

LEMMA SumUnfold ==
  ASSUME NEW S, IsFiniteSet(S), NEW f, \A x \in S : f[x] \in Int
  PROVE  \E it : /\ Sums(f, S, [s \in SUBSET S |-> AnyOf(s)], it)
                 /\ it \in [SUBSET S -> Int]
                 /\ SumOf(f, S) = it[S]
  <1> DEFINE Is(it) == it = [s \in SUBSET S |-> IF s = {} THEN 0 ELSE f[AnyOf(s)] + it[s \ {AnyOf(s)}]]
             pick == [s \in SUBSET S |-> AnyOf(s)]
             step == [p \in S \X Int |-> f[p[1]] + p[2]]
  <1>1. SumOf(f, S) = (CHOOSE it : Is(it))[S]
    BY DEF SumOf, MapThenSumSet, MapThenFoldSet, AnyOf
  <1>2. \A s \in SUBSET S : s # {} => pick[s] \in s
    BY DEF AnyOf
  <1>3. step \in [S \X Int -> Int]
    OBVIOUS
  <1>4. CanFoldSet(SUBSET S, Int, 0, step, pick)
    <2> DEFINE V == Int
    <2>1. 0 \in V /\ step \in [S \X V -> V]
      BY <1>3
    <2> HIDE DEF step, pick, V
    <2>2. CanFoldSet(SUBSET S, V, 0, step, pick)
      BY <1>2, <2>1, SetFoldExists
    <2> QED BY <2>2 DEF V
  <1>5. PICK it : FoldsSet(SUBSET S, Int, 0, step, pick, it)
    BY <1>4 DEF CanFoldSet
  <1>6. ASSUME NEW s \in SUBSET S, s # {}
        PROVE  step[<<pick[s], it[s \ {pick[s]}]>>] = f[AnyOf(s)] + it[s \ {AnyOf(s)}]
    <2>1. pick[s] = AnyOf(s) /\ pick[s] \in S /\ it[s \ {pick[s]}] \in Int
      BY <1>2, <1>5, <1>6 DEF FoldsSet
    <2> HIDE DEF pick
    <2> QED BY <2>1
  <1> HIDE DEF step
  <1>7. it \in [SUBSET S -> Int] /\ \A s \in SUBSET S : it[s] = IF s = {} THEN 0 ELSE f[AnyOf(s)] + it[s \ {AnyOf(s)}]
    BY <1>5, <1>6 DEF FoldsSet
  <1>8. Is(it)
    BY <1>7
  <1> DEFINE chosen == CHOOSE i : Is(i)
  <1> HIDE DEF Is
  <1>9. Is(chosen)
    BY <1>8
  <1>10. \A s \in SUBSET S : chosen[s] = IF s = {} THEN 0 ELSE f[AnyOf(s)] + chosen[s \ {AnyOf(s)}]
    BY <1>9 DEF Is
  <1>11. chosen = it
    <2> DEFINE Q == {s \in SUBSET S : chosen[s] = it[s]}
    <2> HIDE DEF chosen
    <2>1. \A s \in SUBSET S : s # {} /\ s \ {pick[s]} \in Q => s \in Q
      BY <1>7, <1>10
    <2>2. {} \in Q
      BY <1>7, <1>10
    <2>3. \A s \in SUBSET S : s \in Q
      <3> HIDE DEF Q, pick
      <3> QED BY <1>2, <2>1, <2>2, SubsetInduction
    <2>4. chosen = [s \in SUBSET S |-> chosen[s]]
      BY <1>9 DEF Is
    <2>5. it = [s \in SUBSET S |-> it[s]]
      BY <1>7
    <2> QED BY <2>3, <2>4, <2>5
  <1> HIDE DEF chosen
  <1>12. Sums(f, S, pick, it)
    BY <1>7 DEF Sums
  <1> QED BY <1>1, <1>7, <1>11, <1>12 DEF chosen

\* In whatever order elements are taken out, the sum is the same.
Takes(f, S, it) ==
  /\ it \in [SUBSET S -> Int]
  /\ it[{}] = 0
  /\ \A s \in SUBSET S : \A x \in s : it[s] = f[x] + it[s \ {x}]

LEMMA SumTakes ==
  ASSUME NEW S, IsFiniteSet(S), NEW f, \A x \in S : f[x] \in Int
  PROVE  \E it : Takes(f, S, it) /\ SumOf(f, S) = it[S]
  <1> DEFINE any == [s \in SUBSET S |-> AnyOf(s)]
  <1>1. PICK a : Sums(f, S, any, a) /\ a \in [SUBSET S -> Int] /\ SumOf(f, S) = a[S]
    BY SumUnfold
  <1>2. \A s \in SUBSET S : s # {} => any[s] \in s
    BY DEF AnyOf
  <1>3. \A s \in SUBSET S : a[s] \in Int /\ (s # {} => a[s] = f[any[s]] + a[s \ {any[s]}])
    BY <1>1 DEF Sums
  <1>4. a[{}] = 0
    BY <1>1 DEF Sums
  <1> HIDE DEF any
  <1> DEFINE R == {s \in SUBSET S : \A x \in s : a[s] = f[x] + a[s \ {x}]}
             T == {n \in Nat : \A s \in Upto(S, n) : s \in R}
  <1>5. 0 \in T
    BY UptoIs DEF Upto
  <1>6. ASSUME NEW n \in Nat, n \in T PROVE n + 1 \in T
    <2>1. ASSUME NEW s \in Upto(S, n + 1), NEW x \in s PROVE a[s] = f[x] + a[s \ {x}]
      <3> DEFINE c == any[s]
      <3>1. s \in SUBSET S /\ s # {} /\ c \in s /\ a[s] = f[c] + a[s \ {c}]
        BY <1>2, <1>3, <2>1 DEF Upto
      <3>2. CASE x = c
        BY <3>1, <3>2
      <3>3. CASE x # c
        <4>1. s \ {c} \in Upto(S, n) /\ s \ {x} \in Upto(S, n)
          BY <3>1, UptoIs
        <4>2. s \ {c} \in R /\ s \ {x} \in R
          BY <1>6, <4>1
        <4>3. x \in s \ {c} /\ c \in s \ {x}
          BY <3>1, <3>3
        <4>4. a[s \ {c}] = f[x] + a[(s \ {c}) \ {x}] /\ a[s \ {x}] = f[c] + a[(s \ {x}) \ {c}]
          BY <4>2, <4>3
        <4>5. (s \ {c}) \ {x} = (s \ {x}) \ {c} /\ (s \ {c}) \ {x} \in SUBSET S
          BY <3>1
        <4>6. f[x] \in Int /\ f[c] \in Int /\ a[(s \ {c}) \ {x}] \in Int
          BY <1>3, <3>1, <4>5
        <4> DEFINE u == a[(s \ {c}) \ {x}]
        <4>7. a[s] = f[c] + (f[x] + u) /\ a[s \ {x}] = f[c] + u
          BY <3>1, <4>4, <4>5
        <4> HIDE DEF c, u
        <4>8. f[x] \in Int /\ f[c] \in Int /\ u \in Int
          BY <4>6 DEF u
        <4> QED BY <4>7, <4>8
      <3> QED BY <3>2, <3>3
    <2>2. \A s \in Upto(S, n + 1) : s \in SUBSET S
      BY DEF Upto
    <2> QED BY <2>1, <2>2
  <1>7. \A n \in Nat : n \in T
    <2> HIDE DEF T
    <2> QED BY <1>5, <1>6, SetInduction
  <1>8. \A s \in SUBSET S : s \in R
    BY <1>7, UptoIs, FS_CardinalityType
  <1> QED BY <1>1, <1>4, <1>8 DEF Takes

LEMMA SumFold ==
  ASSUME NEW S, IsFiniteSet(S), NEW f, \A x \in S : f[x] \in Int,
         NEW pick, \A s \in SUBSET S : s # {} => pick[s] \in s,
         NEW it, Sums(f, S, pick, it)
  PROVE  it[S] = SumOf(f, S)
  <1>1. PICK a : Takes(f, S, a) /\ SumOf(f, S) = a[S]
    BY SumTakes
  <1> DEFINE Q == {s \in SUBSET S : it[s] = a[s]}
  <1>9. {} \in Q
    BY <1>1 DEF Sums, Takes
  <1>10. ASSUME NEW s \in SUBSET S, s # {}, s \ {pick[s]} \in Q PROVE s \in Q
    <2>1. pick[s] \in s /\ it[s] = f[pick[s]] + it[s \ {pick[s]}] /\ it[s \ {pick[s]}] = a[s \ {pick[s]}]
      BY <1>10 DEF Sums
    <2>2. a[s] = f[pick[s]] + a[s \ {pick[s]}]
      BY <1>1, <2>1 DEF Takes
    <2> QED BY <2>1, <2>2
  <1>11. \A s \in SUBSET S : s \in Q
    <2> HIDE DEF Q
    <2> QED BY <1>9, <1>10, SubsetInduction
  <1> QED BY <1>1, <1>11

\* A sum is taken apart one element at a time, and looks at nothing but its own.
LEMMA SumIs ==
  ASSUME NEW S, IsFiniteSet(S), NEW f, \A x \in S : f[x] \in Int
  PROVE  /\ SumOf(f, S) \in Int /\ SumOf(f, {}) = 0
         /\ \A s \in SUBSET S : SumOf(f, s) \in Int
         /\ \A s \in SUBSET S : \A x \in s : SumOf(f, s) = f[x] + SumOf(f, s \ {x})
  <1>1. PICK a : Takes(f, S, a)
    BY SumTakes
  <1>2. ASSUME NEW s \in SUBSET S PROVE SumOf(f, s) = a[s]
    <2> DEFINE any == [r \in SUBSET s |-> AnyOf(r)]
    <2>1. \A r \in SUBSET s : r # {} => any[r] \in r
      BY DEF AnyOf
    <2>2. IsFiniteSet(s) /\ \A x \in s : f[x] \in Int
      BY FS_Subset
    <2> HIDE DEF any
    <2>3. ASSUME NEW r \in SUBSET s PROVE a[r] = IF r = {} THEN 0 ELSE f[any[r]] + a[r \ {any[r]}]
      BY <1>1, <2>1 DEF Takes
    <2>4. Sums(f, s, any, a)
      BY <2>3 DEF Sums
    <2> QED BY <2>1, <2>2, <2>4, SumFold
  <1>3. \A s \in SUBSET S : a[s] \in Int
    BY <1>1 DEF Takes
  <1>4. {} \in SUBSET S /\ a[{}] = 0
    BY <1>1 DEF Takes
  <1>5. \A s \in SUBSET S : \A x \in s : s \ {x} \in SUBSET S /\ a[s] = f[x] + a[s \ {x}]
    BY <1>1 DEF Takes
  <1> QED BY <1>2, <1>3, <1>4, <1>5

LEMMA SumTake ==
  ASSUME NEW S, IsFiniteSet(S), NEW f, \A x \in S : f[x] \in Int, NEW s, s \subseteq S, NEW x \in s, NEW r, r = s \ {x}
  PROVE  SumOf(f, s) = f[x] + SumOf(f, r) /\ SumOf(f, r) \in Int /\ f[x] \in Int
  <1>1. s \in SUBSET S /\ r \in SUBSET S
    OBVIOUS
  <1> QED BY <1>1, SumIs

\* What holds of the empty set, and of a set when it holds of the set without one
\* element, holds of every finite set.
Inherited(S, Q) == \A s \in SUBSET S : \A x \in s : s \ {x} \in Q => s \in Q

LEMMA FiniteInduction ==
  ASSUME NEW S, IsFiniteSet(S), NEW Q, {} \in Q, Inherited(S, Q)
  PROVE  S \in Q
  <1> DEFINE any == [s \in SUBSET S |-> AnyOf(s)]
  <1>1. \A s \in SUBSET S : s # {} => any[s] \in s
    BY DEF AnyOf
  <1> HIDE DEF any
  <1>2. \A s \in SUBSET S : s # {} /\ s \ {any[s]} \in Q => s \in Q
    BY <1>1 DEF Inherited
  <1>3. \A s \in SUBSET S : s \in Q
    BY <1>1, <1>2, SubsetInduction
  <1> QED BY <1>3

\* A sum over a part is no more than a sum of at least as much over the whole.
LEMMA SumGrows ==
  ASSUME NEW B, IsFiniteSet(B), NEW A \in SUBSET B, NEW f, \A x \in A : f[x] \in Int,
         NEW g, \A x \in B : g[x] \in Nat, \A x \in A : f[x] <= g[x]
  PROVE  SumOf(f, A) <= SumOf(g, B)
  <1> DEFINE Q == {s \in SUBSET B : SumOf(f, A \cap s) <= SumOf(g, s)}
  <1>1. IsFiniteSet(A)
    BY FS_Subset
  <1>2. {} \in Q
    <2>1. SumOf(f, {}) = 0 /\ SumOf(g, {}) = 0 /\ A \cap {} = {}
      BY <1>1, SumIs
    <2> QED BY <2>1
  <1>3. ASSUME NEW s \in SUBSET B, NEW x \in s, s \ {x} \in Q PROVE s \in Q
    <2>1. SumOf(g, s) = g[x] + SumOf(g, s \ {x}) /\ SumOf(g, s \ {x}) \in Int /\ g[x] \in Nat
      BY SumIs
    <2>2. SumOf(f, A \cap (s \ {x})) <= SumOf(g, s \ {x}) /\ SumOf(f, A \cap (s \ {x})) \in Int
      BY <1>1, <1>3, SumIs
    <2>3. CASE x \in A
      <3>1. (A \cap s) \ {x} = A \cap (s \ {x}) /\ x \in A \cap s
        BY <2>3
      <3>2. SumOf(f, A \cap s) = f[x] + SumOf(f, A \cap (s \ {x}))
        BY <1>1, <3>1, SumIs
      <3>3. f[x] \in Int /\ f[x] <= g[x]
        BY <2>3
      <3>4. SumOf(f, A \cap s) <= SumOf(g, s)
        BY <2>1, <2>2, <3>2, <3>3
      <3> QED BY <3>4
    <2>4. CASE x \notin A
      <3>1. A \cap s = A \cap (s \ {x})
        BY <2>4
      <3>2. SumOf(f, A \cap s) = SumOf(f, A \cap (s \ {x}))
        BY <3>1
      <3>3. SumOf(f, A \cap s) <= SumOf(g, s)
        BY <2>1, <2>2, <3>2
      <3> QED BY <3>3
    <2> QED BY <2>3, <2>4
  <1>4. B \in Q
    <2> HIDE DEF Q
    <2> QED BY <1>2, <1>3, FiniteInduction DEF Inherited
  <1>5. A \cap B = A
    OBVIOUS
  <1> QED BY <1>4, <1>5

LEMMA SumSame ==
  ASSUME NEW S, IsFiniteSet(S), NEW f, NEW g, \A x \in S : f[x] \in Int /\ g[x] = f[x]
  PROVE  SumOf(f, S) = SumOf(g, S)
  <1> DEFINE Q == {s \in SUBSET S : SumOf(f, s) = SumOf(g, s)}
  <1>1. {} \in Q
    <2>1. SumOf(f, {}) = 0 /\ SumOf(g, {}) = 0
      BY SumIs
    <2> QED BY <2>1
  <1>2. ASSUME NEW s \in SUBSET S, NEW x \in s, s \ {x} \in Q PROVE s \in Q
    <2>1. SumOf(f, s) = f[x] + SumOf(f, s \ {x})
      BY SumIs
    <2>2. SumOf(g, s) = g[x] + SumOf(g, s \ {x})
      BY SumIs
    <2> QED BY <1>2, <2>1, <2>2
  <1> HIDE DEF Q
  <1>3. S \in Q
    BY <1>1, <1>2, FiniteInduction DEF Inherited
  <1> QED BY <1>3 DEF Q

LEMMA SumAdds ==
  ASSUME NEW S, IsFiniteSet(S), NEW f, \A x \in S : f[x] \in Int, NEW g, \A x \in S : g[x] \in Int,
         NEW h, \A x \in S : h[x] = f[x] + g[x]
  PROVE  SumOf(h, S) = SumOf(f, S) + SumOf(g, S) /\ SumOf(f, S) \in Int /\ SumOf(g, S) \in Int
  <1> DEFINE Q == {s \in SUBSET S : SumOf(h, s) = SumOf(f, s) + SumOf(g, s)}
  <1>0. \A x \in S : h[x] \in Int
    OBVIOUS
  <1>1. {} \in Q
    <2>1. SumOf(f, {}) = 0 /\ SumOf(g, {}) = 0 /\ SumOf(h, {}) = 0
      BY <1>0, SumIs
    <2> QED BY <2>1
  <1>2. ASSUME NEW s \in SUBSET S, NEW x \in s, s \ {x} \in Q PROVE s \in Q
    <2>1. SumOf(f, s) = f[x] + SumOf(f, s \ {x}) /\ SumOf(f, s \ {x}) \in Int
      BY SumIs
    <2>2. SumOf(g, s) = g[x] + SumOf(g, s \ {x}) /\ SumOf(g, s \ {x}) \in Int
      BY SumIs
    <2>3. SumOf(h, s) = h[x] + SumOf(h, s \ {x})
      BY <1>0, SumIs
    <2>4. f[x] \in Int /\ g[x] \in Int /\ h[x] = f[x] + g[x]
      OBVIOUS
    <2>5. SumOf(h, s \ {x}) = SumOf(f, s \ {x}) + SumOf(g, s \ {x})
      BY <1>2
    <2>6. SumOf(h, s) = SumOf(f, s) + SumOf(g, s)
      BY <2>1, <2>2, <2>3, <2>4, <2>5
    <2> QED BY <2>6
  <1>3. S \in Q
    <2> HIDE DEF Q
    <2> QED BY <1>1, <1>2, FiniteInduction DEF Inherited
  <1> QED BY <1>3, SumIs

\* Two parts without a common element.
LEMMA SumApart ==
  ASSUME NEW A, IsFiniteSet(A), NEW B, IsFiniteSet(B), A \cap B = {}, NEW f, \A x \in A \cup B : f[x] \in Int
  PROVE  SumOf(f, A \cup B) = SumOf(f, A) + SumOf(f, B)
  <1> DEFINE Q == {s \in SUBSET B : SumOf(f, A \cup s) = SumOf(f, A) + SumOf(f, s)}
  <1>0. IsFiniteSet(A \cup B)
    BY FS_Union
  <1>1. {} \in Q
    <2>1. A \cup {} = A /\ SumOf(f, {}) = 0 /\ SumOf(f, A) \in Int
      BY SumIs
    <2> QED BY <2>1
  <1>2. ASSUME NEW s \in SUBSET B, NEW x \in s, s \ {x} \in Q PROVE s \in Q
    <2>1. SumOf(f, s) = f[x] + SumOf(f, s \ {x}) /\ SumOf(f, s \ {x}) \in Int
      BY SumIs
    <2>2. (A \cup s) \ {x} = A \cup (s \ {x}) /\ A \cup s \in SUBSET (A \cup B) /\ x \in A \cup s
      OBVIOUS
    <2>3. SumOf(f, A \cup s) = f[x] + SumOf(f, A \cup (s \ {x}))
      BY <1>0, <2>2, SumIs
    <2>4. f[x] \in Int /\ SumOf(f, A) \in Int
      BY SumIs
    <2>5. SumOf(f, A \cup (s \ {x})) = SumOf(f, A) + SumOf(f, s \ {x})
      BY <1>2
    <2>6. SumOf(f, A \cup s) = SumOf(f, A) + SumOf(f, s)
      BY <2>1, <2>3, <2>4, <2>5
    <2> QED BY <2>6
  <1> HIDE DEF Q
  <1>3. B \in Q
    BY <1>1, <1>2, FiniteInduction DEF Inherited
  <1> QED BY <1>3 DEF Q

\* A sum may be taken over other names of the elements.
LEMMA SumRenamed ==
  ASSUME NEW I, IsFiniteSet(I), NEW S, NEW h \in [I -> S], \A i, j \in I : h[i] = h[j] => i = j,
         \A x \in S : \E i \in I : h[i] = x,
         NEW w, \A x \in S : w[x] \in Int, NEW g, \A i \in I : g[i] = w[h[i]]
  PROVE  SumOf(g, I) = SumOf(w, S)
  <1> DEFINE Image(s) == {h[i] : i \in s}
             Q == {s \in SUBSET I : SumOf(g, s) = SumOf(w, Image(s))}
  <1>0. IsFiniteSet(S)
    <2>1. h \in Surjection(I, S)
      BY DEF Surjection
    <2> QED BY <2>1, FS_Surjection
  <1>1. {} \in Q
    <2>1. SumOf(g, {}) = 0 /\ SumOf(w, {}) = 0 /\ Image({}) = {}
      BY <1>0, SumIs
    <2> QED BY <2>1
  <1>2. ASSUME NEW s \in SUBSET I, NEW x \in s, s \ {x} \in Q PROVE s \in Q
    <2>1. SumOf(g, s) = g[x] + SumOf(g, s \ {x})
      BY SumIs
    <2>2. h[x] \in Image(s) /\ Image(s) \in SUBSET S /\ Image(s) \ {h[x]} = Image(s \ {x})
      OBVIOUS
    <2> DEFINE y == h[x]
               all == Image(s)
               rest == Image(s \ {x})
    <2>a. y \in all /\ all \subseteq S /\ rest = all \ {y}
      BY <2>2
    <2> HIDE DEF y, all, rest
    <2>b. SumOf(w, all) = w[y] + SumOf(w, rest)
      BY <1>0, <2>a, SumTake
    <2> HIDE DEF Image
    <2>3. SumOf(w, Image(s)) = w[h[x]] + SumOf(w, Image(s \ {x}))
      BY <2>b DEF y, all, rest
    <2> QED BY <1>2, <2>1, <2>3
  <1>3. I \in Q
    <2> HIDE DEF Q
    <2> QED BY <1>1, <1>2, FiniteInduction DEF Inherited
  <1>4. Image(I) = S
    OBVIOUS
  <1> QED BY <1>3, <1>4

\* The same over every instant of a span.
LEMMA SumOfSame ==
  ASSUME NEW a \in Int, NEW b \in Int, a <= b, NEW c \in Int, NEW g, \A t \in a..(b - 1) : g[t] = c
  PROVE  IsFiniteSet(a..(b - 1)) /\ SumOf(g, a..(b - 1)) = c * (b - a)
  <1> DEFINE T == {n \in Nat : a + n <= b => SumOf(g, a..(a + n - 1)) = c * n}
  <1>0. IsFiniteSet(a..(b - 1))
    BY FS_Interval
  <1>1. 0 \in T
    <2>1. a..(a + 0 - 1) = {}
      OBVIOUS
    <2>2. SumOf(g, {}) = 0
      BY <1>0, SumIs
    <2> QED BY <2>1, <2>2
  <1>2. ASSUME NEW n \in Nat, n \in T PROVE n + 1 \in T
    <2>1. ASSUME a + (n + 1) <= b PROVE SumOf(g, a..(a + (n + 1) - 1)) = c * (n + 1)
      <3> DEFINE s == a..(a + (n + 1) - 1)
      <3>1. /\ s \in SUBSET (a..(b - 1)) /\ a + n \in s /\ s \ {a + n} = a..(a + n - 1) /\ a + n \in a..(b - 1)
        BY <2>1
      <3>2. SumOf(g, s) = g[a + n] + SumOf(g, s \ {a + n})
        BY <1>0, <3>1, SumTake
      <3>3. SumOf(g, s \ {a + n}) = c * n
        <4>1. a + n <= b
          BY <2>1
        <4> HIDE DEF s
        <4> QED BY <1>2, <3>1, <4>1
      <3>4. g[a + n] = c /\ c * n \in Int /\ c * (n + 1) = c + c * n
        BY <3>1
      <3> HIDE DEF s
      <3> QED BY <3>2, <3>3, <3>4 DEF s
    <2> QED BY <2>1
  <1>3. b - a \in T
    <2>1. b - a \in Nat
      OBVIOUS
    <2> HIDE DEF T
    <2> QED BY <1>1, <1>2, <2>1, SetInduction
  <1>4. a + (b - a) - 1 = b - 1
    OBVIOUS
  <1> QED BY <1>0, <1>3, <1>4

\* Of weighed spans that share no instant, the weighed lengths are the sum over
\* the instants they hold.
Held(spans, at) == {t \in Int : \E d \in spans : Holds(at[d], t)}
Lengths(w, at, spans) == [d \in spans |-> w[d] * (at[d].hi - at[d].lo)]
Separate(spans, at) ==
  /\ \A d \in spans : at[d].lo \in Int /\ at[d].hi \in Int /\ at[d].lo <= at[d].hi
  /\ \A d, e \in spans : d # e => \A t \in Int : ~(Holds(at[d], t) /\ Holds(at[e], t))

LEMMA SumOfSpans ==
  ASSUME NEW D, IsFiniteSet(D), NEW at, Separate(D, at), NEW w, \A d \in D : w[d] \in Int,
         NEW g, \A d \in D : \A t \in Int : Holds(at[d], t) => g[t] = w[d]
  PROVE  IsFiniteSet(Held(D, at)) /\ SumOf(g, Held(D, at)) = SumOf(Lengths(w, at, D), D)
  <1> DEFINE f == Lengths(w, at, D)
             Q == {s \in SUBSET D : IsFiniteSet(Held(s, at)) /\ SumOf(g, Held(s, at)) = SumOf(f, s)}
  <1>1. \A d \in D : f[d] = w[d] * (at[d].hi - at[d].lo) /\ f[d] \in Int
    BY DEF Lengths, Separate
  <1> HIDE DEF f
  <1>2. {} \in Q
    <2>1. Held({}, at) = {} /\ IsFiniteSet({})
      BY FS_EmptySet DEF Held
    <2>2. SumOf(g, {}) = 0 /\ SumOf(f, {}) = 0
      BY <1>1, FS_EmptySet, SumIs
    <2> QED BY <2>1, <2>2
  <1>3. ASSUME NEW s \in SUBSET D, NEW d \in s, s \ {d} \in Q PROVE s \in Q
    <2> DEFINE rest == Held(s \ {d}, at)
               own == at[d].lo..(at[d].hi - 1)
    <2>1. d \in D /\ at[d].lo \in Int /\ at[d].hi \in Int /\ at[d].lo <= at[d].hi
      BY DEF Separate
    <2>2. own = {t \in Int : Holds(at[d], t)}
      BY <2>1 DEF Holds
    <2>3. Held(s, at) = own \cup rest /\ own \cap rest = {}
      <3>1. \A t \in rest : t \notin own
        BY <2>2 DEF Held, Separate
      <3>2. Held(s, at) = {t \in Int : Holds(at[d], t)} \cup rest
        BY DEF Held
      <3> HIDE DEF rest, own
      <3> QED BY <2>2, <3>1, <3>2
    <2>4. \A t \in own : g[t] = w[d]
      BY <2>2
    <2>5. \A t \in rest : g[t] \in Int
      BY DEF Held
    <2>6. IsFiniteSet(own) /\ SumOf(g, own) = f[d]
      <3> HIDE DEF own
      <3>1. w[d] \in Int /\ f[d] = w[d] * (at[d].hi - at[d].lo)
        BY <1>1, <2>1
      <3>2. \A t \in at[d].lo..(at[d].hi - 1) : g[t] = w[d]
        BY <2>4 DEF own
      <3>3. /\ IsFiniteSet(at[d].lo..(at[d].hi - 1))
            /\ SumOf(g, at[d].lo..(at[d].hi - 1)) = w[d] * (at[d].hi - at[d].lo)
        <4> DEFINE a == at[d].lo
                   b == at[d].hi
                   c == w[d]
        <4>1. a \in Int /\ b \in Int /\ a <= b /\ c \in Int /\ \A t \in a..(b - 1) : g[t] = c
          BY <2>1, <3>1, <3>2
        <4> HIDE DEF a, b, c
        <4>2. IsFiniteSet(a..(b - 1)) /\ SumOf(g, a..(b - 1)) = c * (b - a)
          BY <4>1, SumOfSame
        <4> QED BY <4>2 DEF a, b, c
      <3> QED BY <3>1, <3>3 DEF own
    <2>7. IsFiniteSet(rest) /\ SumOf(g, rest) = SumOf(f, s \ {d})
      BY <1>3
    <2> HIDE DEF own, rest
    <2>8. SumOf(g, own \cup rest) = SumOf(g, own) + SumOf(g, rest)
      BY <2>1, <2>3, <2>4, <2>5, <2>6, <2>7, SumApart
    <2>9. SumOf(f, s) = f[d] + SumOf(f, s \ {d})
      BY <1>1, SumTake
    <2>10. IsFiniteSet(own \cup rest)
      BY <2>6, <2>7, FS_Union
    <2> QED BY <2>3, <2>6, <2>7, <2>8, <2>9, <2>10
  <1>4. D \in Q
    <2> HIDE DEF Q
    <2> QED BY <1>2, <1>3, FiniteInduction DEF Inherited
  <1> QED BY <1>4 DEF f

\* What is never below zero has no sum below zero.
LEMMA SumOfNats ==
  ASSUME NEW S, IsFiniteSet(S), NEW f, \A x \in S : f[x] \in Nat
  PROVE  SumOf(f, S) \in Nat
  <1> DEFINE none == {}
  <1>1. SumOf(f, S) \in Int /\ SumOf(f, none) = 0
    BY SumIs
  <1>2. none \in SUBSET S /\ \A x \in none : f[x] \in Int
    OBVIOUS
  <1> HIDE DEF none
  <1>3. SumOf(f, none) <= SumOf(f, S)
    BY <1>2, SumGrows
  <1> QED BY <1>1, <1>3

\* Nothing adds up to nothing.
LEMMA SumOfNone ==
  ASSUME NEW S, IsFiniteSet(S), NEW f, \A x \in S : f[x] = 0
  PROVE  SumOf(f, S) = 0
  <1> DEFINE Q == {s \in SUBSET S : SumOf(f, s) = 0}
  <1>1. {} \in Q
    BY SumIs
  <1>2. ASSUME NEW s \in SUBSET S, NEW x \in s, s \ {x} \in Q PROVE s \in Q
    BY <1>2, SumIs
  <1> HIDE DEF Q
  <1>3. S \in Q
    BY <1>1, <1>2, FiniteInduction DEF Inherited
  <1> QED BY <1>3 DEF Q

\* The sum of one member is its own.
LEMMA SumOfOne ==
  ASSUME NEW x, NEW S, S = {x}, NEW f, f[x] \in Int
  PROVE  SumOf(f, S) = f[x]
  <1> DEFINE none == {}
  <1>1. IsFiniteSet(S) /\ none = S \ {x}
    BY FS_Singleton
  <1>2. SumOf(f, none) = 0
    BY <1>1, SumIs
  <1> HIDE DEF none
  <1>3. SumOf(f, S) = f[x] + SumOf(f, none)
    BY <1>1, SumTake
  <1> QED BY <1>2, <1>3

\* A sum of numbers, each multiplied by one.
LEMMA SumScaled ==
  ASSUME NEW S, IsFiniteSet(S), NEW f, \A x \in S : f[x] \in Int, NEW c \in Int, NEW g, \A x \in S : g[x] = c * f[x]
  PROVE  SumOf(g, S) = c * SumOf(f, S)
  <1> DEFINE Q == {s \in SUBSET S : SumOf(g, s) = c * SumOf(f, s)}
  <1>0. \A x \in S : g[x] \in Int
    OBVIOUS
  <1>1. {} \in Q
    <2>1. SumOf(f, {}) = 0 /\ SumOf(g, {}) = 0
      BY <1>0, SumIs
    <2> QED BY <2>1
  <1>2. ASSUME NEW s \in SUBSET S, NEW x \in s, s \ {x} \in Q PROVE s \in Q
    <2> DEFINE r == s \ {x}
               a == SumOf(f, r)
               b == f[x]
    <2>1. SumOf(f, s) = b + a /\ a \in Int /\ b \in Int
      BY SumTake
    <2>2. SumOf(g, s) = g[x] + SumOf(g, r)
      BY <1>0, SumTake
    <2>3. g[x] = c * b /\ SumOf(g, r) = c * a
      BY <1>2
    <2> HIDE DEF r, a, b
    <2>4. c * (b + a) = (c * b) + (c * a)
      BY <2>1
    <2> QED BY <2>1, <2>2, <2>3, <2>4
  <1> HIDE DEF Q
  <1>3. S \in Q
    BY <1>1, <1>2, FiniteInduction DEF Inherited
  <1> QED BY <1>3 DEF Q

\* What is more for every member of a set that is not empty is more in sum.
LEMMA SumExceeds ==
  ASSUME NEW S, IsFiniteSet(S), S # {}, NEW f, NEW g, \A x \in S : f[x] \in Int /\ g[x] \in Int /\ f[x] < g[x]
  PROVE  SumOf(f, S) < SumOf(g, S)
  <1> DEFINE d == [x \in S |-> g[x] - f[x]]
  <1>1. \A x \in S : d[x] \in Nat /\ d[x] > 0 /\ g[x] = f[x] + d[x]
    OBVIOUS
  <1> HIDE DEF d
  <1>2. PICK x : x \in S
    OBVIOUS
  <1> DEFINE r == S \ {x}
  <1>3. \A y \in S : d[y] \in Int
    BY <1>1
  <1>4. SumOf(d, S) = d[x] + SumOf(d, r)
    BY <1>2, <1>3, SumTake
  <1>5. SumOf(d, r) \in Nat
    <2>1. IsFiniteSet(r) /\ \A y \in r : d[y] \in Nat
      BY <1>1, FS_Subset
    <2> HIDE DEF r
    <2> QED BY <2>1, SumOfNats
  <1> HIDE DEF r
  <1>6. SumOf(g, S) = SumOf(f, S) + SumOf(d, S) /\ SumOf(f, S) \in Int
    <2>1. \A y \in S : f[y] \in Int
      OBVIOUS
    <2>2. \A y \in S : g[y] = f[y] + d[y]
      BY <1>1
    <2> QED BY <1>3, <2>1, <2>2, SumAdds
  <1> QED BY <1>1, <1>2, <1>4, <1>5, <1>6

\* The share of a group lies between those of its members.
LEMMA SharesBetween ==
  ASSUME NEW S, IsFiniteSet(S), S # {}, NEW n, NEW d, \A x \in S : n[x] \in Int /\ d[x] \in Int
  PROVE  LET N == SumOf(n, S)
             D == SumOf(d, S)
         IN  /\ N \in Int /\ D \in Int
             /\ \E x \in S : ~(N * d[x] > n[x] * D)
             /\ \E x \in S : ~(n[x] * D > N * d[x])
  <1> DEFINE N == SumOf(n, S)
             D == SumOf(d, S)
             f == [x \in S |-> D * n[x]]
             g == [x \in S |-> N * d[x]]
  <1>1. N \in Int /\ D \in Int
    BY SumIs
  <1> HIDE DEF N, D
  <1>2. \A x \in S : f[x] = D * n[x] /\ f[x] = n[x] * D /\ f[x] \in Int /\ g[x] = N * d[x] /\ g[x] \in Int
    BY <1>1
  <1> HIDE DEF f, g
  <1>3. SumOf(f, S) = D * N
    BY <1>1, <1>2, SumScaled DEF N
  <1>4. SumOf(g, S) = N * D
    BY <1>1, <1>2, SumScaled DEF D
  <1>5. SumOf(f, S) = SumOf(g, S) /\ SumOf(f, S) \in Int
    BY <1>1, <1>3, <1>4
  <1>6. ASSUME \A x \in S : f[x] < g[x] PROVE FALSE
    <2>1. SumOf(f, S) < SumOf(g, S)
      BY <1>2, <1>6, SumExceeds
    <2> QED BY <1>5, <2>1
  <1>7. ASSUME \A x \in S : g[x] < f[x] PROVE FALSE
    <2>1. SumOf(g, S) < SumOf(f, S)
      BY <1>2, <1>7, SumExceeds
    <2> QED BY <1>5, <2>1
  <1>8. PICK x \in S : ~(f[x] < g[x])
    BY <1>6
  <1>9. PICK y \in S : ~(g[y] < f[y])
    BY <1>7
  <1>10. ~(N * d[x] > n[x] * D)
    BY <1>2, <1>8
  <1>11. ~(n[y] * D > N * d[y])
    BY <1>2, <1>9
  <1> QED BY <1>1, <1>10, <1>11 DEF N, D

\* Sets that share no member are counted apart.
LEMMA CardApart ==
  ASSUME NEW A, IsFiniteSet(A), NEW B, IsFiniteSet(B), A \cap B = {}
  PROVE  IsFiniteSet(A \cup B) /\ Cardinality(A \cup B) = Cardinality(A) + Cardinality(B)
  <1>1. Cardinality(A \cap B) = 0
    BY FS_EmptySet
  <1>2. Cardinality(A) \in Nat /\ Cardinality(B) \in Nat
    BY FS_CardinalityType
  <1>3. IsFiniteSet(A \cup B) /\ Cardinality(A \cup B) = Cardinality(A) + Cardinality(B) - Cardinality(A \cap B)
    BY FS_Union
  <1> QED BY <1>1, <1>2, <1>3

\* Of weighed spans that share no instant, the weighed lengths are the sum over
\* instants of what holds there, when nothing else counts.
LEMMA SumOfInstants ==
  ASSUME NEW D, IsFiniteSet(D), NEW at, Separate(D, at), NEW w, \A d \in D : w[d] \in Int,
         NEW times \in SUBSET Int, IsFiniteSet(times), NEW g,
         \A d \in D : \A t \in Int : Holds(at[d], t) => t \in times /\ g[t] = w[d],
         \A t \in times : (\E d \in D : Holds(at[d], t)) \/ g[t] = 0
  PROVE  SumOf(g, times) = SumOf(Lengths(w, at, D), D)
  <1> DEFINE held == Held(D, at)
             rest == times \ held
  <1>1. IsFiniteSet(held) /\ SumOf(g, held) = SumOf(Lengths(w, at, D), D)
    BY SumOfSpans
  <1>2. held \subseteq times /\ \A t \in held : g[t] \in Int
    BY DEF Held
  <1>3. \A t \in rest : g[t] = 0
    BY DEF Held
  <1> HIDE DEF held
  <1>4. IsFiniteSet(rest) /\ held \cap rest = {} /\ held \cup rest = times
    BY <1>2, FS_Subset
  <1> HIDE DEF rest
  <1>5. SumOf(g, rest) = 0
    BY <1>3, <1>4, SumOfNone
  <1>6. SumOf(g, held \cup rest) = SumOf(g, held) + SumOf(g, rest)
    <2>1. \A t \in held \cup rest : g[t] \in Int
      BY <1>2, <1>3
    <2> QED BY <1>1, <1>4, <2>1, SumApart
  <1>7. SumOf(g, held) \in Int
    BY <1>1, <1>2, SumIs
  <1> QED BY <1>1, <1>4, <1>5, <1>6, <1>7

-----------------------------------------------------------------------------
(* The operators on spans. *)

Times == [lo : Int, hi : Int]
Finite(spans) == spans \in SUBSET Times /\ IsFiniteSet(spans)
Within(t, spans) == \E s \in spans : Holds(s, t)

Earlier(a, b) == a.lo < b.lo \/ (a.lo = b.lo /\ a.hi <= b.hi)

LEMMA LatestIs ==
  ASSUME NEW spans, Finite(spans), spans # {}
  PROVE  Latest(spans) \in spans /\ \A r \in spans : Earlier(r, Latest(spans))
  <1> DEFINE Has(s) == s # {} => \E m \in s : \A r \in s : Earlier(r, m)
             T == {n \in Nat : \A s \in Upto(spans, n) : Has(s)}
  <1>0. IsFiniteSet(spans) /\ \A s \in SUBSET spans : \A x \in s : x.lo \in Int /\ x.hi \in Int
    BY DEF Finite, Times
  <1>1. \A s \in Upto(spans, 0) : Has(s)
    <2>1. \A s \in Upto(spans, 0) : s = {}
      BY <1>0, UptoIs DEF Upto
    <2> QED BY <2>1
  <1>2. ASSUME NEW n \in Nat, \A s \in Upto(spans, n) : Has(s), NEW s \in Upto(spans, n + 1), s # {}
        PROVE  \E m \in s : \A r \in s : Earlier(r, m)
    <2>1. PICK x : x \in s
      BY <1>2
    <2>2. s \ {x} \in Upto(spans, n) /\ s \in SUBSET spans
      BY <1>0, <2>1, UptoIs DEF Upto
    <2>3. CASE s \ {x} = {}
      <3>1. \A r \in s : r = x
        BY <2>3
      <3>2. Earlier(x, x)
        BY <1>0, <2>1, <2>2 DEF Earlier
      <3> QED BY <2>1, <3>1, <3>2
    <2>4. CASE s \ {x} # {}
      <3>1. PICK m \in s \ {x} : \A r \in s \ {x} : Earlier(r, m)
        BY <1>2, <2>2, <2>4
      <3>2. /\ x.lo \in Int /\ x.hi \in Int /\ m.lo \in Int /\ m.hi \in Int
            /\ \A r \in s : r.lo \in Int /\ r.hi \in Int
        BY <1>0, <2>1, <2>2, <3>1
      <3>3. CASE Earlier(x, m)
        BY <3>1, <3>3
      <3>4. CASE ~Earlier(x, m)
        <4>1. Earlier(m, x) /\ Earlier(x, x)
          BY <3>2, <3>4 DEF Earlier
        <4>2. \A r \in s : Earlier(r, x)
          BY <3>1, <3>2, <4>1 DEF Earlier
        <4> QED BY <2>1, <4>2
      <3> QED BY <3>3, <3>4
    <2> QED BY <2>3, <2>4
  <1>3. \A n \in Nat : n \in T
    <2>1. 0 \in T /\ \A n \in Nat : n \in T => n + 1 \in T
      BY <1>1, <1>2
    <2> HIDE DEF T
    <2> QED BY <2>1, SetInduction
  <1>4. spans \in Upto(spans, Cardinality(spans)) /\ Cardinality(spans) \in Nat
    BY <1>0, UptoIs, FS_CardinalityType
  <1>5. \E m \in spans : \A r \in spans : Earlier(r, m)
    BY <1>3, <1>4
  <1> QED BY <1>5 DEF Latest, Earlier

\* What one span adds to those merged before it.
AddSpan(s, out) ==
  IF out # {} /\ s.lo <= Latest(out).hi
  THEN (out \ {Latest(out)}) \cup {Span(Latest(out).lo, Higher(Latest(out).hi, s.hi))}
  ELSE out \cup {s}

\* Spans without the empty ones, and what they are merged to: the same instants,
\* in spans that do not touch.
Merged(spans, out) ==
  /\ Finite(out)
  /\ \A t \in Int : Within(t, out) <=> Within(t, spans)
  /\ \A x \in out : x.lo < x.hi /\ \E y \in spans : x.lo = y.lo
  /\ \A x, y \in out : x # y => x.hi < y.lo \/ y.hi < x.lo

LEMMA AddSpanKeeps ==
  ASSUME NEW spans, Finite(spans), spans # {}, \A s \in spans : s.lo < s.hi,
         NEW out, Merged(spans \ {Latest(spans)}, out)
  PROVE  Merged(spans, AddSpan(Latest(spans), out))
  <1> DEFINE s == Latest(spans)
             last == Latest(out)
             before == spans \ {s}
  <1>1. /\ s \in spans /\ s.lo \in Int /\ s.hi \in Int /\ s.lo < s.hi
        /\ \A y \in before : y.lo \in Int /\ y.lo <= s.lo
    BY LatestIs DEF Finite, Times, Earlier
  <1>2. /\ Finite(out) /\ \A x \in out : x.lo \in Int /\ x.hi \in Int /\ x.lo < x.hi /\ x.lo <= s.lo
        /\ \A t \in Int : Within(t, out) <=> Within(t, before)
        /\ \A x \in out : \E y \in before : x.lo = y.lo
        /\ \A x, y \in out : x # y => x.hi < y.lo \/ y.hi < x.lo
    <2>1. /\ Finite(out) /\ \A x \in out : x.lo < x.hi /\ \E y \in before : x.lo = y.lo
          /\ \A t \in Int : Within(t, out) <=> Within(t, before)
          /\ \A x, y \in out : x # y => x.hi < y.lo \/ y.hi < x.lo
      BY DEF Merged
    <2>2. \A x \in out : x.lo \in Int /\ x.hi \in Int
      BY <2>1 DEF Finite, Times
    <2> HIDE DEF before, s
    <2> QED BY <1>1, <2>1, <2>2
  <1>3. \A t \in Int : Within(t, spans) <=> Holds(s, t) \/ Within(t, before)
    BY <1>1 DEF Within
  <1>4. ASSUME out # {}
        PROVE  last \in out /\ \A x \in out : x # last => x.hi < last.lo
    <2>1. last \in out /\ \A x \in out : Earlier(x, last)
      BY <1>2, <1>4, LatestIs
    <2> HIDE DEF last, s, before
    <2> QED BY <1>2, <2>1 DEF Earlier
  <1>5. CASE out # {} /\ s.lo <= last.hi
    <2> DEFINE new == Span(last.lo, Higher(last.hi, s.hi))
               after == (out \ {last}) \cup {new}
    <2>1. AddSpan(s, out) = after
      BY <1>5 DEF AddSpan
    <2>2. /\ new \in Times /\ new.lo = last.lo /\ new.lo < new.hi
          /\ \A t \in Int : Holds(new, t) <=> Holds(last, t) \/ Holds(s, t)
      <3>1. last \in out /\ last.lo \in Int /\ last.hi \in Int /\ last.lo < last.hi /\ last.lo <= s.lo
        BY <1>2, <1>4, <1>5
      <3>2. new = [lo |-> last.lo, hi |-> Higher(last.hi, s.hi)] /\ Higher(last.hi, s.hi) \in Int
        BY <1>1, <3>1 DEF Span, Higher
      <3> HIDE DEF s, last
      <3>3. \A t \in Int : Holds(new, t) <=> Holds(last, t) \/ Holds(s, t)
        BY <1>1, <1>5, <3>1 DEF Span, Higher, Holds
      <3>4. last.lo < Higher(last.hi, s.hi)
        BY <1>1, <3>1 DEF Higher
      <3> QED BY <3>1, <3>2, <3>3, <3>4 DEF Times, Span
    <2> HIDE DEF new, s, last, before
    <2>3. Finite(after)
      <3>1. IsFiniteSet(out \ {last})
        BY <1>2, FS_Subset DEF Finite
      <3>2. IsFiniteSet((out \ {last}) \cup {new})
        BY <3>1, FS_AddElement
      <3> QED BY <1>2, <2>2, <3>2 DEF Finite
    <2>4. ASSUME NEW t \in Int PROVE Within(t, after) <=> Within(t, spans)
      <3>1. Within(t, after) <=> Holds(new, t) \/ \E x \in out \ {last} : Holds(x, t)
        BY DEF Within
      <3>2. Within(t, out) <=> Holds(last, t) \/ \E x \in out \ {last} : Holds(x, t)
        BY <1>4, <1>5 DEF Within
      <3> QED BY <1>2, <1>3, <2>2, <3>1, <3>2
    <2>5. ASSUME NEW x \in after PROVE x.lo < x.hi /\ \E y \in spans : x.lo = y.lo
      <3>1. PICK z \in out : z.lo = x.lo /\ x.lo < x.hi
        BY <1>2, <1>4, <1>5, <2>2
      <3>2. PICK y \in before : z.lo = y.lo
        BY <1>2
      <3> QED BY <3>1, <3>2 DEF before
    <2>6. ASSUME NEW x \in after, NEW y \in after, x # y PROVE x.hi < y.lo \/ y.hi < x.lo
      <3>1. \A z \in out \ {last} : z.hi < new.lo
        BY <1>4, <1>5, <2>2
      <3> QED BY <1>2, <2>6, <3>1
    <2> HIDE DEF after
    <2>7. Merged(spans, after)
      BY <2>3, <2>4, <2>5, <2>6 DEF Merged
    <2> QED BY <2>1, <2>7 DEF s
  <1>6. CASE out = {} \/ ~(s.lo <= last.hi)
    <2> DEFINE after == out \cup {s}
    <2>1. AddSpan(s, out) = after
      BY <1>6 DEF AddSpan
    <2>2. ASSUME NEW x \in out PROVE x.hi < s.lo
      <3>1. last \in out /\ (x = last \/ x.hi < last.lo) /\ ~(s.lo <= last.hi)
        BY <1>4, <1>6, <2>2
      <3>2. last.lo \in Int /\ last.hi \in Int /\ last.lo < last.hi /\ x.hi \in Int
        BY <1>2, <3>1
      <3> HIDE DEF s, last
      <3> QED BY <1>1, <3>1, <3>2
    <2> HIDE DEF s, last, before
    <2>3. Finite(after)
      <3>1. s \in Times
        BY <1>1 DEF Finite
      <3>2. IsFiniteSet(out \cup {s})
        BY <1>2, FS_AddElement DEF Finite
      <3> QED BY <1>2, <3>1, <3>2 DEF Finite
    <2>4. ASSUME NEW t \in Int PROVE Within(t, after) <=> Within(t, spans)
      <3>1. Within(t, after) <=> Holds(s, t) \/ Within(t, out)
        BY DEF Within
      <3> QED BY <1>2, <1>3, <3>1
    <2>5. ASSUME NEW x \in after PROVE x.lo < x.hi /\ \E y \in spans : x.lo = y.lo
      BY <1>1, <1>2 DEF before
    <2>6. ASSUME NEW x \in after, NEW y \in after, x # y PROVE x.hi < y.lo \/ y.hi < x.lo
      BY <1>2, <2>2, <2>6
    <2> HIDE DEF after
    <2>7. Merged(spans, after)
      BY <2>3, <2>4, <2>5, <2>6 DEF Merged
    <2> QED BY <2>1, <2>7 DEF s
  <1> HIDE DEF s, last, before
  <1> QED BY <1>5, <1>6

FiniteSpans == {out \in SUBSET Times : IsFiniteSet(out)}

LEMMA AddSpanIn ==
  ASSUME NEW s \in Times, NEW out \in FiniteSpans PROVE AddSpan(s, out) \in FiniteSpans
  <1>1. CASE out # {} /\ s.lo <= Latest(out).hi
    <2> DEFINE last == Latest(out)
               new == Span(last.lo, Higher(last.hi, s.hi))
    <2>1. last \in out
      BY <1>1, LatestIs DEF Finite, FiniteSpans
    <2>2. last.lo \in Int /\ last.hi \in Int /\ s.hi \in Int
      BY <2>1 DEF FiniteSpans, Times
    <2>3. Higher(last.hi, s.hi) \in Int
      BY <2>2 DEF Higher
    <2>4. new \in Times
      BY <2>2, <2>3 DEF Span, Times
    <2> HIDE DEF last, new
    <2>5. IsFiniteSet(out \ {last})
      BY FS_Subset DEF FiniteSpans
    <2>6. IsFiniteSet((out \ {last}) \cup {new})
      BY <2>5, FS_AddElement
    <2>7. AddSpan(s, out) = (out \ {last}) \cup {new}
      BY <1>1 DEF AddSpan, last, new
    <2> QED BY <2>4, <2>6, <2>7 DEF FiniteSpans
  <1>2. CASE ~(out # {} /\ s.lo <= Latest(out).hi)
    <2>1. AddSpan(s, out) = out \cup {s}
      BY <1>2 DEF AddSpan
    <2>2. IsFiniteSet(out \cup {s})
      BY FS_AddElement DEF FiniteSpans
    <2> QED BY <2>1, <2>2 DEF FiniteSpans
  <1> QED BY <1>1, <1>2

\* For any finite set of spans, empty ones among them: normalizing keeps every
\* instant, adds none, and leaves spans that do not touch.
LEMMA NormalizeIs ==
  ASSUME NEW spans, Finite(spans)
  PROVE  /\ Merged({s \in spans : s.lo < s.hi}, Normalize(spans))
         /\ \A t \in Int : Within(t, Normalize(spans)) <=> Within(t, spans)
  <1> DEFINE R == {s \in spans : s.lo < s.hi}
             pick == [s \in SUBSET R |-> Latest(s)]
             step == [p \in R \X FiniteSpans |-> AddSpan(p[1], p[2])]
             Is(it) == it = [s \in SUBSET R |-> IF s = {} THEN {} ELSE AddSpan(Latest(s), it[s \ {Latest(s)}])]
  <1>1. Finite(R) /\ R \in SUBSET Times /\ IsFiniteSet(R)
    BY FS_Subset DEF Finite
  <1>2. ASSUME NEW s \in SUBSET R PROVE Finite(s) /\ (s # {} => Latest(s) \in s)
    <2>1. Finite(s)
      BY <1>1, FS_Subset DEF Finite
    <2> QED BY <2>1, LatestIs
  <1>3. \A s \in SUBSET R : s # {} => pick[s] = Latest(s) /\ pick[s] \in s
    BY <1>2
  <1>4. step \in [R \X FiniteSpans -> FiniteSpans] /\ {} \in FiniteSpans
    BY <1>1, AddSpanIn, FS_EmptySet DEF FiniteSpans
  <1>5. PICK it : FoldsSet(SUBSET R, FiniteSpans, {}, step, pick, it)
    <2> HIDE DEF R, pick, step
    <2> QED BY <1>1, <1>3, <1>4, SetFoldExists DEF CanFoldSet
  <1>6. Is(it)
    <2>1. ASSUME NEW s \in SUBSET R, s # {} PROVE it[s] = AddSpan(Latest(s), it[s \ {Latest(s)}])
      <3>1. it[s] = step[<<pick[s], it[s \ {pick[s]}]>>] /\ pick[s] = Latest(s) /\ Latest(s) \in s
        BY <1>2, <1>5, <2>1 DEF FoldsSet
      <3>2. Latest(s) \in R /\ it[s \ {Latest(s)}] \in FiniteSpans
        BY <1>5, <3>1 DEF FoldsSet
      <3> QED BY <3>1, <3>2
    <2>2. it[{}] = {} /\ it \in [SUBSET R -> FiniteSpans]
      BY <1>5 DEF FoldsSet
    <2> HIDE DEF R, pick, step
    <2> QED BY <2>1, <2>2
  <1>7. PICK fold : Is(fold) /\ fold = CHOOSE i : Is(i)
    <2> HIDE DEF Is
    <2> QED BY <1>6
  <1>8. Normalize(spans) = fold[R]
    <2>1. Normalize(spans) = (CHOOSE i : Is(i))[R]
      BY DEF Normalize, AddSpan, MapThenFoldSet
    <2> HIDE DEF Is
    <2> QED BY <1>7, <2>1
  <1>9. fold[{}] = {} /\ \A s \in SUBSET R : s # {} => fold[s] = AddSpan(Latest(s), fold[s \ {Latest(s)}])
    <2> HIDE DEF R
    <2> QED BY <1>7
  <1> DEFINE Q == {s \in SUBSET R : Merged(s, fold[s])}
  <1>10. {} \in Q
    <2>1. Finite({})
      BY FS_EmptySet DEF Finite
    <2> QED BY <1>9, <2>1 DEF Merged, Within
  <1>11. ASSUME NEW s \in SUBSET R, s # {}, s \ {pick[s]} \in Q PROVE s \in Q
    <2>1. Finite(s) /\ pick[s] = Latest(s) /\ \A x \in s : x.lo < x.hi
      BY <1>2, <1>3, <1>11
    <2>2. Merged(s \ {Latest(s)}, fold[s \ {Latest(s)}])
      BY <1>11, <2>1
    <2>3. Merged(s, AddSpan(Latest(s), fold[s \ {Latest(s)}]))
      BY <1>11, <2>1, <2>2, AddSpanKeeps
    <2> QED BY <1>9, <1>11, <2>3
  <1>12. R \in Q
    <2> HIDE DEF R, Q, pick
    <2> QED BY <1>1, <1>3, <1>10, <1>11, SubsetInduction
  <1>13. Merged(R, Normalize(spans))
    BY <1>8, <1>12
  <1>14. ASSUME NEW t \in Int PROVE Within(t, R) <=> Within(t, spans)
    BY DEF Within, Holds, Finite, Times
  <1>15. \A t \in Int : Within(t, Normalize(spans)) <=> Within(t, spans)
    BY <1>13, <1>14 DEF Merged
  <1> QED BY <1>13, <1>15

\* What a cut leaves of the spans that remain.
CutFrom(cut, remaining) == UNION {Remains(s, cut) : s \in remaining}

LEMMA RemainsIs ==
  ASSUME NEW s \in Times, NEW cut \in Times
  PROVE  Finite(Remains(s, cut)) /\ \A t \in Int : Within(t, Remains(s, cut)) <=> Holds(s, t) /\ ~Holds(cut, t)
  <1>0. s.lo \in Int /\ s.hi \in Int /\ cut.lo \in Int /\ cut.hi \in Int
    BY DEF Times
  <1>1. CASE cut.hi <= s.lo \/ cut.lo >= s.hi
    <2>1. Remains(s, cut) = {s}
      BY <1>1 DEF Remains
    <2>2. Finite({s})
      BY FS_Singleton DEF Finite
    <2>3. \A t \in Int : Holds(s, t) => ~Holds(cut, t)
      BY <1>0, <1>1 DEF Holds
    <2> QED BY <2>1, <2>2, <2>3 DEF Within
  <1>2. CASE ~(cut.hi <= s.lo \/ cut.lo >= s.hi)
    <2> DEFINE a == Span(s.lo, cut.lo)
               b == Span(cut.hi, s.hi)
    <2>1. Remains(s, cut) = {x \in {a, b} : x.lo < x.hi}
      BY <1>2 DEF Remains
    <2>2. a \in Times /\ b \in Times
      BY <1>0 DEF Span, Times
    <2>3. \A t \in Int : Holds(s, t) /\ ~Holds(cut, t) <=> Holds(a, t) \/ Holds(b, t)
      BY <1>0, <1>2 DEF Holds, Span
    <2>4. \A t \in Int : \A x \in {a, b} : Holds(x, t) => x.lo < x.hi
      BY <1>0 DEF Holds, Span
    <2> HIDE DEF a, b
    <2>5. IsFiniteSet({a} \cup {b})
      BY FS_Singleton, FS_AddElement
    <2>6. {x \in {a, b} : x.lo < x.hi} \in SUBSET ({a} \cup {b})
      OBVIOUS
    <2>7. IsFiniteSet(Remains(s, cut))
      BY <2>1, <2>5, <2>6, FS_Subset
    <2>8. Finite(Remains(s, cut))
      BY <2>1, <2>2, <2>7 DEF Finite
    <2> QED BY <2>1, <2>3, <2>4, <2>8 DEF Within
  <1> QED BY <1>1, <1>2

\* A finite union of finite sets of spans.
LEMMA UnionIs ==
  ASSUME NEW S, IsFiniteSet(S), NEW parts \in [S -> FiniteSpans]
  PROVE  Finite(UNION {parts[s] : s \in S})
  <1> DEFINE all == {parts[s] : s \in S}
  <1>1. parts \in Surjection(S, all)
    BY DEF Surjection
  <1>2. IsFiniteSet(all) /\ \A p \in all : Finite(p)
    <2>1. \A p \in all : Finite(p)
      BY DEF Finite, FiniteSpans
    <2> HIDE DEF all
    <2>2. IsFiniteSet(all)
      BY <1>1, FS_Surjection
    <2> QED BY <2>1, <2>2
  <1> HIDE DEF all
  <1>3. IsFiniteSet(UNION all)
    BY <1>2, FS_UNION DEF Finite
  <1>4. UNION all \in SUBSET Times
    BY <1>2 DEF Finite
  <1> QED BY <1>3, <1>4 DEF Finite, all

LEMMA CutFromIs ==
  ASSUME NEW cut \in Times, NEW remaining, Finite(remaining)
  PROVE  /\ Finite(CutFrom(cut, remaining))
         /\ \A t \in Int : Within(t, CutFrom(cut, remaining)) <=> Within(t, remaining) /\ ~Holds(cut, t)
  <1> DEFINE parts == [s \in remaining |-> Remains(s, cut)]
  <1>1. \A s \in remaining : Finite(parts[s]) /\ parts[s] = Remains(s, cut)
    BY RemainsIs DEF Finite
  <1>2. CutFrom(cut, remaining) = UNION {parts[s] : s \in remaining}
    BY DEF CutFrom
  <1>3. Finite(UNION {parts[s] : s \in remaining})
    <2> HIDE DEF parts
    <2>1. IsFiniteSet(remaining) /\ parts \in [remaining -> FiniteSpans]
      BY <1>1 DEF Finite, FiniteSpans, parts
    <2> QED BY <2>1, UnionIs
  <1>4. ASSUME NEW t \in Int PROVE Within(t, CutFrom(cut, remaining)) <=> Within(t, remaining) /\ ~Holds(cut, t)
    <2>1. Within(t, CutFrom(cut, remaining)) <=> \E s \in remaining : Within(t, Remains(s, cut))
      BY DEF CutFrom, Within
    <2>2. \A s \in remaining : Within(t, Remains(s, cut)) <=> Holds(s, t) /\ ~Holds(cut, t)
      BY RemainsIs DEF Finite
    <2> QED BY <2>1, <2>2 DEF Within
  <1> QED BY <1>2, <1>3, <1>4

\* For any span and any finite set of cuts, in whatever order they come: what
\* remains is what no cut holds.
LEMMA SubtractIs ==
  ASSUME NEW base \in Times, NEW cuts, Finite(cuts)
  PROVE  /\ Finite(Subtract(base, cuts))
         /\ \A t \in Int : Within(t, Subtract(base, cuts)) <=> Holds(base, t) /\ ~Within(t, cuts)
  <1> DEFINE R == Normalize(cuts)
             pick == [s \in SUBSET R |-> Latest(s)]
             step == [p \in R \X FiniteSpans |-> CutFrom(p[1], p[2])]
             Is(it) == it = [s \in SUBSET R |-> IF s = {} THEN {base} ELSE CutFrom(Latest(s), it[s \ {Latest(s)}])]
  <1>1. /\ R \in SUBSET Times /\ IsFiniteSet(R)
        /\ \A t \in Int : Within(t, R) <=> Within(t, cuts)
    BY NormalizeIs DEF Merged, Finite
  <1> HIDE DEF R
  <1>2. ASSUME NEW s \in SUBSET R PROVE Finite(s) /\ (s # {} => Latest(s) \in s)
    <2>1. Finite(s)
      BY <1>1, FS_Subset DEF Finite
    <2> QED BY <2>1, LatestIs
  <1>3. \A s \in SUBSET R : s # {} => pick[s] = Latest(s) /\ pick[s] \in s
    BY <1>2
  <1>4. step \in [R \X FiniteSpans -> FiniteSpans] /\ {base} \in FiniteSpans
    <2>1. ASSUME NEW cut \in R, NEW rest \in FiniteSpans PROVE CutFrom(cut, rest) \in FiniteSpans
      BY <1>1, CutFromIs DEF FiniteSpans, Finite
    <2> QED BY <2>1, FS_Singleton DEF FiniteSpans
  <1>5. PICK it : FoldsSet(SUBSET R, FiniteSpans, {base}, step, pick, it)
    <2> HIDE DEF pick, step
    <2> QED BY <1>1, <1>3, <1>4, SetFoldExists DEF CanFoldSet
  <1>6. Is(it)
    <2>1. ASSUME NEW s \in SUBSET R, s # {} PROVE it[s] = CutFrom(Latest(s), it[s \ {Latest(s)}])
      <3>1. it[s] = step[<<pick[s], it[s \ {pick[s]}]>>] /\ pick[s] = Latest(s) /\ Latest(s) \in s
        BY <1>2, <1>5, <2>1 DEF FoldsSet
      <3>2. Latest(s) \in R /\ it[s \ {Latest(s)}] \in FiniteSpans
        BY <1>5, <3>1 DEF FoldsSet
      <3> QED BY <3>1, <3>2
    <2>2. it[{}] = {base} /\ it \in [SUBSET R -> FiniteSpans]
      BY <1>5 DEF FoldsSet
    <2> HIDE DEF pick, step
    <2> QED BY <2>1, <2>2
  <1>7. PICK fold : Is(fold) /\ fold = CHOOSE i : Is(i)
    <2> HIDE DEF Is
    <2> QED BY <1>6
  <1>8. Subtract(base, cuts) = Normalize(fold[R])
    <2>1. Subtract(base, cuts) = Normalize((CHOOSE i : Is(i))[R])
      BY DEF Subtract, CutFrom, MapThenFoldSet, R
    <2> HIDE DEF Is
    <2> QED BY <1>7, <2>1
  <1>9. fold[{}] = {base} /\ \A s \in SUBSET R : s # {} => fold[s] = CutFrom(Latest(s), fold[s \ {Latest(s)}])
    BY <1>7
  <1> DEFINE Left(s) == Finite(fold[s]) /\ \A t \in Int : Within(t, fold[s]) <=> Holds(base, t) /\ ~Within(t, s)
             Q == {s \in SUBSET R : Left(s)}
  <1>10. {} \in Q
    <2>1. Finite({base})
      BY FS_Singleton DEF Finite
    <2> QED BY <1>9, <2>1 DEF Within
  <1>11. ASSUME NEW s \in SUBSET R, s # {}, s \ {pick[s]} \in Q PROVE s \in Q
    <2> DEFINE z == Latest(s)
               rest == s \ {z}
    <2>1. pick[s] = z /\ z \in s /\ z \in Times
      BY <1>1, <1>3, <1>11
    <2>2. Left(rest)
      BY <1>11, <2>1
    <2>3. fold[s] = CutFrom(z, fold[rest])
      BY <1>9, <1>11
    <2> HIDE DEF z
    <2>4. /\ Finite(fold[s])
          /\ \A t \in Int : Within(t, fold[s]) <=> Within(t, fold[rest]) /\ ~Holds(z, t)
      BY <2>1, <2>2, <2>3, CutFromIs
    <2>5. \A t \in Int : Within(t, s) <=> Within(t, rest) \/ Holds(z, t)
      BY <2>1 DEF Within
    <2>6. Left(s)
      BY <2>2, <2>4, <2>5
    <2> QED BY <2>6
  <1>12. Left(R)
    <2> HIDE DEF Q, pick, Left
    <2>1. IsFiniteSet(R)
      BY <1>1
    <2>2. \A s \in SUBSET R : s # {} /\ s \ {pick[s]} \in Q => s \in Q
      BY <1>11
    <2>3. R \in Q
      BY <1>3, <1>10, <2>1, <2>2, SubsetInduction
    <2> QED BY <2>3 DEF Q
  <1>13. /\ Finite(Normalize(fold[R]))
         /\ \A t \in Int : Within(t, Normalize(fold[R])) <=> Within(t, fold[R])
    BY <1>12, NormalizeIs DEF Merged
  <1> QED BY <1>1, <1>8, <1>12, <1>13

\* The time that a window covers, one that is open to the end of time.
Covered(periods, t) == \E w \in periods : w.lo <= t /\ t < IF w.hi = Null THEN FarFuture ELSE w.hi

\* The monitored time of any windows and gaps, which may overlap, repeat and be
\* empty: the instants that a window covers and no gap, in spans that do not touch.
THEOREM MonitoredIsExact ==
  ASSUME NEW periods, Finite(periods), NEW gaps, Finite(gaps), FarFuture \in Int
  PROVE  /\ Finite(Monitored(periods, gaps))
         /\ \A t \in Int : Within(t, Monitored(periods, gaps)) <=> Covered(periods, t) /\ ~Within(t, gaps)
         /\ \A x, y \in Monitored(periods, gaps) : x # y => x.hi < y.lo \/ y.hi < x.lo
  <1> DEFINE Closed(w) == Span(w.lo, IF w.hi = Null THEN FarFuture ELSE w.hi)
             spans == {Closed(w) : w \in periods}
             f == [w \in periods |-> Closed(w)]
             missing == Normalize(gaps)
             parts == [s \in ToSpans(periods) |-> Subtract(s, missing)]
             whole == UNION {parts[s] : s \in ToSpans(periods)}
  <1>1. \A w \in periods : Closed(w) \in Times
    BY DEF Span, Times, Finite
  <1>2. Finite(spans)
    <2>1. f \in Surjection(periods, spans)
      BY DEF Surjection
    <2>2. spans \in SUBSET Times
      BY <1>1
    <2> HIDE DEF f, spans
    <2>3. IsFiniteSet(spans)
      BY <2>1, FS_Surjection DEF Finite
    <2> QED BY <2>2, <2>3 DEF Finite
  <1>3. \A t \in Int : Within(t, spans) <=> Covered(periods, t)
    <2> TAKE t \in Int
    <2>1. \A w \in periods : Holds(Closed(w), t) <=> w.lo <= t /\ t < IF w.hi = Null THEN FarFuture ELSE w.hi
      BY DEF Holds, Span
    <2> HIDE DEF Closed
    <2>2. Within(t, spans) <=> \E w \in periods : Holds(Closed(w), t)
      BY DEF Within
    <2> QED BY <2>1, <2>2 DEF Covered
  <1>4. /\ Finite(ToSpans(periods))
        /\ \A t \in Int : Within(t, ToSpans(periods)) <=> Covered(periods, t)
    <2>1. ToSpans(periods) = Normalize(spans)
      BY DEF ToSpans
    <2> HIDE DEF spans
    <2> QED BY <1>2, <1>3, <2>1, NormalizeIs DEF Merged
  <1>5. Finite(missing) /\ \A t \in Int : Within(t, missing) <=> Within(t, gaps)
    BY NormalizeIs DEF Merged
  <1>6. Monitored(periods, gaps) = Normalize(whole)
    BY DEF Monitored
  <1> HIDE DEF missing
  <1>7. ASSUME NEW s \in ToSpans(periods)
        PROVE  /\ parts[s] = Subtract(s, missing) /\ Finite(parts[s])
               /\ \A t \in Int : Within(t, parts[s]) <=> Holds(s, t) /\ ~Within(t, gaps)
    <2>1. parts[s] = Subtract(s, missing)
      OBVIOUS
    <2> HIDE DEF parts
    <2>2. s \in Times
      BY <1>4 DEF Finite
    <2> QED BY <1>5, <2>1, <2>2, SubtractIs
  <1>8. Finite(whole)
    <2>1. parts \in [ToSpans(periods) -> FiniteSpans] /\ IsFiniteSet(ToSpans(periods))
      BY <1>4, <1>7 DEF Finite, FiniteSpans
    <2> HIDE DEF parts
    <2> QED BY <2>1, UnionIs
  <1>9. ASSUME NEW t \in Int PROVE Within(t, whole) <=> Covered(periods, t) /\ ~Within(t, gaps)
    <2> HIDE DEF parts
    <2>1. Within(t, whole) <=> \E s \in ToSpans(periods) : Within(t, parts[s])
      BY DEF Within
    <2>2. Within(t, ToSpans(periods)) <=> \E s \in ToSpans(periods) : Holds(s, t)
      BY DEF Within
    <2> HIDE DEF whole
    <2> QED BY <1>4, <1>7, <2>1, <2>2
  <1> HIDE DEF whole
  <1>10. /\ Merged({s \in whole : s.lo < s.hi}, Normalize(whole))
         /\ \A t \in Int : Within(t, Normalize(whole)) <=> Within(t, whole)
    BY <1>8, NormalizeIs
  <1> QED BY <1>6, <1>9, <1>10 DEF Merged

-----------------------------------------------------------------------------
(* Time cut into pieces, and what stands for it. *)

LEMMA LeastIs ==
  ASSUME NEW U \in SUBSET Int, U # {}, NEW low \in Int, \A u \in U : low <= u
  PROVE  \E x \in U : \A y \in U : x <= y
  <1> DEFINE T == {n \in Nat : (\E x \in U : x <= low + n) => \E x \in U : \A y \in U : x <= y}
  <1>1. ASSUME NEW x \in U, x <= low + 0 PROVE \A y \in U : x <= y
    BY <1>1
  <1>2. ASSUME NEW n \in Nat, n \in T, NEW x \in U, x <= low + (n + 1)
        PROVE  \E z \in U : \A y \in U : z <= y
    <2>1. CASE \E z \in U : z <= low + n
      BY <1>2, <2>1
    <2>2. CASE ~\E z \in U : z <= low + n
      <3>1. \A y \in U : x <= y
        BY <1>2, <2>2
      <3> QED BY <3>1
    <2> QED BY <2>1, <2>2
  <1>3. 0 \in T
    BY <1>1
  <1>4. ASSUME NEW n \in Nat, n \in T PROVE n + 1 \in T
    BY <1>2, <1>4
  <1>5. \A n \in Nat : n \in T
    <2> HIDE DEF T
    <2> QED BY <1>3, <1>4, SetInduction
  <1>6. PICK x : x \in U
    OBVIOUS
  <1>7. x - low \in Nat /\ x <= low + (x - low)
    BY <1>6
  <1> QED BY <1>5, <1>6, <1>7

LEMMA IntersectIs ==
  ASSUME NEW x, NEW y, x.lo \in Int, x.hi \in Int, y.lo \in Int, y.hi \in Int
  PROVE  /\ \A z \in Intersect(x, y) :
              /\ z = Span(z.lo, z.hi) /\ z.lo \in Int /\ z.hi \in Int /\ z.lo < z.hi
              /\ x.lo <= z.lo /\ y.lo <= z.lo /\ z.hi <= x.hi /\ z.hi <= y.hi
              /\ \A t \in Int : Holds(z, t) <=> Holds(x, t) /\ Holds(y, t)
         /\ \A z, u \in Intersect(x, y) : z = u
         /\ Intersect(x, y) # {} <=> \E t \in Int : Holds(x, t) /\ Holds(y, t)
  <1> DEFINE lo == Higher(x.lo, y.lo)
             hi == Lower(x.hi, y.hi)
  <1>1. lo \in Int /\ hi \in Int /\ \A t \in Int : lo <= t /\ t < hi <=> Holds(x, t) /\ Holds(y, t)
    BY DEF Higher, Lower, Holds
  <1>2. Intersect(x, y) = IF hi <= lo THEN {} ELSE {Span(lo, hi)}
    BY DEF Intersect
  <1>3. x.lo <= lo /\ y.lo <= lo /\ hi <= x.hi /\ hi <= y.hi
    BY DEF Higher, Lower
  <1> HIDE DEF lo, hi
  <1>4. \A t \in Int : Holds(Span(lo, hi), t) <=> lo <= t /\ t < hi
    BY DEF Holds, Span
  <1>5. (\E t \in Int : lo <= t /\ t < hi) <=> ~(hi <= lo)
    BY <1>1
  <1>6. Span(lo, hi).lo = lo /\ Span(lo, hi).hi = hi
    BY DEF Span
  <1>7. \A z, u \in Intersect(x, y) : z = u
    BY <1>2
  <1>8. Intersect(x, y) # {} <=> \E t \in Int : Holds(x, t) /\ Holds(y, t)
    BY <1>1, <1>2, <1>5
  <1>9. ASSUME NEW z \in Intersect(x, y)
        PROVE  /\ z = Span(z.lo, z.hi) /\ z.lo \in Int /\ z.hi \in Int /\ z.lo < z.hi
               /\ x.lo <= z.lo /\ y.lo <= z.lo /\ z.hi <= x.hi /\ z.hi <= y.hi
               /\ \A t \in Int : Holds(z, t) <=> Holds(x, t) /\ Holds(y, t)
    <2>1. z = Span(lo, hi) /\ ~(hi <= lo)
      BY <1>2
    <2> QED BY <1>1, <1>3, <1>4, <1>6, <2>1
  <1> QED BY <1>7, <1>8, <1>9

\* Spans of a window that do not touch.
Parted(spans, window) ==
  /\ spans \in SUBSET Times
  /\ \A s \in spans : window.lo <= s.lo /\ s.lo < s.hi /\ s.hi <= window.hi
  /\ \A x, y \in spans : x # y => x.hi < y.lo \/ y.hi < x.lo

LEMMA SharedIs ==
  ASSUME NEW window, window.lo \in Int, window.hi \in Int,
         NEW spans \in SUBSET Times, \A x, y \in spans : x # y => x.hi < y.lo \/ y.hi < x.lo
  PROVE  /\ Parted(IntersectAll(window, spans), window)
         /\ \A t \in Int : Within(t, IntersectAll(window, spans)) <=> Holds(window, t) /\ Within(t, spans)
  <1> DEFINE all == IntersectAll(window, spans)
  <1>1. \A o \in spans : o.lo \in Int /\ o.hi \in Int
    BY DEF Times
  <1>2. \A z : z \in all <=> \E o \in spans : z \in Intersect(window, o)
    BY DEF IntersectAll
  <1> HIDE DEF all
  <1>3. ASSUME NEW z \in all
        PROVE  z \in Times /\ window.lo <= z.lo /\ z.lo < z.hi /\ z.hi <= window.hi
    <2>1. PICK o \in spans : z \in Intersect(window, o)
      BY <1>2
    <2>2. /\ z = Span(z.lo, z.hi) /\ z.lo \in Int /\ z.hi \in Int /\ z.lo < z.hi
          /\ window.lo <= z.lo /\ z.hi <= window.hi
      BY <1>1, <2>1, IntersectIs
    <2>3. Span(z.lo, z.hi) \in Times
      BY <2>2 DEF Span, Times
    <2> QED BY <2>2, <2>3
  <1>4. ASSUME NEW x \in all, NEW y \in all, x # y PROVE x.hi < y.lo \/ y.hi < x.lo
    <2>1. PICK o \in spans : x \in Intersect(window, o)
      BY <1>2
    <2>2. PICK p \in spans : y \in Intersect(window, p)
      BY <1>2
    <2>3. o # p
      BY <1>1, <1>4, <2>1, <2>2, IntersectIs
    <2>4. o.lo <= x.lo /\ x.hi <= o.hi /\ p.lo <= y.lo /\ y.hi <= p.hi
      BY <1>1, <2>1, <2>2, IntersectIs
    <2>5. x.lo \in Int /\ x.hi \in Int /\ y.lo \in Int /\ y.hi \in Int
      BY <1>3 DEF Times
    <2>6. o.hi < p.lo \/ p.hi < o.lo
      BY <2>3
    <2>7. o.lo \in Int /\ o.hi \in Int /\ p.lo \in Int /\ p.hi \in Int
      BY <1>1
    <2> QED BY <2>4, <2>5, <2>6, <2>7
  <1>5. ASSUME NEW t \in Int PROVE Within(t, all) <=> Holds(window, t) /\ Within(t, spans)
    <2>1. ASSUME NEW z \in all, Holds(z, t) PROVE Holds(window, t) /\ Within(t, spans)
      <3>1. PICK o \in spans : z \in Intersect(window, o)
        BY <1>2
      <3>2. Holds(window, t) /\ Holds(o, t)
        BY <1>1, <2>1, <3>1, IntersectIs
      <3> QED BY <3>1, <3>2 DEF Within
    <2>2. ASSUME Holds(window, t), NEW o \in spans, Holds(o, t) PROVE Within(t, all)
      <3>1. Intersect(window, o) # {}
        BY <1>1, <2>2, IntersectIs
      <3>2. PICK z : z \in Intersect(window, o)
        BY <3>1
      <3>3. Holds(z, t)
        BY <1>1, <2>2, <3>2, IntersectIs
      <3> QED BY <1>2, <3>2, <3>3 DEF Within
    <2> QED BY <2>1, <2>2 DEF Within
  <1> QED BY <1>3, <1>4, <1>5 DEF all, Parted

\* Records of a capacity, their times known.
Dated(capacity) == \A c \in capacity : c.lo \in Int /\ c.hi \in Int

\* The record in force changes at a boundary only.
LEMMA SameInForce ==
  ASSUME NEW capacity, Dated(capacity), NEW a \in Int, NEW t \in Int, a <= t,
         \A b \in Boundaries(capacity) : ~(a < b /\ b <= t)
  PROVE  CapacityAt(capacity, t) = CapacityAt(capacity, a)
  <1> DEFINE InForce(u) == {c \in capacity : c.lo <= u /\ (c.hi = Null \/ u < c.hi)}
  <1>1. ASSUME NEW c \in capacity PROVE c \in InForce(t) <=> c \in InForce(a)
    <2>1. c.lo \in Int /\ c.hi \in Int /\ c.lo \in Boundaries(capacity) /\ (c.hi # Null => c.hi \in Boundaries(capacity))
      BY DEF Dated, Boundaries
    <2>2. ~(a < c.lo /\ c.lo <= t) /\ (c.hi # Null => ~(a < c.hi /\ c.hi <= t))
      BY <2>1
    <2> QED BY <2>1, <2>2
  <1>2. InForce(t) = InForce(a)
    BY <1>1
  <1>3. \A u : CapacityAt(capacity, u) = {c \in InForce(u) : \A d \in InForce(u) : d.lo <= c.lo}
    BY DEF CapacityAt
  <1> HIDE DEF InForce
  <1> QED BY <1>2, <1>3

LEMMA GreatestIs ==
  ASSUME NEW U \in SUBSET Int, U # {}, NEW high \in Int, \A u \in U : u <= high
  PROVE  \E x \in U : \A y \in U : y <= x
  <1> DEFINE V == {v \in Int : -v \in U}
  <1>1. V # {} /\ \A v \in V : -high <= v
    <2>1. PICK u : u \in U
      OBVIOUS
    <2>2. -u \in Int /\ -(-u) = u
      BY <2>1
    <2>3. -u \in V
      BY <2>1, <2>2
    <2> QED BY <2>3
  <1>2. V \in SUBSET Int /\ -high \in Int
    OBVIOUS
  <1> HIDE DEF V
  <1>3. PICK v \in V : \A w \in V : v <= w
    BY <1>1, <1>2, LeastIs
  <1>4. -v \in U /\ v \in Int
    BY DEF V
  <1>5. \A y \in U : -y \in V /\ y \in Int /\ -y \in Int
    <2>1. \A y \in U : y \in Int /\ -y \in Int /\ -(-y) = y
      OBVIOUS
    <2> QED BY <2>1 DEF V
  <1>6. \A y \in U : y <= -v
    BY <1>3, <1>4, <1>5
  <1> QED BY <1>4, <1>6

Itself(spans) == [p \in spans |-> p]

\* A piece lies in one span, between two cuts of it.
LEMMA PieceIs ==
  ASSUME NEW window, window.lo \in Int, window.hi \in Int, NEW spans, Parted(spans, window),
         NEW capacity, Dated(capacity), NEW p \in Pieces(spans, capacity)
  PROVE  /\ p = Span(p.lo, p.hi) /\ p.lo \in Int /\ p.hi \in Int /\ p.lo < p.hi
         /\ window.lo <= p.lo /\ p.hi <= window.hi
         /\ \E s \in spans : /\ s.lo <= p.lo /\ p.hi <= s.hi
                             /\ p.lo \in Cuts(s, capacity) /\ p.hi \in Cuts(s, capacity)
                             /\ ~\E c \in Cuts(s, capacity) : p.lo < c /\ c < p.hi
  <1>0. PICK s \in spans : \E a, b \in Cuts(s, capacity) : p = Span(a, b)
    BY DEF Pieces
  <1>1. PICK a, b \in Cuts(s, capacity) : p = Span(a, b)
    BY <1>0
  <1>2. p.lo = a /\ p.hi = b
    BY <1>1 DEF Span
  <1>3. s.lo \in Int /\ s.hi \in Int /\ window.lo <= s.lo /\ s.lo < s.hi /\ s.hi <= window.hi
    BY DEF Parted, Times
  <1>4. \A c \in Cuts(s, capacity) : c \in Int /\ s.lo <= c /\ c <= s.hi
    BY <1>3 DEF Cuts, Boundaries, Dated
  <1>5. p.lo < p.hi /\ ~\E c \in Cuts(s, capacity) : p.lo < c /\ c < p.hi
    BY DEF Pieces
  <1>6. a \in Int /\ b \in Int /\ s.lo <= a /\ b <= s.hi
    BY <1>4
  <1>7. window.lo <= a /\ b <= window.hi
    BY <1>3, <1>6
  <1> QED BY <1>1, <1>2, <1>5, <1>6, <1>7

LEMMA PieceAt ==
  ASSUME NEW window, window.lo \in Int, window.hi \in Int, NEW spans, Parted(spans, window),
         NEW capacity, Dated(capacity), NEW s \in spans, NEW t \in Int, Holds(s, t)
  PROVE  \E p \in Pieces(spans, capacity) : Holds(p, t)
  <1> DEFINE cuts == Cuts(s, capacity)
             before == {c \in cuts : c <= t}
             after == {c \in cuts : t < c}
  <1>1. s.lo \in Int /\ s.hi \in Int /\ s.lo <= t /\ t < s.hi
    BY DEF Parted, Times, Holds
  <1>2. \A c \in cuts : c \in Int /\ s.lo <= c /\ c <= s.hi
    BY <1>1 DEF Cuts, Boundaries, Dated
  <1>3. s.lo \in cuts /\ s.hi \in cuts
    BY DEF Cuts
  <1> HIDE DEF cuts
  <1>4. PICK a \in before : \A c \in before : c <= a
    <2>1. before \in SUBSET Int /\ before # {} /\ \A c \in before : c <= t
      BY <1>1, <1>2, <1>3
    <2> HIDE DEF before
    <2> QED BY <2>1, GreatestIs
  <1>5. PICK b \in after : \A c \in after : b <= c
    <2>1. after \in SUBSET Int /\ after # {} /\ \A c \in after : t <= c
      BY <1>1, <1>2, <1>3
    <2> HIDE DEF after
    <2> QED BY <2>1, LeastIs
  <1>6. a \in cuts /\ b \in cuts /\ a \in Int /\ b \in Int /\ a <= t /\ t < b /\ s.lo <= a /\ b <= s.hi
    BY <1>2
  <1>7. \A c \in cuts : ~(a < c /\ c < b)
    <2> TAKE c \in cuts
    <2>1. c \in Int
      BY <1>2
    <2>2. CASE c <= t
      <3>1. c <= a
        BY <1>4, <2>2
      <3> QED BY <1>6, <2>1, <3>1
    <2>3. CASE ~(c <= t)
      <3>1. b <= c
        BY <1>5, <2>1, <2>3
      <3> QED BY <1>6, <2>1, <3>1
    <2> QED BY <2>2, <2>3
  <1>8. ASSUME NEW r \in spans, NEW c \in Cuts(r, capacity), a < c, c < b PROVE FALSE
    <2>1. CASE r = s
      BY <1>7, <1>8, <2>1 DEF cuts
    <2>2. CASE r # s
      <3>1. r.lo \in Int /\ r.hi \in Int /\ r.lo < r.hi /\ (r.hi < s.lo \/ s.hi < r.lo)
        BY <2>2 DEF Parted, Times
      <3>2. c \in Int /\ r.lo <= c /\ c <= r.hi
        BY <3>1 DEF Cuts, Boundaries, Dated
      <3> QED BY <1>1, <1>6, <1>8, <3>1, <3>2
    <2> QED BY <2>1, <2>2
  <1> DEFINE p == Span(a, b)
  <1>9. p.lo = a /\ p.hi = b
    BY DEF Span
  <1>10. p \in UNION {{Span(x, y) : x \in Cuts(r, capacity), y \in Cuts(r, capacity)} : r \in spans}
    BY <1>6 DEF cuts
  <1>11. Holds(s, a) /\ Holds(p, t) /\ a < b
    BY <1>1, <1>6, <1>9 DEF Holds
  <1> HIDE DEF p
  <1>12. p \in Pieces(spans, capacity)
    BY <1>8, <1>9, <1>10, <1>11 DEF Pieces
  <1> QED BY <1>11, <1>12

\* The pieces are the time itself: finitely many, that share no instant, and in
\* each of them the capacity is the same.
LEMMA PiecesAre ==
  ASSUME NEW window, window.lo \in Int, window.hi \in Int, NEW spans, Parted(spans, window),
         NEW capacity, Dated(capacity)
  PROVE  LET pieces == Pieces(spans, capacity)
         IN  /\ IsFiniteSet(pieces)
             /\ Separate(pieces, Itself(pieces))
             /\ Held(pieces, Itself(pieces)) = {t \in Int : Within(t, spans)}
             /\ \A p \in pieces : \A t \in Int : Holds(p, t) => CapacityAt(capacity, t) = CapacityAt(capacity, p.lo)
  <1> DEFINE pieces == Pieces(spans, capacity)
             whole == window.lo..window.hi
  <1>1. \A p \in pieces : p = Span(p.lo, p.hi) /\ p.lo \in whole /\ p.hi \in whole /\ p.lo < p.hi
    BY PieceIs
  <1>2. IsFiniteSet(pieces)
    <2> DEFINE f == [p \in pieces |-> <<p.lo, p.hi>>]
    <2> HIDE DEF pieces
    <2>1. f \in Injection(pieces, whole \X whole)
      <3>1. f \in [pieces -> whole \X whole]
        BY <1>1
      <3>2. ASSUME NEW p \in pieces, NEW q \in pieces, f[p] = f[q] PROVE p = q
        <4>1. p.lo = q.lo /\ p.hi = q.hi
          BY <3>2
        <4> QED BY <1>1, <4>1
      <3> QED BY <3>1, <3>2 DEF Injection, IsInjective
    <2>2. IsFiniteSet(whole \X whole)
      BY FS_Interval, FS_Product
    <2> HIDE DEF f, whole
    <2> QED BY <2>1, <2>2, FS_Injection
  <1>3. ASSUME NEW p \in pieces, NEW q \in pieces, NEW t \in Int, Holds(p, t), Holds(q, t) PROVE p = q
    <2>1. PICK s \in spans : /\ s.lo <= p.lo /\ p.hi <= s.hi
                             /\ p.lo \in Cuts(s, capacity) /\ p.hi \in Cuts(s, capacity)
                             /\ ~\E c \in Cuts(s, capacity) : p.lo < c /\ c < p.hi
      BY PieceIs
    <2>2. PICK r \in spans : /\ r.lo <= q.lo /\ q.hi <= r.hi
                             /\ q.lo \in Cuts(r, capacity) /\ q.hi \in Cuts(r, capacity)
                             /\ ~\E c \in Cuts(r, capacity) : q.lo < c /\ c < q.hi
      BY PieceIs
    <2>3. s.lo \in Int /\ s.hi \in Int /\ r.lo \in Int /\ r.hi \in Int /\ (s # r => s.hi < r.lo \/ r.hi < s.lo)
      BY DEF Parted, Times
    <2>4. p.lo \in Int /\ p.hi \in Int /\ q.lo \in Int /\ q.hi \in Int /\ p.lo <= t /\ t < p.hi /\ q.lo <= t /\ t < q.hi
      BY <1>1, <1>3 DEF Holds
    <2>5. s = r
      BY <2>1, <2>2, <2>3, <2>4
    <2>6. p.lo = q.lo /\ p.hi = q.hi
      BY <2>1, <2>2, <2>4, <2>5
    <2> QED BY <1>1, <2>6
  <1>4. Separate(pieces, Itself(pieces))
    <2> HIDE DEF pieces
    <2>1. \A p \in pieces : Itself(pieces)[p] = p
      BY DEF Itself
    <2>2. \A p \in pieces : p.lo \in Int /\ p.hi \in Int /\ p.lo <= p.hi
      BY <1>1
    <2> QED BY <1>3, <2>1, <2>2 DEF Separate
  <1>5. ASSUME NEW t \in Int PROVE (\E p \in pieces : Holds(p, t)) <=> Within(t, spans)
    <2>1. ASSUME NEW p \in pieces, Holds(p, t) PROVE Within(t, spans)
      <3>1. PICK s \in spans : s.lo <= p.lo /\ p.hi <= s.hi
        BY PieceIs
      <3>2. p.lo \in Int /\ p.hi \in Int /\ s.lo \in Int /\ s.hi \in Int
        BY <1>1 DEF Parted, Times
      <3>3. Holds(s, t)
        BY <2>1, <3>1, <3>2 DEF Holds
      <3> QED BY <3>3 DEF Within
    <2>2. ASSUME NEW s \in spans, Holds(s, t) PROVE \E p \in pieces : Holds(p, t)
      BY <2>2, PieceAt
    <2> QED BY <2>1, <2>2 DEF Within
  <1>6. Held(pieces, Itself(pieces)) = {t \in Int : Within(t, spans)}
    <2> HIDE DEF pieces
    <2>1. \A p \in pieces : Itself(pieces)[p] = p
      BY DEF Itself
    <2> QED BY <1>5, <2>1 DEF Held
  <1>7. ASSUME NEW p \in pieces, NEW t \in Int, Holds(p, t)
        PROVE  CapacityAt(capacity, t) = CapacityAt(capacity, p.lo)
    <2>1. PICK s \in spans : /\ s.lo <= p.lo /\ p.hi <= s.hi
                             /\ ~\E c \in Cuts(s, capacity) : p.lo < c /\ c < p.hi
      BY PieceIs
    <2>2. p.lo \in Int /\ p.hi \in Int /\ s.lo \in Int /\ s.hi \in Int /\ p.lo <= t /\ t < p.hi
      BY <1>1, <1>7 DEF Parted, Times, Holds
    <2>3. ASSUME NEW b \in Boundaries(capacity), p.lo < b, b <= t PROVE FALSE
      <3>1. b \in Int
        BY DEF Boundaries, Dated
      <3>2. b \in Cuts(s, capacity)
        BY <2>1, <2>2, <2>3, <3>1 DEF Cuts
      <3> QED BY <2>1, <2>2, <2>3, <3>1, <3>2
    <2> QED BY <2>2, <2>3, SameInForce
  <1> QED BY <1>2, <1>4, <1>6, <1>7

\* The records of a capacity say how many ports there are.
Equipped(capacity) == \A c \in capacity : c.ports \in Nat

LEMMA PortsAre ==
  ASSUME NEW capacity, Equipped(capacity), NEW t, CapacityAt(capacity, t) # {}
  PROVE  PortsInForce(capacity, t) \in Nat
  <1>1. PICK c : c = (CHOOSE d \in CapacityAt(capacity, t) : TRUE)
    OBVIOUS
  <1>2. c \in CapacityAt(capacity, t)
    BY <1>1
  <1>3. c \in capacity
    BY <1>2 DEF CapacityAt
  <1> QED BY <1>1, <1>3 DEF PortsInForce, Equipped

\* The port-minutes expected, where the capacity is known: the ports in force,
\* summed over the instants of the monitored time (domain/intervals.ts:184).
THEOREM ExpectedIs ==
  ASSUME NEW window, window.lo \in Int, window.hi \in Int, NEW spans, Parted(spans, window),
         NEW capacity, Dated(capacity), Equipped(capacity), ExpectedPortMinutes(spans, capacity) # Null
  PROVE  LET times == {t \in Int : Within(t, spans)}
         IN  /\ IsFiniteSet(times)
             /\ \A t \in times : CapacityAt(capacity, t) # {}
             /\ ExpectedPortMinutes(spans, capacity) = SumOf([t \in times |-> PortsInForce(capacity, t)], times)
  <1> DEFINE pieces == Pieces(spans, capacity)
             itself == Itself(pieces)
             times == {t \in Int : Within(t, spans)}
             ports == [p \in pieces |-> PortsInForce(capacity, p.lo)]
             at == [t \in times |-> PortsInForce(capacity, t)]
             f == [p \in pieces |-> PortsInForce(capacity, p.lo) * (p.hi - p.lo)]
  <1>1. /\ IsFiniteSet(pieces) /\ Separate(pieces, itself) /\ Held(pieces, itself) = times
        /\ \A p \in pieces : \A t \in Int : Holds(p, t) => CapacityAt(capacity, t) = CapacityAt(capacity, p.lo)
    BY PiecesAre
  <1>2. /\ \A p \in pieces : CapacityAt(capacity, p.lo) # {}
        /\ ExpectedPortMinutes(spans, capacity) =
             MapThenSumSet(LAMBDA p : PortsInForce(capacity, p.lo) * (p.hi - p.lo), pieces)
    BY DEF ExpectedPortMinutes
  <1> HIDE DEF pieces
  <1>3. MapThenSumSet(LAMBDA p : PortsInForce(capacity, p.lo) * (p.hi - p.lo), pieces) = SumOf(f, pieces)
    <2> DEFINE A(it) == it = [s \in SUBSET pieces |->
                                IF s = {} THEN 0
                                ELSE PortsInForce(capacity, AnyOf(s).lo) * (AnyOf(s).hi - AnyOf(s).lo) + it[s \ {AnyOf(s)}]]
               B(it) == it = [s \in SUBSET pieces |-> IF s = {} THEN 0 ELSE f[AnyOf(s)] + it[s \ {AnyOf(s)}]]
    <2>1. MapThenSumSet(LAMBDA p : PortsInForce(capacity, p.lo) * (p.hi - p.lo), pieces) = (CHOOSE it : A(it))[pieces]
      BY DEF MapThenSumSet, MapThenFoldSet, AnyOf
    <2>2. SumOf(f, pieces) = (CHOOSE it : B(it))[pieces]
      BY DEF SumOf, MapThenSumSet, MapThenFoldSet, AnyOf
    <2>3. \A s \in SUBSET pieces : s # {} =>
            f[AnyOf(s)] = PortsInForce(capacity, AnyOf(s).lo) * (AnyOf(s).hi - AnyOf(s).lo)
      BY DEF AnyOf
    <2> HIDE DEF f
    <2>4. ASSUME NEW it PROVE A(it) <=> B(it)
      BY <2>3
    <2> HIDE DEF A, B
    <2>5. (CHOOSE it : A(it)) = (CHOOSE it : B(it))
      BY <2>4
    <2> QED BY <2>1, <2>2, <2>5
  <1>4. \A p \in pieces : itself[p] = p
    BY DEF Itself
  <1>5. f = Lengths(ports, itself, pieces)
    BY <1>4 DEF Lengths
  <1>6. \A p \in pieces : ports[p] \in Int
    <2> TAKE p \in pieces
    <2>1. PortsInForce(capacity, p.lo) \in Nat
      BY <1>2, PortsAre
    <2> QED BY <2>1
  <1>7. ASSUME NEW p \in pieces, NEW t \in Int, Holds(itself[p], t)
        PROVE  t \in times /\ at[t] = ports[p] /\ CapacityAt(capacity, t) # {}
    <2>1. Holds(p, t)
      BY <1>4, <1>7
    <2>2. CapacityAt(capacity, t) = CapacityAt(capacity, p.lo)
      BY <1>1, <2>1
    <2>3. PortsInForce(capacity, t) = PortsInForce(capacity, p.lo)
      BY <2>2 DEF PortsInForce
    <2>4. t \in times
      BY <1>1, <1>7 DEF Held
    <2> QED BY <1>2, <2>2, <2>3, <2>4
  <1>8. \A t \in times : CapacityAt(capacity, t) # {}
    <2> TAKE t \in times
    <2>1. t \in Held(pieces, itself)
      BY <1>1
    <2>2. PICK p \in pieces : Holds(itself[p], t) /\ t \in Int
      BY <2>1 DEF Held
    <2> QED BY <1>7, <2>2
  <1> HIDE DEF times, at, ports, f, itself
  <1>9. IsFiniteSet(Held(pieces, itself)) /\ SumOf(at, Held(pieces, itself)) = SumOf(Lengths(ports, itself, pieces), pieces)
    BY <1>1, <1>6, <1>7, SumOfSpans
  <1>10. IsFiniteSet(times) /\ ExpectedPortMinutes(spans, capacity) = SumOf(at, times)
    BY <1>1, <1>2, <1>3, <1>5, <1>9
  <1> QED BY <1>8, <1>10 DEF times, at

-----------------------------------------------------------------------------
(* Readings. *)

\* What a reading needs to be carried forward.
IsShot(r) == r.at \in Int /\ r.interval \in Int /\ r.cap \in Int /\ r.limit \in Int

\* A reading of any source, whatever its budget and whatever other readings and
\* records of the capacity there are, holds from its instant no longer than its
\* budget, the time it was made in, the next reading and the capacity in force,
\* and to the first of them.
LEMMA HoldsUntilIs ==
  ASSUME NEW r, IsShot(r), FarFuture \in Int, NEW readings, \A q \in readings : q.at \in Int,
         NEW monitored \in SUBSET Times, NEW capacity, Dated(capacity)
  PROVE  LET until == HoldsUntil(r, readings, monitored, capacity)
         IN  /\ until \in Int /\ r.at <= until
             /\ \A m \in monitored : Holds(m, r.at) => until <= m.hi
             /\ \A q \in readings : Precedes(r, q) => until <= q.at
             /\ \A b \in Boundaries(capacity) : r.at < b => until <= b
             /\ CarryForwardBudget(r) \in Nat /\ until <= r.at + CarryForwardBudget(r)
             /\ \/ until = r.at + CarryForwardBudget(r)
                \/ \E m \in monitored : Holds(m, r.at) /\ until = m.hi
                \/ \E q \in readings : Precedes(r, q) /\ until = q.at
                \/ \E b \in Boundaries(capacity) : r.at < b /\ until = b
  <1> DEFINE ends == {r.at + CarryForwardBudget(r)}
                     \cup {s.hi : s \in {n \in monitored : Holds(n, r.at)}}
                     \cup {s.at : s \in {q \in readings : Precedes(r, q)}}
                     \cup {b \in Boundaries(capacity) : b > r.at}
             until == HoldsUntil(r, readings, monitored, capacity)
  <1>1. CarryForwardBudget(r) \in Nat
    <2>1. Lower(Lower(2 * r.interval, r.cap), IF r.limit = Null THEN FarFuture ELSE r.limit) \in Int
      BY DEF Lower, IsShot
    <2> QED BY <2>1 DEF CarryForwardBudget, Higher
  <1>2. \A n \in monitored : Holds(n, r.at) => n.hi \in Int /\ r.at < n.hi
    BY DEF Holds, Times
  <1>3. \A q \in readings : Precedes(r, q) => r.at <= q.at
    BY DEF Precedes, IsShot
  <1>4. \A b \in Boundaries(capacity) : b \in Int
    BY DEF Boundaries, Dated
  <1>5. r.at + CarryForwardBudget(r) \in ends
    OBVIOUS
  <1>6. ends \in SUBSET Int /\ \A t \in ends : r.at <= t
    BY <1>1, <1>2, <1>3, <1>4 DEF IsShot
  <1>7. until = CHOOSE t \in ends : \A u \in ends : t <= u
    BY DEF HoldsUntil
  <1>8. /\ \A m \in monitored : Holds(m, r.at) => m.hi \in ends
        /\ \A q \in readings : Precedes(r, q) => q.at \in ends
        /\ \A b \in Boundaries(capacity) : r.at < b => b \in ends
        /\ \A u \in ends : \/ u = r.at + CarryForwardBudget(r)
                           \/ \E m \in monitored : Holds(m, r.at) /\ u = m.hi
                           \/ \E q \in readings : Precedes(r, q) /\ u = q.at
                           \/ \E b \in Boundaries(capacity) : r.at < b /\ u = b
    BY <1>4 DEF IsShot
  <1> HIDE DEF ends, until
  <1>9. \E t \in ends : \A u \in ends : t <= u
    BY <1>5, <1>6, LeastIs DEF IsShot
  <1>10. until \in ends /\ \A u \in ends : until <= u
    BY <1>7, <1>9
  <1> QED BY <1>1, <1>5, <1>6, <1>8, <1>10 DEF until

\* Readings that can be carried forward, each with an instant of its own.
Shots(readings) ==
  /\ \A r \in readings : IsShot(r)
  /\ \A q, r \in readings : q.at = r.at => q = r

SpansOf(intervals) == [i \in intervals |-> i.span]

LEMMA IntervalIs ==
  ASSUME NEW readings, Shots(readings), FarFuture \in Int, NEW monitored \in SUBSET Times,
         NEW capacity, Dated(capacity), NEW window, window.lo \in Int, window.hi \in Int, NEW reconciled,
         NEW i \in ValidIntervals(readings, monitored, capacity, window, reconciled)
  PROVE  /\ i = [span |-> i.span, reading |-> i.reading]
         /\ i.reading \in readings /\ i.reading \in reconciled
         /\ Verdict(i.reading, monitored, i.reading \in reconciled) = "used"
         /\ i.span \in Intersect(Span(i.reading.at, HoldsUntil(i.reading, readings, monitored, capacity)), window)
         /\ i.span.lo \in Int /\ i.span.hi \in Int /\ i.span.lo < i.span.hi
         /\ i.reading.at <= i.span.lo /\ i.span.hi <= HoldsUntil(i.reading, readings, monitored, capacity)
         /\ \A t \in Int : Holds(i.span, t) => Holds(window, t)
         /\ \E m \in monitored : Holds(m, i.reading.at)
  <1>1. PICK r \in readings : /\ Verdict(r, monitored, r \in reconciled) = "used"
                              /\ \E s \in Intersect(Span(r.at, HoldsUntil(r, readings, monitored, capacity)), window) :
                                   i = [span |-> s, reading |-> r]
    BY DEF ValidIntervals
  <1>2. i = [span |-> i.span, reading |-> r] /\ i.reading = r
    BY <1>1
  <1>3. i.span \in Intersect(Span(r.at, HoldsUntil(r, readings, monitored, capacity)), window)
    BY <1>1
  <1>4. r \in reconciled /\ \E m \in monitored : Holds(m, r.at)
    BY <1>1 DEF Verdict
  <1> DEFINE until == HoldsUntil(r, readings, monitored, capacity)
             held == Span(r.at, until)
  <1>5. until \in Int /\ r.at \in Int
    <2>1. IsShot(r) /\ \A q \in readings : q.at \in Int
      BY DEF Shots, IsShot
    <2> QED BY <2>1, HoldsUntilIs DEF IsShot
  <1> HIDE DEF until
  <1>6. held.lo = r.at /\ held.hi = until
    BY DEF Span
  <1> HIDE DEF held
  <1>7. i.span \in Intersect(held, window)
    BY <1>3 DEF held, until
  <1> DEFINE z == i.span
  <1>8. /\ z.lo \in Int /\ z.hi \in Int /\ z.lo < z.hi /\ held.lo <= z.lo /\ z.hi <= held.hi
        /\ \A t \in Int : Holds(z, t) <=> Holds(held, t) /\ Holds(window, t)
    BY <1>5, <1>6, <1>7, IntersectIs
  <1> QED BY <1>1, <1>2, <1>3, <1>4, <1>6, <1>8 DEF until

\* A reading that is used stands for every instant of the window it holds at.
LEMMA IntervalAt ==
  ASSUME NEW readings, Shots(readings), FarFuture \in Int, NEW monitored \in SUBSET Times,
         NEW capacity, Dated(capacity), NEW window, window.lo \in Int, window.hi \in Int, NEW reconciled,
         NEW r \in readings, Verdict(r, monitored, r \in reconciled) = "used",
         NEW t \in Int, Holds(window, t), r.at <= t, t < HoldsUntil(r, readings, monitored, capacity)
  PROVE  \E i \in ValidIntervals(readings, monitored, capacity, window, reconciled) :
           i.reading = r /\ Holds(i.span, t)
  <1> DEFINE until == HoldsUntil(r, readings, monitored, capacity)
             held == Span(r.at, until)
  <1>1. until \in Int /\ r.at \in Int
    <2>1. IsShot(r) /\ \A q \in readings : q.at \in Int
      BY DEF Shots, IsShot
    <2> QED BY <2>1, HoldsUntilIs DEF IsShot
  <1>2. t < until /\ r.at < window.hi
    BY <1>1 DEF Holds
  <1> HIDE DEF until
  <1>3. held.lo = r.at /\ held.hi = until /\ Holds(held, t)
    BY <1>2 DEF Span, Holds
  <1> HIDE DEF held
  <1>4. PICK s \in Intersect(held, window) : Holds(s, t)
    BY <1>1, <1>3, IntersectIs
  <1> DEFINE i == [span |-> s, reading |-> r]
  <1>5. i.span = s /\ i.reading = r
    OBVIOUS
  <1>6. i \in ValidIntervals(readings, monitored, capacity, window, reconciled)
    BY <1>2, <1>4 DEF ValidIntervals, held, until
  <1> QED BY <1>4, <1>5, <1>6

\* The time that any readings stand for, each made in an instant of its own: no
\* instant twice, all of it monitored and in the window, and with the capacity
\* that was in force when the reading was made (domain/intervals.ts:213).
THEOREM IntervalsAre ==
  ASSUME NEW readings, Shots(readings), IsFiniteSet(readings), FarFuture \in Int, NEW monitored \in SUBSET Times,
         NEW capacity, Dated(capacity), NEW window, window.lo \in Int, window.hi \in Int, NEW reconciled
  PROVE  LET intervals == ValidIntervals(readings, monitored, capacity, window, reconciled)
         IN  /\ IsFiniteSet(intervals)
             /\ Separate(intervals, SpansOf(intervals))
             /\ \A i \in intervals : \A t \in Int : Holds(i.span, t) =>
                  /\ Holds(window, t) /\ Within(t, monitored)
                  /\ CapacityAt(capacity, t) = CapacityAt(capacity, i.reading.at)
  <1> DEFINE intervals == ValidIntervals(readings, monitored, capacity, window, reconciled)
             Until(r) == HoldsUntil(r, readings, monitored, capacity)
  <1>1. \A i \in intervals : /\ i = [span |-> i.span, reading |-> i.reading] /\ i.reading \in readings
                             /\ i.span.lo \in Int /\ i.span.hi \in Int /\ i.span.lo < i.span.hi
                             /\ i.reading.at <= i.span.lo /\ i.span.hi <= Until(i.reading)
                             /\ \A t \in Int : Holds(i.span, t) => Holds(window, t)
                             /\ \E m \in monitored : Holds(m, i.reading.at)
    BY IntervalIs
  <1>2. \A r \in readings : /\ Until(r) \in Int /\ r.at \in Int
                            /\ \A m \in monitored : Holds(m, r.at) => Until(r) <= m.hi
                            /\ \A q \in readings : Precedes(r, q) => Until(r) <= q.at
                            /\ \A b \in Boundaries(capacity) : r.at < b => Until(r) <= b
    <2>1. \A q \in readings : q.at \in Int /\ IsShot(q)
      BY DEF Shots, IsShot
    <2> QED BY <2>1, HoldsUntilIs
  <1>3. ASSUME NEW i \in intervals, NEW j \in intervals, i.reading = j.reading PROVE i = j
    <2> DEFINE held == Span(i.reading.at, Until(i.reading))
    <2>1. i.span \in Intersect(held, window) /\ j.span \in Intersect(held, window)
      BY <1>3, IntervalIs
    <2>2. held.lo \in Int /\ held.hi \in Int
      BY <1>1, <1>2 DEF Span
    <2> HIDE DEF held
    <2>3. i.span = j.span
      BY <2>1, <2>2, IntersectIs
    <2> QED BY <1>1, <1>3, <2>3
  <1> HIDE DEF intervals, Until
  <1>4. ASSUME NEW i \in intervals, NEW j \in intervals, i # j, NEW t \in Int, Holds(i.span, t), Holds(j.span, t)
        PROVE  FALSE
    <2> DEFINE p == i.reading
               q == j.reading
    <2>1. p \in readings /\ q \in readings /\ p # q
      BY <1>1, <1>3, <1>4
    <2>2. p.at \in Int /\ q.at \in Int /\ p.at # q.at
      BY <1>2, <2>1 DEF Shots
    <2>3. Precedes(p, q) \/ Precedes(q, p)
      BY <2>2 DEF Precedes
    <2>4. i.span.lo <= t /\ t < i.span.hi /\ j.span.lo <= t /\ t < j.span.hi
      BY <1>4 DEF Holds
    <2>5. /\ i.span.lo \in Int /\ i.span.hi \in Int /\ p.at <= i.span.lo /\ i.span.hi <= Until(p)
          /\ j.span.lo \in Int /\ j.span.hi \in Int /\ q.at <= j.span.lo /\ j.span.hi <= Until(q)
          /\ Until(p) \in Int /\ Until(q) \in Int
      BY <1>1, <1>2
    <2>6. Until(p) <= q.at \/ Until(q) <= p.at
      BY <1>2, <2>1, <2>3
    <2> HIDE DEF p, q
    <2> QED BY <2>2, <2>4, <2>5, <2>6
  <1>5. Separate(intervals, SpansOf(intervals))
    <2>1. \A i \in intervals : SpansOf(intervals)[i] = i.span
      BY DEF SpansOf
    <2>2. \A i \in intervals : i.span.lo \in Int /\ i.span.hi \in Int /\ i.span.lo <= i.span.hi
      BY <1>1
    <2> QED BY <1>4, <2>1, <2>2 DEF Separate
  <1>6. IsFiniteSet(intervals)
    <2> DEFINE f == [i \in intervals |-> i.reading]
    <2>1. f \in Injection(intervals, readings)
      BY <1>1, <1>3 DEF Injection, IsInjective
    <2> HIDE DEF f
    <2> QED BY <2>1, FS_Injection
  <1>7. ASSUME NEW i \in intervals, NEW t \in Int, Holds(i.span, t)
        PROVE  /\ Holds(window, t) /\ Within(t, monitored)
               /\ CapacityAt(capacity, t) = CapacityAt(capacity, i.reading.at)
    <2> DEFINE r == i.reading
    <2>1. /\ r \in readings /\ r.at \in Int /\ Until(r) \in Int /\ i.span.lo \in Int /\ i.span.hi \in Int
          /\ r.at <= i.span.lo /\ i.span.hi <= Until(r)
      BY <1>1, <1>2
    <2>2. i.span.lo <= t /\ t < i.span.hi
      BY <1>7 DEF Holds
    <2>3. r.at <= t /\ t < Until(r)
      BY <2>1, <2>2
    <2>4. Within(t, monitored)
      <3>1. PICK m \in monitored : Holds(m, r.at)
        BY <1>1
      <3>2. Until(r) <= m.hi /\ m.lo \in Int /\ m.hi \in Int /\ m.lo <= r.at
        BY <1>2, <2>1, <3>1 DEF Times, Holds
      <3>3. Holds(m, t)
        BY <2>1, <2>3, <3>2 DEF Holds
      <3> QED BY <3>3 DEF Within
    <2>5. ASSUME NEW b \in Boundaries(capacity), r.at < b, b <= t PROVE FALSE
      <3>1. Until(r) <= b /\ b \in Int
        BY <1>2, <2>1, <2>5 DEF Boundaries, Dated
      <3> QED BY <2>1, <2>3, <2>5, <3>1
    <2>6. CapacityAt(capacity, t) = CapacityAt(capacity, r.at)
      BY <2>1, <2>3, <2>5, SameInForce
    <2> QED BY <1>1, <1>7, <2>4, <2>6
  <1> QED BY <1>5, <1>6, <1>7 DEF intervals

\* Monitored time is unbroken between two instants when one span holds them both.
LEMMA UnbrokenIs ==
  ASSUME NEW spans \in SUBSET Times, \A x, y \in spans : x # y => x.hi < y.lo \/ y.hi < x.lo,
         NEW a \in Int, NEW b \in Int, a <= b
  PROVE  (\A u \in a..b : Within(u, spans)) <=>
           (\E m \in spans : Holds(m, a)) /\ \A m \in spans : Holds(m, a) => b < m.hi
  <1>1. \A m \in spans : m.lo \in Int /\ m.hi \in Int
    BY DEF Times
  <1>2. ASSUME \A u \in a..b : Within(u, spans)
        PROVE  (\E m \in spans : Holds(m, a)) /\ \A m \in spans : Holds(m, a) => b < m.hi
    <2>1. \E m \in spans : Holds(m, a)
      BY <1>2 DEF Within
    <2>2. ASSUME NEW m \in spans, Holds(m, a), m.hi <= b PROVE FALSE
      <3>1. m.hi \in a..b /\ m.lo <= a /\ a < m.hi
        BY <1>1, <2>2 DEF Holds
      <3>2. PICK n \in spans : Holds(n, m.hi)
        BY <1>2, <3>1 DEF Within
      <3>3. n.lo <= m.hi /\ m.hi < n.hi
        BY <3>2 DEF Holds
      <3>4. n # m
        BY <1>1, <3>3
      <3>5. m.hi < n.lo \/ n.hi < m.lo
        BY <3>4
      <3> QED BY <1>1, <3>1, <3>3, <3>5
    <2> QED BY <1>1, <2>1, <2>2
  <1>3. ASSUME NEW m \in spans, Holds(m, a), \A n \in spans : Holds(n, a) => b < n.hi, NEW u \in a..b
        PROVE  Within(u, spans)
    <2>1. m.lo <= a /\ b < m.hi
      BY <1>3 DEF Holds
    <2>2. Holds(m, u)
      BY <1>1, <2>1 DEF Holds
    <2> QED BY <2>2 DEF Within
  <1> QED BY <1>2, <1>3

-----------------------------------------------------------------------------
(* Division with a remainder, for the hours and days instants lie in. *)

\* Division with a remainder has one quotient.
LEMMA QuotientIs ==
  ASSUME NEW x \in Int, NEW b \in Nat \ {0}, NEW k \in Int, NEW r \in 0..(b - 1), x = (b * k) + r
  PROVE  x \div b = k
  <1> DEFINE n == x \div b
             q == x % b
  <1>1. n \in Int /\ q \in 0..(b - 1) /\ x = (b * n) + q
    OBVIOUS
  <1> HIDE DEF n, q
  <1>2. ASSUME n < k PROVE FALSE
    <2>1. b * (n + 1) <= b * k /\ b * (n + 1) = (b * n) + b /\ b * n \in Int /\ b * k \in Int
      BY <1>1, <1>2
    <2> QED BY <1>1, <2>1
  <1>3. ASSUME k < n PROVE FALSE
    <2>1. b * (k + 1) <= b * n /\ b * (k + 1) = (b * k) + b /\ b * n \in Int /\ b * k \in Int
      BY <1>1, <1>3
    <2> QED BY <1>1, <2>1
  <1>4. n = k
    BY <1>1, <1>2, <1>3
  <1> QED BY <1>4 DEF n

\* A number of whole divisors further, the quotient is that number more.
LEMMA QuotientShifts ==
  ASSUME NEW x \in Int, NEW b \in Nat \ {0}, NEW n \in Int, NEW y \in Int, NEW m, m = b * n, y = x + m
  PROVE  y \div b = (x \div b) + n
  <1> DEFINE q == x \div b
             r == x % b
             k == q + n
  <1>1. q \in Int /\ r \in 0..(b - 1) /\ x = (b * q) + r
    OBVIOUS
  <1> HIDE DEF q, r
  <1>2. k \in Int /\ y = (b * k) + r
    <2>1. b * (q + n) = (b * q) + (b * n) /\ b * q \in Int /\ b * n \in Int
      BY <1>1
    <2> QED BY <1>1, <2>1
  <1> HIDE DEF k
  <1>3. y \div b = k
    BY <1>1, <1>2, QuotientIs
  <1> QED BY <1>3 DEF k, q

\* The quotient grows with what is divided.
LEMMA QuotientGrows ==
  ASSUME NEW x \in Int, NEW y \in Int, x <= y, NEW b \in Nat \ {0}
  PROVE  x \div b <= y \div b /\ x \div b \in Int /\ y \div b \in Int
  <1> DEFINE n == x \div b
             q == x % b
             m == y \div b
             r == y % b
  <1>1. n \in Int /\ q \in 0..(b - 1) /\ x = (b * n) + q /\ m \in Int /\ r \in 0..(b - 1) /\ y = (b * m) + r
    OBVIOUS
  <1> HIDE DEF n, q, m, r
  <1>2. ASSUME m < n PROVE FALSE
    <2>1. b * (m + 1) <= b * n /\ b * (m + 1) = (b * m) + b /\ b * n \in Int /\ b * m \in Int
      BY <1>1, <1>2
    <2> QED BY <1>1, <2>1
  <1>3. n <= m
    BY <1>1, <1>2
  <1> QED BY <1>1, <1>3 DEF n, m
===============================================================================
