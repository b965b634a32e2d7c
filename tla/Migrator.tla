------------------------------- MODULE Migrator -------------------------------
(* migrate() (src/database/migrator.ts).  A migration is its text, and the      *)
(* migrations a build knows are a sequence: that their versions are contiguous  *)
(* from 1 is a property of a constant, which migrate() checks first.  A schema  *)
(* is the sequence of the texts applied, its version their number.              *)
LOCAL INSTANCE Naturals
LOCAL INSTANCE Sequences

CanRead(applied, known) == Len(applied) <= Len(known)

\* Each text applied is the one this build has for its version.
Unchanged(applied, known) == \A v \in DOMAIN applied : applied[v] = known[v]

\* Each migration is a transaction of its own: the first that fails leaves those
\* before it; the check of integrity may fail after the last.
Stops(applied, known) == {SubSeq(known, 1, n) : n \in Len(applied)..Len(known)}

\* The outcomes of migrate(): whether it succeeds, and the schema it leaves.
Migrate(applied, known) ==
  IF ~CanRead(applied, known) \/ ~Unchanged(applied, known)
    THEN {[ok |-> FALSE, schema |-> applied]}
    ELSE {[ok |-> TRUE, schema |-> known]} \cup
         {[ok |-> FALSE, schema |-> s] : s \in IF applied = known THEN {} ELSE Stops(applied, known)}
=============================================================================
