---------------------------- MODULE MCIngestion ----------------------------
(* Small instances of Ingestion for TLC.                                   *)
EXTENDS Ingestion

CONSTANTS r1, r2, outer, inner

(* r1 is written in the project inner, which lies in outer; r2 in outer.   *)
NestedPaths == [r \in Records |-> IF r = r1 THEN <<inner, outer>> ELSE <<outer>>]
FlatPaths == [r \in Records |-> IF r = r1 THEN <<inner>> ELSE <<outer>>]

(* What an owner may recover a record into.                                *)
AnyTarget == [r \in Records |-> Projects]
OwnTarget == [r \in Records |-> ToSet(Paths[r])]

(* Bound: the file, the directories and the parser change only while one   *)
(* pass runs, and that has seen neither a conflict nor a failure.          *)
MovesBesideOnePass ==
  moves > 0 =>
    /\ failures = 0
    /\ Cardinality({i \in Ingesters : pass[i] # Idle}) <= 1
    /\ \A i \in Ingesters : ~pass[i].retry

IngesterSymmetry == Permutations(Ingesters)
=============================================================================
