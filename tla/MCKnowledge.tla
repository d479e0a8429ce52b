---------------------------- MODULE MCKnowledge -----------------------------
(* Captures, rows and tasks for Knowledge.                                  *)
EXTENDS Knowledge, TLC

(* A question left open, the capture that resolves it and one that asks it  *)
(* again; two failures that differ in a dynamic part.                       *)
MCSources ==
  {[id |-> 1, project |-> "p", ns |-> "n", task |-> "t", at |-> 1,
    rows |-> {<<"open_issue", "x">>, <<"decision", "d">>}, resolves |-> {}],
   [id |-> 2, project |-> "p", ns |-> "n", task |-> "u", at |-> 2,
    rows |-> {}, resolves |-> {"x"}],
   [id |-> 3, project |-> "p", ns |-> "n", task |-> "v", at |-> 3,
    rows |-> {<<"open_issue", "x">>, <<"failed_attempt", "f1">>, <<"failed_attempt", "f2">>},
    resolves |-> {}]}
MCSize(t) == IF t = "d" THEN 3 ELSE 1
MCSignature(t) == IF t \in {"f1", "f2"} THEN "f" ELSE t

(* Where the rows of a recall are kept, and what a task may be about.       *)
MCSourceOf == [r \in Rows |-> IF r = 2 THEN "memories" ELSE "facts"]
MCTasks == {{1}, {2, 3}}

MCSymmetry == Permutations(Scanners) \union Permutations(Compactors)
=============================================================================
