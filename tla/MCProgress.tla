---------------------------- MODULE MCProgress -----------------------------
(* A small instance of Progress for TLC.                                    *)
EXTENDS Progress

CONSTANTS r1, r2, outer, inner

(* r1 is written in the project inner, r2 in outer; the owner may recover   *)
(* r1 into its project.                                                     *)
FlatPaths == [r \in Records |-> IF r = r1 THEN <<inner>> ELSE <<outer>>]
OwnTarget == [r \in Records |-> IF r = r1 THEN {inner} ELSE {}]
=============================================================================
