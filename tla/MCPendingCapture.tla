-------------------------- MODULE MCPendingCapture --------------------------
(* Small instances of PendingCapture for TLC.                              *)
EXTENDS PendingCapture, TLC

MCTimes == 0..1

(* Ids are compared for equality only.                                     *)
NameSymmetry == Permutations(RecordIds) \cup Permutations(SourceIds)
=============================================================================
