---------------------------- MODULE MCProposals ----------------------------
(* Instances of Proposals for TLC.                                         *)
EXTENDS Proposals, TLC

WorkerSymmetry == Permutations(Workers)
=============================================================================
