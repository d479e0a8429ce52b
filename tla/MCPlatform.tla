----------------------------- MODULE MCPlatform -----------------------------
(* Two releases and two launchers for Platform.                             *)
EXTENDS Platform, TLC

CONSTANTS old, new, v1, v2, a, b

(* The scripts each release packages.                                       *)
MCKnown == (old :> 1) @@ (new :> 2)

MCLauncher == (a :> v1) @@ (b :> v2)

MCSymmetry ==
  Permutations(Writers) \union Permutations(Builders) \union Permutations(Pages)
=============================================================================
