--------------------------- MODULE MCDebugSession ---------------------------
(***************************************************************************)
(* Instances of DebugSession for TLC.                                      *)
(***************************************************************************)
EXTENDS DebugSession, TLC

Symmetry == Permutations(Instance) \cup Permutations(Link)
=============================================================================
