-------------------------- MODULE MCProviderRuntime --------------------------
(***************************************************************************)
(* An instance of ProviderRuntime for TLC.                                 *)
(***************************************************************************)
EXTENDS ProviderRuntime

CONSTANTS c1, c2
=============================================================================
