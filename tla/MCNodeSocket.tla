---------------------------- MODULE MCNodeSocket ----------------------------
(***************************************************************************)
(* Instances of NodeSocket for TLC.                                        *)
(***************************************************************************)
EXTENDS NodeSocket
=============================================================================
