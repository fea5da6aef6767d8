------------------------ MODULE MCTransactionJournal ------------------------
(***************************************************************************)
(* An instance of TransactionJournal for TLC.                              *)
(***************************************************************************)
EXTENDS TransactionJournal

CONSTANTS a, b  \* contents of a source
=============================================================================
