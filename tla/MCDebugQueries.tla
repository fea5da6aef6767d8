--------------------------- MODULE MCDebugQueries ---------------------------
(* A small instance of DebugQueries: request r of the first link has the   *)
(* number r, those after them are asked on the second.                     *)
EXTENDS DebugQueries

CONSTANT OnFirst, OnSecond
MCRequest == 1..OnFirst + OnSecond
MCConn    == [r \in MCRequest |-> IF r <= OnFirst THEN 1 ELSE 2]
MCSeq     == [r \in MCRequest |-> IF r <= OnFirst THEN r ELSE r - OnFirst]
MCInst    == [r \in MCRequest |-> CHOOSE i \in Instance : TRUE]
=============================================================================
