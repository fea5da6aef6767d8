--------------------------- MODULE OrderedSender ---------------------------
(***************************************************************************)
(* What the sending side of a bridge connection promises (sections A.2 and *)
(* A.9 of Doc/Contracts/Appendix-A-Protocol.md): messages leave in the     *)
(* order in which they were accepted, so that no control message overtakes *)
(* the data accepted before it; only data is ever given up, the oldest     *)
(* first; control messages are given up with the connection and only then. *)
(***************************************************************************)
EXTENDS Naturals

VARIABLES
  pending,  \* accepted and not written: numbers with their kind
  next,     \* the number of the next message
  last,     \* the last message written
  open      \* "open", "flushing" (accepts nothing more) or "closed"

vars == <<pending, next, last, open>>

Message(n, kind) == [number |-> n, kind |-> kind]
Data == {m \in pending : m.kind = "data"}

Init ==
  /\ pending = {}
  /\ next = 1
  /\ last = 0
  /\ open = "open"

AcceptControl ==
  /\ open = "open"
  /\ pending' = pending \cup {Message(next, "control")}
  /\ next' = next + 1
  /\ UNCHANGED <<last, open>>

AcceptData ==
  /\ open = "open"
  /\ \E lost \in SUBSET Data :
       /\ \A m \in lost, kept \in Data \ lost : m.number < kept.number
       /\ pending' = (pending \ lost) \cup {Message(next, "data")}
  /\ next' = next + 1
  /\ UNCHANGED <<last, open>>

Write ==
  /\ \E m \in pending :
       /\ \A other \in pending \ {m} : m.number < other.number
       /\ m.number > last
       /\ last' = m.number
       /\ pending' = pending \ {m}
  /\ UNCHANGED <<next, open>>

Flush ==
  /\ open = "open" /\ open' = "flushing"
  /\ UNCHANGED <<pending, next, last>>

Close ==
  /\ open # "closed" /\ open' = "closed"
  /\ pending' = {}
  /\ UNCHANGED <<next, last>>

Next == AcceptControl \/ AcceptData \/ Write \/ Flush \/ Close

Spec == Init /\ [][Next]_vars
=============================================================================
