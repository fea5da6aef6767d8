--------------------------- MODULE MCProjectLock ---------------------------
(***************************************************************************)
(* Instances of ProjectLock for TLC.                                       *)
(***************************************************************************)
EXTENDS ProjectLock, TLC

CONSTANTS t1, t2, t3, t4, p1, p2, p3, p4

(* Two calls in one process, the others alone in theirs ...                *)
MCHost == t1 :> p1 @@ t2 :> p1 @@ t3 :> p2 @@ t4 :> p3
MCHostSmall == t1 :> p1 @@ t2 :> p1 @@ t3 :> p2
(* ... or every call alone in its process.                                 *)
MCHostApart == t1 :> p1 @@ t2 :> p2 @@ t3 :> p3 @@ t4 :> p4

(* Every call whose failure the code handles.                              *)
MCFaulty == {"link", "openGuard", "writeGuard", "rename", "unlinkGuard", "recover",
             "unlinkTemp", "unlock"}

(* Of a call that has ended or died no step and no property reads where    *)
(* it was, but for a guard file it opened and never wrote.                 *)
Local(f) == [t \in {s \in Txn : Live(s)} |-> f[t]]
MCView ==
  <<[t \in Txn |-> IF Live(t) \/ (Alive(t) /\ pc[t] = "idle") THEN pc[t] ELSE "ended"],
    Local(gen), Local(tries), Local(outcome), Local(read),
    lock, guards, {g \in Generation : Blank(g)},
    {t \in ownerReleasable : Alive(t)}, {t \in guardReleasable : Alive(t)},
    {t \in temps : Live(t)}, {t \in overlapped : Live(t)}, dead, slipped>>
=============================================================================
