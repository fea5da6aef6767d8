-------------------------- MODULE MCRuntimeSocket --------------------------
(***************************************************************************)
(* Instances of RuntimeSocket for TLC.                                     *)
(***************************************************************************)
EXTENDS RuntimeSocket

(* What the counts and the histories hold is left out where no step and no *)
(* property of the run reads it any more: once the queues are closed, only *)
(* the outcome matters, and the clocks matter until the writer has left.   *)
MCView ==
  <<controlQueue, dataQueue, nextSequence, lastDataSequence, accepting, closed,
    life, gracefulRequested, threadVars, netVars,
    IF writer = "done" THEN <<>> ELSE clockVars,
    IF closed THEN <<FlushLosesNothing>> ELSE <<cause = "flushed", requestedAt>>>>
=============================================================================
