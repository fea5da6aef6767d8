---------------------------- MODULE UnityProofs ----------------------------
(***************************************************************************)
(* The Unity side of the bridge: the threads of one connection, and above  *)
(* them the stack of connections that carries the debug session.           *)
(*                                                                         *)
(* The threads of a RuntimeSocket use its queues as SendQueues allows, so  *)
(* that what is proved of the queues holds of the connection; a flush that *)
(* completes loses nothing accepted before it; and the writer keeps both   *)
(* limits of the heartbeat while it can write.  The tables of the session  *)
(* agree at every step of every operation, the wire on top of the stack is *)
(* one that serves, and an event that is admitted is one that the client   *)
(* of that wire can decode.  All of it for any number of threads,          *)
(* messages, links, instances and slots.                                   *)
(***************************************************************************)
EXTENDS DebugSession, RuntimeSocket, SendQueuesProofs, FiniteSetTheorems, TLAPS

---------------------------------------------------------------------------
(* The threads of a connection.                                            *)

(* Every step of the connection is a step of its queues or none of theirs.  *)
LEMMA StepOfQueues ==
  ASSUME [SocketNext]_socketVars
  PROVE  [QueueNext]_queueVars
<1>1. CASE End \/ Close
  BY <1>1 DEF End, EndQueues, EndStream, EndNotify, Close, QueueNext
<1>2. CASE \E s \in Thread : Send(s) \/ Enqueue(s)
  BY <1>2 DEF Send, Enqueue, PutControl, PutData, QueueNext
<1>3. CASE CloseGracefully \/ CloserStopsAccepting \/ CloserReturns
  BY <1>3 DEF CloseGracefully, CloserStopsAccepting, CloserReturns, QueueNext
<1>4. CASE Writer
  BY <1>4 DEF Writer, WriterDequeues, WriterWrites, WriterFails, CheckStopping,
     CheckGraceful, CountControl, CountData, WriterFlushed, Beat, BeatIdle, BeatChecks,
     BeatPings, WriterWakes, WriterTests, QueueNext
<1>5. CASE Receive \/ Reader
  BY <1>5 DEF Receive, Reader, ReaderPongs, ReaderEnds, PutControl, QueueNext
<1>6. CASE PeerTakes \/ PeerLeaves \/ Tick
  BY <1>6 DEF PeerTakes, PeerLeaves, Tick
<1>7. CASE UNCHANGED socketVars
  BY <1>7 DEF socketVars
<1> QED BY <1>1, <1>2, <1>3, <1>4, <1>5, <1>6, <1>7 DEF SocketNext

(* The connection sends in order, whatever its threads do: its queues are   *)
(* the two queues of SendQueues.                                           *)
THEOREM SocketUsesQueues == SocketSpec => QueueSpec
<1>1. SocketInit => QueueInit
  BY DEF SocketInit
<1> QED BY <1>1, StepOfQueues, PTL DEF SocketSpec, QueueSpec

THEOREM SocketSendsInOrder == SocketSpec => SendsInOrder
BY SocketUsesQueues, QueuesSendInOrder

(* Senders, writer and closer, in any order, keep the limits of the queues *)
(* and every message accounted for.                                        *)
THEOREM SocketAccounts == SocketSpec => [](DataBounded /\ Accounted)
BY SocketUsesQueues, DataBoundedCorrect, EveryMessageAccounted, PTL

---------------------------------------------------------------------------
(* A step of the queues brings no control message but the next.            *)
LEMMA QueueGrows ==
  ASSUME QueueIInv, [QueueNext]_queueVars
  PROVE  /\ nextSequence' \in Nat /\ nextSequence' >= nextSequence
         /\ \A i \in 1..Len(controlQueue') :
              \/ \E j \in 1..Len(controlQueue) : controlQueue'[i] = controlQueue[j]
              \/ controlQueue'[i].sequence = nextSequence
<1>0. /\ controlQueue \in Seq(Control) /\ Len(controlQueue) \in Nat
      /\ nextSequence \in Nat /\ lastDataSequence \in Nat
  BY Elements
<1>1. CASE EnqueueControl
  <2> DEFINE message == [sequence |-> nextSequence, barrier |-> lastDataSequence]
  <2>1. message \in Control /\ message.sequence = nextSequence
    BY <1>0 DEF Control
  <2>2. controlQueue' = Append(controlQueue, message) /\ nextSequence' = nextSequence + 1
    BY <1>1 DEF EnqueueControl
  <2> HIDE DEF message
  <2>3. /\ Len(controlQueue') = Len(controlQueue) + 1
        /\ \A i \in 1..Len(controlQueue) : controlQueue'[i] = controlQueue[i]
        /\ controlQueue'[Len(controlQueue) + 1] = message
    BY <1>0, <2>1, <2>2, AppendFacts
  <2> QED BY <1>0, <2>1, <2>2, <2>3
<1>2. CASE DequeueControl
  <2>1. controlQueue # <<>> /\ controlQueue' = Tail(controlQueue)
        /\ nextSequence' = nextSequence
    BY <1>2 DEF DequeueControl
  <2>2. controlQueue' = Suffix(controlQueue, 1) /\ 1 \in 0..Len(controlQueue)
    BY <1>0, <2>1, TailIsSuffix
  <2>3. /\ Len(controlQueue') = Len(controlQueue) - 1
        /\ \A i \in 1..(Len(controlQueue) - 1) :
             i + 1 \in 1..Len(controlQueue) /\ controlQueue'[i] = controlQueue[i + 1]
    BY <1>0, <2>2, SuffixFacts
  <2> QED BY <1>0, <2>1, <2>3
<1>3. CASE CloseQueues
  BY <1>0, <1>3 DEF CloseQueues
<1>4. CASE \/ \E size \in Size : EnqueueDebug(size)
           \/ DequeueDebug \/ StopAccepting \/ UNCHANGED queueVars
  <2>1. controlQueue' = controlQueue /\ nextSequence' \in {nextSequence, nextSequence + 1}
    BY <1>4 DEF EnqueueDebug, DequeueDebug, StopAccepting, queueVars
  <2> QED BY <1>0, <2>1
<1> QED BY <1>1, <1>2, <1>3, <1>4 DEF QueueNext, Dequeue

(* The inductive invariant: the writer that found the control queue empty   *)
(* after the request, and an end by flushing, see only younger messages.    *)
OnlyYounger ==
  /\ gracefulRequested
  /\ \A i \in 1..Len(controlQueue) : controlQueue[i].sequence >= requestedAt
FlushInv ==
  /\ requestedAt \in Nat
  /\ closer = "idle" => ~gracefulRequested
  /\ gracefulRequested => requestedAt <= nextSequence
  /\ writer = "countControl" => gracefulRequested
  /\ writer \in {"countData", "flushed"} \/ cause = "flushed" => OnlyYounger
  /\ life \in {"open", "stopping"} => lost = {}
  /\ FlushLosesNothing
SocketIInv == QueueIInv /\ FlushInv

LEMMA SocketInitial == SocketInit => SocketIInv
<1> SUFFICES ASSUME SocketInit
             PROVE  SocketIInv
  OBVIOUS
<1>1. QueueIInv
  BY QueueInitial DEF SocketInit
<1>2. requestedAt \in Nat
  BY CapacityAssumption DEF SocketInit
<1> QED BY <1>1, <1>2 DEF SocketIInv, SocketInit, FlushInv, FlushLosesNothing

(* A step that leaves the request alone keeps the queue young.             *)
LEMMA StaysYounger ==
  ASSUME SocketIInv, [QueueNext]_queueVars, UNCHANGED closeVars, OnlyYounger
  PROVE  OnlyYounger'
<1>1. gracefulRequested /\ gracefulRequested' = gracefulRequested
      /\ requestedAt' = requestedAt
  BY DEF OnlyYounger, closeVars
<1>2. requestedAt \in Nat /\ nextSequence \in Nat /\ requestedAt <= nextSequence
  BY <1>1, Elements DEF SocketIInv, FlushInv
<1>3. \A i \in 1..Len(controlQueue') :
        \/ \E j \in 1..Len(controlQueue) : controlQueue'[i] = controlQueue[j]
        \/ controlQueue'[i].sequence = nextSequence
  BY QueueGrows DEF SocketIInv
<1>4. \A j \in 1..Len(controlQueue) : controlQueue[j].sequence >= requestedAt
  BY DEF OnlyYounger
<1> QED BY <1>1, <1>2, <1>3, <1>4 DEF OnlyYounger

(* What a step does to the variables of the invariant, by kind of step.    *)
Quiet ==   \* nothing but the queues, the clocks and the peer
  /\ UNCHANGED <<closeVars, lost>>
  /\ closer' = closer \/ (closer # "idle" /\ closer' # "idle")
  /\ \/ UNCHANGED endVars
     \/ life = "open" /\ life' = "stopping" /\ cause' # "flushed"
     \/ life = "emptied" /\ life' = "disposed" /\ cause' = cause
     \/ life = "disposed" /\ life' = "notified" /\ cause' = cause
  /\ writer' = writer \/ writer' \notin {"countControl", "countData", "flushed"}
Request ==
  /\ closer = "idle" /\ closer' # "idle" /\ gracefulRequested'
  /\ requestedAt' = nextSequence
  /\ UNCHANGED <<queueVars, writer, endVars, lost>>
Flush ==
  /\ UNCHANGED <<queueVars, closeVars, closer, lost>>
  /\ \/ writer = "graceful" /\ gracefulRequested /\ writer' = "countControl"
        /\ UNCHANGED endVars
     \/ writer = "countControl" /\ controlQueue = <<>> /\ writer' = "countData"
        /\ UNCHANGED endVars
     \/ writer = "countData" /\ writer' = "flushed" /\ UNCHANGED endVars
     \/ writer = "flushed" /\ writer' = "done" /\ EndConnection("flushed")

LEMMA SocketStep ==
  ASSUME [SocketNext]_socketVars
  PROVE  Quiet \/ Request \/ Flush \/ EndQueues
<1>1. CASE End \/ Close
  BY <1>1 DEF End, EndStream, EndNotify, Close, EndConnection, stopping, Quiet,
     threadVars, closeVars, endVars
<1>2. CASE \E s \in Thread : Send(s) \/ Enqueue(s)
  BY <1>2 DEF Send, Enqueue, PutControl, EndConnection, stopping, Quiet, closeVars, endVars
<1>3. CASE CloseGracefully
  BY <1>3 DEF CloseGracefully, Request
<1>4. CASE CloserStopsAccepting \/ CloserReturns
  BY <1>4 DEF CloserStopsAccepting, CloserReturns, EndConnection, stopping, Quiet,
     closeVars, endVars
<1>5. CASE Writer
  <2>1. CASE WriterDequeues \/ WriterWrites \/ WriterFails
    BY <2>1 DEF WriterDequeues, WriterWrites, WriterFails, EndConnection, stopping,
       Quiet, closeVars, endVars
  <2>2. CASE CheckStopping \/ WriterWakes \/ BeatChecks
    BY <2>2 DEF CheckStopping, WriterWakes, BeatChecks, WriterTests, Quiet, closeVars, endVars
  <2>3. CASE CheckGraceful \/ CountControl \/ CountData
    BY <2>3 DEF CheckGraceful, CountControl, CountData, WriterTests, Quiet, Flush,
       closeVars, endVars
  <2>4. CASE WriterFlushed
    BY <2>4 DEF WriterFlushed, Flush, closeVars
  <2>5. CASE BeatIdle \/ BeatPings
    BY <2>5 DEF BeatIdle, BeatPings, EndConnection, stopping, Quiet, closeVars, endVars
  <2> QED BY <1>5, <2>1, <2>2, <2>3, <2>4, <2>5 DEF Writer, Beat
<1>6. CASE Receive \/ Reader
  BY <1>6 DEF Receive, Reader, ReaderPongs, ReaderEnds, PutControl, EndConnection,
     stopping, Quiet, closeVars, endVars
<1>7. CASE PeerTakes \/ PeerLeaves \/ Tick
  BY <1>7 DEF PeerTakes, PeerLeaves, Tick, Quiet, threadVars, closeVars, endVars
<1>8. CASE UNCHANGED socketVars
  BY <1>8 DEF socketVars, Quiet, threadVars, closeVars, endVars
<1> QED BY <1>1, <1>2, <1>3, <1>4, <1>5, <1>6, <1>7, <1>8 DEF SocketNext

LEMMA SocketInductive == SocketIInv /\ [SocketNext]_socketVars => SocketIInv'
<1> SUFFICES ASSUME SocketIInv, [SocketNext]_socketVars
             PROVE  SocketIInv'
  OBVIOUS
<1>1. [QueueNext]_queueVars
  BY StepOfQueues
<1>2. QueueIInv'
  BY <1>1, QueueInductive DEF SocketIInv
<1>3. nextSequence \in Nat /\ nextSequence' \in Nat /\ nextSequence' >= nextSequence
  BY <1>1, QueueGrows, Elements DEF SocketIInv
<1>4. CASE Quiet
  <2>1. requestedAt' = requestedAt /\ gracefulRequested' = gracefulRequested
    BY <1>4 DEF Quiet, closeVars
  <2>2. writer' \in {"countData", "flushed"} \/ cause' = "flushed" => OnlyYounger'
    <3>1. SUFFICES ASSUME writer' \in {"countData", "flushed"} \/ cause' = "flushed"
                   PROVE  OnlyYounger
      BY <1>1, <1>4, StaysYounger DEF Quiet
    <3> QED BY <3>1, <1>4 DEF Quiet, endVars, SocketIInv, FlushInv
  <2>3. FlushLosesNothing'
    BY <1>4, <2>1 DEF Quiet, endVars, SocketIInv, FlushInv, FlushLosesNothing
  <2>4. life' \in {"open", "stopping"} => lost' = {}
    BY <1>4 DEF Quiet, endVars, SocketIInv, FlushInv
  <2> QED BY <1>2, <1>3, <1>4, <2>1, <2>2, <2>3, <2>4 DEF Quiet, SocketIInv, FlushInv
<1>5. CASE Request
  <2>1. ~gracefulRequested
    BY <1>5 DEF Request, SocketIInv, FlushInv
  <2>2. writer \notin {"countControl", "countData", "flushed"} /\ cause # "flushed"
    BY <2>1 DEF SocketIInv, FlushInv, OnlyYounger
  <2>3. requestedAt' \in Nat /\ requestedAt' <= nextSequence'
    BY <1>3, <1>5 DEF Request, queueVars
  <2> QED BY <1>2, <1>5, <2>2, <2>3 DEF Request, endVars, SocketIInv, FlushInv, FlushLosesNothing
<1>6. CASE Flush
  <2>1. OnlyYounger => OnlyYounger'
    BY <1>1, <1>6, StaysYounger DEF Flush
  <2>2. controlQueue = <<>> /\ gracefulRequested => OnlyYounger
    BY DEF OnlyYounger
  <2>3. writer' \in {"countData", "flushed"} \/ cause' = "flushed" => OnlyYounger'
    BY <1>6, <2>1, <2>2 DEF Flush, EndConnection, endVars, SocketIInv, FlushInv
  <2>4. cause' = cause \/ lost' = {}
    BY <1>6 DEF Flush, EndConnection, stopping, endVars, SocketIInv, FlushInv
  <2>5. FlushLosesNothing'
    BY <1>6, <2>4 DEF Flush, closeVars, SocketIInv, FlushInv, FlushLosesNothing
  <2>6. life' \in {"open", "stopping"} => lost' = {}
    BY <1>6 DEF Flush, EndConnection, stopping, endVars, SocketIInv, FlushInv
  <2> QED BY <1>2, <1>3, <1>6, <2>3, <2>5, <2>6 DEF Flush, closeVars, SocketIInv, FlushInv
<1>7. CASE EndQueues
  <2>1. UNCHANGED <<cause, writer, closer, gracefulRequested, requestedAt, nextSequence>>
        /\ life' = "emptied" /\ controlQueue' = <<>>
        /\ lost' = {controlQueue[i].sequence : i \in 1..Len(controlQueue)}
    BY <1>7 DEF EndQueues, CloseQueues, threadVars, closeVars
  <2>2. cause = "flushed" => \A n \in lost' : n >= requestedAt
    BY <2>1 DEF SocketIInv, FlushInv, OnlyYounger
  <2>3. OnlyYounger => OnlyYounger'
    BY <1>1, <1>7, StaysYounger DEF EndQueues
  <2> QED BY <1>2, <2>1, <2>2, <2>3 DEF SocketIInv, FlushInv, FlushLosesNothing
<1> QED BY <1>4, <1>5, <1>6, <1>7, SocketStep

(* A completed flush loses no control message accepted before the request.  *)
THEOREM FlushComplete == SocketSpec => []FlushLosesNothing
<1>1. SocketIInv => FlushLosesNothing
  BY DEF SocketIInv, FlushInv
<1> QED BY <1>1, SocketInitial, SocketInductive, PTL DEF SocketSpec

---------------------------------------------------------------------------
(* Only HandleConnectionEnd closes the queues.                             *)
LEMMA OnlyEndCloses ==
  ASSUME [SocketNext]_socketVars, ~EndQueues
  PROVE  closed' = closed
<1> USE DEF EnqueueControl, EnqueueDebug, queueVars
<1>1. CASE EndStream \/ EndNotify \/ Close
  BY <1>1 DEF EndStream, EndNotify, Close
<1>2. CASE \E s \in Thread : Send(s) \/ Enqueue(s)
  BY <1>2 DEF Send, Enqueue, PutControl, PutData
<1>3. CASE CloseGracefully \/ CloserStopsAccepting \/ CloserReturns
  BY <1>3 DEF CloseGracefully, CloserStopsAccepting, CloserReturns, StopAccepting
<1>4. CASE Writer
  BY <1>4 DEF Writer, WriterDequeues, WriterWrites, WriterFails, CheckStopping,
     CheckGraceful, CountControl, CountData, WriterFlushed, Beat, BeatIdle, BeatChecks,
     BeatPings, WriterWakes, WriterTests, Dequeue, DequeueControl, DequeueDebug
<1>5. CASE Receive \/ Reader
  BY <1>5 DEF Receive, Reader, ReaderPongs, ReaderEnds, PutControl
<1>6. CASE PeerTakes \/ PeerLeaves \/ Tick
  BY <1>6 DEF PeerTakes, PeerLeaves, Tick
<1>7. CASE UNCHANGED socketVars
  BY <1>7 DEF socketVars
<1> QED BY <1>1, <1>2, <1>3, <1>4, <1>5, <1>6, <1>7 DEF SocketNext, End

(* Every step keeps the types of the connection's own variables.           *)
LEMMA TypesInductive ==
  ASSUME QueueIInv, SocketTypes, [SocketNext]_socketVars
  PROVE  SocketTypes'
<1> USE DEF SocketTypes, Life, stopping
<1>0. nextSequence \in 1..(MaxSequence + 1) /\ MaxSequence \in Nat
      /\ Window \in Nat /\ Interval \in Nat /\ IdleLimit \in Nat
  BY CapacityAssumption, HeartbeatAssumption DEF QueueIInv, QueueTypeOK
<1>a. 0 \in 0..(IdleLimit + 2) /\ 0 \in 0..(Interval + 1)
  BY <1>0
<1>b. unread < Window => unread + 1 \in 0..Window
  BY <1>0
<1>c. unread > 0 => unread - 1 \in 0..Window
  BY <1>0
<1>d. /\ ~(inAge > IdleLimit + 1) => inAge + 1 \in 0..(IdleLimit + 2)
      /\ ~(outAge > Interval) => outAge + 1 \in 0..(Interval + 1)
  BY <1>0
<1>1. CASE EndQueues
  <2>1. \A i \in 1..Len(controlQueue) : controlQueue[i].sequence \in 1..MaxSequence
    BY <1>0, Elements DEF QueueIInv, QueueTypeOK, QueueInv, Fresh
  <2> QED BY <1>1, <2>1 DEF EndQueues, CloseQueues, threadVars, clockVars, netVars, closeVars
<1> SUFFICES ASSUME ~EndQueues
             PROVE  SocketTypes'
  BY <1>1
<1>e. closed' = closed
  BY OnlyEndCloses
<1>2. CASE EndStream \/ EndNotify \/ Close
  BY <1>e, <1>2 DEF EndStream, EndNotify, Close, EndConnection, threadVars, clockVars, netVars,
     closeVars, endVars
<1>3. CASE \E s \in Thread : Send(s) \/ Enqueue(s)
  BY <1>e, <1>3 DEF Send, Enqueue, PutControl, EndConnection, clockVars, netVars, closeVars, endVars
<1>4. CASE CloseGracefully \/ CloserStopsAccepting \/ CloserReturns
  BY <1>e, <1>0, <1>4 DEF CloseGracefully, CloserStopsAccepting, CloserReturns, EndConnection,
     clockVars, netVars, closeVars, endVars
<1>5. CASE Writer
  <2>1. CASE WriterDequeues \/ WriterFails \/ WriterFlushed
    BY <1>e, <2>1 DEF WriterDequeues, WriterFails, WriterFlushed, EndConnection, clockVars,
       netVars, closeVars, endVars
  <2>4. CASE WriterWrites
    BY <1>e, <1>a, <1>b, <2>4 DEF WriterWrites, clockVars, netVars, closeVars, endVars
  <2>2. CASE \/ CheckStopping \/ CheckGraceful \/ CountControl \/ CountData
             \/ WriterWakes \/ BeatChecks
    BY <1>e, <2>2 DEF CheckStopping, CheckGraceful, CountControl, CountData, WriterWakes,
       BeatChecks, WriterTests, clockVars, netVars, closeVars, endVars
  <2>3. CASE BeatIdle
    BY <1>e, <2>3 DEF BeatIdle, EndConnection, clockVars, netVars, closeVars, endVars
  <2>5. CASE BeatPings
    BY <1>e, <1>a, <2>5 DEF BeatPings, clockVars, netVars, closeVars, endVars
  <2> QED BY <1>5, <2>1, <2>2, <2>3, <2>4, <2>5 DEF Writer, Beat
<1>6. CASE Receive
  BY <1>e, <1>a, <1>6 DEF Receive, EndConnection, clockVars, netVars, closeVars, endVars
<1>9. CASE Reader
  BY <1>e, <1>9 DEF Reader, ReaderPongs, ReaderEnds, PutControl, EndConnection, clockVars,
     netVars, closeVars, endVars
<1>7. CASE PeerTakes \/ PeerLeaves
  BY <1>e, <1>c, <1>7 DEF PeerTakes, PeerLeaves, threadVars, clockVars, netVars, closeVars,
     endVars
<1>10. CASE Tick
  <2>1. inAge' \in 0..(IdleLimit + 2) /\ outAge' \in 0..(Interval + 1)
    BY <1>d, <1>10 DEF Tick
  <2> QED BY <1>e, <1>10, <2>1 DEF Tick, netVars, closeVars, endVars
<1>8. CASE UNCHANGED socketVars
  BY <1>e, <1>8 DEF socketVars, threadVars, clockVars, netVars, closeVars, endVars
<1> QED BY <1>1, <1>2, <1>3, <1>4, <1>5, <1>6, <1>7, <1>8, <1>9, <1>10 DEF SocketNext, End

LEMMA TypesInitial == SocketInit => SocketTypes
<1>1. 0 \in 0..(IdleLimit + 2) /\ 0 \in 0..(Interval + 1) /\ 0 \in 0..Window
      /\ MaxSequence + 1 \in 1..(MaxSequence + 1)
  BY CapacityAssumption, HeartbeatAssumption
<1> QED BY <1>1 DEF SocketInit, QueueInit, SocketTypes, Life, stopping

(* SocketTypeOK, for any number of threads, messages and ticks.            *)
THEOREM SocketTypeCorrect == SocketSpec => []SocketTypeOK
<1>1. SocketInit => QueueIInv /\ SocketTypes
  BY TypesInitial, QueueInitial DEF SocketInit
<1>2. QueueIInv /\ SocketTypes /\ [SocketNext]_socketVars => QueueIInv' /\ SocketTypes'
  BY TypesInductive, StepOfQueues, QueueInductive
<1>3. QueueIInv /\ SocketTypes => SocketTypeOK
  BY DEF QueueIInv, SocketTypes, SocketTypeOK
<1> QED BY <1>1, <1>2, <1>3, PTL DEF SocketSpec

---------------------------------------------------------------------------
(* The heartbeat.  A writer that waits has just looked at both clocks:     *)
(* since then nobody but the writer has taken a message from the queues.   *)
Empty == controlQueue = <<>> /\ dataQueue = <<>>
BeatInv ==
  /\ writer = "done" => stopping
  /\ writer \in {"ping", "wait"} => inAge <= IdleLimit
  /\ writer = "wait" /\ Empty => outAge < Interval \/ stopping

LEMMA QueuesStayFull ==
  ASSUME QueueIInv, ~Empty,
         \/ EnqueueControl \/ \E size \in Size : EnqueueDebug(size)
         \/ StopAccepting \/ UNCHANGED queueVars
  PROVE  ~Empty'
<1>0. controlQueue \in Seq(Control) /\ dataQueue \in Seq(Debug)
      /\ nextSequence \in Nat /\ lastDataSequence \in Nat
  BY Elements
<1>1. CASE EnqueueControl
  <2> DEFINE message == [sequence |-> nextSequence, barrier |-> lastDataSequence]
  <2>1. message \in Control /\ controlQueue' = Append(controlQueue, message)
    BY <1>0, <1>1 DEF EnqueueControl, Control
  <2> HIDE DEF message
  <2>2. controlQueue' # <<>>
    BY <1>0, <2>1
  <2> QED BY <2>2 DEF Empty
<1>2. ASSUME NEW size \in Size, EnqueueDebug(size)
      PROVE  ~Empty'
  <2> DEFINE message == [sequence |-> nextSequence, size |-> size]
  <2>1. PICK k \in 0..Len(dataQueue) :
          dataQueue' = Append(Suffix(dataQueue, k), message)
    BY <1>2 DEF EnqueueDebug, Suffix
  <2>2. message \in Debug
    BY <1>0, <1>2 DEF Debug
  <2> HIDE DEF message
  <2>3. Suffix(dataQueue, k) \in Seq(Debug)
    BY <1>0, SuffixFacts
  <2> DEFINE rest == Suffix(dataQueue, k)
  <2> HIDE DEF rest
  <2>4. Append(rest, message) # <<>>
    BY <2>2, <2>3 DEF rest
  <2>5. dataQueue' # <<>>
    BY <2>1, <2>4 DEF rest
  <2> QED BY <2>5 DEF Empty
<1>3. CASE StopAccepting \/ UNCHANGED queueVars
  BY <1>3 DEF StopAccepting, queueVars, Empty
<1> QED BY <1>1, <1>2, <1>3

(* The steps of the writer, and those of all others.                       *)
LEMMA WriterStep ==
  ASSUME SocketTypes, BeatInv, Writer
  PROVE  BeatInv'
<1> USE DEF BeatInv, stopping
<1>0. 0 < Interval
  BY HeartbeatAssumption
<1>1. CASE WriterDequeues \/ WriterWrites \/ WriterFails \/ WriterFlushed
  BY <1>1 DEF WriterDequeues, WriterWrites, WriterFails, WriterFlushed, EndConnection, endVars
<1>2. CASE CheckStopping \/ CheckGraceful \/ CountControl \/ CountData \/ WriterWakes
  BY <1>2 DEF CheckStopping, CheckGraceful, CountControl, CountData, WriterWakes,
     WriterTests, endVars
<1>3. CASE BeatIdle
  BY <1>3 DEF BeatIdle, EndConnection, endVars
<1>4. CASE BeatChecks
  <2>1. Empty /\ ~PingDue => outAge < Interval
    BY HeartbeatAssumption DEF PingDue, Empty, SocketTypes
  <2> QED BY <1>4, <2>1 DEF BeatChecks, WriterTests, Empty, endVars, queueVars, clockVars
<1>5. CASE BeatPings
  BY <1>0, <1>5 DEF BeatPings
<1> QED BY <1>1, <1>2, <1>3, <1>4, <1>5 DEF Writer, Beat

LEMMA OtherStep ==
  ASSUME QueueIInv, SocketTypes, BeatInv, [SocketNext]_socketVars, ~Writer
  PROVE  BeatInv'
<1> USE DEF BeatInv, stopping
<1>1. CASE End \/ Close
  BY <1>1 DEF End, EndQueues, EndStream, EndNotify, Close, EndConnection, Empty, threadVars,
     clockVars, queueVars, endVars
<1>2. CASE PeerTakes \/ PeerLeaves \/ UNCHANGED socketVars
  BY <1>2 DEF PeerTakes, PeerLeaves, Empty, socketVars, threadVars, clockVars, queueVars,
     endVars
<1>3. CASE Tick
  BY <1>3 DEF Tick, Blocked, Busy, endVars
<1>4. CASE Receive
  BY HeartbeatAssumption, <1>4 DEF Receive, EndConnection, Empty, queueVars, endVars
<1>5. CASE \/ \E s \in Thread : Send(s) \/ Enqueue(s)
           \/ CloseGracefully \/ CloserStopsAccepting \/ CloserReturns \/ Reader
  <2>1. writer' = writer /\ UNCHANGED clockVars /\ (stopping => stopping')
    BY <1>5 DEF Send, Enqueue, CloseGracefully, CloserStopsAccepting, CloserReturns, Reader,
       ReaderPongs, ReaderEnds, PutControl, EndConnection, endVars, clockVars
  <2>2. \/ EnqueueControl \/ \E size \in Size : EnqueueDebug(size)
        \/ StopAccepting \/ UNCHANGED queueVars
    BY <1>5 DEF Send, Enqueue, CloseGracefully, CloserStopsAccepting, CloserReturns, Reader,
       ReaderPongs, ReaderEnds, PutControl, PutData
  <2>3. Empty' => Empty
    BY <2>2, QueuesStayFull
  <2> QED BY <2>1, <2>3 DEF clockVars
<1> QED BY <1>1, <1>2, <1>3, <1>4, <1>5 DEF SocketNext

LEMMA BeatInductive ==
  /\ SocketInit => QueueIInv /\ SocketTypes /\ BeatInv
  /\ QueueIInv /\ SocketTypes /\ BeatInv /\ [SocketNext]_socketVars
       => QueueIInv' /\ SocketTypes' /\ BeatInv'
<1>1. SocketInit => QueueIInv /\ SocketTypes /\ BeatInv
  BY TypesInitial, QueueInitial DEF SocketInit, BeatInv
<1>2. ASSUME QueueIInv, SocketTypes, BeatInv, [SocketNext]_socketVars
      PROVE  QueueIInv' /\ SocketTypes' /\ BeatInv'
  BY <1>2, TypesInductive, StepOfQueues, QueueInductive, WriterStep, OtherStep
<1> QED BY <1>1, <1>2

(* A step that lets a clock grow is a tick: of a writer that waits, is     *)
(* done, is blocked in the stream or busy.                                 *)
LEMMA ClocksGrow ==
  ASSUME SocketTypes, BeatInv, [SocketNext]_socketVars,
         inAge' > inAge \/ outAge' > outAge, ~stopping, ~Blocked
  PROVE  (writer = "wait" /\ Empty) \/ Busy
<1>0. inAge \in Nat /\ outAge \in Nat
  BY HeartbeatAssumption DEF SocketTypes
<1>1. CASE Tick
  BY <1>1 DEF Tick, BeatInv, Empty
<1>2. CASE Writer
  BY <1>0, <1>2 DEF Writer, WriterDequeues, WriterWrites, WriterFails, CheckStopping,
     CheckGraceful, CountControl, CountData, WriterFlushed, Beat, BeatIdle, BeatChecks,
     BeatPings, WriterWakes, WriterTests, clockVars
<1>3. CASE Receive
  BY <1>0, <1>3 DEF Receive
<1>4. CASE ~Tick /\ ~Writer /\ ~Receive
  <2>1. UNCHANGED clockVars
    BY <1>4 DEF SocketNext, End, EndQueues, EndStream, EndNotify, Close, Send, Enqueue,
       CloseGracefully, CloserStopsAccepting, CloserReturns, Reader, ReaderPongs,
       ReaderEnds, PeerTakes, PeerLeaves, socketVars
  <2> QED BY <1>0, <2>1 DEF clockVars
<1> QED BY <1>1, <1>2, <1>3, <1>4

(* SilenceEnds, for any limits: no tick finds the peer silent beyond the   *)
(* idle limit on a connection that still lives, but for a blocked write or *)
(* a writer that goes from message to message.                             *)
THEOREM SilenceNoticed == SocketSpec => SilenceEnds
<1>1. QueueIInv /\ SocketTypes /\ BeatInv /\ [SocketNext]_socketVars
        => [inAge' > inAge => inAge <= IdleLimit \/ stopping \/ Blocked \/ Busy]_socketVars
  BY ClocksGrow DEF BeatInv
<1> QED BY <1>1, BeatInductive, PTL DEF SocketSpec, SilenceEnds

(* SpeaksInTime, for any limits and any senders: the writer that can write *)
(* lets no tick pass after an interval of its own silence.                 *)
THEOREM PingInTime == SocketSpec => SpeaksInTime
<1>1. QueueIInv /\ SocketTypes /\ BeatInv /\ [SocketNext]_socketVars
        => [outAge' > outAge => outAge < Interval \/ stopping \/ Blocked]_socketVars
  BY ClocksGrow, HeartbeatAssumption DEF BeatInv, Busy
<1> QED BY <1>1, BeatInductive, PTL DEF SocketSpec, SpeaksInTime

---------------------------------------------------------------------------
(* A set of numbers has a least element, and a bounded one a greatest.     *)
LEMMA LeastExists ==
  ASSUME NEW S \in SUBSET Nat, S # {}
  PROVE  Least(S) \in S /\ \A t \in S : Least(S) <= t
BY LeastNumber DEF Least

(* A set of numbers that is bounded has a greatest element.                *)
LEMMA GreatestExists ==
  ASSUME NEW n \in Nat, NEW S \in SUBSET (0..n), S # {}
  PROVE  \E k \in S : \A j \in S : j <= k
<1> DEFINE T == {n - k : k \in S}
<1>0. \A k \in S : n - k \in Nat /\ k \in Nat
  OBVIOUS
<1>1. T \in SUBSET Nat /\ T # {}
  BY <1>0
<1>2. Least(T) \in T /\ \A t \in T : Least(T) <= t
  BY <1>1, LeastExists
<1>3. PICK k \in S : Least(T) = n - k
  BY <1>2
<1>4. ASSUME NEW j \in S PROVE j <= k
  <2>1. n - j \in T
    OBVIOUS
  <2>2. n - k <= n - j
    BY <1>2, <1>3, <2>1
  <2> QED BY <2>2
<1> QED BY <1>4

---------------------------------------------------------------------------
(* The tables of the session, and the operation that works on them.        *)
TableTypes ==
  /\ snap \in Slots /\ reg \in Slots /\ pending \in Slots
  /\ nextSlot \in 1..MaxSlot + 1 /\ replayPending \in BOOLEAN

Jobs == [op : {"none", "create", "finish", "attach"}, who : Instance \cup {NoInstance},
         by : Link \cup {NoOne}, todo : SUBSET Instance, all : BOOLEAN, again : BOOLEAN,
         pc : {"idle", "flush", "replay", "body", "sent", "finish", "unsent"},
         at : Instance \cup {NoInstance}]

(* The constants, with what the defined ones come to.                      *)
LEMMA Constants ==
  /\ MaxSlot \in Nat \ {0} /\ NoLink \notin Link /\ NoInstance \notin Instance /\ NoOne \notin Link
  /\ Slot = 1..MaxSlot /\ NoSlots \in [Slot -> {NoInstance}] /\ \A s \in Slot : NoSlots[s] = NoInstance
BY WireAssumption, SessionAssumption DEF Slot, NoSlots

(* A slot is reserved among those that are free, the old one if it is, and *)
(* otherwise at or above the cursor, which moves beyond it.                *)
LEMMA ReservedFacts ==
  ASSUME TableTypes, NEW s \in 0..MaxSlot
  PROVE  /\ ReservedSlot(s) \in 0..MaxSlot
         /\ NextAfter(s) \in 1..MaxSlot + 1 /\ nextSlot <= NextAfter(s)
         /\ ReservedSlot(s) # 0 =>
              /\ ReservedSlot(s) < NextAfter(s) /\ Free(ReservedSlot(s))
              /\ ReservedSlot(s) = s \/ nextSlot <= ReservedSlot(s)
         /\ s # 0 /\ Free(s) => ReservedSlot(s) = s
<1>0. MaxSlot \in Nat \ {0} /\ nextSlot \in 1..MaxSlot + 1
  BY Constants DEF TableTypes
<1>1. CASE Preferred(s)
  BY <1>0, <1>1 DEF Preferred, ReservedSlot, NextAfter, Slot
<1>2. CASE ~Preferred(s) /\ FreshSlots = {}
  BY <1>0, <1>2 DEF Preferred, ReservedSlot, NextAfter, Slot
<1>3. CASE ~Preferred(s) /\ FreshSlots # {}
  <2>1. FreshSlots \in SUBSET Nat /\ FreshSlots \subseteq {t \in 1..MaxSlot : t >= nextSlot /\ Free(t)}
    BY <1>0 DEF FreshSlots, Slot
  <2>2. Least(FreshSlots) \in FreshSlots
    BY <1>3, <2>1, LeastExists
  <2>3. ReservedSlot(s) = Least(FreshSlots)
    BY <1>3 DEF ReservedSlot
  <2>4. /\ ReservedSlot(s) \in 1..MaxSlot /\ nextSlot <= ReservedSlot(s) /\ Free(ReservedSlot(s))
        /\ ~(s # 0 /\ Free(s))
    <3>1. ReservedSlot(s) \in 1..MaxSlot /\ nextSlot <= ReservedSlot(s) /\ Free(ReservedSlot(s))
      BY <2>1, <2>2, <2>3
    <3>2. ~(s # 0 /\ Free(s))
      BY <1>0, <1>3 DEF Preferred, Slot
    <3> QED BY <3>1, <3>2
  <2>5. NextAfter(s) = ReservedSlot(s) + 1
    BY <1>0, <2>4 DEF NextAfter
  <2> QED BY <1>0, <2>4, <2>5
<1> QED BY <1>1, <1>2, <1>3

(* The cursor after a compaction lies above every registered slot.         *)
LEMMA AboveAllFacts ==
  ASSUME TableTypes
  PROVE  AboveAll \in 1..MaxSlot + 1 /\ \A i \in Instance : reg[i] < AboveAll
<1> DEFINE N == {n \in 1..MaxSlot + 1 : \A i \in Instance : reg[i] < n}
<1>0. MaxSlot \in Nat \ {0} /\ \A i \in Instance : reg[i] \in 0..MaxSlot
  BY Constants DEF TableTypes, Slots
<1>1. MaxSlot + 1 \in N /\ N \in SUBSET Nat
  BY <1>0
<1>2. Least(N) \in N
  BY <1>1, LeastExists
<1> QED BY <1>2 DEF AboveAll

(* The fields of a job that has just been made.                            *)
LEMMA IdleFacts ==
  /\ Idle \in Jobs /\ Idle.pc = "idle" /\ Idle.at = NoInstance /\ Idle.op = "none"
  /\ \A op \in {"create", "finish", "attach"}, who \in Instance \cup {NoInstance},
         by \in Link \cup {NoOne} :
       /\ Job(op, who, by) \in Jobs /\ Job(op, who, by).op = op /\ Job(op, who, by).who = who
       /\ Job(op, who, by).by = by /\ Job(op, who, by).at = NoInstance
<1>1. Idle \in Jobs
  BY DEF Jobs, Idle
<1>2. ASSUME NEW op \in {"create", "finish", "attach"}, NEW who \in Instance \cup {NoInstance},
             NEW by \in Link \cup {NoOne}
      PROVE  /\ Job(op, who, by) \in Jobs /\ Job(op, who, by).op = op
             /\ Job(op, who, by).who = who /\ Job(op, who, by).by = by
             /\ Job(op, who, by).at = Idle.at
  BY <1>1 DEF Job, Jobs
<1>3. Idle.pc = "idle" /\ Idle.at = NoInstance /\ Idle.op = "none"
  BY DEF Idle
<1> QED BY <1>1, <1>2, <1>3

(* How an operation begins: the tables stay or are wiped, and it goes on   *)
(* with a round of sends or its body, or ends.                             *)
LEMMA RoundFacts ==
  ASSUME NEW j, NEW p, NEW due, NEW again \in BOOLEAN, j \in Jobs,
         job' = FlushRound(j, p, due, again) \/ job' = AfterRounds(j)
  PROVE  /\ job' \in Jobs
         /\ \/ job'.pc = "flush"
            \/ job'.pc = "body" /\ j.op # "attach"
            \/ job' = Idle /\ j.op = "attach"
         /\ job' = Idle \/ (job'.op = j.op /\ job'.who = j.who /\ job'.by = j.by /\ job'.at = j.at)
<1>1. Idle \in Jobs
  BY IdleFacts
<1>2. CASE job' = AfterRounds(j)
  <2>1. CASE j.op = "attach"
    BY <1>1, <1>2, <2>1 DEF AfterRounds
  <2>2. CASE j.op # "attach"
    <3>1. job' = [j EXCEPT !.pc = "body", !.all = TRUE]
      BY <1>2, <2>2 DEF AfterRounds
    <3> QED BY <2>2, <3>1 DEF Jobs
  <2> QED BY <2>1, <2>2
<1>3. CASE job' = FlushRound(j, p, due, again) /\ job' # AfterRounds(j)
  <2>1. job' = [j EXCEPT !.pc = "flush", !.again = again, !.all = TRUE,
                         !.todo = {i \in Instance : p[i] # 0}]
    BY <1>3 DEF FlushRound
  <2> QED BY <2>1 DEF Jobs
<1> QED BY <1>2, <1>3

(* An operation begins with a job of its own, and its tables either stay or*)
(* are wiped whole.                                                        *)
LEMMA BeginFacts ==
  ASSUME TableTypes, NEW op \in {"create", "finish", "attach"}, NEW who \in Instance \cup {NoInstance},
         NEW by \in Link \cup {NoOne}, NEW on, Begin(op, who, by, on)
  PROVE  /\ job' \in Jobs /\ job'.pc \in {"idle", "flush", "body"}
         /\ job'.pc # "body" \/ (job'.op = op /\ op # "attach" /\ job'.who = who)
         /\ job'.at = NoInstance /\ (job' = Idle \/ job'.by = by)
         /\ UNCHANGED tableVars \/ Wipe
<1> DEFINE j == Job(op, who, by) up == on /\ IsConnected
<1>0. Refresh(j, up) /\ GateFree
  BY DEF Begin
<1>1. /\ j \in Jobs
      /\ j.op = op /\ j.who = who /\ j.by = by /\ j.at = NoInstance
  BY IdleFacts
<1> HIDE DEF j, up
<1>2. \/ \E again \in BOOLEAN : job' = FlushRound(j, pending', replayPending', again)
      \/ job' = [j EXCEPT !.pc = "body"] /\ op # "attach"
  BY <1>0, <1>1 DEF Refresh
<1>3. UNCHANGED tableVars \/ Wipe
  BY <1>0 DEF Refresh
<1>4. CASE \E again \in BOOLEAN : job' = FlushRound(j, pending', replayPending', again)
  BY <1>1, <1>3, <1>4, RoundFacts DEF Idle
<1>5. CASE job' = [j EXCEPT !.pc = "body"] /\ op # "attach"
  BY <1>1, <1>3, <1>5 DEF Jobs
<1> QED BY <1>2, <1>4, <1>5

---------------------------------------------------------------------------
(* The tables agree, and a replay that is not owed has left nothing out:   *)
(* what a replay still has to send is what is registered and not in the    *)
(* snapshot, or it knows that it has failed.                               *)
TablesInv ==
  /\ \A i \in Instance : snap[i] # 0 => reg[i] = snap[i]
  /\ \A i \in Instance : pending[i] # 0 => snap[i] = pending[i]
  /\ \A i, j \in Instance : i # j /\ reg[i] # 0 => reg[i] # reg[j]
  /\ \A i \in Instance : reg[i] < nextSlot
  /\ \A i \in finished : snap[i] = 0 /\ reg[i] = 0 /\ pending[i] = 0

ReplayInv ==
  /\ ~replayPending => \A i \in Instance : reg[i] # 0 => snap[i] # 0
  /\ job.pc = "replay" => job.todo \subseteq Unsent /\ (job.all => Unsent \subseteq job.todo)

SessionInv ==
  TableTypes /\ job \in Jobs /\ finished \subseteq Instance /\ TablesInv /\ ReplayInv

SlotsStay == \A i \in Instance : reg[i] # 0 /\ reg'[i] # 0 => reg'[i] = reg[i]

(* The types of the tables, read off at one instance.                      *)
LEMMA SlotTypes ==
  ASSUME TableTypes
  PROVE  /\ MaxSlot \in Nat \ {0} /\ nextSlot \in 1..MaxSlot + 1
         /\ \A i \in Instance : /\ snap[i] \in 0..MaxSlot /\ reg[i] \in 0..MaxSlot
                                /\ pending[i] \in 0..MaxSlot
BY Constants DEF TableTypes, Slots

(* An instance that is not in the snapshot gets its old slot back, or one  *)
(* that nobody has.                                                        *)
LEMMA OwnSlot ==
  ASSUME SessionInv, NEW i \in Instance, snap[i] = 0, ReservedSlot(reg[i]) # 0
  PROVE  /\ ReservedSlot(reg[i]) \in 1..MaxSlot /\ ReservedSlot(reg[i]) < NextAfter(reg[i])
         /\ NextAfter(reg[i]) \in 1..MaxSlot + 1 /\ nextSlot <= NextAfter(reg[i])
         /\ reg[i] # 0 => ReservedSlot(reg[i]) = reg[i]
         /\ reg[i] = 0 => nextSlot <= ReservedSlot(reg[i])
         /\ \A j \in Instance : j # i => reg[j] # ReservedSlot(reg[i])
<1>0. TableTypes /\ TablesInv
  BY DEF SessionInv
<1>1. /\ MaxSlot \in Nat \ {0} /\ nextSlot \in 1..MaxSlot + 1
      /\ \A j \in Instance : reg[j] \in 0..MaxSlot /\ snap[j] \in 0..MaxSlot
  BY <1>0, SlotTypes
<1> DEFINE s == ReservedSlot(reg[i])
<1>2. /\ s \in 0..MaxSlot /\ s < NextAfter(reg[i]) /\ nextSlot <= NextAfter(reg[i])
      /\ NextAfter(reg[i]) \in 1..MaxSlot + 1
      /\ s = reg[i] \/ nextSlot <= s
      /\ reg[i] # 0 /\ Free(reg[i]) => s = reg[i]
  BY <1>0, <1>1, ReservedFacts
<1>3. ASSUME reg[i] # 0 PROVE Free(reg[i])
  BY <1>0, <1>3 DEF TablesInv, Free
<1>4. \A j \in Instance : j # i => reg[j] # s
  <2>1. CASE reg[i] # 0
    BY <1>0, <1>2, <1>3, <2>1 DEF TablesInv
  <2>2. CASE reg[i] = 0
    <3>1. nextSlot <= s
      BY <1>2, <2>2
    <3>2. \A j \in Instance : reg[j] < nextSlot
      BY <1>0 DEF TablesInv
    <3> QED BY <1>1, <1>2, <3>1, <3>2
  <2> QED BY <2>1, <2>2
<1> QED BY <1>1, <1>2, <1>3, <1>4

(* What a step does to the tables: nothing, or they are wiped.             *)
LEMMA TablesStay ==
  ASSUME SessionInv, UNCHANGED <<tableVars, finished>>, job' \in Jobs, job'.pc # "replay"
  PROVE  SessionInv' /\ SlotsStay
BY DEF SessionInv, TableTypes, TablesInv, ReplayInv, SlotsStay, tableVars

(* Tables that were wiped agree.                                           *)
LEMMA TablesWiped ==
  ASSUME SessionInv, Wipe, finished' = finished, job' \in Jobs, job'.pc # "replay"
  PROVE  SessionInv' /\ SlotsStay
<1>0. /\ MaxSlot \in Nat \ {0} /\ Nowhere \in Slots /\ \A i \in Instance : Nowhere[i] = 0
  BY Constants DEF Nowhere, Slots
<1>1. TableTypes'
  <2>1. nextSlot' \in 1..MaxSlot + 1
    BY <1>0 DEF Wipe
  <2> QED BY <1>0, <2>1 DEF Wipe, TableTypes
<1>2. TablesInv' /\ ReplayInv' /\ SlotsStay
  BY <1>0 DEF Wipe, TablesInv, ReplayInv, SlotsStay, SessionInv
<1> QED BY <1>1, <1>2 DEF SessionInv

(* The steps of the session keep its tables in agreement: an operation     *)
(* begins, is detached, or reserves a slot.                                *)
LEMMA BeginKeeps ==
  ASSUME SessionInv, NEW op \in {"create", "finish", "attach"},
         NEW who \in Instance \cup {NoInstance}, NEW by \in Link \cup {NoOne}, NEW on,
         Begin(op, who, by, on), finished' = finished
  PROVE  SessionInv' /\ SlotsStay
<1>1. job' \in Jobs /\ job'.pc # "replay" /\ (UNCHANGED tableVars \/ Wipe)
  BY BeginFacts DEF SessionInv
<1> QED BY <1>1, TablesStay, TablesWiped

LEMMA DetachKeeps ==
  ASSUME SessionInv, NEW l \in Link, Detach(l)
  PROVE  SessionInv' /\ SlotsStay
<1>0. /\ WipeKeeping /\ job' = job /\ finished' = finished /\ job = Idle
      /\ Nowhere \in Slots /\ \A i \in Instance : Nowhere[i] = 0
  BY Constants DEF Detach, GateFree, Nowhere, Slots
<1>1. job'.pc # "replay"
  BY <1>0, IdleFacts
<1>2. AboveAll \in 1..MaxSlot + 1 /\ \A i \in Instance : reg[i] < AboveAll
  BY AboveAllFacts DEF SessionInv
<1>3. TableTypes'
  BY <1>0, <1>2 DEF WipeKeeping, TableTypes, SessionInv
<1>4. TablesInv' /\ SlotsStay
  BY <1>0, <1>2 DEF WipeKeeping, TablesInv, SlotsStay, SessionInv
<1>5. ReplayInv'
  BY <1>0, <1>1 DEF WipeKeeping, ReplayInv
<1> QED BY <1>0, <1>3, <1>4, <1>5 DEF SessionInv

(* One instance is published under its slot, or only registered under it.  *)
LEMMA PublishKeeps ==
  ASSUME SessionInv, NEW i \in Instance, snap[i] = 0, ReservedSlot(reg[i]) # 0,
         Publish(i, ReservedSlot(reg[i])),
         pending' = pending \/ pending' = [pending EXCEPT ![i] = ReservedSlot(reg[i])],
         replayPending' = replayPending, finished' \subseteq finished, i \notin finished',
         job' \in Jobs, job'.pc = "replay" => job'.todo = job.todo \ {i} /\ job'.all = job.all,
         job'.pc = "replay" => job.pc = "replay"
  PROVE  SessionInv' /\ SlotsStay
<1> DEFINE s == ReservedSlot(reg[i])
           c == NextAfter(reg[i])
<1>0. /\ MaxSlot \in Nat \ {0} /\ nextSlot \in 1..MaxSlot + 1
      /\ \A j \in Instance : reg[j] \in 0..MaxSlot /\ snap[j] \in 0..MaxSlot
      /\ TableTypes /\ TablesInv /\ ReplayInv /\ finished \subseteq Instance
  BY SlotTypes DEF SessionInv
<1>1. /\ s \in 1..MaxSlot /\ s < c /\ c \in 1..MaxSlot + 1 /\ nextSlot <= c
      /\ reg[i] # 0 => s = reg[i]
      /\ \A j \in Instance : j # i => reg[j] # s
  BY OwnSlot
<1> HIDE DEF s, c
<1>2. /\ snap' = [snap EXCEPT ![i] = s] /\ reg' = [reg EXCEPT ![i] = s] /\ nextSlot' = c
      /\ pending' = pending \/ pending' = [pending EXCEPT ![i] = s]
  BY DEF Publish, s, c
<1>3. /\ snap' \in Slots /\ reg' \in Slots /\ pending' \in Slots
      /\ snap'[i] = s /\ reg'[i] = s /\ (pending'[i] = pending[i] \/ pending'[i] = s)
      /\ \A j \in Instance : j # i => snap'[j] = snap[j] /\ reg'[j] = reg[j] /\ pending'[j] = pending[j]
  BY <1>0, <1>1, <1>2 DEF TableTypes, Slots
<1>4. TableTypes'
  BY <1>0, <1>1, <1>2, <1>3 DEF TableTypes
<1>5. pending[i] = 0
  BY <1>0 DEF TablesInv
<1>6. \A j \in Instance : snap'[j] # 0 => reg'[j] = snap'[j]
  BY <1>0, <1>3 DEF TablesInv
<1>7. \A j \in Instance : pending'[j] # 0 => snap'[j] = pending'[j]
  BY <1>0, <1>3, <1>5 DEF TablesInv
<1>8. \A j, k \in Instance : j # k /\ reg'[j] # 0 => reg'[j] # reg'[k]
  BY <1>0, <1>1, <1>3 DEF TablesInv
<1>9. \A j \in Instance : reg'[j] < nextSlot'
  <2>1. \A j \in Instance : reg[j] < c
    BY <1>0, <1>1 DEF TablesInv
  <2> QED BY <1>1, <1>2, <1>3, <2>1
<1>10. \A j \in finished' : snap'[j] = 0 /\ reg'[j] = 0 /\ pending'[j] = 0
  BY <1>0, <1>3 DEF TablesInv
<1>11. TablesInv'
  BY <1>6, <1>7, <1>8, <1>9, <1>10 DEF TablesInv
<1>12. ReplayInv'
  <2>1. ~replayPending' => \A j \in Instance : reg'[j] # 0 => snap'[j] # 0
    BY <1>0, <1>1, <1>3 DEF ReplayInv
  <2>2. Unsent' = Unsent \ {i}
    BY <1>0, <1>1, <1>3 DEF Unsent
  <2> QED BY <1>0, <2>1, <2>2 DEF ReplayInv
<1>13. SlotsStay
  BY <1>1, <1>3 DEF SlotsStay
<1> QED BY <1>0, <1>4, <1>11, <1>12, <1>13 DEF SessionInv

(* The description of a registered instance cannot be sent.                *)
LEMMA RegisteredAgain ==
  ASSUME SessionInv, NEW i \in Instance, snap[i] = 0,
         reg' = reg \/ (reg[i] # 0 /\ ReservedSlot(reg[i]) # 0 /\ reg' = [reg EXCEPT ![i] = ReservedSlot(reg[i])])
  PROVE  reg' = reg
<1>1. CASE reg[i] # 0 /\ ReservedSlot(reg[i]) # 0 /\ reg' = [reg EXCEPT ![i] = ReservedSlot(reg[i])]
  <2>1. ReservedSlot(reg[i]) = reg[i]
    BY <1>1, OwnSlot
  <2> QED BY <1>1, <2>1 DEF SessionInv, TableTypes, Slots
<1> QED BY <1>1

LEMMA CursorMoves ==
  ASSUME SessionInv, UNCHANGED <<snap, reg, pending, replayPending>>, finished' \subseteq finished,
         nextSlot' = nextSlot \/ \E i \in Instance : nextSlot' = NextAfter(reg[i]),
         job' \in Jobs,
         job'.pc = "replay" => job'.todo \subseteq Unsent /\ (job'.all => Unsent \subseteq job'.todo)
  PROVE  SessionInv' /\ SlotsStay
<1>0. /\ MaxSlot \in Nat \ {0} /\ nextSlot \in 1..MaxSlot + 1
      /\ \A j \in Instance : reg[j] \in 0..MaxSlot
      /\ TableTypes /\ TablesInv /\ ReplayInv /\ finished \subseteq Instance
  BY SlotTypes DEF SessionInv
<1>1. nextSlot' \in 1..MaxSlot + 1 /\ nextSlot <= nextSlot'
  BY <1>0, ReservedFacts
<1>2. \A j \in Instance : reg'[j] < nextSlot'
  BY <1>0, <1>1 DEF TablesInv
<1>3. TableTypes'
  BY <1>0, <1>1 DEF TableTypes
<1>4. TablesInv' /\ SlotsStay
  BY <1>0, <1>2 DEF TablesInv, SlotsStay
<1>5. ReplayInv'
  BY <1>0 DEF ReplayInv, Unsent
<1> QED BY <1>0, <1>3, <1>4, <1>5 DEF SessionInv

LEMMA DroppedKeeps ==
  ASSUME SessionInv, NEW i \in Instance, Dropped(i), UNCHANGED <<nextSlot, replayPending>>,
         job' \in Jobs, job'.pc # "replay"
  PROVE  SessionInv' /\ SlotsStay
<1>0. /\ MaxSlot \in Nat \ {0} /\ nextSlot \in 1..MaxSlot + 1
      /\ \A j \in Instance : reg[j] \in 0..MaxSlot
      /\ TableTypes /\ TablesInv /\ ReplayInv /\ finished \subseteq Instance
  BY SlotTypes DEF SessionInv
<1>1. /\ snap' \in Slots /\ reg' \in Slots /\ pending' \in Slots
      /\ snap'[i] = 0 /\ reg'[i] = 0 /\ pending'[i] = 0
      /\ \A j \in Instance : j # i => snap'[j] = snap[j] /\ reg'[j] = reg[j] /\ pending'[j] = pending[j]
  BY <1>0 DEF Dropped, Taken, TableTypes, Slots
<1>2. finished' = finished \cup {i}
  BY DEF Dropped
<1>3. TableTypes'
  BY <1>0, <1>1 DEF TableTypes
<1>4. \A j \in Instance : reg'[j] < nextSlot'
  BY <1>0, <1>1 DEF TablesInv
<1>5. TablesInv'
  BY <1>0, <1>1, <1>2, <1>4 DEF TablesInv
<1>6. ReplayInv' /\ SlotsStay
  BY <1>0, <1>1 DEF ReplayInv, SlotsStay
<1> QED BY <1>0, <1>2, <1>3, <1>5, <1>6 DEF SessionInv

LEMMA RoundDoneFacts ==
  ASSUME job \in Jobs, NEW due, job' = RoundDone(due)
  PROVE  job' \in Jobs /\ job'.pc # "replay"
<1>1. FALSE \in BOOLEAN
  OBVIOUS
<1>2. job' = FlushRound(job, pending, due, FALSE) \/ job' = AfterRounds(job)
  BY DEF RoundDone
<1>3. /\ job' \in Jobs
      /\ job'.pc = "flush" \/ job'.pc = "body" \/ job' = Idle
  BY <1>1, <1>2, RoundFacts
<1> QED BY <1>3, IdleFacts

LEMMA CreateBodyKeeps ==
  ASSUME SessionInv, NEW i \in Instance, CreateBody(i)
  PROVE  SessionInv' /\ SlotsStay
<1> DEFINE s == ReservedSlot(reg[i])
<1>0. job \in Jobs /\ job.pc = "body" /\ finished' = finished \ {i} /\ i \notin finished'
  BY DEF CreateBody, SessionInv
<1>1. ASSUME job' = Idle \/ job' = [job EXCEPT !.pc = "sent", !.at = i]
      PROVE  job' \in Jobs /\ job'.pc # "replay"
  <2>1. CASE job' = Idle
    BY <2>1, IdleFacts
  <2>2. CASE job' = [job EXCEPT !.pc = "sent", !.at = i]
    BY <1>0, <2>2 DEF Jobs
  <2> QED BY <1>1, <2>1, <2>2
<1>2. CASE CreateAgain(i)
  <2>1. UNCHANGED <<snap, reg, pending, replayPending, nextSlot>> /\ job' = Idle
    BY <1>2 DEF CreateAgain, tableVars
  <2> QED BY <1>0, <1>1, <2>1, CursorMoves
<1>3. CASE CreateNoSlot(i)
  <2>1. /\ UNCHANGED <<snap, reg, pending, replayPending>> /\ job' = Idle
        /\ nextSlot' = NextAfter(reg[i])
    BY <1>3 DEF CreateNoSlot
  <2> QED BY <1>0, <1>1, <2>1, CursorMoves
<1>4. CASE snap[i] = 0 /\ s # 0 /\ (CreateSent(i, s) \/ CreateKept(i, s))
  <2>1. /\ Publish(i, s) /\ replayPending' = replayPending
        /\ job' = Idle \/ job' = [job EXCEPT !.pc = "sent", !.at = i]
        /\ pending' = pending \/ pending' = [pending EXCEPT ![i] = s]
    BY <1>4 DEF CreateSent, CreateKept
  <2>2. job' \in Jobs /\ job'.pc # "replay"
    BY <1>1, <2>1
  <2>3. finished' \subseteq finished
    BY <1>0
  <2> HIDE DEF s
  <2> QED BY <1>0, <1>4, <2>1, <2>2, <2>3, PublishKeeps DEF s
<1>5. CASE snap[i] = 0 /\ s # 0 /\ CreateUnsent(i, s)
  <2>1. /\ reg' = reg \/ (reg[i] # 0 /\ reg' = [reg EXCEPT ![i] = s])
        /\ job' = Idle /\ UNCHANGED <<snap, pending, nextSlot, replayPending>>
    BY <1>5 DEF CreateUnsent
  <2>2. reg' = reg
    BY <1>5, <2>1, RegisteredAgain
  <2> QED BY <1>0, <1>1, <2>1, <2>2, CursorMoves
<1> QED BY <1>2, <1>3, <1>4, <1>5 DEF CreateBody

LEMMA ReplayOneKeeps ==
  ASSUME SessionInv, NEW i \in Instance, ReplayOne(i)
  PROVE  SessionInv' /\ SlotsStay
<1> DEFINE s == ReservedSlot(reg[i])
<1>0. /\ job \in Jobs /\ job.pc = "replay" /\ i \in job.todo
      /\ UNCHANGED <<pending, replayPending, finished>>
      /\ job.todo \subseteq Unsent /\ (job.all => Unsent \subseteq job.todo)
  BY DEF ReplayOne, SessionInv, ReplayInv, historyVars
<1>1. reg[i] # 0 /\ snap[i] = 0 /\ i \notin finished
  BY <1>0 DEF Unsent, SessionInv, TablesInv
<1>2. CASE s # 0 /\ Sends
  <2>1. /\ Publish(i, s) /\ job' = [job EXCEPT !.todo = @ \ {i}, !.at = i]
    BY <1>2 DEF ReplayOne, Publish
  <2>2. job' \in Jobs /\ job'.todo = job.todo \ {i} /\ job'.all = job.all
    BY <1>0, <2>1 DEF Jobs
  <2> HIDE DEF s
  <2> QED BY <1>0, <1>1, <1>2, <2>1, <2>2, PublishKeeps DEF s
<1>3. CASE ~(s # 0 /\ Sends)
  <2>1. /\ reg' = reg \/ (s # 0 /\ reg' = [reg EXCEPT ![i] = s])
        /\ nextSlot' = nextSlot \/ nextSlot' = NextAfter(reg[i])
        /\ job' = [job EXCEPT !.todo = @ \ {i}, !.all = FALSE] /\ snap' = snap
    BY <1>3 DEF ReplayOne
  <2>2. job' \in Jobs /\ job'.todo = job.todo \ {i} /\ ~job'.all
    BY <1>0, <2>1 DEF Jobs
  <2>3. reg' = reg
    BY <1>1, <2>1, RegisteredAgain
  <2> QED BY <1>0, <2>1, <2>2, <2>3, CursorMoves
<1> QED BY <1>2, <1>3

LEMMA StartReplayKeeps ==
  ASSUME SessionInv, StartReplay
  PROVE  SessionInv' /\ SlotsStay
<1>0. job \in Jobs /\ UNCHANGED tableVars /\ finished' = finished
  BY DEF StartReplay, SessionInv, sessionVars, historyVars
<1>1. CASE job' = RoundDone(replayPending)
  BY <1>0, <1>1, RoundDoneFacts, TablesStay
<1>2. CASE job' = [job EXCEPT !.pc = "replay", !.todo = Unsent]
  <2>1. job' \in Jobs /\ job'.todo = Unsent
    BY <1>0, <1>2 DEF Jobs, Unsent
  <2> QED BY <1>0, <2>1, CursorMoves DEF tableVars
<1> QED BY <1>1, <1>2 DEF StartReplay

LEMMA EndReplayKeeps ==
  ASSUME SessionInv, EndReplay
  PROVE  SessionInv' /\ SlotsStay
<1>0. /\ job \in Jobs /\ job.pc = "replay" /\ job.todo = {} /\ replayPending' = ~job.all
      /\ UNCHANGED <<snap, reg, pending, nextSlot, finished>> /\ job' = RoundDone(StillPending)
      /\ job.all => Unsent \subseteq job.todo
  BY DEF EndReplay, SessionInv, historyVars, StillPending, ReplayInv
<1>1. job' \in Jobs /\ job'.pc # "replay"
  BY <1>0, RoundDoneFacts
<1>2. replayPending' \in BOOLEAN
  BY <1>0
<1>3. TableTypes'
  BY <1>0, <1>2 DEF SessionInv, TableTypes
<1>4. ReplayInv'
  BY <1>0, <1>1 DEF ReplayInv, Unsent
<1> QED BY <1>0, <1>1, <1>3, <1>4 DEF SessionInv, TablesInv, SlotsStay

LEMMA FlushOneKeeps ==
  ASSUME SessionInv, NEW i \in Instance, FlushOne(i)
  PROVE  SessionInv' /\ SlotsStay
<1>0. /\ job \in Jobs /\ job.pc = "flush" /\ UNCHANGED <<snap, reg, nextSlot, replayPending, finished>>
      /\ pending' = pending \/ pending' = Taken(pending, i)
      /\ \/ job' = [job EXCEPT !.todo = @ \ {i}, !.at = i]
         \/ job' = [job EXCEPT !.todo = @ \ {i}]
  BY DEF FlushOne, SessionInv, historyVars
<1>1. job' \in Jobs /\ job'.pc # "replay"
  BY <1>0 DEF Jobs
<1>2. /\ pending' \in Slots
      /\ \A j \in Instance : pending'[j] = pending[j] \/ pending'[j] = 0
  <2>1. pending \in [Instance -> 0..MaxSlot] /\ 0 \in 0..MaxSlot
    BY Constants DEF SessionInv, TableTypes, Slots
  <2>2. CASE pending' = pending
    BY <2>1, <2>2 DEF Slots
  <2>3. CASE pending' = [pending EXCEPT ![i] = 0]
    BY <2>1, <2>3 DEF Slots
  <2> QED BY <1>0, <2>2, <2>3 DEF Taken
<1>3. TableTypes'
  BY <1>0, <1>2 DEF SessionInv, TableTypes
<1>4. TablesInv' /\ ReplayInv' /\ SlotsStay
  BY <1>0, <1>1, <1>2 DEF SessionInv, TablesInv, ReplayInv, SlotsStay
<1> QED BY <1>0, <1>1, <1>3, <1>4 DEF SessionInv

LEMMA FinishKeeps ==
  ASSUME SessionInv, NEW i \in Instance, FinishBody(i) \/ FinishSent(i) \/ FinishUnsent,
         slots \in [Slot -> Instance \cup {NoInstance}]
  PROVE  SessionInv' /\ SlotsStay
<1>0. job \in Jobs /\ UNCHANGED <<nextSlot, replayPending>>
  BY DEF SessionInv, FinishBody, FinishSent, FinishUnsent, sessionVars, tableVars
<1>1. \/ Dropped(i) /\ job' = Idle
      \/ UNCHANGED <<snap, reg, pending, finished>>
  BY DEF FinishBody, FinishSent, FinishUnsent, FinishLocally, FinishBegins, sessionVars,
         tableVars, historyVars
<1>2. \/ job' = Idle
      \/ job' = [job EXCEPT !.pc = "unsent"]
      \/ job' = [job EXCEPT !.pc = "finish", !.at = slots[snap[i]]] /\ snap[i] # 0
  BY DEF FinishBody, FinishSent, FinishUnsent, FinishLocally, FinishBegins
<1>3. job' \in Jobs /\ job'.pc # "replay"
  <2>1. CASE job' = Idle
    BY <2>1, IdleFacts
  <2>2. CASE job' = [job EXCEPT !.pc = "unsent"]
    BY <1>0, <2>2 DEF Jobs
  <2>3. CASE job' = [job EXCEPT !.pc = "finish", !.at = slots[snap[i]]] /\ snap[i] # 0
    <3>1. snap[i] \in Slot
      BY <2>3, SlotTypes DEF SessionInv, Slot
    <3> QED BY <1>0, <2>3, <3>1 DEF Jobs
  <2> QED BY <1>2, <2>1, <2>2, <2>3
<1>4. CASE Dropped(i)
  BY <1>0, <1>3, <1>4, DroppedKeeps
<1>5. CASE UNCHANGED <<snap, reg, pending, finished>>
  BY <1>0, <1>3, <1>5, CursorMoves
<1> QED BY <1>1, <1>4, <1>5

LEMMA EnterSlotKeeps ==
  ASSUME SessionInv, EnterSlot
  PROVE  SessionInv' /\ SlotsStay
<1>0. job \in Jobs /\ UNCHANGED <<snap, reg, pending, nextSlot, replayPending, finished>>
  BY DEF EnterSlot, SessionInv, sessionVars, tableVars, historyVars
<1>1. CASE job' = Idle
  BY <1>0, <1>1, IdleFacts, CursorMoves
<1>2. CASE job' = [job EXCEPT !.at = NoInstance]
  <2>1. job' \in Jobs /\ job'.pc = job.pc /\ job'.todo = job.todo /\ job'.all = job.all
    BY <1>0, <1>2 DEF Jobs
  <2> QED BY <1>0, <2>1, CursorMoves DEF SessionInv, ReplayInv
<1> QED BY <1>1, <1>2 DEF EnterSlot

LEMMA NothingMoves ==
  ASSUME SessionInv, UNCHANGED <<tableVars, finished, job>>
  PROVE  SessionInv' /\ SlotsStay
BY DEF SessionInv, TableTypes, TablesInv, ReplayInv, SlotsStay, tableVars, Unsent

(* Every step of the system keeps the tables of the session in agreement,  *)
(* and none moves an instance to another slot.                             *)
LEMMA SessionStep ==
  ASSUME SessionInv, slots \in [Slot -> Instance \cup {NoInstance}], SessionNext
  PROVE  SessionInv' /\ SlotsStay
<1>0. /\ NoOne \in Link \cup {NoOne} /\ NoInstance \in Instance \cup {NoInstance}
      /\ TRUE \in BOOLEAN
  OBVIOUS
<1>1. ASSUME NEW i \in Instance, Create(i) PROVE SessionInv' /\ SlotsStay
  BY <1>1, BeginKeeps DEF Create, historyVars
<1>2. ASSUME NEW i \in Instance, Finish(i) PROVE SessionInv' /\ SlotsStay
  BY <1>2, BeginKeeps DEF Finish, historyVars
<1>3. ASSUME NEW l \in Link, Attach(l) PROVE SessionInv' /\ SlotsStay
  BY <1>3, BeginKeeps DEF Attach, historyVars
<1>4. CASE AttachAgain
  BY <1>0, <1>4, BeginKeeps DEF AttachAgain, historyVars
<1>5. CASE Install
  BY <1>5, TablesWiped, IdleFacts DEF Install, GateFree, historyVars
<1>6. ASSUME NEW l \in Link, Wires(l) \/ AttachIdle(l) PROVE SessionInv' /\ SlotsStay
  BY <1>6, NothingMoves DEF Wires, AttachIdle, sessionVars, historyVars
<1>7. CASE \E on \in BOOLEAN : SetEnabled(on)
  BY <1>7, NothingMoves DEF SetEnabled, sessionVars, historyVars
<1>8. CASE \E i \in Instance : FinishBody(i) \/ FinishSent(i)
  BY <1>8, FinishKeeps
<1>9. CASE \E i \in Instance : FlushOne(i) \/ ReplayOne(i) \/ CreateBody(i)
  BY <1>9, FlushOneKeeps, ReplayOneKeeps, CreateBodyKeeps
<1>10. CASE EnterSlot \/ StartReplay \/ EndReplay
  BY <1>10, EnterSlotKeeps, StartReplayKeeps, EndReplayKeeps
<1>11. ASSUME FinishUnsent PROVE SessionInv' /\ SlotsStay
  <2>1. UNCHANGED <<tableVars, finished>> /\ job' = Idle
    BY <1>11 DEF FinishUnsent, sessionVars, historyVars
  <2> QED BY <2>1, IdleFacts, TablesStay
<1>12. ASSUME NEW l \in Link, Detach(l) PROVE SessionInv' /\ SlotsStay
  BY <1>12, DetachKeeps
<1> QED BY <1>1, <1>2, <1>3, <1>4, <1>5, <1>6, <1>7, <1>8, <1>9, <1>10, <1>11, <1>12
        DEF SessionNext, Operation, Settling

(* The wires keep their types: the transport's steps, and the few of their *)
(* variables that the session writes.                                      *)
LEMMA ActiveFacts ==
  ASSUME stack \in Seq(Link)
  PROVE  /\ stack = <<>> => Active = NoLink /\ ~ActiveOpen
         /\ stack # <<>> => /\ Len(stack) \in 1..Len(stack) /\ Active = stack[Len(stack)]
                            /\ Active \in Link /\ Stacked(Active)
         /\ \A k \in 1..Len(stack) : stack[k] \in Link
         /\ Len(stack) \in Nat
BY DEF Active, ActiveOpen, Stacked

LEMMA OpenDepthFacts ==
  ASSUME stack \in Seq(Link)
  PROVE  /\ OpenDepth \in Nat /\ (OpenDepth = 0 \/ OpenDepth <= Len(stack) - 1)
         /\ OpenDepth # 0 => open[stack[OpenDepth]]
         /\ \A k \in 1..Len(stack) - 1 : open[stack[k]] => k <= OpenDepth
<1> DEFINE alive == {k \in 1..Len(stack) - 1 : open[stack[k]]}
<1>0. Len(stack) \in Nat
  OBVIOUS
<1>1. CASE alive = {}
  BY <1>0, <1>1 DEF OpenDepth
<1>2. CASE alive # {}
  <2>1. alive \in SUBSET (0..Len(stack))
    BY <1>0
  <2>2. \E k \in alive : \A j \in alive : j <= k
    BY <1>0, <1>2, <2>1, GreatestExists
  <2>3. OpenDepth \in alive /\ \A j \in alive : j <= OpenDepth
    BY <1>2, <2>2 DEF OpenDepth
  <2> QED BY <1>0, <2>3
<1> QED BY <1>1, <1>2

LEMMA RemovedFacts ==
  ASSUME NEW S, NEW q \in Seq(S), NEW k \in 1..Len(q)
  PROVE  /\ RemoveAt(q, k) \in Seq(S) /\ Len(RemoveAt(q, k)) = Len(q) - 1
         /\ \A j \in 1..k - 1 : RemoveAt(q, k)[j] = q[j]
         /\ \A j \in k..Len(q) - 1 : RemoveAt(q, k)[j] = q[j + 1]
<1> DEFINE a == SubSeq(q, 1, k - 1)
           b == SubSeq(q, k + 1, Len(q))
<1>0. Len(q) \in Nat /\ k \in 1..Len(q)
  OBVIOUS
<1>1. a \in Seq(S) /\ Len(a) = k - 1 /\ \A j \in 1..k - 1 : a[j] = q[j]
  BY <1>0
<1>2. b \in Seq(S) /\ Len(b) = Len(q) - k /\ \A j \in 1..Len(q) - k : b[j] = q[k + j]
  BY <1>0
<1>3. RemoveAt(q, k) = a \o b
  BY DEF RemoveAt
<1> HIDE DEF a, b
<1>4. /\ a \o b \in Seq(S) /\ Len(a \o b) = Len(q) - 1
      /\ \A j \in 1..Len(q) - 1 : (a \o b)[j] = IF j <= k - 1 THEN a[j] ELSE b[j - (k - 1)]
  <2>1. /\ a \o b \in Seq(S) /\ Len(a \o b) = Len(a) + Len(b)
        /\ \A j \in 1..Len(a) + Len(b) :
             (a \o b)[j] = IF j <= Len(a) THEN a[j] ELSE b[j - Len(a)]
    BY <1>1, <1>2, ConcatProperties
  <2>2. Len(a) + Len(b) = Len(q) - 1 /\ Len(a) = k - 1
    BY <1>0, <1>1, <1>2
  <2> QED BY <2>1, <2>2
<1>5. ASSUME NEW j \in 1..k - 1 PROVE RemoveAt(q, k)[j] = q[j]
  BY <1>0, <1>1, <1>3, <1>4
<1>6. ASSUME NEW j \in k..Len(q) - 1 PROVE RemoveAt(q, k)[j] = q[j + 1]
  <2>1. j - (k - 1) \in 1..Len(q) - k /\ k + (j - (k - 1)) = j + 1
    BY <1>0
  <2> QED BY <1>0, <1>2, <1>3, <1>4, <2>1
<1> QED BY <1>3, <1>4, <1>5, <1>6

(* The session writes three of the variables of the wires: the slot table, *)
(* the stage of the link whose handler it returns to, and the end of the   *)
(* link it was detached for.                                               *)
SlotTable == slots \in [Slot -> Instance \cup {NoInstance}]

Touches ==
  /\ UNCHANGED <<open, previous, restored, stack, sub, archive, owner, missed>>
  /\ \/ stage' = stage
     \/ \E l \in Link : stage[l] = "bound" /\ stage' = [stage EXCEPT ![l] = "attached"]
  /\ \/ closing' = closing
     \/ \E l \in Link : closing[l] = "detach" /\ closing' = [closing EXCEPT ![l] = "gone"]
  /\ SlotTable'

CallerInv == job.by # NoOne => job.by \in Link /\ stage[job.by] = "bound"

LEMMA ReturnsTouches ==
  ASSUME stage \in [Link -> {"new", "pushed", "bound", "attached", "watched"}],
         NEW j \in Jobs, j.by # NoOne => j.by \in Link /\ stage[j.by] = "bound",
         job' = Idle \/ job'.by = j.by, Returns(j)
  PROVE  /\ \/ stage' = stage
            \/ \E l \in Link : stage[l] = "bound" /\ stage' = [stage EXCEPT ![l] = "attached"]
         /\ CallerInv'
<1>0. Idle.by = NoOne
  BY DEF Idle
<1>1. CASE j.by # NoOne /\ job' = Idle
  <2>1. j.by \in Link /\ stage[j.by] = "bound" /\ stage' = [stage EXCEPT ![j.by] = "attached"]
    BY <1>1 DEF Returns
  <2> QED BY <1>0, <1>1, <2>1 DEF CallerInv
<1>2. CASE ~(j.by # NoOne /\ job' = Idle)
  <2>1. stage' = stage
    BY <1>2 DEF Returns
  <2> QED BY <1>0, <1>2, <2>1 DEF CallerInv
<1> QED BY <1>1, <1>2

LEMMA BeginTouches ==
  ASSUME WireTypeOK, SessionInv, NEW op \in {"create", "finish", "attach"},
         NEW who \in Instance \cup {NoInstance}, NEW by \in Link \cup {NoOne}, NEW on,
         by # NoOne => stage[by] = "bound",
         Begin(op, who, by, on), UNCHANGED <<quietVars, wireVars>>
  PROVE  Touches /\ CallerInv'
<1>1. /\ Job(op, who, by) \in Jobs /\ Job(op, who, by).by = by
      /\ job' = Idle \/ job'.by = by
  BY IdleFacts, BeginFacts DEF SessionInv
<1>2. Returns(Job(op, who, by))
  BY DEF Begin, Refresh
<1>3. /\ \/ stage' = stage
         \/ \E l \in Link : stage[l] = "bound" /\ stage' = [stage EXCEPT ![l] = "attached"]
      /\ CallerInv'
  BY <1>1, <1>2, ReturnsTouches, Constants DEF WireTypeOK
<1> QED BY <1>3 DEF Touches, quietVars, wireVars, WireTypeOK, SlotTable

LEMMA BodyTouches ==
  ASSUME WireTypeOK, SessionInv, CallerInv, NEW i \in Instance,
         FlushOne(i) \/ ReplayOne(i) \/ CreateBody(i) \/ FinishBody(i) \/ FinishSent(i)
           \/ EnterSlot \/ FinishUnsent
  PROVE  Touches /\ CallerInv'
<1>0. job \in Jobs /\ Idle.by = NoOne /\ SlotTable
  BY DEF SessionInv, Idle, WireTypeOK, SlotTable
<1>1. UNCHANGED <<open, stage, closing, previous, restored, stack, sub, archive, owner, missed>>
  BY DEF FlushOne, ReplayOne, CreateBody, FinishBody, FinishSent, EnterSlot, FinishUnsent,
         FinishLocally, FinishBegins, linkVars, wireVars
<1>2. SlotTable'
  <2>1. job.at \in Instance \cup {NoInstance}
    BY <1>0 DEF Jobs
  <2>2. CASE EnterSlot \/ FinishUnsent
    BY <1>0, <2>1, <2>2 DEF EnterSlot, FinishUnsent, SlotTable
  <2>3. CASE FinishBody(i)
    BY <1>0, <2>3 DEF FinishBody, FinishLocally, FinishBegins, wireVars, SlotTable
  <2>4. CASE FlushOne(i) \/ ReplayOne(i) \/ CreateBody(i) \/ FinishSent(i)
    BY <1>0, <2>4 DEF FlushOne, ReplayOne, CreateBody, FinishSent, wireVars, SlotTable
  <2> QED BY <2>2, <2>3, <2>4
<1>3. job' = Idle \/ job'.by = job.by
  BY <1>0 DEF FlushOne, ReplayOne, CreateBody, CreateAgain, CreateNoSlot, CreateSent, CreateUnsent,
     CreateKept, FinishBody, FinishLocally, FinishBegins, FinishSent, EnterSlot, FinishUnsent, Jobs
<1> QED BY <1>0, <1>1, <1>2, <1>3 DEF Touches, CallerInv

(* The slot tables of the transport, live and archived.                    *)
LEMMA Tables ==
  ASSUME WireTypeOK
  PROVE  /\ NoSlots \in [Slot -> Instance \cup {NoInstance}]
         /\ \A m \in Link : archive[m] \in [Slot -> Instance \cup {NoInstance}]
         /\ stack \in Seq(Link) /\ Len(stack) \in Nat
BY Constants DEF WireTypeOK

(* What the end of the wire on top leaves.                                 *)
LEMMA PopFacts ==
  ASSUME WireTypeOK, NEW l \in Link, PopActive(l)
  PROVE  /\ OpenDepth \in Nat /\ (OpenDepth = 0 \/ OpenDepth <= Len(stack) - 1)
         /\ stack' \in Seq(Link) /\ Len(stack') = OpenDepth
         /\ \A k \in 1..OpenDepth : stack'[k] = stack[k] /\ stack[k] \in Link
         /\ OpenDepth # 0 => /\ stack # <<>> /\ open[stack[OpenDepth]]
                             /\ Active' = stack[OpenDepth] /\ stack[OpenDepth] \in Link
                             /\ restored' = [restored EXCEPT ![l] = stack[OpenDepth]]
                             /\ slots' = archive[stack[OpenDepth]] /\ owner' = owner
         /\ OpenDepth = 0 => /\ stack' = <<>> /\ restored' = [restored EXCEPT ![l] = NoLink]
                             /\ slots' = NoSlots /\ owner' = NoLink
<1>0. stack \in Seq(Link) /\ Len(stack) \in Nat /\ \A k \in 1..Len(stack) : stack[k] \in Link
  BY Tables
<1>1. /\ OpenDepth \in Nat /\ (OpenDepth = 0 \/ OpenDepth <= Len(stack) - 1)
      /\ OpenDepth # 0 => open[stack[OpenDepth]]
  BY <1>0, OpenDepthFacts
<1> DEFINE n == OpenDepth
<1>2. /\ stack' = SubSeq(stack, 1, n)
      /\ slots' = RestoredSlots(n) /\ owner' = (IF n = 0 THEN NoLink ELSE owner)
      /\ restored' = [restored EXCEPT ![l] = IF n = 0 THEN NoLink ELSE stack[n]]
  BY DEF PopActive
<1> HIDE DEF n
<1>3. n \in Nat /\ (n = 0 \/ n <= Len(stack) - 1) /\ \A i \in 1..n : stack[i] \in Link
  BY <1>0, <1>1 DEF n
<1>4. /\ SubSeq(stack, 1, n) \in Seq(Link)
      /\ Len(SubSeq(stack, 1, n)) = IF 1 <= n THEN n - 1 + 1 ELSE 0
      /\ \A i \in 1..n - 1 + 1 : SubSeq(stack, 1, n)[i] = stack[1 + i - 1]
  BY <1>3, SubSeqProperties
<1>5. stack' \in Seq(Link) /\ Len(stack') = n /\ \A k \in 1..n : stack'[k] = stack[k]
  BY <1>2, <1>3, <1>4
<1>6. CASE n = 0
  BY <1>1, <1>2, <1>5, <1>6 DEF n, RestoredSlots
<1>7. CASE n # 0
  <2>1. stack' # <<>> /\ n \in 1..n /\ n \in 1..Len(stack)
    BY <1>3, <1>5, <1>7
  <2>2. Active' = stack[n]
    BY <1>5, <2>1 DEF Active
  <2> QED BY <1>0, <1>1, <1>2, <1>3, <1>5, <1>7, <2>1, <2>2 DEF n, RestoredSlots
<1> QED BY <1>6, <1>7

LEMMA PushTypes ==
  ASSUME WireTypeOK, NEW l \in Link, BindPush(l)
  PROVE  WireTypeOK'
<1>0. Active \in Link \cup {NoLink} /\ (stack # <<>> => Active \in Link)
  BY Tables, ActiveFacts
<1>1. /\ stack' \in Seq(Link) /\ slots' \in [Slot -> Instance \cup {NoInstance}]
      /\ owner' \in Link \cup {NoLink}
  BY Tables DEF BindPush, WireTypeOK
<1>2. archive' \in [Link -> [Slot -> Instance \cup {NoInstance}]]
  BY <1>0 DEF BindPush, WireTypeOK
<1>3. previous' \in [Link -> Link \cup {NoLink}]
  BY <1>0 DEF BindPush, WireTypeOK
<1> QED BY <1>1, <1>2, <1>3 DEF BindPush, WireTypeOK

LEMMA SubTypes ==
  ASSUME sub \in [Link -> Nat], NEW l \in Link \cup {NoLink}
  PROVE  /\ Unsubscribed(l) \in [Link -> Nat]
         /\ l \in Link => Subscribed(l) \in [Link -> Nat]
<1>3. ASSUME l \in Link PROVE Subscribed(l) \in [Link -> Nat]
  BY <1>3 DEF Subscribed
<1>1. CASE l = NoLink \/ sub[l] = 0
  <2>1. Unsubscribed(l) = sub
    BY <1>1 DEF Unsubscribed
  <2> QED BY <2>1, <1>3
<1>2. CASE l # NoLink /\ sub[l] # 0
  <2>0. l \in Link
    BY <1>2
  <2>1. sub[l] \in Nat /\ sub[l] - 1 \in Nat
    BY <1>2, <2>0
  <2>2. Unsubscribed(l) = [sub EXCEPT ![l] = sub[l] - 1]
    BY <1>2 DEF Unsubscribed
  <2>3. Unsubscribed(l) \in [Link -> Nat]
    BY <2>1, <2>2
  <2> QED BY <2>3, <1>3
<1> QED BY <1>1, <1>2, <1>3

LEMMA SubscribeTypes ==
  ASSUME WireTypeOK, NEW l \in Link, BindSubscribe(l) \/ SubscribeRestored(l)
  PROVE  WireTypeOK'
<1>0. previous[l] \in Link \cup {NoLink} /\ restored[l] \in Link \cup {NoLink}
  BY DEF WireTypeOK
<1>1. CASE BindSubscribe(l)
  <2> DEFINE left == Unsubscribed(previous[l])
  <2>1. left \in [Link -> Nat]
    BY <1>0, SubTypes DEF WireTypeOK
  <2>2. sub' = IF Stacked(l) THEN [left EXCEPT ![l] = @ + 1] ELSE left
    BY <1>1 DEF BindSubscribe
  <2> HIDE DEF left
  <2>3. sub' \in [Link -> Nat]
    BY <2>1, <2>2
  <2> QED BY <1>1, <2>3 DEF BindSubscribe, WireTypeOK
<1>2. CASE SubscribeRestored(l)
  <2>1. sub' \in [Link -> Nat]
    BY <1>0, <1>2, SubTypes DEF SubscribeRestored, WireTypeOK
  <2> QED BY <1>2, <2>1 DEF SubscribeRestored, WireTypeOK
<1> QED BY <1>1, <1>2

LEMMA ClosedTypes ==
  ASSUME WireTypeOK, NEW l \in Link, OnWireClosed(l)
  PROVE  WireTypeOK'
<1>0. closing' \in [Link -> {"no", "check", "detach", "gone"}]
  BY DEF OnWireClosed, Notify, AfterPop, WireTypeOK
<1>1. CASE PopActive(l)
  <2>1. stack' \in Seq(Link) /\ owner' \in Link \cup {NoLink}
    BY <1>1, PopFacts DEF WireTypeOK
  <2>4. restored' \in [Link -> Link \cup {NoLink}]
    BY <1>1, PopFacts DEF WireTypeOK
  <2>5. slots' \in [Slot -> Instance \cup {NoInstance}]
    BY <1>1, PopFacts, Tables
  <2>2. archive' \in [Link -> [Slot -> Instance \cup {NoInstance}]]
    BY <1>1, Tables DEF PopActive, Left
  <2>3. sub' \in [Link -> Nat]
    BY <1>1 DEF PopActive, WireTypeOK
  <2> QED BY <1>0, <2>1, <2>2, <2>3, <2>4, <2>5 DEF OnWireClosed, WireTypeOK
<1>2. CASE RemoveBuried(l)
  <2>1. stack' \in Seq(Link)
    BY <1>2, Tables, RemovedFacts DEF RemoveBuried
  <2>2. /\ archive' \in [Link -> [Slot -> Instance \cup {NoInstance}]]
        /\ sub' \in [Link -> Nat]
    BY <1>2, Tables DEF RemoveBuried, WireTypeOK
  <2> QED BY <1>0, <1>2, <2>1, <2>2 DEF OnWireClosed, RemoveBuried, WireTypeOK
<1> QED BY <1>1, <1>2 DEF OnWireClosed

LEMMA WireTypes ==
  ASSUME WireTypeOK, NEW l \in Link, WireStep(l) \/ TableStep(l)
  PROVE  WireTypeOK'
<1>1. CASE Watch(l) \/ SocketStops(l)
  BY <1>1 DEF Watch, SocketStops, WireTypeOK, quietVars, wireVars
<1>2. CASE ClosedUnheard(l)
  BY <1>2 DEF ClosedUnheard, Notify, AfterPop, WireTypeOK
<1>3. CASE CheckLastLink(l)
  BY <1>3 DEF CheckLastLink, WireTypeOK, wireVars
<1> QED BY <1>1, <1>2, <1>3, PushTypes, SubscribeTypes, ClosedTypes DEF WireStep, TableStep

LEMMA TouchTypes ==
  ASSUME WireTypeOK, Touches
  PROVE  WireTypeOK'
<1>1. stage' \in [Link -> {"new", "pushed", "bound", "attached", "watched"}]
  <2>1. ASSUME NEW l \in Link, stage' = [stage EXCEPT ![l] = "attached"]
        PROVE  stage' \in [Link -> {"new", "pushed", "bound", "attached", "watched"}]
    BY <2>1 DEF WireTypeOK
  <2> QED BY <2>1 DEF WireTypeOK, Touches
<1>2. closing' \in [Link -> {"no", "check", "detach", "gone"}]
  <2>1. ASSUME NEW l \in Link, closing' = [closing EXCEPT ![l] = "gone"]
        PROVE  closing' \in [Link -> {"no", "check", "detach", "gone"}]
    BY <2>1 DEF WireTypeOK
  <2> QED BY <2>1 DEF WireTypeOK, Touches
<1> QED BY <1>1, <1>2 DEF WireTypeOK, Touches, SlotTable

---------------------------------------------------------------------------
(* What the threads of the links still owe the transport: the wires that   *)
(* Bind is to let go of and OnWireClosed to subscribe to again.            *)
Those(f, a) == {l \in Link : f[l] = a}
Equal(x, y) == IF x = y THEN 1 ELSE 0

OnceStacked == \A j, k \in 1..Len(stack) : stack[j] = stack[k] => j = k

HandlersInv ==
  /\ \A l \in Link : Stacked(l) => stage[l] # "new"
  /\ \A l \in Link : sub[l] > 0 => Stacked(l)
  /\ \A l \in Link : previous[l] # NoLink =>
       stage[l] = "pushed" /\ previous[l] # l /\ stage[previous[l]] # "new"
  /\ \A l \in Link : restored[l] # NoLink => closing[l] # "no"
  /\ \A l \in Link : closing[l] # "no" => ~open[l]
  /\ \A l \in Link : stage[l] = "new" /\ closing[l] # "no" => l \in missed

\* Each wire of the stack is subscribed to, once what is owed has been done,
\* at least once more than it is let go of; the top once more than that.
Balance ==
  \A a \in Link :
    /\ IsFiniteSet(Those(previous, a)) /\ IsFiniteSet(Those(restored, a))
    /\ Stacked(a) => sub[a] + Equal(stage[a], "pushed") + Cardinality(Those(restored, a))
                       >= Cardinality(Those(previous, a)) + Equal(a, Active)

TopInv ==
  /\ (owner = NoLink) <=> (stack = <<>>)
  /\ stack # <<>> => open[Active] \/ closing[Active] = "no" \/ Active \in missed

WireInv == OnceStacked /\ HandlersInv /\ Balance /\ TopInv

(* Setting one entry of a function moves the count of the links with a     *)
(* given value by one at most.                                             *)
LEMMA CountFacts ==
  ASSUME NEW f \in [Link -> Link \cup {NoLink}], NEW l \in Link, NEW v \in Link \cup {NoLink},
         NEW a, IsFiniteSet(Those(f, a))
  PROVE  /\ IsFiniteSet(Those([f EXCEPT ![l] = v], a))
         /\ Cardinality(Those(f, a)) \in Nat
         /\ Cardinality(Those([f EXCEPT ![l] = v], a)) \in Nat
         /\ Cardinality(Those([f EXCEPT ![l] = v], a)) + Equal(f[l], a)
              = Cardinality(Those(f, a)) + Equal(v, a)
<1> DEFINE F == Those(f, a)
           G == Those([f EXCEPT ![l] = v], a)
<1>1. l \in F <=> f[l] = a
  BY DEF Those
<1>2. G = IF v = a THEN F \cup {l} ELSE F \ {l}
  BY DEF Those
<1>3. IsFiniteSet(F)
  OBVIOUS
<1> HIDE DEF F, G
<1>4. CASE v = a
  <2>1. G = F \cup {l}
    BY <1>2, <1>4
  <2>2. IsFiniteSet(G) /\ Cardinality(G) = IF l \in F THEN Cardinality(F) ELSE Cardinality(F) + 1
    BY <1>3, <2>1, FS_AddElement
  <2>3. Cardinality(F) \in Nat /\ Cardinality(G) \in Nat
    BY <1>3, <2>2, FS_CardinalityType
  <2>4. Cardinality(G) + Equal(f[l], a) = Cardinality(F) + Equal(v, a)
    BY <1>1, <1>4, <2>2, <2>3 DEF Equal
  <2> QED BY <1>4, <2>2, <2>3, <2>4 DEF F, G
<1>5. CASE v # a
  <2>1. G = F \ {l}
    BY <1>2, <1>5
  <2>2. IsFiniteSet(G) /\ Cardinality(G) = IF l \in F THEN Cardinality(F) - 1 ELSE Cardinality(F)
    BY <1>3, <2>1, FS_RemoveElement
  <2>3. Cardinality(F) \in Nat /\ Cardinality(G) \in Nat
    BY <1>3, <2>2, FS_CardinalityType
  <2>4. Cardinality(G) + Equal(f[l], a) = Cardinality(F) + Equal(v, a)
    BY <1>1, <1>5, <2>2, <2>3 DEF Equal
  <2> QED BY <1>5, <2>2, <2>3, <2>4 DEF F, G
<1> QED BY <1>4, <1>5

LEMMA PushedStack ==
  ASSUME WireTypeOK, WireInv, NEW l \in Link, BindPush(l)
  PROVE  /\ ~Stacked(l) /\ stage[l] = "new" /\ previous[l] = NoLink
         /\ stack' # <<>> /\ Active' = l /\ stack' \in Seq(Link)
         /\ \A m \in Link : Stacked(m)' <=> Stacked(m) \/ m = l
         /\ OnceStacked'
<1>0. stack \in Seq(Link) /\ Len(stack) \in Nat /\ stack' = Append(stack, l) /\ stage[l] = "new"
  BY Tables DEF BindPush
<1>1. ~Stacked(l) /\ previous[l] = NoLink
  BY <1>0 DEF WireInv, HandlersInv
<1>2. /\ stack' \in Seq(Link) /\ Len(stack') = Len(stack) + 1 /\ stack'[Len(stack) + 1] = l
      /\ \A k \in 1..Len(stack) : stack'[k] = stack[k]
      /\ stack' # <<>>
  BY <1>0, AppendProperties
<1>3. Active' = l
  BY <1>0, <1>2 DEF Active
<1>4. \A m \in Link : Stacked(m)' <=> Stacked(m) \/ m = l
  BY <1>0, <1>2 DEF Stacked
<1>5. OnceStacked'
  <2>1. \A k \in 1..Len(stack) : stack[k] # l
    BY <1>1 DEF Stacked
  <2> QED BY <1>0, <1>2, <2>1 DEF WireInv, OnceStacked
<1> QED BY <1>0, <1>1, <1>2, <1>3, <1>4, <1>5

LEMMA PushKeepsWires ==
  ASSUME WireTypeOK, WireInv, NEW l \in Link, BindPush(l)
  PROVE  WireInv'
<1>0. /\ stage' = [stage EXCEPT ![l] = "pushed"]
      /\ previous' = [previous EXCEPT ![l] = Active]
      /\ UNCHANGED <<open, closing, restored, sub, missed>>
      /\ owner' = (IF stack = <<>> THEN l ELSE owner)
      /\ stage[l] = "new"
  BY DEF BindPush
<1>1. /\ ~Stacked(l) /\ previous[l] = NoLink
      /\ stack' # <<>> /\ Active' = l
      /\ \A m \in Link : Stacked(m)' <=> Stacked(m) \/ m = l
      /\ OnceStacked'
  BY PushedStack
<1>2. /\ Active = NoLink \/ (Active \in Link /\ Stacked(Active))
      /\ NoLink \notin Link
  BY Tables, ActiveFacts, Constants
<1>3. /\ stage \in [Link -> {"new", "pushed", "bound", "attached", "watched"}]
      /\ previous \in [Link -> Link \cup {NoLink}] /\ sub \in [Link -> Nat]
      /\ HandlersInv /\ TopInv /\ Balance
  BY DEF WireTypeOK, WireInv
<1>4. HandlersInv'
  <2>1. \A m \in Link : Stacked(m)' => stage'[m] # "new"
    BY <1>0, <1>1, <1>3 DEF HandlersInv
  <2>2. \A m \in Link : sub'[m] > 0 => Stacked(m)'
    BY <1>0, <1>1, <1>3 DEF HandlersInv
  <2>3. ASSUME NEW m \in Link, previous'[m] # NoLink
        PROVE  stage'[m] = "pushed" /\ previous'[m] # m /\ stage'[previous'[m]] # "new"
    <3>1. CASE m = l
      <4>1. previous'[m] = Active /\ Active \in Link /\ Active # l /\ stage[Active] # "new"
        BY <1>0, <1>1, <1>2, <1>3, <2>3, <3>1 DEF HandlersInv
      <4> QED BY <1>0, <1>3, <3>1, <4>1
    <3>2. CASE m # l
      <4>1. /\ previous'[m] = previous[m] /\ stage[m] = "pushed" /\ previous[m] # m
            /\ previous[m] \in Link /\ stage[previous[m]] # "new"
        BY <1>0, <1>3, <2>3, <3>2 DEF HandlersInv
      <4> QED BY <1>0, <1>3, <3>2, <4>1
    <3> QED BY <3>1, <3>2
  <2>4. \A m \in Link : stage'[m] = "new" /\ closing'[m] # "no" => m \in missed'
    BY <1>0, <1>3 DEF HandlersInv
  <2> QED BY <1>0, <1>3, <2>1, <2>2, <2>3, <2>4 DEF HandlersInv
<1>5. ASSUME NEW a \in Link
      PROVE  /\ IsFiniteSet(Those(previous', a)) /\ IsFiniteSet(Those(restored', a))
             /\ Stacked(a)' => sub'[a] + Equal(stage'[a], "pushed") + Cardinality(Those(restored', a))
                                 >= Cardinality(Those(previous', a)) + Equal(a, Active')
  <2> DEFINE P == Cardinality(Those(previous, a))
             Q == Cardinality(Those(previous', a))
             R == Cardinality(Those(restored, a))
  <2>0. IsFiniteSet(Those(previous, a)) /\ IsFiniteSet(Those(restored, a))
    BY <1>3 DEF Balance
  <2>1. /\ IsFiniteSet(Those(previous', a)) /\ P \in Nat /\ Q \in Nat
        /\ Q + Equal(previous[l], a) = P + Equal(Active, a)
    <3>1. /\ Active \in Link \cup {NoLink} /\ IsFiniteSet(Those(previous, a))
          /\ previous' = [previous EXCEPT ![l] = Active]
          /\ previous \in [Link -> Link \cup {NoLink}]
      BY <1>0, <1>2, <1>3, <2>0
    <3> QED BY <3>1, CountFacts
  <2>2. R \in Nat /\ restored' = restored
    BY <1>0, <2>0, FS_CardinalityType
  <2>3. Q = P + Equal(Active, a)
    BY <1>1, <1>2, <2>1 DEF Equal
  <2>4. CASE a = l
    <3>1. Those(previous, a) = {}
      BY <1>0, <1>2, <1>3, <2>4 DEF Those, HandlersInv
    <3>2. P = 0
      BY <3>1, FS_EmptySet
    <3>3. Q = 0
      BY <1>1, <1>2, <2>3, <2>4, <3>2 DEF Equal
    <3>4. Equal(stage'[a], "pushed") = 1 /\ Equal(a, Active') = 1
      BY <1>0, <1>1, <1>3, <2>4 DEF Equal
    <3>5. sub'[a] \in Nat
      BY <1>0, <1>3
    <3> QED BY <2>0, <2>1, <2>2, <3>3, <3>4, <3>5
  <2>5. CASE a # l
    <3>1. stage'[a] = stage[a] /\ sub'[a] = sub[a] /\ sub[a] \in Nat
      BY <1>0, <1>3, <2>5
    <3>2. Stacked(a)' => sub[a] + Equal(stage[a], "pushed") + R >= P + Equal(a, Active)
      BY <1>1, <1>3, <2>5 DEF Balance
    <3>3. Equal(a, Active') = 0 /\ Equal(Active, a) = Equal(a, Active)
      BY <1>1, <2>5 DEF Equal
    <3>4. Equal(a, Active) \in Nat /\ Equal(stage[a], "pushed") \in Nat
      BY DEF Equal
    <3> HIDE DEF P, Q, R
    <3>5. Stacked(a)' => sub[a] + Equal(stage[a], "pushed") + R >= Q + Equal(a, Active')
      BY <2>1, <2>2, <2>3, <3>1, <3>2, <3>3, <3>4
    <3> QED BY <2>0, <2>1, <2>2, <3>1, <3>5 DEF Q, R
  <2> QED BY <2>4, <2>5
<1>6. TopInv'
  BY <1>0, <1>1, <1>2, <1>3 DEF TopInv, HandlersInv
<1>7. Balance'
  BY <1>5 DEF Balance
<1> QED BY <1>1, <1>4, <1>6, <1>7 DEF WireInv

(* The types and the named parts of WireInv, for the lemmas below.         *)
LEMMA WireKinds ==
  ASSUME WireTypeOK, WireInv
  PROVE  /\ stage \in [Link -> {"new", "pushed", "bound", "attached", "watched"}]
         /\ previous \in [Link -> Link \cup {NoLink}] /\ restored \in [Link -> Link \cup {NoLink}]
         /\ closing \in [Link -> {"no", "check", "detach", "gone"}]
         /\ open \in [Link -> BOOLEAN] /\ sub \in [Link -> Nat] /\ NoLink \notin Link
         /\ stack \in Seq(Link) /\ OnceStacked /\ HandlersInv /\ TopInv /\ Balance
BY Constants DEF WireTypeOK, WireInv

(* The sides of the balance are numbers.                                   *)
LEMMA Sides ==
  ASSUME WireTypeOK, WireInv, NEW a \in Link
  PROVE  /\ IsFiniteSet(Those(previous, a)) /\ IsFiniteSet(Those(restored, a))
         /\ Cardinality(Those(previous, a)) \in Nat /\ Cardinality(Those(restored, a)) \in Nat
         /\ sub[a] \in Nat /\ Equal(stage[a], "pushed") \in Nat /\ Equal(a, Active) \in Nat
         /\ Stacked(a) => sub[a] + Equal(stage[a], "pushed") + Cardinality(Those(restored, a))
                            >= Cardinality(Those(previous, a)) + Equal(a, Active)
BY WireKinds, FS_CardinalityType DEF Balance, Equal

LEMMA SubscribeKeepsWires ==
  ASSUME WireTypeOK, WireInv, NEW l \in Link, BindSubscribe(l)
  PROVE  WireInv'
<1> DEFINE p == previous[l]
           left == Unsubscribed(p)
<1>0. /\ stage' = [stage EXCEPT ![l] = "bound"] /\ stage[l] = "pushed"
      /\ previous' = [previous EXCEPT ![l] = NoLink]
      /\ UNCHANGED <<open, closing, restored, stack, slots, archive, owner, missed>>
      /\ sub' = IF Stacked(l) THEN [left EXCEPT ![l] = @ + 1] ELSE left
  BY DEF BindSubscribe
<1>1. p \in Link \cup {NoLink} /\ p # l /\ Active' = Active /\ \A m \in Link : Stacked(m)' <=> Stacked(m)
  BY <1>0, WireKinds DEF Active, Stacked, HandlersInv
<1>2. /\ left \in [Link -> Nat]
      /\ \A m \in Link : left[m] = IF m = p /\ sub[m] # 0 THEN sub[m] - 1 ELSE sub[m]
  <2>1. CASE p = NoLink \/ sub[p] = 0
    BY <2>1, WireKinds DEF Unsubscribed
  <2>2. CASE p # NoLink /\ sub[p] # 0
    <3>1. p \in Link /\ sub[p] \in Nat /\ sub[p] - 1 \in Nat
      BY <1>1, <2>2, WireKinds
    <3>2. left = [sub EXCEPT ![p] = sub[p] - 1]
      BY <2>2 DEF Unsubscribed
    <3> HIDE DEF p, left
    <3> QED BY <2>2, <3>1, <3>2, WireKinds
  <2> QED BY <2>1, <2>2
<1> HIDE DEF left
<1>3. \A m \in Link : sub'[m] = IF m = l /\ Stacked(l) THEN left[m] + 1 ELSE left[m]
  BY <1>0, <1>2
<1>4. HandlersInv'
  <2>1. \A m \in Link : Stacked(m)' => stage'[m] # "new"
    BY <1>0, <1>1, WireKinds DEF HandlersInv
  <2>2. ASSUME NEW m \in Link, sub'[m] > 0
        PROVE  Stacked(m)'
    <3>1. sub[m] \in Nat /\ (sub[m] > 0 => Stacked(m))
      BY WireKinds DEF HandlersInv
    <3>2. CASE m = l /\ Stacked(l)
      BY <1>1, <3>2
    <3>3. CASE ~(m = l /\ Stacked(l))
      <4>1. sub'[m] = left[m] /\ (left[m] = sub[m] \/ (sub[m] # 0 /\ left[m] = sub[m] - 1))
        BY <1>2, <1>3, <3>3
      <4> QED BY <1>1, <2>2, <3>1, <4>1
    <3> QED BY <3>2, <3>3
  <2>3. ASSUME NEW m \in Link, previous'[m] # NoLink
        PROVE  stage'[m] = "pushed" /\ previous'[m] # m /\ stage'[previous'[m]] # "new"
    <3>1. m # l /\ previous'[m] = previous[m] /\ previous[m] \in Link
      BY <1>0, <2>3, WireKinds
    <3>2. stage[m] = "pushed" /\ previous[m] # m /\ stage[previous[m]] # "new"
      BY <2>3, <3>1, WireKinds DEF HandlersInv
    <3> QED BY <1>0, <3>1, <3>2, WireKinds
  <2>4. \A m \in Link : stage'[m] = "new" /\ closing'[m] # "no" => m \in missed'
    BY <1>0, WireKinds DEF HandlersInv
  <2> QED BY <1>0, <2>1, <2>2, <2>3, <2>4, WireKinds DEF HandlersInv
<1>5. ASSUME NEW a \in Link
      PROVE  /\ IsFiniteSet(Those(previous', a)) /\ IsFiniteSet(Those(restored', a))
             /\ Stacked(a)' => sub'[a] + Equal(stage'[a], "pushed") + Cardinality(Those(restored', a))
                                 >= Cardinality(Those(previous', a)) + Equal(a, Active')
  <2> DEFINE P == Cardinality(Those(previous, a))
             Q == Cardinality(Those(previous', a))
             R == Cardinality(Those(restored, a))
  <2>0. /\ IsFiniteSet(Those(previous, a)) /\ IsFiniteSet(Those(restored, a))
        /\ P \in Nat /\ R \in Nat /\ sub[a] \in Nat /\ Equal(a, Active) \in Nat
        /\ Stacked(a) => sub[a] + Equal(stage[a], "pushed") + R >= P + Equal(a, Active)
    BY Sides
  <2>1. /\ IsFiniteSet(Those(previous', a)) /\ Q \in Nat
        /\ Q + Equal(previous[l], a) = P + Equal(NoLink, a)
    <3>1. /\ NoLink \in Link \cup {NoLink} /\ IsFiniteSet(Those(previous, a))
          /\ previous' = [previous EXCEPT ![l] = NoLink]
          /\ previous \in [Link -> Link \cup {NoLink}]
      BY <1>0, <2>0, WireKinds
    <3> QED BY <3>1, CountFacts
  <2>2. Equal(NoLink, a) = 0 /\ (p = a => Equal(previous[l], a) = 1)
        /\ (p # a => Equal(previous[l], a) = 0)
    BY WireKinds DEF Equal
  <2>3. Cardinality(Those(restored', a)) = R /\ Active' = Active /\ IsFiniteSet(Those(restored', a))
    BY <1>0, <1>1, <2>0
  <2> HIDE DEF P, Q, R, p
  <2>4. ASSUME Stacked(a)
        PROVE  sub'[a] + Equal(stage'[a], "pushed") + R >= Q + Equal(a, Active)
    <3>1. CASE a = l
      <4>1. p # a /\ sub'[a] = sub[a] + 1
        BY <1>1, <1>2, <1>3, <2>0, <2>4, <3>1
      <4>2. Equal(stage'[a], "pushed") = 0 /\ Equal(stage[a], "pushed") = 1
        BY <1>0, <3>1, WireKinds DEF Equal
      <4> QED BY <2>0, <2>1, <2>2, <2>4, <4>1, <4>2
    <3>2. CASE a # l
      <4>1. /\ sub'[a] = left[a] /\ Equal(stage'[a], "pushed") = Equal(stage[a], "pushed")
            /\ Equal(stage[a], "pushed") \in Nat
        BY <1>0, <1>3, <3>2, WireKinds DEF Equal
      <4>2. CASE p # a
        BY <1>2, <2>0, <2>1, <2>2, <2>4, <4>1, <4>2
      <4>3. CASE p = a
        <5>1. Q = P - 1 /\ left[a] >= sub[a] - 1 /\ left[a] \in Nat
          BY <1>2, <2>0, <2>1, <2>2, <4>3
        <5> QED BY <2>0, <2>4, <4>1, <5>1
      <4> QED BY <4>2, <4>3
    <3> QED BY <3>1, <3>2
  <2> QED BY <1>1, <2>1, <2>3, <2>4 DEF Q, R
<1>6. TopInv' /\ OnceStacked'
  BY <1>0, <1>1, WireKinds DEF TopInv, OnceStacked
<1>7. Balance'
  BY <1>5 DEF Balance
<1> QED BY <1>4, <1>6, <1>7 DEF WireInv

(* The wire on top ended: those below the one that comes back stay.        *)
LEMMA PoppedStack ==
  ASSUME WireTypeOK, WireInv, NEW l \in Link, PopActive(l)
  PROVE  /\ \A m \in Link : Stacked(m)' => /\ Stacked(m) /\ m # Active
                                           /\ \A k \in OpenDepth + 1..Len(stack) : stack[k] # m
         /\ OnceStacked'
         /\ stack' # <<>> => /\ stack # <<>> /\ Active' \in Link /\ open[Active']
                             /\ restored' = [restored EXCEPT ![l] = Active'] /\ owner' = owner
         /\ stack' = <<>> => owner' = NoLink /\ restored' = [restored EXCEPT ![l] = NoLink]
<1> DEFINE n == OpenDepth
<1>0. /\ n \in Nat /\ (n = 0 \/ n <= Len(stack) - 1) /\ Len(stack) \in Nat
      /\ stack' \in Seq(Link) /\ Len(stack') = n
      /\ \A k \in 1..n : stack'[k] = stack[k]
  BY PopFacts, Tables
<1>1. /\ n # 0 => /\ stack # <<>> /\ open[stack[n]] /\ Active' = stack[n] /\ stack[n] \in Link
                  /\ restored' = [restored EXCEPT ![l] = stack[n]] /\ owner' = owner
      /\ n = 0 => stack' = <<>> /\ restored' = [restored EXCEPT ![l] = NoLink] /\ owner' = NoLink
  BY PopFacts
<1>2. OnceStacked /\ (stack # <<>> => Active = stack[Len(stack)])
  BY WireKinds DEF Active
<1> HIDE DEF n
<1>3. ASSUME NEW m \in Link, Stacked(m)'
      PROVE  Stacked(m) /\ m # Active /\ \A k \in n + 1..Len(stack) : stack[k] # m
  <2>1. PICK k \in 1..Len(stack') : stack'[k] = m
    BY <1>3 DEF Stacked
  <2>2. k \in 1..n /\ stack[k] = m /\ k \in 1..Len(stack) /\ Len(stack) \in 1..Len(stack) /\ k # Len(stack)
    BY <1>0, <2>1
  <2>3. \A j \in n + 1..Len(stack) : j \in 1..Len(stack) /\ j # k
    BY <1>0, <2>2
  <2>4. stack # <<>>
    BY <1>0, <1>1, <2>2
  <2>5. m # Active
    BY <1>2, <2>2, <2>4 DEF OnceStacked
  <2>6. \A j \in n + 1..Len(stack) : stack[j] # m
    BY <1>2, <2>2, <2>3 DEF OnceStacked
  <2> QED BY <2>2, <2>5, <2>6 DEF Stacked
<1>4. OnceStacked'
  <2>1. \A k \in 1..n : k \in 1..Len(stack)
    BY <1>0
  <2> QED BY <1>0, <1>2, <2>1 DEF OnceStacked
<1>5. stack' # <<>> => n # 0
  BY <1>1
<1>6. stack' = <<>> => n = 0
  BY <1>0
<1> QED BY <1>1, <1>3, <1>4, <1>5, <1>6 DEF n

LEMMA PopKeepsWires ==
  ASSUME WireTypeOK, WireInv, NEW l \in Link, OnWireClosed(l), PopActive(l)
  PROVE  WireInv'
<1>0. /\ ~open[l] /\ closing[l] = "no" /\ sub[l] > 0
      /\ closing' = [closing EXCEPT ![l] = AfterPop(l)] /\ AfterPop(l) # "no"
      /\ UNCHANGED <<open, stage, previous, missed>>
  BY DEF OnWireClosed, Notify, AfterPop
<1>1. \A m \in Link : sub'[m] = IF \E k \in OpenDepth + 1..Len(stack) : stack[k] = m THEN 0 ELSE sub[m]
  BY DEF PopActive
<1>2. /\ \A m \in Link : Stacked(m)' => Stacked(m) /\ m # Active /\ sub'[m] = sub[m]
      /\ OnceStacked'
      /\ stack' # <<>> => /\ stack # <<>> /\ Active' \in Link /\ open[Active']
                          /\ restored' = [restored EXCEPT ![l] = Active'] /\ owner' = owner
      /\ stack' = <<>> => owner' = NoLink /\ restored' = [restored EXCEPT ![l] = NoLink]
  BY <1>1, PoppedStack
<1>3. restored[l] = NoLink /\ stage[l] # "new" /\ sub \in [Link -> Nat]
  BY <1>0, WireKinds DEF HandlersInv
<1>4. PICK v \in Link \cup {NoLink} :
        /\ restored' = [restored EXCEPT ![l] = v]
        /\ stack' # <<>> => v = Active'
        /\ stack' = <<>> => v = NoLink
  BY <1>2
<1>5. HandlersInv'
  <2>1. \A m \in Link : Stacked(m)' => stage'[m] # "new"
    BY <1>0, <1>2, WireKinds DEF HandlersInv
  <2>2. ASSUME NEW m \in Link, sub'[m] > 0
        PROVE  Stacked(m)'
    <3>1. sub[m] > 0 /\ \A k \in OpenDepth + 1..Len(stack) : stack[k] # m
      BY <1>1, <2>2
    <3>2. PICK k \in 1..Len(stack) : stack[k] = m
      BY <3>1, WireKinds DEF HandlersInv, Stacked
    <3>3. /\ OpenDepth \in Nat /\ Len(stack') = OpenDepth /\ Len(stack) \in Nat
          /\ \A j \in 1..OpenDepth : stack'[j] = stack[j]
      BY PopFacts, Tables
    <3>4. k \in 1..OpenDepth
      BY <3>1, <3>2, <3>3
    <3> QED BY <3>2, <3>3, <3>4 DEF Stacked
  <2>3. \A m \in Link : restored'[m] # NoLink => closing'[m] # "no"
    BY <1>0, <1>4, WireKinds DEF HandlersInv
  <2>4. \A m \in Link : closing'[m] # "no" => ~open'[m]
    BY <1>0, WireKinds DEF HandlersInv
  <2>5. \A m \in Link : stage'[m] = "new" /\ closing'[m] # "no" => m \in missed'
    BY <1>0, <1>3, WireKinds DEF HandlersInv
  <2>6. \A m \in Link : previous'[m] # NoLink =>
          stage'[m] = "pushed" /\ previous'[m] # m /\ stage'[previous'[m]] # "new"
    BY <1>0, WireKinds DEF HandlersInv
  <2> QED BY <2>1, <2>2, <2>3, <2>4, <2>5, <2>6 DEF HandlersInv
<1>6. ASSUME NEW a \in Link
      PROVE  /\ IsFiniteSet(Those(previous', a)) /\ IsFiniteSet(Those(restored', a))
             /\ Stacked(a)' => sub'[a] + Equal(stage'[a], "pushed") + Cardinality(Those(restored', a))
                                 >= Cardinality(Those(previous', a)) + Equal(a, Active')
  <2> DEFINE P == Cardinality(Those(previous, a))
             R == Cardinality(Those(restored, a))
             S == Cardinality(Those(restored', a))
  <2>0. /\ IsFiniteSet(Those(previous, a)) /\ IsFiniteSet(Those(restored, a))
        /\ P \in Nat /\ R \in Nat /\ sub[a] \in Nat /\ Equal(stage[a], "pushed") \in Nat
        /\ Stacked(a) => sub[a] + Equal(stage[a], "pushed") + R >= P + Equal(a, Active)
    BY Sides
  <2>1. /\ IsFiniteSet(Those(restored', a)) /\ S \in Nat
        /\ S + Equal(restored[l], a) = R + Equal(v, a)
    <3>1. /\ v \in Link \cup {NoLink} /\ IsFiniteSet(Those(restored, a))
          /\ restored' = [restored EXCEPT ![l] = v]
          /\ restored \in [Link -> Link \cup {NoLink}]
      BY <1>4, <2>0, WireKinds
    <3> QED BY <3>1, CountFacts
  <2>2. Equal(restored[l], a) = 0
    BY <1>3, WireKinds DEF Equal
  <2>3. Cardinality(Those(previous', a)) = P /\ stage' = stage /\ IsFiniteSet(Those(previous', a))
    BY <1>0, <2>0
  <2> HIDE DEF P, R, S
  <2>4. ASSUME Stacked(a)'
        PROVE  sub'[a] + Equal(stage[a], "pushed") + S >= P + Equal(a, Active')
    <3>1. /\ Stacked(a) /\ a # Active /\ sub'[a] = sub[a] /\ stack' # <<>>
      BY <1>2, <2>4 DEF Stacked
    <3>2. /\ Equal(a, Active) = 0 /\ Equal(a, Active') = Equal(v, a) /\ Equal(v, a) \in Nat
      BY <1>4, <3>1 DEF Equal
    <3> QED BY <2>0, <2>1, <2>2, <3>1, <3>2
  <2> QED BY <2>1, <2>3, <2>4 DEF P, S
<1>7. TopInv'
  BY <1>0, <1>2, WireKinds DEF TopInv
<1>8. Balance'
  BY <1>6 DEF Balance
<1> QED BY <1>2, <1>5, <1>7, <1>8 DEF WireInv

LEMMA BuriedStack ==
  ASSUME WireTypeOK, WireInv, NEW l \in Link, RemoveBuried(l), Active # l
  PROVE  /\ \A m \in Link : Stacked(m)' <=> Stacked(m) /\ m # l
         /\ Active' = Active /\ stack # <<>> /\ stack' # <<>> /\ stack' \in Seq(Link)
         /\ OnceStacked'
<1>0. stack \in Seq(Link) /\ Len(stack) \in Nat /\ OnceStacked
  BY Tables, WireKinds
<1>1. PICK k \in 1..Len(stack) : stack[k] = l /\ stack' = RemoveAt(stack, k)
  BY DEF RemoveBuried
<1>2. /\ stack' \in Seq(Link) /\ Len(stack') = Len(stack) - 1
      /\ \A j \in 1..k - 1 : stack'[j] = stack[j]
      /\ \A j \in k..Len(stack) - 1 : stack'[j] = stack[j + 1]
  BY <1>0, <1>1, RemovedFacts
<1>3. stack # <<>> /\ Active = stack[Len(stack)] /\ k # Len(stack)
  BY <1>0, <1>1 DEF Active
<1>4. stack' # <<>> /\ Active' = Active
  <2>1. Len(stack) - 1 \in k..Len(stack) - 1 /\ Len(stack) - 1 > 0 /\ Len(stack) - 1 + 1 = Len(stack)
    BY <1>0, <1>1, <1>3
  <2>2. stack' # <<>> /\ stack'[Len(stack')] = stack[Len(stack)]
    BY <1>2, <2>1
  <2> QED BY <1>3, <2>2 DEF Active
<1>5. ASSUME NEW m \in Link, Stacked(m), m # l PROVE Stacked(m)'
  <2>1. PICK j \in 1..Len(stack) : stack[j] = m
    BY <1>5 DEF Stacked
  <2>2. CASE j < k
    <3>1. j \in 1..k - 1 /\ j \in 1..Len(stack')
      BY <1>0, <1>2, <2>2
    <3> QED BY <1>2, <2>1, <3>1 DEF Stacked
  <2>3. CASE j > k
    <3>1. j - 1 \in k..Len(stack) - 1 /\ j - 1 \in 1..Len(stack') /\ (j - 1) + 1 = j
      BY <1>0, <1>2, <2>3
    <3>2. stack'[j - 1] = m
      BY <1>2, <2>1, <3>1
    <3> QED BY <3>1, <3>2 DEF Stacked
  <2>4. j # k
    BY <1>1, <1>5, <2>1
  <2> QED BY <2>2, <2>3, <2>4
<1> DEFINE from(j) == IF j < k THEN j ELSE j + 1
<1>6. \A j \in 1..Len(stack') : /\ stack'[j] = stack[from(j)] /\ from(j) \in 1..Len(stack)
                                /\ from(j) # k
  BY <1>0, <1>2
<1>7. ASSUME NEW m \in Link, Stacked(m)' PROVE Stacked(m) /\ m # l
  BY <1>0, <1>1, <1>6, <1>7 DEF Stacked, OnceStacked
<1>8. OnceStacked'
  <2>1. ASSUME NEW i \in 1..Len(stack'), NEW j \in 1..Len(stack'), stack'[i] = stack'[j]
        PROVE  i = j
    <3>1. from(i) = from(j)
      BY <1>0, <1>6, <2>1 DEF OnceStacked
    <3> QED BY <1>2, <3>1
  <2> QED BY <2>1 DEF OnceStacked
<1> QED BY <1>2, <1>3, <1>4, <1>5, <1>7, <1>8

LEMMA BuriedKeepsWires ==
  ASSUME WireTypeOK, WireInv, NEW l \in Link, OnWireClosed(l), Active # l, RemoveBuried(l)
  PROVE  WireInv'
<1>0. /\ ~open[l] /\ closing[l] = "no" /\ sub[l] > 0
      /\ closing' = [closing EXCEPT ![l] = AfterPop(l)] /\ AfterPop(l) # "no"
      /\ sub' = [sub EXCEPT ![l] = 0]
      /\ UNCHANGED <<open, stage, previous, restored, owner, missed>>
  BY DEF OnWireClosed, Notify, AfterPop, RemoveBuried
<1>1. /\ \A m \in Link : Stacked(m)' <=> Stacked(m) /\ m # l
      /\ Active' = Active /\ stack # <<>> /\ stack' # <<>> /\ OnceStacked'
  BY BuriedStack
<1>2. \A m \in Link : m # l => sub'[m] = sub[m]
  BY <1>0, WireKinds
<1>3. HandlersInv'
  <2>1. \A m \in Link : sub'[m] > 0 => Stacked(m)'
    BY <1>0, <1>1, WireKinds DEF HandlersInv
  <2>2. \A m \in Link : stage'[m] = "new" /\ closing'[m] # "no" => m \in missed'
    BY <1>0, WireKinds DEF HandlersInv
  <2>3. /\ \A m \in Link : closing'[m] # "no" => ~open'[m]
        /\ \A m \in Link : restored'[m] # NoLink => closing'[m] # "no"
    BY <1>0, WireKinds DEF HandlersInv
  <2>4. \A m \in Link : Stacked(m)' => stage'[m] # "new"
    BY <1>0, <1>1, WireKinds DEF HandlersInv
  <2>5. \A m \in Link : previous'[m] # NoLink =>
          stage'[m] = "pushed" /\ previous'[m] # m /\ stage'[previous'[m]] # "new"
    BY <1>0, WireKinds DEF HandlersInv
  <2> QED BY <2>1, <2>2, <2>3, <2>4, <2>5 DEF HandlersInv
<1>4. Balance'
  BY <1>0, <1>1, <1>2, WireKinds DEF Balance
<1>5. TopInv'
  BY <1>0, <1>1, WireKinds DEF TopInv
<1> QED BY <1>1, <1>3, <1>4, <1>5 DEF WireInv

LEMMA RestoredKeepsWires ==
  ASSUME WireTypeOK, WireInv, NEW l \in Link, SubscribeRestored(l)
  PROVE  WireInv'
<1> DEFINE r == restored[l]
<1>0. /\ r \in Link /\ restored' = [restored EXCEPT ![l] = NoLink]
      /\ sub' = IF Stacked(r) THEN [sub EXCEPT ![r] = @ + 1] ELSE sub
      /\ UNCHANGED <<open, stage, closing, previous, stack, slots, archive, owner, missed>>
  BY WireKinds DEF SubscribeRestored, Subscribed
<1>1. Active' = Active /\ (\A m \in Link : Stacked(m)' <=> Stacked(m)) /\ OnceStacked'
  BY <1>0, WireKinds DEF Active, Stacked, OnceStacked
<1> HIDE DEF r
<1>2. \A m \in Link : sub'[m] = IF m = r /\ Stacked(r) THEN sub[m] + 1 ELSE sub[m]
  BY <1>0, WireKinds
<1>3. HandlersInv'
  <2>1. \A m \in Link : sub'[m] > 0 => Stacked(m)'
    BY <1>1, <1>2, WireKinds DEF HandlersInv
  <2>2. \A m \in Link : restored'[m] # NoLink => closing'[m] # "no"
    BY <1>0, WireKinds DEF HandlersInv
  <2> QED BY <1>0, <1>1, <2>1, <2>2, WireKinds DEF HandlersInv
<1>4. ASSUME NEW a \in Link
      PROVE  /\ IsFiniteSet(Those(previous', a)) /\ IsFiniteSet(Those(restored', a))
             /\ Stacked(a)' => sub'[a] + Equal(stage'[a], "pushed") + Cardinality(Those(restored', a))
                                 >= Cardinality(Those(previous', a)) + Equal(a, Active')
  <2> DEFINE P == Cardinality(Those(previous, a))
             R == Cardinality(Those(restored, a))
             S == Cardinality(Those(restored', a))
  <2>0. /\ IsFiniteSet(Those(previous, a)) /\ IsFiniteSet(Those(restored, a))
        /\ P \in Nat /\ R \in Nat /\ sub[a] \in Nat /\ Equal(stage[a], "pushed") \in Nat
        /\ Equal(a, Active) \in Nat
        /\ Stacked(a) => sub[a] + Equal(stage[a], "pushed") + R >= P + Equal(a, Active)
    BY Sides
  <2>1. /\ IsFiniteSet(Those(restored', a)) /\ S \in Nat
        /\ S + Equal(restored[l], a) = R + Equal(NoLink, a)
    <3>1. /\ NoLink \in Link \cup {NoLink} /\ IsFiniteSet(Those(restored, a))
          /\ restored' = [restored EXCEPT ![l] = NoLink]
          /\ restored \in [Link -> Link \cup {NoLink}]
      BY <1>0, <2>0, WireKinds
    <3> QED BY <3>1, CountFacts
  <2>2. /\ Equal(NoLink, a) = 0
        /\ r = a => Equal(restored[l], a) = 1
        /\ r # a => Equal(restored[l], a) = 0
    BY WireKinds DEF Equal, r
  <2>3. Cardinality(Those(previous', a)) = P /\ stage' = stage /\ IsFiniteSet(Those(previous', a))
    BY <1>0, <2>0
  <2> HIDE DEF P, R, S
  <2>4. ASSUME Stacked(a)
        PROVE  sub'[a] + Equal(stage[a], "pushed") + S >= P + Equal(a, Active)
    <3>1. CASE r = a
      <4>1. sub'[a] = sub[a] + 1 /\ S = R - 1
        BY <1>2, <2>0, <2>1, <2>2, <2>4, <3>1
      <4> QED BY <2>0, <2>4, <4>1
    <3>2. CASE r # a
      <4>1. sub'[a] = sub[a] /\ S = R
        BY <1>2, <2>0, <2>1, <2>2, <3>2
      <4> QED BY <2>0, <2>4, <4>1
    <3> QED BY <3>1, <3>2
  <2> QED BY <1>1, <2>1, <2>3, <2>4 DEF P, S
<1>5. TopInv'
  BY <1>0, <1>1, WireKinds DEF TopInv
<1>6. Balance'
  BY <1>4 DEF Balance
<1> QED BY <1>1, <1>3, <1>5, <1>6 DEF WireInv

(* The steps that leave the stack and what is subscribed to alone.         *)
LEMMA StandKeepsWires ==
  ASSUME WireTypeOK, WireInv,
         UNCHANGED <<previous, restored, stack, sub, owner>>,
         \A l \in Link : /\ stage'[l] = "new" <=> stage[l] = "new"
                         /\ stage'[l] = "pushed" <=> stage[l] = "pushed"
                         /\ closing[l] # "no" => closing'[l] # "no"
                         /\ closing'[l] # "no" => ~open'[l]
                         /\ stage'[l] = "new" /\ closing'[l] # "no" => l \in missed',
         stack # <<>> => open'[Active] \/ closing'[Active] = "no" \/ Active \in missed'
  PROVE  WireInv'
<1>1. Active' = Active /\ (\A m \in Link : Stacked(m)' <=> Stacked(m)) /\ OnceStacked'
  BY WireKinds DEF Active, Stacked, OnceStacked
<1>2. HandlersInv'
  BY <1>1, WireKinds DEF HandlersInv
<1>3. \A l \in Link : Equal(stage'[l], "pushed") = Equal(stage[l], "pushed")
  BY DEF Equal
<1>4. Balance'
  BY <1>1, <1>3, WireKinds DEF Balance
<1>5. TopInv'
  BY <1>1, WireKinds DEF TopInv
<1> QED BY <1>1, <1>2, <1>4, <1>5 DEF WireInv

LEMMA WatchKeepsWires ==
  ASSUME WireTypeOK, WireInv, NEW l \in Link,
         Watch(l) \/ SocketStops(l) \/ CheckLastLink(l) \/ ClosedUnheard(l)
  PROVE  WireInv'
<1>0. stack # <<>> => Active \in Link
  BY Tables, ActiveFacts
<1>1. CASE Watch(l)
  BY <1>0, <1>1, WireKinds, StandKeepsWires DEF Watch, quietVars, wireVars, HandlersInv, TopInv
<1>2. CASE SocketStops(l)
  BY <1>0, <1>2, WireKinds, StandKeepsWires DEF SocketStops, wireVars, HandlersInv, TopInv
<1>3. CASE CheckLastLink(l)
  BY <1>0, <1>3, WireKinds, StandKeepsWires DEF CheckLastLink, wireVars, HandlersInv, TopInv
<1>4. CASE ClosedUnheard(l)
  <2>1. /\ UNCHANGED <<open, stage, previous, restored, stack, sub, owner>>
        /\ ~open[l] /\ closing' = [closing EXCEPT ![l] = AfterPop(l)] /\ AfterPop(l) # "no"
        /\ missed' = IF stage[l] = "new" \/ Active = l THEN missed \cup {l} ELSE missed
    BY <1>4 DEF ClosedUnheard, Notify, AfterPop
  <2> QED BY <1>0, <2>1, WireKinds, StandKeepsWires DEF HandlersInv, TopInv
<1> QED BY <1>1, <1>2, <1>3, <1>4

LEMMA TouchKeepsWires ==
  ASSUME WireTypeOK, WireInv, Touches
  PROVE  WireInv'
<1>0. stack # <<>> => Active \in Link
  BY Tables, ActiveFacts
<1>1. \A l \in Link : /\ stage'[l] = "new" <=> stage[l] = "new"
                      /\ stage'[l] = "pushed" <=> stage[l] = "pushed"
  BY WireKinds DEF Touches
<1>2. \A l \in Link : closing'[l] # "no" <=> closing[l] # "no"
  BY WireKinds DEF Touches
<1>3. UNCHANGED <<open, previous, restored, stack, sub, owner, missed>>
  BY DEF Touches
<1> QED BY <1>0, <1>1, <1>2, <1>3, WireKinds, StandKeepsWires DEF HandlersInv, TopInv

LEMMA WiresKeepWires ==
  ASSUME WireTypeOK, WireInv, NEW l \in Link, WireStep(l) \/ TableStep(l)
  PROVE  WireInv'
<1>1. CASE OnWireClosed(l)
  BY <1>1, PopKeepsWires, BuriedKeepsWires DEF OnWireClosed
<1> QED BY <1>1, PushKeepsWires, SubscribeKeepsWires, RestoredKeepsWires, WatchKeepsWires
        DEF WireStep, TableStep

(* What a step of the session system does to the wires.                    *)
LEMMA StepOfWires ==
  ASSUME WireTypeOK, SessionInv, CallerInv, SessionNext
  PROVE  /\ CallerInv'
         /\ Touches \/ \E l \in Link : WireStep(l) \/ TableStep(l)
<1>0. Idle.by = NoOne /\ job \in Jobs /\ SlotTable
  BY DEF Idle, SessionInv, SlotTable, WireTypeOK
<1>1. ASSUME NEW i \in Instance, Create(i) \/ Finish(i)
      PROVE  CallerInv' /\ Touches
  <2>1. \E op \in {"create", "finish", "attach"} : Begin(op, i, NoOne, attached)
    BY <1>1 DEF Create, Finish
  <2>2. UNCHANGED <<quietVars, wireVars>>
    BY <1>1 DEF Create, Finish
  <2>3. i \in Instance \cup {NoInstance} /\ NoOne \in Link \cup {NoOne}
    OBVIOUS
  <2> QED BY <2>1, <2>2, <2>3, BeginTouches
<1>2. ASSUME NEW l \in Link, Attach(l) PROVE CallerInv' /\ Touches
  BY <1>2, BeginTouches DEF Attach
<1>3. CASE AttachAgain
  BY <1>3, BeginTouches DEF AttachAgain
<1>4. ASSUME NEW i \in Instance,
             FlushOne(i) \/ ReplayOne(i) \/ CreateBody(i) \/ FinishBody(i) \/ FinishSent(i)
      PROVE  CallerInv' /\ Touches
  BY <1>4, BodyTouches
<1>5. CASE StartReplay \/ EndReplay
  <2>1. /\ Returns(job) /\ UNCHANGED <<quietVars, wireVars>>
        /\ job' = [job EXCEPT !.pc = "replay", !.todo = Unsent] \/ \E due : job' = RoundDone(due)
    BY <1>5 DEF StartReplay, EndReplay
  <2>2. job' = Idle \/ job'.by = job.by
    <3>1. CASE job' = [job EXCEPT !.pc = "replay", !.todo = Unsent]
      BY <1>0, <3>1 DEF Jobs
    <3>2. ASSUME NEW due, job' = RoundDone(due) PROVE job' = Idle \/ job'.by = job.by
      <4>1. FALSE \in BOOLEAN
        OBVIOUS
      <4>2. job' = FlushRound(job, pending, due, FALSE) \/ job' = AfterRounds(job)
        BY <3>2 DEF RoundDone
      <4> QED BY <1>0, <4>1, <4>2, RoundFacts
    <3> QED BY <2>1, <3>1, <3>2
  <2>3. /\ \/ stage' = stage
           \/ \E l \in Link : stage[l] = "bound" /\ stage' = [stage EXCEPT ![l] = "attached"]
        /\ CallerInv'
    BY <1>0, <2>1, <2>2, ReturnsTouches DEF CallerInv, WireTypeOK
  <2> QED BY <1>0, <2>1, <2>3 DEF Touches, quietVars, wireVars, SlotTable
<1>6. CASE EnterSlot
  <2>1. job.at \in Instance
    BY <1>0, <1>6 DEF EnterSlot, Jobs
  <2> QED BY <1>6, <2>1, BodyTouches
<1>7. CASE FinishUnsent
  <2>1. /\ UNCHANGED <<open, stage, closing, previous, restored, stack, sub, archive, owner, missed>>
        /\ job' = Idle /\ (slots' = slots \/ slots' = [slots EXCEPT ![snap[job.who]] = job.at])
    BY <1>7 DEF FinishUnsent, linkVars
  <2>2. SlotTable'
    BY <1>0, <2>1 DEF SlotTable, Jobs
  <2> QED BY <1>0, <2>1, <2>2 DEF Touches, CallerInv
<1>8. ASSUME NEW l \in Link, Wires(l)
      PROVE  CallerInv' /\ (WireStep(l) \/ TableStep(l))
  <2>1. job' = job /\ (WireStep(l) \/ TableStep(l))
    BY <1>8 DEF Wires
  <2>2. \A m \in Link : stage[m] = "bound" => stage'[m] = "bound"
    BY <2>1 DEF WireStep, TableStep, BindPush, BindSubscribe, Watch, SocketStops, ClosedUnheard,
       SubscribeRestored, CheckLastLink, OnWireClosed, quietVars, wireVars, WireTypeOK
  <2> QED BY <2>1, <2>2 DEF CallerInv
<1>9. ASSUME NEW l \in Link, AttachIdle(l) PROVE CallerInv' /\ Touches
  BY <1>0, <1>9 DEF AttachIdle, GateFree, CallerInv, Touches, quietVars, wireVars, SlotTable
<1>10. ASSUME NEW l \in Link, Detach(l) PROVE CallerInv' /\ Touches
  BY <1>0, <1>10 DEF Detach, GateFree, CallerInv, Touches, wireVars, SlotTable
<1>11. CASE Install \/ \E on \in BOOLEAN : SetEnabled(on)
  BY <1>0, <1>11 DEF Install, SetEnabled, CallerInv, Touches, linkVars, wireVars, SlotTable
<1> QED BY <1>1, <1>2, <1>3, <1>4, <1>5, <1>6, <1>7, <1>8, <1>9, <1>10, <1>11
        DEF SessionNext, Operation, Settling

FlagTypes ==
  /\ installed \in BOOLEAN /\ reporting \in BOOLEAN /\ attachDue \in BOOLEAN
  /\ attached \in BOOLEAN /\ connected \in BOOLEAN
  /\ overlapped \in BOOLEAN /\ boundLate \in BOOLEAN
  /\ sessionGen \in Link \cup {NoLink} /\ cast \subseteq Instance
  /\ known \in [Link -> [Slot -> Instance \cup {NoInstance}]]

LinksInv == WireTypeOK /\ FlagTypes /\ SessionInv /\ CallerInv /\ WireInv

LEMMA BeginFlags ==
  ASSUME WireTypeOK, FlagTypes, NEW op, NEW who, NEW by, NEW on \in BOOLEAN, Begin(op, who, by, on)
  PROVE  attached' \in BOOLEAN /\ connected' \in BOOLEAN /\ sessionGen' \in Link \cup {NoLink}
<1>1. /\ attached' = on /\ connected' = (on /\ IsConnected)
      /\ sessionGen' = owner \/ sessionGen' = NoLink
  BY DEF Begin, Refresh
<1>2. attached' \in BOOLEAN /\ connected' \in BOOLEAN
  BY <1>1
<1> QED BY <1>1, <1>2 DEF WireTypeOK

LEMMA ToldTypes ==
  ASSUME FlagTypes, NEW i \in Instance,
         known' = known \/ Forget(i) \/ \E s : Tell(i, s)
  PROVE  known' \in [Link -> [Slot -> Instance \cup {NoInstance}]]
<1>0. known \in [Link -> [Slot -> Instance \cup {NoInstance}]]
  BY DEF FlagTypes
<1>1. CASE Forget(i)
  <2> DEFINE t == [s \in Slot |-> IF known[Active][s] = i THEN NoInstance ELSE known[Active][s]]
  <2>1. CASE known' = known
    BY <1>0, <2>1
  <2>2. CASE known' = [known EXCEPT ![Active] = t] /\ Active \in Link
    <3>1. t \in [Slot -> Instance \cup {NoInstance}]
      BY <1>0, <2>2
    <3> HIDE DEF t
    <3> QED BY <1>0, <2>2, <3>1
  <2>3. CASE known' = [known EXCEPT ![Active] = t] /\ Active \notin Link
    <3> HIDE DEF t
    <3> QED BY <1>0, <2>3
  <2> QED BY <1>1, <2>1, <2>2, <2>3 DEF Forget
<1>2. ASSUME NEW s, Tell(i, s) PROVE known' \in [Link -> [Slot -> Instance \cup {NoInstance}]]
  BY <1>0, <1>2 DEF Tell
<1> QED BY <1>0, <1>1, <1>2

LEMMA FlagsKept ==
  ASSUME WireTypeOK, FlagTypes, SessionNext
  PROVE  FlagTypes'
<1> USE DEF flagVars, sessionVars, historyVars
<1>1. ASSUME NEW i \in Instance, Create(i) \/ Finish(i)
      PROVE  FlagTypes'
  BY <1>1, BeginFlags DEF Create, Finish, FlagTypes
<1>2. ASSUME NEW l \in Link, Attach(l) PROVE FlagTypes'
  BY <1>2, BeginFlags DEF Attach, FlagTypes
<1>3. CASE AttachAgain
  BY <1>3, BeginFlags DEF AttachAgain, FlagTypes
<1>4. ASSUME NEW i \in Instance,
             FlushOne(i) \/ ReplayOne(i) \/ CreateBody(i) \/ FinishBody(i) \/ FinishSent(i)
      PROVE  FlagTypes'
  <2>1. known' = known \/ Forget(i) \/ \E s : Tell(i, s)
    BY <1>4 DEF FlushOne, ReplayOne, CreateBody, CreateAgain, CreateNoSlot, CreateSent,
       CreateUnsent, CreateKept, FinishBody, FinishLocally, FinishBegins, FinishSent
  <2>2. UNCHANGED <<flagVars, connected, sessionGen, cast, overlapped, boundLate>>
    BY <1>4 DEF FlushOne, ReplayOne, CreateBody, FinishBody, FinishSent
  <2> QED BY <2>1, <2>2, ToldTypes DEF FlagTypes
<1>5. CASE EnterSlot \/ StartReplay \/ EndReplay \/ FinishUnsent
  BY <1>5 DEF EnterSlot, StartReplay, EndReplay, FinishUnsent, FlagTypes
<1>6. ASSUME NEW l \in Link, Wires(l) PROVE FlagTypes'
  <2>1. NoSlots \in [Slot -> Instance \cup {NoInstance}]
    BY Tables
  <2>2. CASE /\ TableStep(l)
             /\ overlapped' = (~GateFree \/ (overlapped /\ stack' # <<>>))
             /\ known' = [m \in Link |-> IF overlapped' \/ Gone(m)' THEN NoSlots ELSE known[m]]
             /\ boundLate' = IF stage' = stage THEN boundLate
                             ELSE \E m \in Link : closing[m] = "detach"
             /\ UNCHANGED <<flagVars, sessionVars, job, cast, finished>>
    <3>1. overlapped' \in BOOLEAN /\ boundLate' \in BOOLEAN
      BY <2>2 DEF FlagTypes
    <3>2. known' \in [Link -> [Slot -> Instance \cup {NoInstance}]]
      BY <2>1, <2>2 DEF FlagTypes
    <3> QED BY <2>2, <3>1, <3>2 DEF FlagTypes
  <2>3. CASE UNCHANGED <<flagVars, sessionVars, job, known, historyVars>>
    BY <2>3 DEF FlagTypes
  <2> QED BY <1>6, <2>2, <2>3 DEF Wires
<1>7. ASSUME NEW l \in Link, AttachIdle(l) PROVE FlagTypes'
  BY <1>7 DEF AttachIdle, FlagTypes
<1>8. ASSUME NEW l \in Link, Detach(l) PROVE FlagTypes'
  <2>1. NoSlots \in [Slot -> Instance \cup {NoInstance}]
    BY Tables
  <2>2. overlapped' \in BOOLEAN
    BY <1>8 DEF Detach
  <2>3. known' \in [Link -> [Slot -> Instance \cup {NoInstance}]]
    BY <1>8, <2>1 DEF Detach, FlagTypes
  <2> QED BY <1>8, <2>2, <2>3 DEF Detach, FlagTypes
<1>9. CASE Install
  <2>1. connected' \in BOOLEAN
    BY <1>9 DEF Install, IsConnected
  <2> QED BY <1>9, <2>1 DEF Install, FlagTypes, WireTypeOK
<1>10. ASSUME NEW on \in BOOLEAN, SetEnabled(on) PROVE FlagTypes'
  <2>1. attachDue' \in BOOLEAN
    BY <1>10 DEF SetEnabled
  <2> QED BY <1>10, <2>1 DEF SetEnabled, FlagTypes
<1> QED BY <1>1, <1>2, <1>3, <1>4, <1>5, <1>6, <1>7, <1>8, <1>9, <1>10
        DEF SessionNext, Operation, Settling

LEMMA LinksInitial ==
  ASSUME SessionInit
  PROVE  LinksInv
<1>0. /\ Nowhere \in Slots /\ \A i \in Instance : Nowhere[i] = 0
      /\ MaxSlot \in Nat \ {0} /\ NoSlots \in [Slot -> Instance \cup {NoInstance}]
      /\ Idle \in Jobs /\ Idle.by = NoOne /\ Idle.pc = "idle"
  BY Constants, IdleFacts DEF Nowhere, Slots, Idle
<1>1. WireTypeOK
  BY <1>0 DEF SessionInit, WireInit, WireTypeOK
<1>2. FlagTypes
  BY <1>0 DEF SessionInit, FlagTypes
<1>3. SessionInv
  <2>0. nextSlot \in 1..MaxSlot + 1
    BY <1>0 DEF SessionInit
  <2>1. TableTypes
    BY <1>0, <2>0 DEF SessionInit, TableTypes
  <2>2. TablesInv /\ ReplayInv
    BY <1>0 DEF SessionInit, TablesInv, ReplayInv
  <2> QED BY <1>0, <2>1, <2>2 DEF SessionInit, SessionInv
<1>4. CallerInv
  BY <1>0 DEF SessionInit, CallerInv
<1>5. WireInv
  <2>0. /\ stack = <<>> /\ Len(stack) = 0 /\ \A l \in Link : ~Stacked(l)
    BY DEF SessionInit, WireInit, Stacked
  <2>1. ASSUME NEW a \in Link PROVE Those(previous, a) = {} /\ Those(restored, a) = {}
    BY Constants DEF SessionInit, WireInit, Those
  <2>2. Balance
    BY <2>0, <2>1, FS_EmptySet DEF Balance
  <2>3. OnceStacked /\ HandlersInv /\ TopInv
    BY <2>0 DEF SessionInit, WireInit, OnceStacked, HandlersInv, TopInv
  <2> QED BY <2>2, <2>3 DEF WireInv
<1> QED BY <1>1, <1>2, <1>3, <1>4, <1>5 DEF LinksInv

(* LinksInv is inductive.                                                  *)
LEMMA LinksInductive ==
  ASSUME LinksInv, [SessionNext]_allVars
  PROVE  LinksInv' /\ SlotsStay
<1>1. CASE SessionNext
  <2>1. WireTypeOK /\ FlagTypes /\ SessionInv /\ CallerInv /\ WireInv /\ SlotTable
    BY DEF LinksInv, SlotTable, WireTypeOK
  <2>2. SessionInv' /\ SlotsStay
    BY <1>1, <2>1, SessionStep DEF SlotTable
  <2>3. CallerInv' /\ (Touches \/ \E l \in Link : WireStep(l) \/ TableStep(l))
    BY <1>1, <2>1, StepOfWires
  <2>4. WireTypeOK' /\ WireInv'
    BY <2>1, <2>3, TouchTypes, WireTypes, TouchKeepsWires, WiresKeepWires
  <2>5. FlagTypes'
    BY <1>1, <2>1, FlagsKept
  <2> QED BY <2>2, <2>3, <2>4, <2>5 DEF LinksInv
<1>2. CASE UNCHANGED allVars
  <2>1. /\ UNCHANGED <<open, stage, closing, previous, restored, stack, sub, slots, archive,
                       owner, missed, job>>
        /\ UNCHANGED <<flagVars, sessionVars, known, historyVars>>
    BY <1>2 DEF allVars, linkVars, wireVars
  <2>2. SessionInv' /\ SlotsStay
    BY <2>1, NothingMoves DEF sessionVars, historyVars, LinksInv
  <2>3. WireTypeOK' /\ FlagTypes' /\ CallerInv'
    BY <2>1 DEF LinksInv, WireTypeOK, FlagTypes, CallerInv, flagVars, sessionVars, historyVars
  <2>4. WireInv'
    <3>1. stack # <<>> => Active \in Link
      BY Tables, ActiveFacts DEF LinksInv
    <3> QED BY <2>1, <3>1, StandKeepsWires, WireKinds DEF LinksInv, HandlersInv, TopInv
  <2> QED BY <2>2, <2>3, <2>4 DEF LinksInv
<1> QED BY <1>1, <1>2

(* The session and its transport keep their types.                         *)
THEOREM SessionTypeCorrect == SessionSpec => []SessionTypeOK
<1>1. SessionInit => LinksInv
  BY LinksInitial
<1>2. LinksInv /\ [SessionNext]_allVars => LinksInv'
  BY LinksInductive
<1>3. LinksInv => SessionTypeOK
  BY DEF LinksInv, SessionTypeOK, FlagTypes, SessionInv, TableTypes, Jobs
<1> QED BY <1>1, <1>2, <1>3, PTL DEF SessionSpec

(* TablesAgree: at every step of Create, Finish and a replay, what was sent,*)
(* what is registered and what waits to be sent have the same slots, no slot*)
(* has two instances or lies at the cursor, a session that owes no replay  *)
(* has all that is registered, and what is finished is in no table.        *)
THEOREM TablesAgreeCorrect == SessionSpec => []TablesAgree
<1>1. SessionInit => LinksInv
  BY LinksInitial
<1>2. LinksInv /\ [SessionNext]_allVars => LinksInv'
  BY LinksInductive
<1>3. LinksInv => TablesAgree
  BY DEF LinksInv, SessionInv, TablesInv, ReplayInv, TablesAgree
<1> QED BY <1>1, <1>2, <1>3, PTL DEF SessionSpec

(* SlotKept: an instance that stays registered keeps its slot, across the  *)
(* loss of every link, replays on the next one and sends that fail         *)
(* (TryReserveSlotLocked, ResetSessionLocked).                             *)
THEOREM SlotKeptCorrect == SessionSpec => SlotKept
<1>1. SessionInit => LinksInv
  BY LinksInitial
<1>2. LinksInv /\ [SessionNext]_allVars =>
        LinksInv' /\ [\A i \in Instance : reg[i] # 0 /\ reg'[i] # 0 => reg'[i] = reg[i]]_allVars
  BY LinksInductive DEF SlotsStay
<1> QED BY <1>1, <1>2, PTL DEF SessionSpec, SlotKept

(* TopServes: with the threads of the links at rest, the wire on top of the*)
(* stack is open and subscribed to, unless it ended before it was; and the *)
(* session has an owner exactly as long as there is a wire: in whatever order*)
(* the steps of Bind and OnWireClosed of any number of links ran.          *)
THEOREM TopServesCorrect == SessionSpec => []TopServes
<1>1. SessionInit => LinksInv
  BY LinksInitial
<1>2. LinksInv /\ [SessionNext]_allVars => LinksInv'
  BY LinksInductive
<1>3. LinksInv => TopServes
  <2> SUFFICES ASSUME LinksInv PROVE TopServes
    OBVIOUS
  <2>0. WireTypeOK /\ WireInv
    BY DEF LinksInv
  <2>1. ASSUME LinksAtRest, stack # <<>>, Active \notin missed
        PROVE  ActiveOpen /\ sub[Active] > 0
    <3>0. Active \in Link /\ Stacked(Active)
      BY <2>0, <2>1, Tables, ActiveFacts
    <3>1. open[Active]
      BY <2>0, <2>1, <3>0, WireKinds DEF LinksAtRest, TopInv
    <3>2. Those(restored, Active) = {} /\ Equal(stage[Active], "pushed") = 0
      BY <2>0, <2>1, <3>0, WireKinds DEF LinksAtRest, Those, Equal
    <3>3. /\ Cardinality(Those(previous, Active)) \in Nat /\ sub[Active] \in Nat
          /\ sub[Active] + Equal(stage[Active], "pushed") + Cardinality(Those(restored, Active))
               >= Cardinality(Those(previous, Active)) + Equal(Active, Active)
      BY <2>0, <3>0, Sides
    <3>4. Cardinality(Those(restored, Active)) = 0 /\ Equal(Active, Active) = 1
      BY <3>2, FS_EmptySet DEF Equal
    <3>5. sub[Active] > 0
      BY <3>2, <3>3, <3>4
    <3> QED BY <2>1, <3>1, <3>5 DEF ActiveOpen
  <2> QED BY <2>0, <2>1, WireKinds DEF TopServes, TopInv
<1> QED BY <1>1, <1>2, <1>3, PTL DEF SessionSpec

---------------------------------------------------------------------------
(* What the slot tables admit is known to the clients.  While the active   *)
(* wire has not changed inside an operation, every slot that the table of  *)
(* an open wire holds is below the cursor, and whoever is registered under *)
(* it is the instance the client of that wire was told of.                 *)
TableOf(m) == IF m = Active THEN slots ELSE archive[m]

EntriesKnown ==
  \A m \in Link : Stacked(m) /\ open[m] =>
    \A s \in Slot : TableOf(m)[s] # NoInstance =>
      s < nextSlot /\ \A i \in Instance : reg[i] = s => known[m][s] = i

TablesEmpty == \A m \in Link : Stacked(m) => TableOf(m) = NoSlots

\* A session that is not the one of the wires has been told to nobody.
OwnerKnown == connected /\ sessionGen # owner => GateFree /\ TablesEmpty

\* What the operation is about to enter into the active table, or to put back.
ToldInv ==
  ActiveOpen /\ job.at # NoInstance =>
    /\ job.pc \in {"flush", "replay", "sent"} =>
         snap[job.at] # 0 /\ known[Active][snap[job.at]] = job.at
    /\ job.pc \in {"finish", "unsent"} =>
         snap[job.who] # 0 /\ known[Active][snap[job.who]] = job.who

SettledInv ==
  /\ connected => attached
  /\ ~installed => GateFree /\ ~connected /\ ~attachDue /\ TablesEmpty
  /\ job.pc = "flush" => \A i \in job.todo : pending[i] # 0
  /\ job.pc \in {"finish", "unsent"} => job.who \in Instance

EventsInv == SettledInv /\ (~overlapped => EntriesKnown /\ OwnerKnown /\ ToldInv)

LEMMA IdleJob ==
  ASSUME job = Idle
  PROVE  job.at = NoInstance /\ job.pc = "idle"
BY IdleFacts

(* The types that the lemmas on events need.                               *)
LEMMA Kinds ==
  ASSUME LinksInv
  PROVE  /\ WireTypeOK /\ FlagTypes /\ SessionInv /\ TableTypes /\ TablesInv /\ ReplayInv
         /\ WireInv /\ job \in Jobs /\ stack \in Seq(Link) /\ OnceStacked
         /\ slots \in [Slot -> Instance \cup {NoInstance}]
         /\ known \in [Link -> [Slot -> Instance \cup {NoInstance}]]
         /\ \A s \in Slot : s \in Nat /\ s # 0
         /\ \A s \in 0..MaxSlot : s # 0 => s \in Slot
         /\ ActiveOpen => Active \in Link /\ Stacked(Active) /\ open[Active]
<1>1. /\ WireTypeOK /\ FlagTypes /\ SessionInv /\ TableTypes /\ TablesInv /\ ReplayInv
      /\ WireInv /\ job \in Jobs /\ OnceStacked
  BY DEF LinksInv, SessionInv, WireInv
<1>2. /\ stack \in Seq(Link) /\ slots \in [Slot -> Instance \cup {NoInstance}]
      /\ known \in [Link -> [Slot -> Instance \cup {NoInstance}]]
  BY <1>1 DEF WireTypeOK, FlagTypes
<1>3. /\ \A s \in Slot : s \in Nat /\ s # 0
      /\ \A s \in 0..MaxSlot : s # 0 => s \in Slot
  BY Constants DEF Slot
<1>4. ActiveOpen => Active \in Link /\ Stacked(Active) /\ open[Active]
  BY <1>2, ActiveFacts DEF ActiveOpen
<1> QED BY <1>1, <1>2, <1>3, <1>4

(* Nothing that the tables and the operation are about has changed.        *)
LEMMA StandKeepsEvents ==
  ASSUME EventsInv,
         UNCHANGED <<stack, slots, archive, owner, known, overlapped, connected, sessionGen,
                     attached, installed, job, snap, reg, pending, nextSlot>>,
         attachDue' => attachDue \/ installed,
         \A l \in Link : open'[l] => open[l],
         Active \in Link \cup {NoLink}, stack # <<>> => Active \in Link
  PROVE  EventsInv'
<1>1. Active' = Active /\ (\A m \in Link : Stacked(m)' <=> Stacked(m))
  BY DEF Active, Stacked
<1>2. \A m \in Link : TableOf(m)' = TableOf(m)
  BY <1>1 DEF TableOf
<1>3. TablesEmpty' <=> TablesEmpty
  BY <1>1, <1>2 DEF TablesEmpty
<1>4. SettledInv'
  BY <1>3 DEF EventsInv, SettledInv, GateFree
<1>5. ASSUME ~overlapped PROVE EntriesKnown' /\ OwnerKnown' /\ ToldInv'
  <2>0. EntriesKnown /\ OwnerKnown /\ ToldInv
    BY <1>5 DEF EventsInv
  <2>1. EntriesKnown'
    BY <1>1, <1>2, <2>0 DEF EntriesKnown
  <2>2. OwnerKnown'
    BY <1>3, <2>0 DEF OwnerKnown, GateFree
  <2>3. ToldInv'
    BY <1>1, <2>0 DEF ToldInv, ActiveOpen
  <2> QED BY <2>1, <2>2, <2>3
<1> QED BY <1>4, <1>5 DEF EventsInv

(* The active wire changes: the wires that stay keep their tables.         *)
LEMMA TablesCarried ==
  ASSUME LinksInv, NEW l \in Link, TableStep(l)
  PROVE  /\ \A m \in Link : Stacked(m)' =>
              TableOf(m)' = NoSlots \/ (Stacked(m) /\ TableOf(m)' = TableOf(m))
         /\ owner' = owner \/ \A m \in Link : Stacked(m)' => TableOf(m)' = NoSlots
         /\ open' = open /\ \A m \in Link : Stacked(m)' => ~Gone(m)'
<1>0. /\ WireTypeOK /\ WireInv /\ OnceStacked /\ stack \in Seq(Link) /\ Len(stack) \in Nat
      /\ archive \in [Link -> [Slot -> Instance \cup {NoInstance}]]
  BY Kinds, Tables DEF WireTypeOK
<1>1. open' = open /\ \A m \in Link : Stacked(m)' => ~Gone(m)'
  BY DEF TableStep, BindPush, OnWireClosed, Gone
<1>2. CASE BindPush(l)
  <2>1. /\ Active' = l /\ slots' = NoSlots /\ ~Stacked(l)
        /\ \A m \in Link : Stacked(m)' <=> Stacked(m) \/ m = l
    BY <1>0, <1>2, PushedStack DEF BindPush
  <2>2. archive' = IF stack = <<>> THEN archive ELSE [archive EXCEPT ![Active] = slots]
    BY <1>2 DEF BindPush
  <2>3. ASSUME NEW m \in Link, Stacked(m), m # l PROVE TableOf(m)' = TableOf(m)
    <3>1. stack # <<>> /\ Active \in Link
      BY <1>0, <2>3, ActiveFacts DEF Stacked
    <3>2. archive'[m] = IF m = Active THEN slots ELSE archive[m]
      BY <1>0, <2>2, <3>1
    <3> QED BY <2>1, <2>3, <3>2 DEF TableOf
  <2>4. TableOf(l)' = NoSlots
    BY <2>1 DEF TableOf
  <2>5. stack = <<>> => \A m \in Link : ~Stacked(m)
    BY DEF Stacked
  <2>6. stack # <<>> => owner' = owner
    BY <1>2 DEF BindPush
  <2> QED BY <1>1, <2>1, <2>3, <2>4, <2>5, <2>6
<1>3. CASE OnWireClosed(l) /\ PopActive(l)
  <2>0. /\ OpenDepth \in Nat /\ (OpenDepth = 0 \/ OpenDepth <= Len(stack) - 1)
        /\ Len(stack') = OpenDepth /\ \A k \in 1..OpenDepth : stack'[k] = stack[k]
        /\ OpenDepth # 0 => Active' = stack[OpenDepth] /\ slots' = archive[stack[OpenDepth]]
                            /\ owner' = owner
        /\ OpenDepth = 0 => stack' = <<>>
    BY <1>0, <1>3, PopFacts
  <2>1. archive' = Left(OpenDepth)
    BY <1>3 DEF PopActive
  <2>2. ASSUME NEW m \in Link, Stacked(m)' PROVE Stacked(m) /\ TableOf(m)' = TableOf(m)
    <3>1. Stacked(m) /\ m # Active
      BY <1>0, <1>3, <2>2, PoppedStack
    <3>2. PICK k \in 1..OpenDepth : stack[k] = m
      BY <2>0, <2>2 DEF Stacked
    <3>3. CASE m = Active'
      BY <2>0, <3>1, <3>2, <3>3 DEF TableOf
    <3>4. CASE m # Active'
      <4>1. k \in 1..OpenDepth - 1
        BY <2>0, <3>2, <3>4
      <4>2. archive'[m] = archive[m]
        BY <2>1, <3>2, <4>1 DEF Left
      <4> QED BY <3>1, <3>4, <4>2 DEF TableOf
    <3> QED BY <3>1, <3>3, <3>4
  <2>3. OpenDepth = 0 => \A m \in Link : ~Stacked(m)'
    BY <2>0 DEF Stacked
  <2> QED BY <1>1, <2>0, <2>2, <2>3
<1>4. CASE OnWireClosed(l) /\ Active # l /\ RemoveBuried(l)
  <2>1. /\ \A m \in Link : Stacked(m)' <=> Stacked(m) /\ m # l
        /\ Active' = Active
    BY <1>0, <1>4, BuriedStack
  <2>2. archive' = [archive EXCEPT ![l] = NoSlots] /\ slots' = slots /\ owner' = owner
    BY <1>4 DEF RemoveBuried
  <2>3. \A m \in Link : m # l => TableOf(m)' = TableOf(m)
    BY <1>0, <2>1, <2>2 DEF TableOf
  <2> QED BY <1>1, <2>1, <2>2, <2>3
<1> QED BY <1>2, <1>3, <1>4 DEF TableStep, OnWireClosed

LEMMA TableStepKeepsEvents ==
  ASSUME LinksInv, EventsInv, NEW l \in Link, TableStep(l),
         overlapped' = (~GateFree \/ (overlapped /\ stack' # <<>>)),
         known' = [m \in Link |-> IF overlapped' \/ Gone(m)' THEN NoSlots ELSE known[m]],
         UNCHANGED <<flagVars, sessionVars, job, cast, finished>>
  PROVE  EventsInv'
<1>0. /\ UNCHANGED <<snap, reg, pending, nextSlot, connected, sessionGen, installed, attachDue,
                     attached, job>>
      /\ job \in Jobs
  BY Kinds DEF flagVars, sessionVars, tableVars
<1>1. /\ \A m \in Link : Stacked(m)' =>
           TableOf(m)' = NoSlots \/ (Stacked(m) /\ TableOf(m)' = TableOf(m))
      /\ owner' = owner \/ \A m \in Link : Stacked(m)' => TableOf(m)' = NoSlots
      /\ open' = open /\ \A m \in Link : Stacked(m)' => ~Gone(m)'
  BY TablesCarried
<1>2. TablesEmpty => TablesEmpty'
  BY <1>1 DEF TablesEmpty
<1>3. SettledInv'
  BY <1>0, <1>2 DEF EventsInv, SettledInv, GateFree
<1>4. ASSUME ~overlapped' PROVE EntriesKnown' /\ OwnerKnown' /\ ToldInv'
  <2>1. GateFree /\ (~overlapped \/ stack' = <<>>)
    BY <1>4
  <2>2. stack' = <<>> => \A m \in Link : ~Stacked(m)'
    BY DEF Stacked
  <2>3. EntriesKnown'
    <3>1. CASE stack' = <<>>
      BY <2>2, <3>1 DEF EntriesKnown
    <3>2. CASE ~overlapped
      <4>1. \A m \in Link : Stacked(m)' => known'[m] = known[m]
        BY <1>1, <1>4
      <4>2. EntriesKnown
        BY <3>2 DEF EventsInv
      <4>3. \A s \in Slot : NoSlots[s] = NoInstance
        BY Constants
      <4> QED BY <1>0, <1>1, <4>1, <4>2, <4>3 DEF EntriesKnown
    <3> QED BY <2>1, <3>1, <3>2
  <2>4. OwnerKnown'
    <3>1. CASE stack' = <<>>
      BY <1>0, <2>1, <2>2, <3>1 DEF OwnerKnown, GateFree, TablesEmpty
    <3>2. CASE ~overlapped
      BY <1>0, <1>1, <1>2, <2>1, <3>2 DEF EventsInv, OwnerKnown, GateFree, TablesEmpty
    <3> QED BY <2>1, <3>1, <3>2
  <2>5. ToldInv'
    BY <1>0, <2>1, IdleJob DEF ToldInv, GateFree
  <2> QED BY <2>3, <2>4, <2>5
<1> QED BY <1>3, <1>4 DEF EventsInv

(* An operation begins: its own rounds start with what is pending.         *)
LEMMA RoundTodo ==
  ASSUME NEW j \in Jobs, NEW p, NEW due, NEW again \in BOOLEAN,
         job' = FlushRound(j, p, due, again) \/ job' = AfterRounds(j)
  PROVE  job'.pc = "flush" => job'.todo = {i \in Instance : p[i] # 0}
<1>1. CASE job' = AfterRounds(j)
  <2>1. CASE j.op = "attach"
    BY <1>1, <2>1, IdleFacts DEF AfterRounds
  <2>2. CASE j.op # "attach"
    <3>1. job' = [j EXCEPT !.pc = "body", !.all = TRUE]
      BY <1>1, <2>2 DEF AfterRounds
    <3> QED BY <3>1 DEF Jobs
  <2> QED BY <2>1, <2>2
<1>2. CASE job' = FlushRound(j, p, due, again) /\ job' # AfterRounds(j)
  <2>1. job' = [j EXCEPT !.pc = "flush", !.again = again, !.all = TRUE,
                         !.todo = {i \in Instance : p[i] # 0}]
    BY <1>2 DEF FlushRound
  <2> QED BY <2>1 DEF Jobs
<1> QED BY <1>1, <1>2

LEMMA BeginTodo ==
  ASSUME NEW op \in {"create", "finish", "attach"}, NEW who \in Instance \cup {NoInstance},
         NEW by \in Link \cup {NoOne}, NEW on, Begin(op, who, by, on)
  PROVE  job'.pc = "flush" => job'.todo = {i \in Instance : pending'[i] # 0}
<1> DEFINE j == Job(op, who, by) up == on /\ IsConnected
<1>1. Refresh(j, up)
  BY DEF Begin
<1>2. j \in Jobs /\ j.op = op
  BY IdleFacts
<1> HIDE DEF j, up
<1>3. \/ \E again \in BOOLEAN : job' = FlushRound(j, pending', replayPending', again)
      \/ job' = [j EXCEPT !.pc = "body"]
  BY <1>1, <1>2 DEF Refresh
<1>4. CASE \E again \in BOOLEAN : job' = FlushRound(j, pending', replayPending', again)
  BY <1>2, <1>4, RoundTodo
<1>5. CASE job' = [j EXCEPT !.pc = "body"]
  BY <1>2, <1>5 DEF Jobs
<1> QED BY <1>3, <1>4, <1>5

LEMMA BeginKeepsEvents ==
  ASSUME LinksInv, EventsInv, NEW op \in {"create", "finish", "attach"},
         NEW who \in Instance \cup {NoInstance}, NEW by \in Link \cup {NoOne}, NEW on,
         connected => on, installed,
         Begin(op, who, by, on),
         UNCHANGED <<quietVars, wireVars, installed, known, overlapped>>
  PROVE  EventsInv'
<1>0. /\ attached' = on /\ connected' = (on /\ IsConnected)
      /\ connected' => sessionGen' = owner
      /\ UNCHANGED tableVars \/ (Wipe /\ connected /\ ~(on /\ IsConnected /\ SameSession))
  BY DEF Begin, Refresh
<1>1. /\ job'.pc \in {"idle", "flush", "body"} /\ job'.at = NoInstance
      /\ job'.pc = "flush" => job'.todo = {i \in Instance : pending'[i] # 0}
  BY Kinds, BeginFacts, BeginTodo
<1>2. UNCHANGED <<open, stack, slots, archive, owner>>
  BY DEF quietVars, wireVars
<1>3. SettledInv'
  BY <1>0, <1>1 DEF SettledInv
<1>4. ASSUME ~overlapped PROVE EntriesKnown' /\ OwnerKnown' /\ ToldInv'
  <2>0. EntriesKnown /\ OwnerKnown
    BY <1>4 DEF EventsInv
  <2>1. Active' = Active /\ (\A m \in Link : Stacked(m)' <=> Stacked(m))
        /\ \A m \in Link : TableOf(m)' = TableOf(m)
    BY <1>2 DEF Active, Stacked, TableOf
  <2>2. EntriesKnown'
    <3>1. CASE UNCHANGED tableVars
      BY <1>2, <2>0, <2>1, <3>1 DEF EntriesKnown, tableVars
    <3>2. CASE connected /\ ~(on /\ IsConnected /\ SameSession)
      <4>1. CASE ~IsConnected
        BY <1>2, <2>1, <4>1 DEF EntriesKnown, IsConnected, Stacked
      <4>2. CASE ~SameSession
        <5>1. TablesEmpty
          BY <2>0, <3>2, <4>2 DEF SameSession, OwnerKnown
        <5> QED BY <2>1, <5>1, Constants DEF EntriesKnown, TablesEmpty
      <4> QED BY <3>2, <4>1, <4>2
    <3> QED BY <1>0, <3>1, <3>2
  <2>3. OwnerKnown'
    BY <1>0, <1>2 DEF OwnerKnown
  <2>4. ToldInv'
    BY <1>1 DEF ToldInv
  <2> QED BY <2>2, <2>3, <2>4
<1> QED BY <1>3, <1>4 DEF EventsInv

(* The steps of an operation between its beginning and its end.            *)
LEMMA BodyKeepsEvents ==
  ASSUME EventsInv, job # Idle,
         UNCHANGED <<attached, installed, connected, sessionGen, owner, overlapped>>,
         job'.pc = "flush" => \A i \in job'.todo : pending'[i] # 0,
         job'.pc \in {"finish", "unsent"} => job'.who \in Instance,
         ~overlapped => EntriesKnown' /\ ToldInv'
  PROVE  EventsInv'
<1>1. installed /\ (connected => attached)
  BY DEF EventsInv, SettledInv, GateFree
<1>2. ~overlapped => (connected => sessionGen = owner)
  BY DEF EventsInv, OwnerKnown, GateFree
<1>3. SettledInv'
  BY <1>1 DEF SettledInv
<1>4. ~overlapped' => OwnerKnown'
  BY <1>2 DEF OwnerKnown
<1> QED BY <1>3, <1>4 DEF EventsInv

(* The tables of the wires stay as they are while the session's change.    *)
LEMMA SameWires ==
  ASSUME UNCHANGED <<stack, slots, archive, open>>
  PROVE  /\ Active' = Active /\ (ActiveOpen' <=> ActiveOpen)
         /\ \A m \in Link : (Stacked(m)' <=> Stacked(m)) /\ TableOf(m)' = TableOf(m)
BY DEF Active, ActiveOpen, Stacked, TableOf

(* An instance is told of under its own slot or under one above the cursor.*)
LEMMA PublishEntries ==
  ASSUME LinksInv, EventsInv, ~overlapped, NEW i \in Instance, snap[i] = 0,
         ReservedSlot(reg[i]) # 0, UNCHANGED <<stack, slots, archive, open>>,
         reg' = [reg EXCEPT ![i] = ReservedSlot(reg[i])], nextSlot' = NextAfter(reg[i]),
         known' = known \/ (ActiveOpen /\ Tell(i, ReservedSlot(reg[i])))
  PROVE  EntriesKnown'
<1> DEFINE s == ReservedSlot(reg[i])
<1>0. /\ EntriesKnown /\ reg \in Slots /\ nextSlot \in 1..MaxSlot + 1 /\ MaxSlot \in Nat
      /\ known \in [Link -> [Slot -> Instance \cup {NoInstance}]]
      /\ ActiveOpen => Active \in Link
      /\ \A t \in Slot : t \in Nat /\ t # 0
  BY Kinds, Constants DEF EventsInv, TableTypes
<1>1. /\ s \in 1..MaxSlot /\ nextSlot <= NextAfter(reg[i])
      /\ NextAfter(reg[i]) \in 1..MaxSlot + 1
      /\ reg[i] # 0 => s = reg[i]
      /\ reg[i] = 0 => nextSlot <= s
      /\ \A j \in Instance : j # i => reg[j] # s
  BY Kinds, OwnSlot
<1>2. \A m \in Link : (Stacked(m)' <=> Stacked(m)) /\ TableOf(m)' = TableOf(m)
  BY SameWires
<1>3. known' = known \/ (Active \in Link /\ known' = [known EXCEPT ![Active][s] = i])
  BY <1>0 DEF Tell
<1> HIDE DEF s
<1>4. \A j \in Instance : reg'[j] = IF j = i THEN s ELSE reg[j]
  BY <1>0 DEF Slots, s
<1>5. \A m \in Link, t \in Slot : known'[m][t] = known[m][t] \/ (t = s /\ known'[m][t] = i)
  BY <1>0, <1>3
<1>6. SUFFICES ASSUME NEW m \in Link, Stacked(m), open[m], NEW t \in Slot,
                      TableOf(m)[t] # NoInstance
               PROVE  t < nextSlot' /\ \A j \in Instance : reg'[j] = t => known'[m][t] = j
  BY <1>2 DEF EntriesKnown
<1>7. t < nextSlot /\ \A j \in Instance : reg[j] = t => known[m][t] = j
  BY <1>0, <1>6 DEF EntriesKnown
<1>8. t < nextSlot'
  BY <1>0, <1>1, <1>7
<1>9. ASSUME NEW j \in Instance, reg'[j] = t PROVE known'[m][t] = j
  <2>1. CASE j = i
    <3>1. t = s
      BY <1>4, <1>9, <2>1
    <3>2. reg[i] = s
      BY <1>0, <1>1, <1>7, <3>1
    <3>3. known[m][t] = i
      BY <1>7, <3>1, <3>2
    <3> QED BY <1>5, <2>1, <3>3
  <2>2. CASE j # i
    <3>1. reg[j] = t /\ t # s
      BY <1>1, <1>4, <1>9, <2>2
    <3> QED BY <1>5, <1>7, <3>1
  <2> QED BY <2>1, <2>2
<1> QED BY <1>8, <1>9

(* Fewer registrations, fewer entries, or a higher cursor ask for less.    *)
LEMMA FewerEntries ==
  ASSUME EntriesKnown, LinksInv,
         \A m \in Link : (Stacked(m)' <=> Stacked(m)) /\ open'[m] = open[m],
         \A m \in Link, s \in Slot : TableOf(m)'[s] # NoInstance => TableOf(m)[s] # NoInstance,
         nextSlot' \in Nat, nextSlot <= nextSlot',
         \A i \in Instance, s \in Slot : reg'[i] = s => reg[i] = s,
         \A m \in Link, s \in Slot, i \in Instance :
            known[m][s] = i /\ reg'[i] = s => known'[m][s] = i
  PROVE  EntriesKnown'
<1>0. nextSlot \in Nat /\ \A s \in Slot : s \in Nat
  BY Kinds, SlotTypes, Constants
<1>1. SUFFICES ASSUME NEW m \in Link, Stacked(m), open[m], NEW s \in Slot,
                      TableOf(m)'[s] # NoInstance
               PROVE  s < nextSlot' /\ \A i \in Instance : reg'[i] = s => known'[m][s] = i
  BY DEF EntriesKnown
<1>2. s < nextSlot /\ \A i \in Instance : reg[i] = s => known[m][s] = i
  BY <1>1 DEF EntriesKnown
<1>3. s < nextSlot'
  BY <1>0, <1>2
<1> QED BY <1>2, <1>3

(* An entry made for an instance under its slot, of which the client of    *)
(* the active wire was told.                                               *)
LEMMA EnteredKnown ==
  ASSUME LinksInv, EntriesKnown, NEW i \in Instance,
         ActiveOpen => snap[i] # 0 /\ known[Active][snap[i]] = i,
         slots' = slots \/ \E v : slots' = [slots EXCEPT ![snap[i]] = v],
         UNCHANGED <<stack, archive, open, reg, nextSlot, known>>
  PROVE  EntriesKnown'
<1>0. /\ TablesInv /\ slots \in [Slot -> Instance \cup {NoInstance}]
      /\ stack \in Seq(Link)
      /\ ActiveOpen => Active \in Link /\ Stacked(Active) /\ open[Active]
  BY Kinds
<1>1. Active' = Active /\ \A m \in Link : (Stacked(m)' <=> Stacked(m))
  BY DEF Active, Stacked
<1>2. SUFFICES ASSUME NEW m \in Link, Stacked(m), open[m], NEW s \in Slot,
                      TableOf(m)'[s] # NoInstance
               PROVE  s < nextSlot /\ \A j \in Instance : reg[j] = s => known[m][s] = j
  BY <1>1 DEF EntriesKnown
<1>3. CASE TableOf(m)[s] # NoInstance
  BY <1>2, <1>3 DEF EntriesKnown
<1>4. CASE TableOf(m)[s] = NoInstance
  <2>1. m = Active /\ slots'[s] # slots[s]
    BY <1>1, <1>2, <1>4 DEF TableOf
  <2>2. s = snap[i]
    BY <1>0, <2>1
  <2>3. ActiveOpen
    BY <1>2, <2>1 DEF ActiveOpen, Stacked
  <2>4. reg[i] = s /\ known[Active][s] = i /\ s # 0
    BY <1>0, <2>2, <2>3 DEF TablesInv
  <2>5. s < nextSlot
    BY <1>0, <2>4 DEF TablesInv
  <2>6. \A j \in Instance : reg[j] = s => j = i
    BY <1>0, <2>4 DEF TablesInv
  <2> QED BY <2>1, <2>4, <2>5, <2>6
<1> QED BY <1>3, <1>4

LEMMA FlushOneKeepsEvents ==
  ASSUME LinksInv, EventsInv, NEW i \in Instance, FlushOne(i)
  PROVE  EventsInv'
<1>0. /\ job \in Jobs /\ job.pc = "flush" /\ job # Idle /\ i \in job.todo /\ job.at = NoInstance
      /\ UNCHANGED <<snap, reg, nextSlot, open, stack, slots, archive, owner, attached, installed,
                     connected, sessionGen, overlapped>>
      /\ pending \in Slots /\ pending[i] # 0 /\ \A j \in job.todo : pending[j] # 0
  BY Kinds, IdleJob DEF FlushOne, linkVars, wireVars, flagVars, historyVars, TableTypes,
     EventsInv, SettledInv
<1>1. CASE Sends
  <2>0. /\ Tell(i, pending[i]) /\ pending' = [pending EXCEPT ![i] = 0]
        /\ job' = [job EXCEPT !.todo = @ \ {i}, !.at = i]
    BY <1>1 DEF FlushOne, Taken
  <2>1. job'.pc = "flush" /\ job'.todo = job.todo \ {i} /\ job'.at = i
    BY <1>0, <2>0 DEF Jobs
  <2>2. \A j \in job'.todo : pending'[j] # 0
    BY <1>0, <2>0, <2>1 DEF Slots
  <2>3. ASSUME ~overlapped PROVE EntriesKnown' /\ ToldInv'
    <3>0. /\ ActiveOpen /\ Active \in Link /\ snap[i] = pending[i] /\ snap[i] # 0
          /\ reg[i] = snap[i] /\ snap[i] \in Slot
          /\ known \in [Link -> [Slot -> Instance \cup {NoInstance}]]
          /\ known' = [known EXCEPT ![Active][snap[i]] = i]
      <4>1. ActiveOpen /\ Active \in Link /\ snap[i] = pending[i] /\ reg[i] = snap[i]
        BY <1>0, <1>1, Kinds DEF Sends, TablesInv
      <4>2. snap[i] \in Slot /\ known \in [Link -> [Slot -> Instance \cup {NoInstance}]]
        BY <1>0, <4>1, Kinds, SlotTypes
      <4> QED BY <1>0, <2>0, <2>3, <4>1, <4>2 DEF Tell
    <3>1. known'[Active][snap[i]] = i
      BY <3>0
    <3>2. \A m \in Link, s \in Slot, j \in Instance :
            known[m][s] = j /\ reg'[j] = s => known'[m][s] = j
      <4>1. \A j \in Instance : reg[j] = snap[i] => j = i
        BY <3>0, Kinds DEF TablesInv
      <4>2. \A m \in Link, s \in Slot : known'[m][s] = known[m][s] \/ (s = snap[i] /\ known'[m][s] = i)
        BY <3>0
      <4> QED BY <1>0, <4>1, <4>2
    <3>3. EntriesKnown'
      <4>1. /\ Active' = Active
            /\ \A m \in Link : (Stacked(m)' <=> Stacked(m)) /\ TableOf(m)' = TableOf(m)
        BY <1>0, SameWires
      <4>2. EntriesKnown /\ nextSlot' \in Nat /\ nextSlot <= nextSlot'
        BY <1>0, <2>3, Kinds, SlotTypes DEF EventsInv
      <4> QED BY <1>0, <3>2, <4>1, <4>2, FewerEntries
    <3>4. ToldInv'
      <4>1. Active' = Active
        BY <1>0, SameWires
      <4> QED BY <1>0, <2>1, <3>0, <3>1, <4>1 DEF ToldInv
    <3> QED BY <3>3, <3>4
  <2> QED BY <1>0, <2>1, <2>2, <2>3, BodyKeepsEvents
<1>2. CASE ~Sends
  <2>0. job' = [job EXCEPT !.todo = @ \ {i}] /\ UNCHANGED <<known, pending>>
    BY <1>2 DEF FlushOne
  <2>1. job'.pc = "flush" /\ job'.todo = job.todo \ {i} /\ job'.at = NoInstance
    BY <1>0, <2>0 DEF Jobs
  <2>2. ASSUME ~overlapped PROVE EntriesKnown' /\ ToldInv'
    <3>1. /\ \A m \in Link : (Stacked(m)' <=> Stacked(m)) /\ TableOf(m)' = TableOf(m)
      BY <1>0, SameWires
    <3>2. EntriesKnown
      BY <2>2 DEF EventsInv
    <3> QED BY <1>0, <2>0, <2>1, <3>1, <3>2 DEF EntriesKnown, ToldInv
  <2>3. \A j \in job'.todo : pending'[j] # 0
    BY <1>0, <2>0, <2>1
  <2> QED BY <1>0, <2>1, <2>2, <2>3, BodyKeepsEvents
<1> QED BY <1>1, <1>2

LEMMA EnterSlotKeepsEvents ==
  ASSUME LinksInv, EventsInv, EnterSlot
  PROVE  EventsInv'
<1>0. /\ job \in Jobs /\ job.pc \in {"flush", "replay", "sent"} /\ job # Idle
      /\ job.at \in Instance /\ job.at # NoInstance
      /\ UNCHANGED <<snap, reg, nextSlot, pending, known, open, stack, archive, owner, attached,
                     installed, connected, sessionGen, overlapped>>
      /\ slots' = [slots EXCEPT ![snap[job.at]] = job.at]
  BY Kinds, IdleJob DEF EnterSlot, linkVars, flagVars, sessionVars, tableVars, historyVars, Jobs
<1>1. /\ job'.at = NoInstance
      /\ job'.pc \in {"idle", "flush", "replay"}
      /\ job'.pc = "flush" => job.pc = "flush" /\ job'.todo = job.todo
  <2>1. CASE job' = Idle
    BY <2>1, IdleFacts
  <2>2. CASE job' = [job EXCEPT !.at = NoInstance] /\ job.pc # "sent"
    BY <1>0, <2>2 DEF Jobs
  <2> QED BY <2>1, <2>2 DEF EnterSlot
<1>2. ASSUME ~overlapped PROVE EntriesKnown' /\ ToldInv'
  <2>1. EntriesKnown /\ ToldInv
    BY <1>2 DEF EventsInv
  <2>2. ActiveOpen => snap[job.at] # 0 /\ known[Active][snap[job.at]] = job.at
    BY <1>0, <2>1 DEF ToldInv
  <2>3. EntriesKnown'
    BY <1>0, <2>1, <2>2, EnteredKnown
  <2> QED BY <1>1, <2>3 DEF ToldInv
<1>3. job'.pc = "flush" => \A i \in job'.todo : pending'[i] # 0
  BY <1>0, <1>1 DEF EventsInv, SettledInv
<1> QED BY <1>0, <1>1, <1>2, <1>3, BodyKeepsEvents

LEMMA ReplayKeepsEvents ==
  ASSUME LinksInv, EventsInv, StartReplay \/ EndReplay
  PROVE  EventsInv'
<1>0. /\ job \in Jobs /\ job # Idle /\ job.at = NoInstance
      /\ UNCHANGED <<snap, reg, nextSlot, pending, known, open, stack, slots, archive, owner,
                     attached, installed, connected, sessionGen, overlapped>>
      /\ \/ job' = [job EXCEPT !.pc = "replay", !.todo = Unsent]
         \/ \E due : job' = RoundDone(due)
  BY Kinds, IdleJob DEF StartReplay, EndReplay, quietVars, wireVars, flagVars, sessionVars,
     tableVars, historyVars
<1>1. /\ job'.at = NoInstance /\ job'.pc \in {"idle", "flush", "replay", "body"}
      /\ job'.pc = "flush" => job'.todo = {i \in Instance : pending[i] # 0}
  <2>1. CASE job' = [job EXCEPT !.pc = "replay", !.todo = Unsent]
    BY <1>0, <2>1 DEF Jobs
  <2>2. ASSUME NEW due, job' = RoundDone(due)
        PROVE  /\ job'.at = NoInstance /\ job'.pc \in {"idle", "flush", "replay", "body"}
               /\ job'.pc = "flush" => job'.todo = {i \in Instance : pending[i] # 0}
    <3>1. FALSE \in BOOLEAN
      OBVIOUS
    <3>2. job' = FlushRound(job, pending, due, FALSE) \/ job' = AfterRounds(job)
      BY <2>2 DEF RoundDone
    <3>3. /\ job'.pc = "flush" \/ job'.pc = "body" \/ job' = Idle
          /\ job' = Idle \/ job'.at = job.at
      BY <1>0, <3>1, <3>2, RoundFacts
    <3>4. job'.pc = "flush" => job'.todo = {i \in Instance : pending[i] # 0}
      BY <1>0, <3>1, <3>2, RoundTodo
    <3> QED BY <1>0, <3>3, <3>4, IdleFacts
  <2> QED BY <1>0, <2>1, <2>2
<1>2. ASSUME ~overlapped PROVE EntriesKnown' /\ ToldInv'
  <2>1. EntriesKnown /\ \A m \in Link : (Stacked(m)' <=> Stacked(m)) /\ TableOf(m)' = TableOf(m)
    BY <1>0, <1>2, SameWires DEF EventsInv
  <2> QED BY <1>0, <1>1, <2>1 DEF EntriesKnown, ToldInv
<1>3. job'.pc = "flush" => \A i \in job'.todo : pending'[i] # 0
  BY <1>0, <1>1
<1> QED BY <1>0, <1>1, <1>2, <1>3, BodyKeepsEvents

(* An instance is told of, in a replay or as it is created.                *)
LEMMA PublishKeepsEvents ==
  ASSUME LinksInv, EventsInv, NEW i \in Instance, job # Idle, snap[i] = 0,
         ReservedSlot(reg[i]) # 0,
         UNCHANGED <<open, stack, slots, archive, owner, attached, installed, connected,
                     sessionGen, overlapped>>,
         Publish(i, ReservedSlot(reg[i])), Sends, Tell(i, ReservedSlot(reg[i])),
         job' \in Jobs, job'.at = i, job'.pc \in {"replay", "sent"}
  PROVE  EventsInv'
<1> DEFINE s == ReservedSlot(reg[i])
<1>1. ASSUME ~overlapped PROVE EntriesKnown' /\ ToldInv'
  <2>1. ActiveOpen /\ Active \in Link /\ Active' = Active
        /\ known \in [Link -> [Slot -> Instance \cup {NoInstance}]]
    BY Kinds, SameWires DEF Sends
  <2>2. EntriesKnown'
    BY <1>1, <2>1, PublishEntries DEF Publish
  <2>3. s \in Slot
    BY Kinds, OwnSlot DEF Slot
  <2>4. snap'[i] = s /\ known'[Active][s] = i
    <3>1. snap' = [snap EXCEPT ![i] = s] /\ known' = [known EXCEPT ![Active][s] = i]
      BY <1>1 DEF Publish, Tell
    <3>2. snap \in Slots
      BY Kinds DEF TableTypes
    <3> HIDE DEF s
    <3> QED BY <2>1, <2>3, <3>1, <3>2 DEF Slots
  <2> HIDE DEF s
  <2>5. ToldInv'
    BY <2>1, <2>4 DEF ToldInv, s
  <2> QED BY <2>2, <2>5
<1> QED BY <1>1, BodyKeepsEvents

LEMMA ReplayOneKeepsEvents ==
  ASSUME LinksInv, EventsInv, NEW i \in Instance, ReplayOne(i)
  PROVE  EventsInv'
<1> DEFINE s == ReservedSlot(reg[i])
<1>0. /\ job \in Jobs /\ job.pc = "replay" /\ job # Idle /\ i \in job.todo /\ job.at = NoInstance
      /\ UNCHANGED <<pending, open, stack, slots, archive, owner, attached, installed,
                     connected, sessionGen, overlapped>>
      /\ job.todo \subseteq Unsent /\ snap[i] = 0 /\ reg[i] # 0
  <2>1. job \in Jobs /\ job.pc = "replay" /\ i \in job.todo /\ job.at = NoInstance /\ job # Idle
    BY Kinds, IdleJob DEF ReplayOne
  <2>2. i \in Unsent /\ job.todo \subseteq Unsent
    BY <2>1, Kinds DEF ReplayInv
  <2> QED BY <2>1, <2>2 DEF ReplayOne, linkVars, wireVars, flagVars, historyVars, Unsent
<1>1. CASE s # 0 /\ Sends
  <2>1. /\ Publish(i, s) /\ Tell(i, s) /\ job' = [job EXCEPT !.todo = @ \ {i}, !.at = i]
    BY <1>1 DEF ReplayOne, Publish
  <2>2. job' \in Jobs /\ job'.at = i /\ job'.pc = "replay"
    BY <1>0, <2>1 DEF Jobs
  <2> HIDE DEF s
  <2> QED BY <1>0, <1>1, <2>1, <2>2, PublishKeepsEvents DEF s
<1>2. CASE ~(s # 0 /\ Sends)
  <2>1. /\ reg' = reg \/ (s # 0 /\ reg' = [reg EXCEPT ![i] = s])
        /\ nextSlot' = nextSlot \/ nextSlot' = NextAfter(reg[i])
        /\ job' = [job EXCEPT !.todo = @ \ {i}, !.all = FALSE] /\ snap' = snap /\ known' = known
    BY <1>2 DEF ReplayOne
  <2>2. job'.pc = "replay" /\ job'.at = NoInstance
    BY <1>0, <2>1 DEF Jobs
  <2>3. reg' = reg
    BY <1>0, <2>1, Kinds, RegisteredAgain
  <2>4. nextSlot' \in Nat /\ nextSlot <= nextSlot'
    BY <1>0, <2>1, Kinds, SlotTypes, ReservedFacts
  <2>5. ASSUME ~overlapped PROVE EntriesKnown' /\ ToldInv'
    <3>1. EntriesKnown /\ \A m \in Link : (Stacked(m)' <=> Stacked(m)) /\ TableOf(m)' = TableOf(m)
      BY <1>0, <2>5, SameWires DEF EventsInv
    <3>2. EntriesKnown'
      BY <1>0, <2>1, <2>3, <2>4, <3>1, FewerEntries
    <3> QED BY <2>2, <3>2 DEF ToldInv
  <2> QED BY <1>0, <2>2, <2>5, BodyKeepsEvents
<1> QED BY <1>1, <1>2

(* An operation ends, or goes on with nothing to enter.                    *)
LEMMA PlainKeepsEvents ==
  ASSUME LinksInv, EventsInv, job # Idle,
         UNCHANGED <<open, stack, slots, archive, owner, attached, installed, connected,
                     sessionGen, overlapped>>,
         job' = Idle, ~overlapped => EntriesKnown'
  PROVE  EventsInv'
<1>1. job'.at = NoInstance /\ job'.pc = "idle"
  BY IdleFacts
<1>2. ~overlapped => ToldInv'
  BY <1>1 DEF ToldInv
<1> QED BY <1>1, <1>2, BodyKeepsEvents

LEMMA CreateBodyKeepsEvents ==
  ASSUME LinksInv, EventsInv, NEW i \in Instance, CreateBody(i)
  PROVE  EventsInv'
<1> DEFINE s == ReservedSlot(reg[i])
<1>0. /\ job \in Jobs /\ job # Idle /\ job.pc = "body"
      /\ UNCHANGED <<open, stack, slots, archive, owner, attached, installed, connected,
                     sessionGen, overlapped>>
      /\ \A m \in Link : (Stacked(m)' <=> Stacked(m)) /\ TableOf(m)' = TableOf(m)
  BY Kinds, IdleJob, SameWires DEF CreateBody, linkVars, wireVars, flagVars
<1>1. ASSUME snap[i] = 0, s # 0, CreateSent(i, s) PROVE EventsInv'
  <2>1. /\ Publish(i, s) /\ Sends /\ Tell(i, s)
        /\ job' = [job EXCEPT !.pc = "sent", !.at = i]
    BY <1>1 DEF CreateSent
  <2>2. job' \in Jobs /\ job'.at = i /\ job'.pc = "sent"
    BY <1>0, <2>1 DEF Jobs
  <2> HIDE DEF s
  <2> QED BY <1>0, <1>1, <2>1, <2>2, PublishKeepsEvents DEF s
<1>2. ASSUME snap[i] = 0, s # 0, CreateKept(i, s) PROVE EventsInv'
  <2>1. Publish(i, s) /\ known' = known /\ job' = Idle
    BY <1>2 DEF CreateKept
  <2>2. ~overlapped => EntriesKnown'
    BY <1>0, <1>2, <2>1, PublishEntries DEF Publish
  <2> QED BY <1>0, <2>1, <2>2, PlainKeepsEvents
<1>3. ASSUME reg' = reg, known' = known, job' = Idle,
             nextSlot' = nextSlot \/ nextSlot' = NextAfter(reg[i])
      PROVE  EventsInv'
  <2>1. nextSlot' \in Nat /\ nextSlot <= nextSlot'
    BY <1>3, Kinds, SlotTypes, ReservedFacts
  <2>2. ~overlapped => EntriesKnown'
    BY <1>0, <1>3, <2>1, FewerEntries DEF EventsInv
  <2> QED BY <1>0, <1>3, <2>2, PlainKeepsEvents
<1>4. CASE CreateAgain(i)
  BY <1>3, <1>4 DEF CreateAgain, tableVars
<1>5. CASE CreateNoSlot(i)
  BY <1>3, <1>5 DEF CreateNoSlot
<1>6. ASSUME snap[i] = 0, s # 0, CreateUnsent(i, s) PROVE EventsInv'
  <2>1. /\ reg' = reg \/ (reg[i] # 0 /\ reg' = [reg EXCEPT ![i] = s])
        /\ job' = Idle /\ UNCHANGED <<nextSlot, known>>
    BY <1>6 DEF CreateUnsent
  <2>2. reg' = reg
    BY <1>6, <2>1, Kinds, RegisteredAgain
  <2> QED BY <1>3, <2>1, <2>2
<1> QED BY <1>1, <1>2, <1>4, <1>5, <1>6 DEF CreateBody

(* What is finished is no longer asked for.                                *)
LEMMA DroppedEntries ==
  ASSUME LinksInv, EntriesKnown, NEW i \in Instance, Dropped(i),
         UNCHANGED <<open, stack, slots, archive, nextSlot>>, ~overlapped,
         known' = known \/ (ActiveOpen /\ Forget(i))
  PROVE  EntriesKnown'
<1>0. /\ reg \in Slots /\ reg' = [reg EXCEPT ![i] = 0]
      /\ known \in [Link -> [Slot -> Instance \cup {NoInstance}]]
      /\ \A s \in Slot : s # 0
      /\ ActiveOpen => Active \in Link
      /\ \A m \in Link : (Stacked(m)' <=> Stacked(m)) /\ TableOf(m)' = TableOf(m)
      /\ nextSlot \in Nat
  BY Kinds, SlotTypes, SameWires DEF Dropped, Taken, TableTypes
<1>1. \A j \in Instance, s \in Slot : reg'[j] = s => reg[j] = s /\ j # i
  BY <1>0 DEF Slots
<1>2. \A m \in Link, s \in Slot : known'[m][s] = known[m][s] \/ known[m][s] = i
  <2>1. CASE known' = known
    BY <2>1
  <2>2. CASE ActiveOpen /\ Forget(i)
    <3> DEFINE t == [s \in Slot |-> IF known[Active][s] = i THEN NoInstance ELSE known[Active][s]]
    <3>1. known' = [known EXCEPT ![Active] = t]
      BY <2>2 DEF Forget
    <3>2. \A s \in Slot : t[s] = known[Active][s] \/ known[Active][s] = i
      OBVIOUS
    <3> HIDE DEF t
    <3> QED BY <1>0, <2>2, <3>1, <3>2
  <2> QED BY <2>1, <2>2
<1>3. \A m \in Link, s \in Slot, j \in Instance :
        known[m][s] = j /\ reg'[j] = s => known'[m][s] = j
  BY <1>1, <1>2
<1> QED BY <1>0, <1>1, <1>3, FewerEntries

LEMMA FinishBodyKeepsEvents ==
  ASSUME LinksInv, EventsInv, NEW i \in Instance, FinishBody(i)
  PROVE  EventsInv'
<1>0. /\ job \in Jobs /\ job # Idle /\ job.pc = "body" /\ job.who = i
      /\ UNCHANGED <<open, attached, installed, connected, sessionGen, nextSlot, overlapped>>
      /\ slots \in [Slot -> Instance \cup {NoInstance}]
  BY Kinds, IdleJob DEF FinishBody, linkVars, flagVars
<1>1. CASE FinishLocally(i)
  <2>1. Dropped(i) /\ job' = Idle /\ UNCHANGED <<stack, slots, archive, owner, known>>
    BY <1>1 DEF FinishLocally, wireVars
  <2>2. ~overlapped => EntriesKnown'
    BY <1>0, <2>1, DroppedEntries DEF EventsInv
  <2> QED BY <1>0, <2>1, <2>2, PlainKeepsEvents
<1>2. CASE FinishBegins(i)
  <2>0. /\ UNCHANGED <<snap, reg, pending, stack, archive, owner, known>> /\ snap[i] # 0
        /\ \/ /\ slots' = [slots EXCEPT ![snap[i]] = NoInstance]
              /\ job' = [job EXCEPT !.pc = "finish", !.at = slots[snap[i]]]
           \/ job' = Idle /\ slots' = slots
    BY <1>2 DEF FinishBegins
  <2>1. snap[i] \in Slot /\ reg[i] = snap[i] /\ nextSlot \in Nat
    BY <2>0, Kinds, SlotTypes DEF TablesInv
  <2>2. /\ Active' = Active /\ (ActiveOpen' <=> ActiveOpen)
        /\ \A m \in Link : Stacked(m)' <=> Stacked(m)
    BY <1>0, <2>0 DEF Active, Stacked, ActiveOpen
  <2>3. \A m \in Link, s \in Slot : TableOf(m)'[s] # NoInstance => TableOf(m)[s] # NoInstance
    <3>1. \A s \in Slot : slots'[s] # NoInstance => slots[s] # NoInstance
      BY <1>0, <2>0
    <3> QED BY <2>0, <2>2, <3>1 DEF TableOf
  <2>4. ~overlapped => EntriesKnown'
    BY <1>0, <2>0, <2>1, <2>2, <2>3, FewerEntries DEF EventsInv
  <2>5. CASE job' = Idle
    <3>1. job'.at = NoInstance /\ job'.pc = "idle"
      BY <2>5, IdleFacts
    <3> QED BY <1>0, <2>0, <2>4, <3>1, BodyKeepsEvents DEF ToldInv
  <2>6. CASE job' = [job EXCEPT !.pc = "finish", !.at = slots[snap[i]]]
    <3>1. job'.pc = "finish" /\ job'.who = i /\ job'.at = slots[snap[i]]
      BY <1>0, <2>6 DEF Jobs
    <3>2. ASSUME ~overlapped PROVE ToldInv'
      <4>1. ASSUME ActiveOpen, slots[snap[i]] # NoInstance
            PROVE  known[Active][snap[i]] = i
        <5>1. Active \in Link /\ Stacked(Active) /\ open[Active] /\ TableOf(Active) = slots
          BY <4>1, Kinds DEF TableOf
        <5>2. EntriesKnown
          BY <3>2 DEF EventsInv
        <5> QED BY <2>1, <4>1, <5>1, <5>2 DEF EntriesKnown
      <4> QED BY <2>0, <2>2, <3>1, <4>1 DEF ToldInv
    <3> QED BY <1>0, <2>0, <2>4, <3>1, <3>2, BodyKeepsEvents
  <2> QED BY <2>0, <2>5, <2>6
<1> QED BY <1>1, <1>2 DEF FinishBody

LEMMA FinishSentKeepsEvents ==
  ASSUME LinksInv, EventsInv, NEW i \in Instance, FinishSent(i)
  PROVE  EventsInv'
<1>0. /\ job \in Jobs /\ job # Idle /\ job.pc = "finish" /\ job.who = i
      /\ UNCHANGED <<open, stack, slots, archive, owner, attached, installed, connected,
                     sessionGen, nextSlot, overlapped>>
  BY Kinds, IdleJob DEF FinishSent, linkVars, wireVars, flagVars
<1>1. CASE Sends
  <2>1. Dropped(i) /\ Forget(i) /\ job' = Idle /\ ActiveOpen
    BY <1>1 DEF FinishSent, Sends
  <2>2. ~overlapped => EntriesKnown'
    BY <1>0, <2>1, DroppedEntries DEF EventsInv
  <2> QED BY <1>0, <2>1, <2>2, PlainKeepsEvents
<1>2. CASE ~Sends
  <2>0. /\ UNCHANGED <<snap, reg, pending, known>>
        /\ job' = Idle \/ job' = [job EXCEPT !.pc = "unsent"]
    BY <1>2 DEF FinishSent
  <2>1. ASSUME ~overlapped PROVE EntriesKnown'
    <3>1. EntriesKnown /\ \A m \in Link : (Stacked(m)' <=> Stacked(m)) /\ TableOf(m)' = TableOf(m)
      BY <1>0, <2>1, SameWires DEF EventsInv
    <3> QED BY <1>0, <2>0, <3>1 DEF EntriesKnown
  <2>2. CASE job' = Idle
    BY <1>0, <2>1, <2>2, PlainKeepsEvents
  <2>3. CASE job' = [job EXCEPT !.pc = "unsent"]
    <3>1. job'.pc = "unsent" /\ job'.who = i /\ job'.at = job.at
      BY <1>0, <2>3 DEF Jobs
    <3>2. ~overlapped => ToldInv'
      BY <1>0, <2>0, <3>1, SameWires DEF EventsInv, ToldInv
    <3> QED BY <1>0, <2>1, <3>1, <3>2, BodyKeepsEvents
  <2> QED BY <2>0, <2>2, <2>3
<1> QED BY <1>1, <1>2

LEMMA FinishUnsentKeepsEvents ==
  ASSUME LinksInv, EventsInv, FinishUnsent
  PROVE  EventsInv'
<1>0. /\ job \in Jobs /\ job # Idle /\ job.pc = "unsent" /\ job.who \in Instance /\ job' = Idle
      /\ UNCHANGED <<snap, reg, nextSlot, pending, known, open, stack, archive, owner, attached,
                     installed, connected, sessionGen, overlapped>>
      /\ slots' = slots \/ slots' = [slots EXCEPT ![snap[job.who]] = job.at]
  BY Kinds, IdleJob DEF FinishUnsent, linkVars, flagVars, sessionVars, tableVars, historyVars,
     EventsInv, SettledInv
<1>1. job'.at = NoInstance /\ job'.pc = "idle"
  BY <1>0, IdleFacts
<1>2. ASSUME ~overlapped PROVE EntriesKnown'
  <2>1. EntriesKnown /\ ToldInv
    BY <1>2 DEF EventsInv
  <2>2. CASE job.at # NoInstance
    <3>1. ActiveOpen => snap[job.who] # 0 /\ known[Active][snap[job.who]] = job.who
      BY <1>0, <2>1, <2>2 DEF ToldInv
    <3> QED BY <1>0, <2>1, <3>1, EnteredKnown
  <2>3. CASE job.at = NoInstance
    <3>1. /\ Active' = Active /\ \A m \in Link : Stacked(m)' <=> Stacked(m)
      BY <1>0 DEF Active, Stacked
    <3>2. \A s \in Slot : slots'[s] # NoInstance => slots[s] # NoInstance
      BY <1>0, <2>3, Kinds
    <3>3. \A m \in Link, s \in Slot : TableOf(m)'[s] # NoInstance => TableOf(m)[s] # NoInstance
      BY <1>0, <3>1, <3>2 DEF TableOf
    <3>4. nextSlot \in Nat
      BY Kinds, SlotTypes
    <3> QED BY <1>0, <2>1, <3>1, <3>3, <3>4, FewerEntries
  <2> QED BY <2>2, <2>3
<1>3. ~overlapped => ToldInv'
  BY <1>1 DEF ToldInv
<1> QED BY <1>0, <1>1, <1>2, <1>3, BodyKeepsEvents

LEMMA InstallKeepsEvents ==
  ASSUME LinksInv, EventsInv, Install
  PROVE  EventsInv'
<1>0. /\ job' = Idle /\ TablesEmpty /\ attached' = TRUE /\ installed' = TRUE
      /\ connected' = IsConnected /\ sessionGen' = (IF IsConnected THEN owner ELSE NoLink)
      /\ UNCHANGED <<open, stack, slots, archive, owner, overlapped>>
  BY DEF Install, EventsInv, SettledInv, GateFree, linkVars, wireVars, historyVars
<1>1. \A m \in Link : (Stacked(m)' <=> Stacked(m)) /\ TableOf(m)' = TableOf(m)
  BY <1>0, SameWires
<1>2. EntriesKnown'
  BY <1>0, <1>1, Constants DEF EntriesKnown, TablesEmpty
<1>3. OwnerKnown'
  BY <1>0 DEF OwnerKnown
<1>4. job'.at = NoInstance /\ job'.pc = "idle"
  BY <1>0, IdleFacts
<1>5. SettledInv' /\ ToldInv'
  BY <1>0, <1>4 DEF SettledInv, ToldInv
<1> QED BY <1>2, <1>3, <1>5 DEF EventsInv

LEMMA DetachKeepsEvents ==
  ASSUME LinksInv, EventsInv, NEW l \in Link, Detach(l)
  PROVE  EventsInv'
<1>0. /\ job' = job /\ job = Idle /\ connected' = FALSE /\ attached' = FALSE
      /\ overlapped' = (overlapped \/ IsConnected)
      /\ UNCHANGED <<open, stack, slots, archive, owner, installed, attachDue>>
  BY DEF Detach, GateFree, wireVars
<1>1. \A m \in Link : (Stacked(m)' <=> Stacked(m)) /\ TableOf(m)' = TableOf(m)
  BY <1>0, SameWires
<1>2. job'.at = NoInstance /\ job'.pc = "idle"
  BY <1>0, IdleFacts
<1>3. SettledInv'
  BY <1>0, <1>1, <1>2 DEF EventsInv, SettledInv, GateFree, TablesEmpty
<1>4. ASSUME ~overlapped' PROVE EntriesKnown'
  <2>1. \A m \in Link : Stacked(m) => ~open[m]
    BY <1>0, <1>4 DEF IsConnected, Stacked
  <2> QED BY <1>0, <1>1, <2>1 DEF EntriesKnown
<1>5. OwnerKnown' /\ ToldInv'
  BY <1>0, <1>2 DEF OwnerKnown, ToldInv
<1> QED BY <1>3, <1>4, <1>5 DEF EventsInv

(* EventsInv is inductive, relative to LinksInv.                           *)
LEMMA EventsInductive ==
  ASSUME LinksInv, EventsInv, [SessionNext]_allVars
  PROVE  EventsInv'
<1>0. /\ Active \in Link \cup {NoLink} /\ (stack # <<>> => Active \in Link)
      /\ NoInstance \in Instance \cup {NoInstance} /\ NoOne \in Link \cup {NoOne}
      /\ (connected => attached) /\ (~installed => ~attachDue)
  BY Kinds, ActiveFacts DEF EventsInv, SettledInv
<1>1. ASSUME NEW i \in Instance, Create(i) \/ Finish(i) PROVE EventsInv'
  <2>1. \E op \in {"create", "finish", "attach"} : Begin(op, i, NoOne, attached)
    BY <1>1 DEF Create, Finish
  <2>2. installed /\ UNCHANGED <<quietVars, wireVars, installed, known, overlapped>>
    BY <1>1 DEF Create, Finish, historyVars
  <2> QED BY <1>0, <2>1, <2>2, BeginKeepsEvents
<1>2. ASSUME NEW l \in Link, Attach(l) PROVE EventsInv'
  BY <1>0, <1>2, BeginKeepsEvents DEF Attach, historyVars
<1>3. CASE AttachAgain
  BY <1>0, <1>3, BeginKeepsEvents DEF AttachAgain, historyVars
<1>4. ASSUME NEW i \in Instance,
             FlushOne(i) \/ ReplayOne(i) \/ CreateBody(i) \/ FinishBody(i) \/ FinishSent(i)
      PROVE  EventsInv'
  BY <1>4, FlushOneKeepsEvents, ReplayOneKeepsEvents, CreateBodyKeepsEvents,
     FinishBodyKeepsEvents, FinishSentKeepsEvents
<1>5. CASE Settling
  BY <1>5, EnterSlotKeepsEvents, ReplayKeepsEvents, FinishUnsentKeepsEvents DEF Settling
<1>6. ASSUME NEW l \in Link, Wires(l) PROVE EventsInv'
  <2>1. CASE TableStep(l)
             /\ overlapped' = (~GateFree \/ (overlapped /\ stack' # <<>>))
             /\ known' = [m \in Link |-> IF overlapped' \/ Gone(m)' THEN NoSlots ELSE known[m]]
             /\ UNCHANGED <<flagVars, sessionVars, job, cast, finished>>
    BY <2>1, TableStepKeepsEvents
  <2>2. CASE WireStep(l) /\ UNCHANGED <<flagVars, sessionVars, job, known, historyVars>>
    <3>1. UNCHANGED <<stack, slots, archive, owner>> /\ \A m \in Link : open'[m] => open[m]
      BY <2>2, Kinds DEF WireStep, BindSubscribe, Watch, SocketStops, ClosedUnheard,
         SubscribeRestored, CheckLastLink, quietVars, wireVars, WireTypeOK
    <3> QED BY <1>0, <2>2, <3>1, StandKeepsEvents DEF flagVars, sessionVars, tableVars, historyVars
  <2> QED BY <1>6, <2>1, <2>2 DEF Wires
<1>7. ASSUME NEW l \in Link, AttachIdle(l) PROVE EventsInv'
  BY <1>0, <1>7, StandKeepsEvents DEF AttachIdle, quietVars, wireVars, flagVars, sessionVars,
     tableVars, historyVars
<1>8. ASSUME NEW on \in BOOLEAN, SetEnabled(on) PROVE EventsInv'
  BY <1>0, <1>8, StandKeepsEvents DEF SetEnabled, linkVars, wireVars, sessionVars, tableVars,
     historyVars
<1>9. CASE Install
  BY <1>9, InstallKeepsEvents
<1>10. ASSUME NEW l \in Link, Detach(l) PROVE EventsInv'
  BY <1>10, DetachKeepsEvents
<1>11. CASE UNCHANGED allVars
  BY <1>0, <1>11, StandKeepsEvents DEF allVars, linkVars, wireVars, flagVars, sessionVars,
     tableVars, historyVars
<1> QED BY <1>1, <1>2, <1>3, <1>4, <1>5, <1>6, <1>7, <1>8, <1>9, <1>10, <1>11
        DEF SessionNext, Operation

LEMMA EventsInitial ==
  ASSUME SessionInit
  PROVE  EventsInv
<1>1. job.at = NoInstance /\ job.pc = "idle" /\ job = Idle
  BY IdleFacts DEF SessionInit
<1>2. \A m \in Link : ~Stacked(m)
  BY DEF SessionInit, WireInit, Stacked
<1>3. EntriesKnown /\ TablesEmpty
  BY <1>2 DEF EntriesKnown, TablesEmpty
<1> QED BY <1>1, <1>3 DEF SessionInit, EventsInv, SettledInv, OwnerKnown, ToldInv, GateFree

(* EventsUnderstood: when the slot table of the active wire admits the slot*)
(* of an instance, the client of that wire was told of this instance under *)
(* this slot, unless the active wire changed inside an operation or the    *)
(* session was detached over a live link (SendCreate, SendFinish, Bind,    *)
(* OnWireClosed, ResetSessionLocked).                                      *)
THEOREM EventsUnderstoodCorrect == SessionSpec => []EventsUnderstood
<1>1. SessionInit => LinksInv /\ EventsInv
  BY LinksInitial, EventsInitial
<1>2. LinksInv /\ EventsInv /\ [SessionNext]_allVars => LinksInv' /\ EventsInv'
  BY LinksInductive, EventsInductive
<1>3. LinksInv /\ EventsInv => EventsUnderstood
  <2> SUFFICES ASSUME LinksInv, EventsInv, ActiveOpen, ~overlapped, NEW i \in Instance,
                      Admitted(i)
               PROVE  known[Active][snap[i]] = i
    BY DEF EventsUnderstood
  <2>1. Active \in Link /\ Stacked(Active) /\ open[Active] /\ TableOf(Active) = slots
    BY Kinds DEF TableOf
  <2>2. snap[i] \in Slot /\ slots[snap[i]] # NoInstance /\ reg[i] = snap[i]
    BY Kinds, SlotTypes DEF Admitted, TablesInv
  <2> QED BY <2>1, <2>2 DEF EventsInv, EntriesKnown
<1> QED BY <1>1, <1>2, <1>3, PTL DEF SessionSpec

---------------------------------------------------------------------------
(* A session is detached over a live link only by the last-link race: as   *)
(* long as no link has been bound inside it, a Detach that is to come      *)
(* finds no live link, and under a session without an Attach a live link   *)
(* has the Attach of some handler still before it.                         *)
AttachInv ==
  /\ \A l \in Link : closing[l] = "detach" /\ ~boundLate => ~IsConnected
  /\ installed /\ ~attached /\ ~boundLate /\ IsConnected =>
       \E l \in Link : stage[l] \in {"pushed", "bound"}
  /\ job.by # NoOne => attached

(* A wire makes the process connected only by being bound.                 *)
LEMMA ConnectedFacts ==
  ASSUME LinksInv,
         \/ stack' = stack /\ \A m \in Link : open'[m] => open[m]
         \/ \E l \in Link : OnWireClosed(l)
  PROVE  IsConnected' => IsConnected
<1>0. WireTypeOK /\ WireInv /\ stack \in Seq(Link) /\ \A k \in 1..Len(stack) : stack[k] \in Link
  BY Kinds, ActiveFacts
<1>1. CASE stack' = stack /\ \A m \in Link : open'[m] => open[m]
  BY <1>0, <1>1 DEF IsConnected
<1>2. ASSUME NEW l \in Link, OnWireClosed(l), IsConnected' PROVE IsConnected
  <2>1. open' = open /\ stack' \in Seq(Link)
    BY <1>0, <1>2, PopFacts, BuriedStack DEF OnWireClosed
  <2>2. PICK k \in 1..Len(stack') : open[stack'[k]]
    BY <1>2, <2>1 DEF IsConnected
  <2>3. stack'[k] \in Link
    BY <2>1, <2>2
  <2>4. PICK m \in Link : m = stack'[k] /\ open[m]
    BY <2>2, <2>3
  <2>5. Stacked(m)'
    BY <2>4 DEF Stacked
  <2>6. Stacked(m)
    <3>1. CASE PopActive(l)
      BY <1>0, <2>5, <3>1, PoppedStack
    <3>2. CASE RemoveBuried(l) /\ Active # l
      BY <1>0, <2>5, <3>2, BuriedStack
    <3> QED BY <1>2, <3>1, <3>2 DEF OnWireClosed
  <2> QED BY <2>4, <2>6 DEF Stacked, IsConnected
<1> QED BY <1>1, <1>2

(* The steps of an operation leave the links alone, but for the handler    *)
(* whose Attach it was.                                                    *)
LEMMA SettlingFacts ==
  ASSUME LinksInv, Settling \/ \E i \in Instance :
           FlushOne(i) \/ ReplayOne(i) \/ CreateBody(i) \/ FinishBody(i) \/ FinishSent(i)
  PROVE  /\ UNCHANGED <<open, closing, stack, installed, attached, boundLate>>
         /\ stage' = stage \/ job.by # NoOne
         /\ job'.by = NoOne \/ job'.by = job.by
<1>0. job \in Jobs /\ Idle.by = NoOne /\ Idle \in Jobs
  BY Kinds, IdleFacts DEF Idle
<1>1. ASSUME NEW i \in Instance,
             FlushOne(i) \/ ReplayOne(i) \/ CreateBody(i) \/ FinishBody(i) \/ FinishSent(i)
               \/ EnterSlot \/ FinishUnsent
      PROVE  /\ UNCHANGED <<open, closing, stack, installed, attached, boundLate, stage>>
             /\ job'.by = NoOne \/ job'.by = job.by
  <2>1. UNCHANGED <<open, closing, stack, installed, attached, boundLate, stage>>
    BY <1>1 DEF FlushOne, ReplayOne, CreateBody, FinishBody, FinishSent, EnterSlot, FinishUnsent,
       FinishLocally, FinishBegins, linkVars, wireVars, flagVars, historyVars
  <2>2. job' = Idle \/ job'.by = job.by
    BY <1>0, <1>1 DEF FlushOne, ReplayOne, CreateBody, CreateAgain, CreateNoSlot, CreateSent,
       CreateUnsent, CreateKept, FinishBody, FinishLocally, FinishBegins, FinishSent, EnterSlot,
       FinishUnsent, Jobs
  <2> QED BY <1>0, <2>1, <2>2
<1>2. CASE EnterSlot \/ FinishUnsent
  <2>1. UNCHANGED <<open, closing, stack, installed, attached, boundLate, stage>>
    BY <1>2 DEF EnterSlot, FinishUnsent, linkVars, wireVars, flagVars, historyVars
  <2>2. job' = Idle \/ job'.by = job.by
    BY <1>0, <1>2 DEF EnterSlot, FinishUnsent, Jobs
  <2> QED BY <1>0, <2>1, <2>2
<1>3. CASE StartReplay \/ EndReplay
  <2>1. UNCHANGED <<open, closing, stack, installed, attached, boundLate>> /\ Returns(job)
    BY <1>3 DEF StartReplay, EndReplay, quietVars, wireVars, flagVars, historyVars
  <2>2. stage' = stage \/ job.by # NoOne
    BY <2>1 DEF Returns
  <2>3. \/ job' = [job EXCEPT !.pc = "replay", !.todo = Unsent]
        \/ \E due, again \in BOOLEAN : job' = FlushRound(job, pending, due, again)
        \/ job' = AfterRounds(job)
    BY <1>3, Kinds DEF StartReplay, EndReplay, RoundDone, StillPending, TableTypes
  <2>4. job' = Idle \/ job'.by = job.by
    <3>1. CASE job' = [job EXCEPT !.pc = "replay", !.todo = Unsent]
      BY <1>0, <3>1 DEF Jobs
    <3>2. ASSUME NEW due \in BOOLEAN, NEW again \in BOOLEAN,
                 job' = FlushRound(job, pending, due, again) \/ job' = AfterRounds(job)
          PROVE  job' = Idle \/ job'.by = job.by
      BY <1>0, <3>2, RoundFacts
    <3> QED BY <2>3, <3>1, <3>2
  <2> QED BY <1>0, <2>1, <2>2, <2>4
<1> QED BY <1>1, <1>2, <1>3 DEF Settling

(* Attach sets the flag before anything else; Create and Finish keep it.   *)
LEMMA BeginAttached ==
  ASSUME LinksInv, AttachInv, NEW op \in {"create", "finish", "attach"},
         NEW who \in Instance \cup {NoInstance}, NEW by \in Link \cup {NoOne}, NEW on,
         on \/ (by = NoOne /\ on = attached), Begin(op, who, by, on),
         UNCHANGED <<quietVars, wireVars, installed, boundLate>>
  PROVE  AttachInv'
<1>1. TableTypes /\ (job' = Idle \/ job'.by = by) /\ Idle.by = NoOne
  BY Kinds, BeginFacts DEF Idle
<1>2. attached' = on /\ UNCHANGED <<open, closing, stack>>
  BY DEF Begin, quietVars, wireVars
<1>3. by = NoOne => stage' = stage
  <2>1. Returns(Job(op, who, by))
    BY DEF Begin, Refresh
  <2>2. Job(op, who, by).by = by
    BY IdleFacts
  <2> QED BY <2>1, <2>2 DEF Returns
<1>4. IsConnected' <=> IsConnected
  BY <1>2 DEF IsConnected
<1> QED BY <1>1, <1>2, <1>3, <1>4 DEF AttachInv

(* The transport: a link that is bound inside the race says so, and a      *)
(* question is answered by what is live.                                   *)
LEMMA WiresAttached ==
  ASSUME LinksInv, AttachInv, NEW l \in Link, Wires(l)
  PROVE  AttachInv'
<1>0. /\ stage \in [Link -> {"new", "pushed", "bound", "attached", "watched"}]
      /\ closing \in [Link -> {"no", "check", "detach", "gone"}]
      /\ open \in [Link -> BOOLEAN]
  BY Kinds, WireKinds
<1> DEFINE Late == boundLate' = IF stage' = stage THEN boundLate
                                ELSE \E m \in Link : closing[m] = "detach"
<1>1. /\ UNCHANGED <<installed, attached, job>>
      /\ (TableStep(l) /\ Late) \/ (WireStep(l) /\ boundLate' = boundLate)
  BY DEF Wires, flagVars, historyVars
<1>2. CASE BindPush(l) /\ Late
  <2>1. stage' = [stage EXCEPT ![l] = "pushed"] /\ stage[l] = "new" /\ closing' = closing
    BY <1>2 DEF BindPush
  <2>2. stage' # stage /\ stage'[l] = "pushed"
    BY <1>0, <2>1
  <2>3. boundLate' = (\E m \in Link : closing[m] = "detach")
    BY <1>2, <2>2
  <2> QED BY <1>1, <2>1, <2>2, <2>3 DEF AttachInv
<1>3. CASE OnWireClosed(l) /\ Late
  <2>1. stage' = stage /\ closing' = [closing EXCEPT ![l] = AfterPop(l)]
    BY <1>3 DEF OnWireClosed, Notify
  <2>2. AfterPop(l) # "detach"
    BY DEF AfterPop
  <2>3. boundLate' = boundLate
    BY <1>3, <2>1
  <2>4. IsConnected' => IsConnected
    BY <1>3, ConnectedFacts
  <2> QED BY <1>0, <1>1, <2>1, <2>2, <2>3, <2>4 DEF AttachInv
<1>4. CASE WireStep(l) /\ boundLate' = boundLate
  <2>1. stack' = stack /\ \A m \in Link : open'[m] => open[m]
    BY <1>0, <1>4 DEF WireStep, BindSubscribe, Watch, SocketStops, ClosedUnheard,
       SubscribeRestored, CheckLastLink, quietVars, wireVars
  <2>2. IsConnected' => IsConnected
    BY <2>1, ConnectedFacts
  <2>3. \A m \in Link : closing'[m] = "detach" => closing[m] = "detach" \/ ~IsConnected
    BY <1>0, <1>4 DEF WireStep, BindSubscribe, Watch, SocketStops, ClosedUnheard, Notify, AfterPop,
       SubscribeRestored, CheckLastLink, quietVars
  <2>4. \A m \in Link : stage[m] \in {"pushed", "bound"} => stage'[m] \in {"pushed", "bound"}
    BY <1>0, <1>4 DEF WireStep, BindSubscribe, Watch, SocketStops, ClosedUnheard,
       SubscribeRestored, CheckLastLink, quietVars
  <2> QED BY <1>1, <1>4, <2>2, <2>3, <2>4 DEF AttachInv
<1> QED BY <1>1, <1>2, <1>3, <1>4 DEF TableStep

LEMMA AttachInductive ==
  ASSUME LinksInv, AttachInv, [SessionNext]_allVars
  PROVE  AttachInv'
<1>0. /\ closing \in [Link -> {"no", "check", "detach", "gone"}] /\ Idle.by = NoOne
      /\ NoOne \notin Link
  BY Kinds, WireKinds, Constants DEF Idle
<1>1. ASSUME NEW i \in Instance, Create(i) \/ Finish(i) PROVE AttachInv'
  BY <1>1, BeginAttached DEF Create, Finish, historyVars
<1>2. ASSUME NEW l \in Link, Attach(l) PROVE AttachInv'
  BY <1>2, BeginAttached DEF Attach, historyVars
<1>3. CASE AttachAgain
  <2>1. installed' = installed /\ boundLate' = boundLate
    BY <1>3 DEF AttachAgain, historyVars
  <2> QED BY <1>3, <2>1, BeginAttached DEF AttachAgain
<1>4. CASE Settling \/ \E i \in Instance :
             FlushOne(i) \/ ReplayOne(i) \/ CreateBody(i) \/ FinishBody(i) \/ FinishSent(i)
  BY <1>4, SettlingFacts DEF AttachInv, IsConnected
<1>5. ASSUME NEW l \in Link, Wires(l) PROVE AttachInv'
  BY <1>5, WiresAttached
<1>6. ASSUME NEW l \in Link, AttachIdle(l) PROVE AttachInv'
  BY <1>6 DEF AttachIdle, AttachInv, quietVars, wireVars, flagVars, historyVars, IsConnected
<1>7. ASSUME NEW l \in Link, Detach(l) PROVE AttachInv'
  <2>1. /\ closing[l] = "detach" /\ job = Idle /\ job' = job
        /\ \A m \in Link : closing'[m] = "detach" => closing[m] = "detach"
        /\ UNCHANGED <<open, stack, boundLate>>
    BY <1>0, <1>7 DEF Detach, GateFree, wireVars
  <2> QED BY <1>0, <2>1 DEF AttachInv, IsConnected
<1>8. CASE Install \/ \E on \in BOOLEAN : SetEnabled(on)
  <2>1. /\ UNCHANGED <<open, stage, closing, stack, job, boundLate>>
        /\ attached' \/ UNCHANGED <<installed, attached>>
    BY <1>8 DEF Install, SetEnabled, linkVars, wireVars, historyVars
  <2> QED BY <2>1 DEF AttachInv, IsConnected
<1>9. CASE UNCHANGED allVars
  BY <1>9 DEF allVars, AttachInv, linkVars, wireVars, flagVars, historyVars, IsConnected
<1> QED BY <1>1, <1>2, <1>3, <1>4, <1>5, <1>6, <1>7, <1>8, <1>9 DEF SessionNext, Operation

(* AttachedWhileLive: with every thread at rest, the session of a process  *)
(* with a live link is attached, in whatever order the installation, the   *)
(* handlers of any number of links and the switch came, unless a link was  *)
(* bound between the question of OnDebugLinkClosed and its Detach.         *)
THEOREM AttachedWhileLiveCorrect == SessionSpec => []AttachedWhileLive
<1>1. SessionInit => LinksInv /\ AttachInv
  <2>1. SessionInit => AttachInv
    BY DEF SessionInit, WireInit, AttachInv, IsConnected, Idle
  <2> QED BY <2>1, LinksInitial
<1>2. LinksInv /\ AttachInv /\ [SessionNext]_allVars => LinksInv' /\ AttachInv'
  BY LinksInductive, AttachInductive
<1>3. AttachInv => AttachedWhileLive
  BY DEF AttachInv, AttachedWhileLive, Deserted, LinksAtRest
<1> QED BY <1>1, <1>2, <1>3, PTL DEF SessionSpec
=============================================================================
