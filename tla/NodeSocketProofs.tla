-------------------------- MODULE NodeSocketProofs --------------------------
(***************************************************************************)
(* The event loop of a NodeSocket uses its queues as SendQueues allows, so *)
(* that what is proved of the queues holds of the connection; no wakeup is *)
(* lost, a graceful close writes what it owes, and the peer hears a byte   *)
(* in time: for any sizes, limits and number of messages.                  *)
(***************************************************************************)
EXTENDS NodeSocket, SendQueuesProofs

(* Every step of the connection is a step of its queues or none of theirs.  *)
LEMMA NodeStepOfQueues ==
  ASSUME [NodeNext]_nodeVars
  PROVE  [QueueNext]_queueVars
<1>1. CASE SendControl \/ SendDebug \/ Close \/ End
  BY <1>1 DEF SendControl, SendDebug, Close, End, PutControl, Refused, Finish, QueueNext
<1>2. CASE Drain \/ DrainEvent
  BY <1>2 DEF Drain, DrainDequeues, DrainWrites, DrainFails, DrainReturns, DrainEvent,
     Finish, QueueNext
<1>3. CASE Receive \/ HandlePing \/ HandleFrame
  BY <1>3 DEF Receive, HandlePing, HandleFrame, PutControl, Refused, Finish, QueueNext
<1>4. CASE TickHeartbeat \/ SocketCloses
  BY <1>4 DEF TickHeartbeat, SocketCloses, PutControl, Refused, Finish, QueueNext
<1>5. CASE PeerTakes \/ PeerChanges \/ Tick \/ UNCHANGED nodeVars
  BY <1>5 DEF PeerTakes, PeerChanges, Tick, nodeVars
<1> QED BY <1>1, <1>2, <1>3, <1>4, <1>5 DEF NodeNext

(* The event loop never reorders what it sends: the queues of a connection  *)
(* on the Node side are the two queues of SendQueues.                       *)
THEOREM NodeUsesQueues == NodeSpec => QueueSpec
<1>1. NodeInit => QueueInit
  BY DEF NodeInit
<1> QED BY <1>1, NodeStepOfQueues, PTL DEF NodeSpec, QueueSpec

(* Hence bridgeSocket.ts sends in the order of acceptance and gives up only *)
(* the oldest data messages.                                                *)
THEOREM NodeSendsInOrder == NodeSpec => SendsInOrder
BY NodeUsesQueues, QueuesSendInOrder

(* Neither the write loop nor end() disturbs the limits of the queues or   *)
(* their counters.                                                         *)
THEOREM NodeAccounts == NodeSpec => [](DataBounded /\ Accounted)
BY NodeUsesQueues, DataBoundedCorrect, EveryMessageAccounted, PTL

---------------------------------------------------------------------------
(* What the steps of the queues mean for a backlog.                         *)
LEMMA BacklogGrows ==
  ASSUME QueueTypeOK, EnqueueControl \/ \E size \in Size : EnqueueDebug(size)
  PROVE  Backlog' /\ nextSequence' = nextSequence + 1
<1>1. CASE EnqueueControl
  BY <1>1 DEF EnqueueControl, Backlog, QueueTypeOK
<1>2. CASE \E size \in Size : EnqueueDebug(size)
  <2>1. PICK size \in Size : EnqueueDebug(size)
    BY <1>2
  <2> DEFINE message == [sequence |-> nextSequence, size |-> size]
  <2>2. message \in Debug
    BY DEF QueueTypeOK, Debug
  <2>3. PICK k \in 0..Len(dataQueue) : dataQueue' = Append(Suffix(dataQueue, k), message)
    BY <2>1 DEF EnqueueDebug, Suffix
  <2> HIDE DEF message
  <2>4. Suffix(dataQueue, k) \in Seq(Debug)
    BY SuffixFacts DEF QueueTypeOK
  <2>5. dataQueue' # <<>>
    BY <2>2, <2>3, <2>4
  <2> QED BY <2>1, <2>5 DEF EnqueueDebug, Backlog
<1> QED BY <1>1, <1>2

LEMMA BacklogShrinks == Dequeue => Backlog /\ nextSequence' = nextSequence
BY DEF Dequeue, DequeueControl, DequeueDebug, Backlog

LEMMA BacklogCleared == CloseQueues => ~Backlog' /\ nextSequence' = nextSequence
BY DEF CloseQueues, Backlog

LEMMA BacklogKept ==
  UNCHANGED queueVars \/ StopAccepting => (Backlog' <=> Backlog) /\ nextSequence' = nextSequence
BY DEF queueVars, StopAccepting, Backlog

---------------------------------------------------------------------------
(* The inductive invariant.  The write loop is not running while the socket *)
(* asks to wait, and the socket asks as soon as its buffer is full.         *)
NodeTypes ==
  /\ finished \in BOOLEAN /\ ending \in BOOLEAN /\ waitingDrain \in BOOLEAN
  /\ phase \in {"run", "drain", "write"} /\ frames \in 0..Chunk
  /\ buffered \in 0..BufferLimit /\ writeEnded \in BOOLEAN
  /\ peer \in {"alive", "deaf", "silent", "closed"}
  /\ inAge \in 0..(IdleLimit + 2)
  /\ outAge \in 0..(Interval + 1) /\ wireAge \in 0..(Interval + 1)
  /\ beatDue \in BOOLEAN
WaitInv ==
  /\ ~waitingDrain => buffered < BufferLimit
  /\ ~Running => ~waitingDrain
EndInv == writeEnded => ending /\ ~Backlog /\ phase # "write"

(* Whatever was enqueued since the last write is still to be written, and   *)
(* after the turn of the timer the interval has not passed without either. *)
ToWrite == Backlog \/ phase = "write"
WireInv == finished \/ ToWrite \/ wireAge <= outAge
BeatInv == beatDue \/ finished \/ ending \/ Spent \/ ToWrite \/ wireAge < Interval
NodeInv == NodeTypes /\ WaitInv /\ Woken /\ EndInv /\ WireInv /\ BeatInv

LEMMA NodeInitial == NodeInit => NodeInv
<1>1. QueueInit => ~Backlog
  BY DEF QueueInit, Backlog
<1>2. NodeInit => NodeTypes
  <2>1. /\ 0 \in 0..BufferLimit /\ 0 \in 0..Chunk
        /\ 0 \in 0..(IdleLimit + 2) /\ 0 \in 0..(Interval + 1)
    BY NodeAssumption
  <2> QED BY <2>1 DEF NodeInit, NodeTypes
<1>3. NodeInit => WaitInv
  BY NodeAssumption DEF NodeInit, WaitInv, Running
<1>4. NodeInit => Woken /\ EndInv /\ WireInv /\ BeatInv
  BY <1>1, NodeAssumption DEF NodeInit, Woken, EndInv, WireInv, BeatInv
<1> QED BY <1>2, <1>3, <1>4 DEF NodeInv

(* A connection that finishes keeps the invariant.                          *)
LEMMA FinishKeeps ==
  ASSUME NodeInv, Finish, UNCHANGED <<socketSide, wireAge>>,
         frames' \in 0..Chunk, inAge' \in 0..(IdleLimit + 2),
         outAge' \in 0..(Interval + 1), beatDue' \in BOOLEAN
  PROVE  NodeInv'
<1>1. finished' /\ phase' = "run" /\ UNCHANGED <<ending, waitingDrain>>
  BY DEF Finish
<1>2. Backlog' => Backlog
  BY BacklogCleared, BacklogKept DEF Finish
<1> QED BY <1>1, <1>2 DEF NodeInv, NodeTypes, WaitInv, Woken, EndInv,
     WireInv, BeatInv, Running, socketSide, Finish

(* So does a message that is accepted while the connection is open.         *)
LEMMA AcceptKeeps ==
  ASSUME NodeInv, QueueTypeOK, isOpen, Running,
         EnqueueControl \/ \E size \in Size : EnqueueDebug(size), Sent,
         UNCHANGED <<socketSide, inAge, wireAge>>,
         frames' \in 0..Chunk, beatDue' \in BOOLEAN
  PROVE  NodeInv'
<1>1. Backlog'
  BY BacklogGrows
<1> QED BY <1>1, NodeAssumption DEF NodeInv, NodeTypes, WaitInv, Woken, EndInv,
     WireInv, BeatInv, ToWrite, Running, socketSide, stateVars, Sent, CallDrain, isOpen

(* And what leaves the write loop and the clocks alone.                     *)
LEMMA IdleKeeps ==
  ASSUME NodeInv, UNCHANGED <<queueVars, stateVars, phase, writeEnded, outAge, wireAge, beatDue>>,
         frames' \in 0..Chunk, inAge' \in 0..(IdleLimit + 2), buffered' \in 0..buffered,
         peer' \in {"alive", "deaf", "silent", "closed"}
  PROVE  NodeInv'
<1>1. (Backlog' <=> Backlog) /\ nextSequence' = nextSequence
  BY BacklogKept
<1> QED BY <1>1, NodeAssumption DEF NodeInv, NodeTypes, WaitInv, Woken, EndInv, WireInv,
     BeatInv, ToWrite, Spent, Running, stateVars

LEMMA PutControlKeeps ==
  ASSUME NodeInv, QueueTypeOK, Running, PutControl, frames' \in 0..Chunk,
         UNCHANGED <<socketSide, inAge, wireAge, beatDue>>
  PROVE  NodeInv'
<1>1. CASE isOpen /\ EnqueueControl /\ Sent
  BY <1>1, AcceptKeeps DEF NodeInv, NodeTypes
<1>2. CASE Finish /\ UNCHANGED outAge
  BY <1>2, FinishKeeps DEF NodeInv, NodeTypes
<1>3. CASE Refused
  <2>1. buffered' \in 0..buffered /\ peer' \in {"alive", "deaf", "silent", "closed"}
    BY DEF NodeInv, NodeTypes, socketSide
  <2> QED BY <1>3, <2>1, IdleKeeps DEF NodeInv, NodeTypes, Refused, socketSide
<1> QED BY <1>1, <1>2, <1>3 DEF PutControl

(* The write loop.                                                          *)
LEMMA DrainKeeps ==
  ASSUME NodeInv, QueueTypeOK, Drain
  PROVE  NodeInv'
<1>1. CASE DrainDequeues
  <2>1. Backlog /\ nextSequence' = nextSequence
    BY <1>1, BacklogShrinks DEF DrainDequeues
  <2> QED BY <1>1, <2>1 DEF DrainDequeues, NodeInv, NodeTypes, WaitInv, Woken,
       EndInv, WireInv, BeatInv, ToWrite, Running, stateVars, socketSide, clockVars
<1>2. CASE DrainWrites
  <2>1. (Backlog' <=> Backlog) /\ nextSequence' = nextSequence
    BY <1>2, BacklogKept DEF DrainWrites
  <2>2. NodeTypes' /\ WaitInv'
    <3>1. waitingDrain = FALSE /\ buffered + 1 \in 0..BufferLimit
      BY <1>2, NodeAssumption DEF DrainWrites, NodeInv, NodeTypes, WaitInv, Running
    <3>2. \/ waitingDrain' = TRUE /\ phase' = "run"
          \/ waitingDrain' = FALSE /\ phase' = "drain" /\ buffered' # BufferLimit
      BY <1>2 DEF DrainWrites
    <3>3. buffered' \in 0..BufferLimit /\ wireAge' \in 0..(Interval + 1)
      BY <1>2, <3>1, NodeAssumption DEF DrainWrites
    <3>4. NodeTypes'
      BY <1>2, <3>2, <3>3 DEF DrainWrites, NodeInv, NodeTypes
    <3>5. WaitInv'
      BY <3>2, <3>3, NodeAssumption DEF WaitInv, Running
    <3> QED BY <3>4, <3>5
  <2>3. Woken'
    BY <1>2 DEF DrainWrites, Woken, Running
  <2>4. EndInv' /\ WireInv' /\ BeatInv'
    BY <1>2, <2>1, NodeAssumption
       DEF DrainWrites, NodeInv, NodeTypes, EndInv, WireInv, BeatInv
  <2> QED BY <2>2, <2>3, <2>4 DEF NodeInv
<1>3. CASE DrainFails
  BY <1>3, FinishKeeps DEF DrainFails, NodeInv, NodeTypes, clockVars
<1>4. CASE DrainReturns
  <2>1. ~Backlog /\ ~Backlog' /\ nextSequence' = nextSequence
    BY <1>4, BacklogKept DEF DrainReturns
  <2> QED BY <1>4, <2>1 DEF DrainReturns, NodeInv, NodeTypes, WaitInv, Woken,
       EndInv, WireInv, BeatInv, ToWrite, Spent, Running, stateVars, clockVars
<1> QED BY <1>1, <1>2, <1>3, <1>4 DEF Drain

LEMMA DrainEventKeeps ==
  ASSUME NodeInv, DrainEvent
  PROVE  NodeInv'
<1>1. (Backlog' <=> Backlog) /\ nextSequence' = nextSequence
  BY BacklogKept DEF DrainEvent
<1>2. NodeTypes'
  <2>1. waitingDrain' \in BOOLEAN /\ phase' \in {"run", "drain", "write"}
    BY DEF DrainEvent
  <2> QED BY <2>1 DEF DrainEvent, NodeInv, NodeTypes, socketSide, clockVars
<1>3. WaitInv' /\ Woken'
  <2>1. buffered' < BufferLimit /\ ~Running' /\ waitingDrain' = FALSE
    BY NodeAssumption DEF DrainEvent, Running, socketSide
  <2> QED BY <2>1 DEF WaitInv, Woken
<1>4. EndInv' /\ WireInv' /\ BeatInv'
  BY <1>1 DEF DrainEvent, Between, NodeInv, EndInv, WireInv, BeatInv, ToWrite, Spent, Running,
     socketSide, clockVars
<1> QED BY <1>2, <1>3, <1>4 DEF NodeInv

(* The timer: after its turn the last write is recent, or one is due.       *)
LEMMA TickHeartbeatKeeps ==
  ASSUME NodeInv, QueueTypeOK, TickHeartbeat
  PROVE  NodeInv'
<1>0. /\ Running /\ frames' \in 0..Chunk /\ beatDue' = FALSE
      /\ UNCHANGED <<socketSide, inAge, wireAge>>
  BY DEF TickHeartbeat, Between, NodeInv, NodeTypes
<1>1. CASE Finish /\ UNCHANGED outAge
  BY <1>0, <1>1, FinishKeeps DEF NodeInv, NodeTypes
<1>2. CASE isOpen /\ EnqueueControl /\ Sent
  BY <1>0, <1>2, AcceptKeeps
<1>3. CASE Refused /\ (~isOpen \/ Spent \/ ~PingDue)
  <2>1. (Backlog' <=> Backlog) /\ nextSequence' = nextSequence
    BY <1>3, BacklogKept DEF Refused
  <2>2. finished \/ ending \/ Spent \/ Backlog \/ wireAge < Interval
    BY <1>0, <1>3, NodeAssumption
       DEF isOpen, PingDue, NodeInv, NodeTypes, WireInv, ToWrite, Running
  <2> QED BY <1>0, <1>3, <2>1, <2>2 DEF Refused, NodeInv, NodeTypes, WaitInv, Woken,
       EndInv, WireInv, BeatInv, ToWrite, Spent, Running, stateVars, socketSide
<1> QED BY <1>1, <1>2, <1>3 DEF TickHeartbeat, PutControl

(* Time: a tick gives the timer another turn.                               *)
LEMMA TickKeeps ==
  ASSUME NodeInv, Tick
  PROVE  NodeInv'
<1>1. (Backlog' <=> Backlog) /\ nextSequence' = nextSequence
  BY BacklogKept DEF Tick
<1>2. /\ inAge' \in 0..(IdleLimit + 2)
      /\ outAge' \in 0..(Interval + 1) /\ wireAge' \in 0..(Interval + 1)
      /\ wireAge <= outAge => wireAge' <= outAge'
  BY NodeAssumption DEF Tick, Older, NodeInv, NodeTypes
<1> QED BY <1>1, <1>2 DEF Tick, NodeInv, NodeTypes, WaitInv, Woken, EndInv,
     WireInv, BeatInv, ToWrite, Spent, Running, stateVars, socketSide

LEMMA NodeInductive ==
  ASSUME NodeInv, QueueTypeOK, [NodeNext]_nodeVars
  PROVE  NodeInv'
<1>0. NodeTypes
  BY DEF NodeInv
<1>1. CASE SendControl
  BY <1>0, <1>1, PutControlKeeps DEF SendControl, NodeTypes
<1>2. CASE SendDebug
  BY <1>0, <1>2, AcceptKeeps DEF SendDebug, NodeTypes
<1>3. CASE Close
  BY <1>0, <1>3, FinishKeeps DEF Close, clockVars, NodeTypes
<1>4. CASE End
  <2>1. (Backlog' <=> Backlog) /\ nextSequence' = nextSequence
    BY <1>4, BacklogKept DEF End
  <2> QED BY <1>4, <2>1 DEF End, CallDrain, isOpen, NodeInv, NodeTypes, WaitInv,
       Woken, EndInv, WireInv, BeatInv, ToWrite, Spent, Running, socketSide, clockVars
<1>5. CASE Receive
  <2>1. 0 \in 0..(IdleLimit + 2) /\ buffered \in 0..buffered
    BY <1>0, NodeAssumption DEF NodeTypes
  <2> QED BY <1>0, <1>5, <2>1, FinishKeeps, IdleKeeps DEF Receive, socketSide, NodeTypes
<1>6. CASE HandlePing
  <2>1. frames' \in 0..Chunk
    BY <1>0, <1>6, NodeAssumption DEF HandlePing, NodeTypes
  <2> QED BY <1>6, <2>1, PutControlKeeps DEF HandlePing
<1>7. CASE HandleFrame
  <2>1. frames' \in 0..Chunk /\ buffered \in 0..buffered
    BY <1>0, <1>7, NodeAssumption DEF HandleFrame, NodeTypes
  <2> QED BY <1>0, <1>7, <2>1, FinishKeeps, IdleKeeps
       DEF HandleFrame, socketSide, clockVars, NodeTypes
<1>8. CASE SocketCloses
  BY <1>0, <1>8, FinishKeeps DEF SocketCloses, clockVars, NodeTypes
<1>9. CASE PeerTakes
  <2>1. buffered' \in 0..buffered
    BY <1>0, <1>9, NodeAssumption DEF PeerTakes, NodeTypes
  <2> QED BY <1>0, <1>9, <2>1, IdleKeeps DEF PeerTakes, clockVars, NodeTypes
<1>10. CASE PeerChanges
  <2>1. buffered' \in 0..buffered
    BY <1>0, <1>10, NodeAssumption DEF PeerChanges, NodeTypes
  <2> QED BY <1>0, <1>10, <2>1, IdleKeeps DEF PeerChanges, clockVars, NodeTypes
<1>11. CASE UNCHANGED nodeVars
  <2>1. buffered' \in 0..buffered
    BY <1>0, <1>11, NodeAssumption DEF nodeVars, socketSide, NodeTypes
  <2> QED BY <1>0, <1>11, <2>1, IdleKeeps DEF nodeVars, socketSide, clockVars, NodeTypes
<1> QED BY <1>1, <1>2, <1>3, <1>4, <1>5, <1>6, <1>7, <1>8, <1>9, <1>10, <1>11,
     DrainKeeps, DrainEventKeeps, TickHeartbeatKeeps, TickKeeps DEF NodeNext

---------------------------------------------------------------------------
LEMMA NodeInvCorrect == NodeSpec => [](QueueTypeOK /\ NodeInv)
<1>1. NodeSpec => []QueueTypeOK
  BY NodeUsesQueues, QueueTypeCorrect
<1> QED BY <1>1, NodeInitial, NodeInductive, PTL DEF NodeSpec

(* The variables have their types: no more frames are buffered than the     *)
(* socket takes, since the write loop stops when it asks to wait.           *)
THEOREM NodeTypeCorrect == NodeSpec => []NodeTypeOK
<1>1. QueueTypeOK /\ NodeInv => NodeTypeOK
  BY DEF NodeInv, NodeTypes, NodeTypeOK
<1> QED BY <1>1, NodeInvCorrect, PTL

(* No message is stranded: whoever queues one while the socket is ready     *)
(* runs the write loop, the drain event runs it for the others, and end()   *)
(* never closes the write side over a message it owes.                      *)
THEOREM NoLostWakeup == NodeSpec => []NothingStranded
<1>1. NodeInv => NothingStranded
  BY DEF NodeInv, EndInv, EndWritesFirst, NothingStranded
<1> QED BY <1>1, NodeInvCorrect, PTL

(* The peer hears a byte in every interval while it reads, although the     *)
(* timer looks at the last enqueue and not at the last write.               *)
THEOREM NodePingInTime == NodeSpec => NodeSpeaksInTime
<1> DEFINE A == wireAge' > wireAge => wireAge < Interval \/ finished \/ ending \/ waitingDrain \/ Spent
<1>1. ASSUME NodeInv, [NodeNext]_nodeVars
      PROVE  [A]_nodeVars
  <2>1. CASE Tick
    <3>1. Running /\ (finished \/ ~beatDue)
      BY <2>1 DEF Tick, Between
    <3> QED BY <1>1, <3>1 DEF NodeInv, Woken, BeatInv, ToWrite, Running
  <2>2. CASE DrainWrites
    <3>1. ~(wireAge' > wireAge)
      BY <1>1, <2>2 DEF NodeInv, NodeTypes, DrainWrites
    <3> QED BY <3>1
  <2>3. CASE ~Tick /\ ~DrainWrites
    <3>1. wireAge' = wireAge
      BY <1>1, <2>3 DEF NodeNext, SendControl, SendDebug, Close, End, Drain, DrainDequeues,
         DrainFails, DrainReturns, DrainEvent, Receive, HandlePing, HandleFrame,
         TickHeartbeat, SocketCloses, PeerTakes, PeerChanges, clockVars, nodeVars
    <3> QED BY <1>1, <3>1 DEF NodeInv, NodeTypes
  <2> QED BY <2>1, <2>2, <2>3
<1>2. NodeSpec => []NodeInv
  BY NodeInvCorrect, PTL
<1> QED BY <1>1, <1>2, PTL DEF NodeSpec, NodeSpeaksInTime
=============================================================================
