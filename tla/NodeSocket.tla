----------------------------- MODULE NodeSocket -----------------------------
(***************************************************************************)
(* A bridge connection on the Node side, BridgeSocket in                   *)
(* Tools/VSCodeExtension/src/bridge/bridgeSocket.ts: one thread, events    *)
(* (a chunk of bytes, a drain, a timer, the close of the socket) and calls *)
(* of the owner, between them or from its handlers.  The write loop is cut *)
(* into the steps at which it can stop; no event comes before it returns.  *)
(* Of the socket only what the code can feel is kept: how many frames Node *)
(* buffers, whether the write side was ended, and the kind of peer.  Time  *)
(* is counted in ticks much longer than the period of the heartbeat timer. *)
(***************************************************************************)
EXTENDS SendQueues

CONSTANTS
  BufferLimit,  \* frames the socket buffers before write returns false
  Chunk,        \* bound: frames in a chunk
  Interval,     \* ticks of silence before a ping (10 s)
  IdleLimit     \* ticks without a byte before the connection is dead (30 s)

ASSUME NodeAssumption ==
  /\ BufferLimit \in Nat \ {0} /\ Chunk \in Nat
  /\ Interval \in Nat \ {0} /\ IdleLimit \in Nat \ {0}

VARIABLES
  finished, ending, waitingDrain,
  phase,           \* "run", or where the write loop is: "drain", "write"
  frames,          \* frames of the chunk still to be handled
  buffered,        \* frames in the buffer of the socket
  writeEnded,      \* socket.end() was called
  peer,            \* "alive", "deaf" (reads nothing), "silent", "closed"
  inAge, outAge,   \* ticks since lastInboundAt, lastOutboundAt
  wireAge,         \* history: ticks since a frame was given to the socket
  beatDue          \* the heartbeat timer has a turn to come in this tick

stateVars  == <<finished, ending, waitingDrain>>
socketSide == <<buffered, writeEnded, peer>>
clockVars  == <<inAge, outAge, wireAge, beatDue>>
nodeVars   == <<queueVars, stateVars, phase, frames, socketSide, clockVars>>

isOpen  == ~finished /\ ~ending
Backlog == controlQueue # <<>> \/ dataQueue # <<>>
Spent   == nextSequence > MaxSequence
Running == phase = "run"               \* the write loop has returned
Between == Running /\ frames = 0       \* and no chunk is being handled

NodeInit ==
  /\ QueueInit
  /\ finished = FALSE /\ ending = FALSE /\ waitingDrain = FALSE
  /\ phase = "run" /\ frames = 0
  /\ buffered = 0 /\ writeEnded = FALSE /\ peer = "alive"
  /\ inAge = 0 /\ outAge = 0 /\ wireAge = 0 /\ beatDue = FALSE

---------------------------------------------------------------------------
(* finish, which fail and close call: the first cause closes the queues.   *)
Finish ==
  /\ finished' = TRUE /\ phase' = "run"
  /\ IF finished THEN UNCHANGED queueVars ELSE CloseQueues
  /\ UNCHANGED <<ending, waitingDrain>>

(* drain returns at once while the socket asks to wait.                    *)
CallDrain == phase' = IF waitingDrain THEN "run" ELSE "drain"

(* Mutant of Sent: the message waits in its queue for a drain.             *)
SentLazily ==
  /\ phase' = "run" /\ outAge' = 0
  /\ UNCHANGED stateVars

(* handleEnqueueResult of an accepted message, and lastOutboundAt.         *)
Sent ==
  /\ CallDrain /\ outAge' = 0
  /\ UNCHANGED stateVars

Refused == UNCHANGED <<queueVars, stateVars, phase, outAge>>

(* sendControl: a full queue ends the connection.                          *)
PutControl ==
  \/ isOpen /\ EnqueueControl /\ Sent
  \/ isOpen /\ ControlFull /\ Finish /\ UNCHANGED outAge
  \/ (~isOpen \/ Spent) /\ Refused

SendControl ==
  /\ Running /\ isOpen /\ PutControl
  /\ UNCHANGED <<frames, socketSide, inAge, wireAge, beatDue>>

SendDebug ==
  /\ Running /\ isOpen
  /\ \E size \in Size : EnqueueDebug(size)
  /\ Sent
  /\ UNCHANGED <<frames, socketSide, inAge, wireAge, beatDue>>

Close ==
  /\ Running /\ ~finished /\ Finish
  /\ UNCHANGED <<frames, socketSide, clockVars>>

End ==
  /\ Running /\ isOpen
  /\ ending' = TRUE /\ StopAccepting
  /\ CallDrain
  /\ UNCHANGED <<finished, waitingDrain, frames, socketSide, clockVars>>

---------------------------------------------------------------------------
(* drain: takes a message,                                                 *)
DrainDequeues ==
  /\ phase = "drain" /\ Dequeue /\ phase' = "write"
  /\ UNCHANGED <<stateVars, frames, socketSide, clockVars>>

(* gives its frame to the socket, which may ask to wait,                   *)
DrainWrites ==
  /\ phase = "write"
  /\ buffered' = buffered + 1 /\ wireAge' = 0
  /\ waitingDrain' = (buffered' = BufferLimit)
  /\ phase' = IF waitingDrain' THEN "run" ELSE "drain"
  /\ UNCHANGED <<queueVars, finished, ending, frames, writeEnded, peer,
                 inAge, outAge, beatDue>>

(* or throws,                                                              *)
DrainFails ==
  /\ phase = "write" /\ Finish
  /\ UNCHANGED <<frames, socketSide, clockVars>>

(* and with nothing left to write ends the write side if that was asked.   *)
DrainReturns ==
  /\ phase = "drain" /\ ~Backlog /\ phase' = "run"
  /\ writeEnded' = (writeEnded \/ ending)
  /\ UNCHANGED <<queueVars, stateVars, frames, buffered, peer, clockVars>>

Drain == DrainDequeues \/ DrainWrites \/ DrainFails \/ DrainReturns

(* Mutant of DrainEvent: the backlog waits for the next message.           *)
DrainEventIdle ==
  /\ Between /\ waitingDrain /\ buffered = 0 /\ ~finished
  /\ waitingDrain' = FALSE
  /\ UNCHANGED <<queueVars, finished, ending, phase, frames, socketSide, clockVars>>

(* The drain event of the socket.                                          *)
DrainEvent ==
  /\ Between /\ waitingDrain /\ buffered = 0 /\ ~finished
  /\ waitingDrain' = FALSE /\ phase' = "drain"
  /\ UNCHANGED <<queueVars, finished, ending, frames, socketSide, clockVars>>

---------------------------------------------------------------------------
(* receive: any byte is a sign of life; a bad frame ends the connection.   *)
Receive ==
  /\ Between /\ ~finished /\ peer \in {"alive", "deaf"}
  /\ inAge' = 0
  /\ \/ frames' \in 0..Chunk /\ UNCHANGED <<queueVars, stateVars, phase>>
     \/ Finish /\ UNCHANGED frames
  /\ UNCHANGED <<socketSide, outAge, wireAge, beatDue>>

(* The frames of the chunk, also after the connection finished on one of   *)
(* them: a ping is answered, a pong is skipped, and the handler of another *)
(* returns (the calls it makes are steps of the owner) or throws.          *)
HandlePing ==
  /\ Running /\ frames > 0 /\ frames' = frames - 1
  /\ PutControl
  /\ UNCHANGED <<socketSide, inAge, wireAge, beatDue>>

HandleFrame ==
  /\ Running /\ frames > 0
  /\ \/ frames' = frames - 1 /\ UNCHANGED <<queueVars, stateVars, phase>>
     \/ frames' = 0 /\ Finish
  /\ UNCHANGED <<socketSide, clockVars>>

(* Mutant of PingDue: a tick too late.                                     *)
PingDueLate == outAge > Interval /\ ~Backlog

PingDue == outAge >= Interval /\ ~Backlog

(* Mutant of Dead: a backlog counts as a sign of life.                     *)
DeadIdle == inAge > IdleLimit /\ ~Backlog

Dead == inAge > IdleLimit

(* tickHeartbeat.                                                          *)
TickHeartbeat ==
  /\ Between /\ beatDue /\ ~finished /\ beatDue' = FALSE
  /\ \/ Dead /\ Finish /\ UNCHANGED outAge
     \/ ~Dead /\ PingDue /\ PutControl
     \/ ~Dead /\ ~PingDue /\ Refused
  /\ UNCHANGED <<frames, socketSide, inAge, wireAge>>

(* The close event of the socket, after an error or the end of the peer.   *)
SocketCloses ==
  /\ Between /\ peer = "closed" /\ ~finished /\ Finish
  /\ UNCHANGED <<frames, socketSide, clockVars>>

---------------------------------------------------------------------------
(* The peer takes frames, goes deaf or silent, or leaves.                  *)
PeerTakes ==
  /\ peer = "alive" /\ buffered > 0 /\ buffered' = buffered - 1
  /\ UNCHANGED <<queueVars, stateVars, phase, frames, writeEnded, peer, clockVars>>

PeerChanges ==
  /\ \/ peer = "alive" /\ peer' = "deaf"
     \/ peer \in {"alive", "deaf"} /\ peer' = "silent"
     \/ peer # "closed" /\ peer' = "closed"
  /\ UNCHANGED <<queueVars, stateVars, phase, frames, buffered, writeEnded, clockVars>>

(* A tick: the events of the last one have been handled.                   *)
Older(age, limit) == IF age > limit THEN age ELSE age + 1
Tick ==
  /\ Between
  /\ finished \/ (~beatDue /\ peer # "closed" /\ ~(waitingDrain /\ buffered = 0))
  /\ inAge' = Older(inAge, IdleLimit + 1)
  /\ outAge' = Older(outAge, Interval) /\ wireAge' = Older(wireAge, Interval)
  /\ beatDue' = ~finished
  /\ UNCHANGED <<queueVars, stateVars, phase, frames, socketSide>>

NodeNext ==
  \/ SendControl \/ SendDebug \/ Close \/ End
  \/ Drain \/ DrainEvent
  \/ Receive \/ HandlePing \/ HandleFrame
  \/ TickHeartbeat \/ SocketCloses
  \/ PeerTakes \/ PeerChanges
  \/ Tick

(* A call in progress goes on, and the loop of Node comes to every event   *)
(* that waits, however many chunks arrive; a live peer reads.              *)
NodeFairness ==
  /\ WF_nodeVars(Drain) /\ WF_nodeVars(HandleFrame)
  /\ SF_nodeVars(DrainEvent) /\ SF_nodeVars(TickHeartbeat)
  /\ SF_nodeVars(SocketCloses) /\ SF_nodeVars(Tick)
  /\ WF_nodeVars(PeerTakes)

NodeSpec == NodeInit /\ [][NodeNext]_nodeVars /\ NodeFairness

---------------------------------------------------------------------------
(* The variables have their types, and the socket is never given a frame   *)
(* while it asks to wait.                                                  *)
NodeTypeOK ==
  /\ QueueTypeOK
  /\ finished \in BOOLEAN /\ ending \in BOOLEAN /\ waitingDrain \in BOOLEAN
  /\ phase \in {"run", "drain", "write"} /\ frames \in 0..Chunk
  /\ buffered \in 0..BufferLimit /\ writeEnded \in BOOLEAN
  /\ peer \in {"alive", "deaf", "silent", "closed"}
  /\ inAge \in 0..(IdleLimit + 2)
  /\ outAge \in 0..(Interval + 1) /\ wireAge \in 0..(Interval + 1)
  /\ beatDue \in BOOLEAN

(* Between two events a message is queued only while the socket owes a     *)
(* drain event, which wakes the write loop.                                *)
Woken == Running /\ ~finished /\ Backlog => waitingDrain

(* The error reply before a graceful close goes out: the write side is     *)
(* ended with nothing queued or in hand, also under backpressure.          *)
EndWritesFirst == writeEnded => ~Backlog /\ phase # "write"

(* No message is stranded: none loses its wakeup, and none is left behind  *)
(* by the end of the write side.                                           *)
NothingStranded == Woken /\ EndWritesFirst

(* The peer hears a byte within the interval while its buffer takes any,   *)
(* although lastOutboundAt is the time of an enqueue and not of a write.   *)
NodeSpeaksInTime ==
  [][wireAge' > wireAge =>
       wireAge < Interval \/ finished \/ ending \/ waitingDrain \/ Spent]_nodeVars

(* A silent peer is dropped, whatever the connection was doing.            *)
SilentPeerLeaves == peer = "silent" ~> finished

(* A graceful close writes everything and ends the write side, unless the  *)
(* connection ends first or the peer reads nothing.                        *)
EndCompletes == ending ~> writeEnded \/ finished \/ peer = "deaf"
=============================================================================
