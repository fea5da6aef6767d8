---------------------------- MODULE RuntimeSocket ----------------------------
(***************************************************************************)
(* A bridge connection on the Unity side, VisualBridgeBridgeSocket: a      *)
(* reader thread, a writer thread, threads that send through SendQueues,   *)
(* and a graceful close, ended by whoever enters HandleConnectionEnd first. *)
(* Time is counted in ticks much longer than the poll of the writer (100   *)
(* ms) and the wait of CloseGracefully (500 ms), so that a tick passes     *)
(* only when every thread waits.  Of the peer and the network only what    *)
(* the threads can feel is kept: bytes that arrive, a window that fills.   *)
(***************************************************************************)
EXTENDS SendQueues

CONSTANTS
  Thread,     \* threads that send
  Window,     \* messages the network takes before a write blocks
  Interval,   \* ticks of silence before a ping (10 s)
  IdleLimit   \* ticks without a byte before the connection is dead (30 s)

ASSUME HeartbeatAssumption ==
  /\ Window \in Nat \ {0}
  /\ Interval \in Nat \ {0} /\ IdleLimit \in Nat \ {0}

VARIABLES
  life,               \* how far HandleConnectionEnd has come
  cause,              \* why the connection ended
  gracefulRequested,
  writer, reader, closer, sender,   \* where the threads are
  peer, unread,       \* the peer; messages in the window
  inAge, outAge,      \* ticks since lastInboundTicks, lastOutboundTicks
  requestedAt,        \* history: the first message after CloseGracefully
  lost                \* history: control messages dropped at the end

endVars    == <<life, cause>>
threadVars == <<writer, reader, closer, sender>>
clockVars  == <<inAge, outAge>>
netVars    == <<peer, unread>>
closeVars  == <<gracefulRequested, requestedAt>>
socketVars == <<queueVars, endVars, threadVars, clockVars, netVars, closeVars, lost>>

Life == {"open", "stopping", "emptied", "disposed", "notified"}
stopping == life # "open"
Broken   == life \in {"disposed", "notified"} \/ peer = "closed"
Blocked  == writer = "write" /\ unread = Window /\ ~Broken
Spent    == nextSequence > MaxSequence

SocketInit ==
  /\ QueueInit
  /\ life = "open" /\ cause = "none" /\ lost = {}
  /\ gracefulRequested = FALSE /\ requestedAt = MaxSequence + 1
  /\ writer = "dequeue" /\ reader = "read" /\ closer = "idle"
  /\ sender = [s \in Thread |-> "idle"]
  /\ peer = "alive" /\ unread = 0
  /\ inAge = 0 /\ outAge = 0

---------------------------------------------------------------------------
(* HandleConnectionEnd: the first thread in sets stopping; the queues are  *)
(* closed, the stream is disposed and the owner is told after that.        *)
EndConnection(why) ==
  IF stopping THEN UNCHANGED endVars ELSE life' = "stopping" /\ cause' = why

EndQueues ==
  /\ life = "stopping" /\ life' = "emptied"
  /\ CloseQueues
  /\ lost' = {controlQueue[i].sequence : i \in 1..Len(controlQueue)}
  /\ UNCHANGED <<cause, threadVars, clockVars, netVars, closeVars>>

(* Mutant of EndStream: the stream is left to the finalizer.               *)
EndStreamForgets ==
  /\ life = "emptied" /\ life' = "emptied"
  /\ UNCHANGED <<queueVars, cause, threadVars, clockVars, netVars, closeVars, lost>>

EndStream ==
  /\ life = "emptied" /\ life' = "disposed"
  /\ UNCHANGED <<queueVars, cause, threadVars, clockVars, netVars, closeVars, lost>>

EndNotify ==
  /\ life = "disposed" /\ life' = "notified"
  /\ UNCHANGED <<queueVars, cause, threadVars, clockVars, netVars, closeVars, lost>>

End == EndQueues \/ EndStream \/ EndNotify

---------------------------------------------------------------------------
(* TryEnqueueControl and what Enqueue does with its result: a full queue   *)
(* ends the connection.                                                    *)
PutControl ==
  \/ EnqueueControl /\ UNCHANGED endVars
  \/ accepting /\ ControlFull /\ EndConnection("full") /\ UNCHANGED queueVars
  \/ (~accepting \/ Spent) /\ UNCHANGED <<queueVars, endVars>>

PutData ==
  \/ \E size \in Size : EnqueueDebug(size)
  \/ (~accepting \/ Spent) /\ UNCHANGED queueVars

(* Enqueue reads stopping and then, maybe after others moved, enqueues.    *)
Send(s) ==
  /\ sender[s] = "idle" /\ ~stopping /\ ~Spent
  /\ \E kind \in {"control", "data"} : sender' = [sender EXCEPT ![s] = kind]
  /\ UNCHANGED <<queueVars, endVars, writer, reader, closer, clockVars, netVars,
                 closeVars, lost>>

Enqueue(s) ==
  /\ \/ sender[s] = "control" /\ PutControl
     \/ sender[s] = "data" /\ PutData /\ UNCHANGED endVars
  /\ sender' = [sender EXCEPT ![s] = "idle"]
  /\ UNCHANGED <<writer, reader, closer, clockVars, netVars, closeVars, lost>>

Close ==
  /\ ~stopping /\ EndConnection("close")
  /\ UNCHANGED <<queueVars, threadVars, clockVars, netVars, closeVars, lost>>

---------------------------------------------------------------------------
(* CloseGracefully: the request is published before the queues stop        *)
(* accepting; the wait ends with the connection or with its timeout.       *)
CloseGracefully ==
  /\ closer = "idle" /\ ~stopping
  /\ gracefulRequested' = TRUE /\ requestedAt' = nextSequence
  /\ closer' = "stopAccepting"
  /\ UNCHANGED <<queueVars, endVars, writer, reader, sender, clockVars, netVars, lost>>

CloserStopsAccepting ==
  /\ closer = "stopAccepting" /\ closer' = "wait"
  /\ StopAccepting
  /\ UNCHANGED <<endVars, writer, reader, sender, clockVars, netVars, closeVars, lost>>

(* Mutant of CloserReturns: the wait for the end has no timeout.           *)
CloserWaits ==
  /\ closer = "wait" /\ life = "notified" /\ closer' = "done"
  /\ UNCHANGED <<queueVars, endVars, writer, reader, sender, clockVars, netVars,
                 closeVars, lost>>

CloserReturns ==
  /\ closer = "wait" /\ closer' = "done"
  /\ EndConnection("timeout")
  /\ UNCHANGED <<queueVars, writer, reader, sender, clockVars, netVars, closeVars, lost>>

---------------------------------------------------------------------------
(* The writer thread: WriteLoop.                                           *)
WriterDequeues ==
  /\ writer = "dequeue"
  /\ \/ Dequeue /\ writer' = "write"
     \/ /\ closed \/ (controlQueue = <<>> /\ dataQueue = <<>>)
        /\ writer' = "stopping" /\ UNCHANGED queueVars
  /\ UNCHANGED <<endVars, reader, closer, sender, clockVars, netVars, closeVars, lost>>

WriterWrites ==
  /\ writer = "write" /\ ~Broken
  /\ unread < Window /\ unread' = unread + 1
  /\ outAge' = 0 /\ writer' = "dequeue"
  /\ UNCHANGED <<queueVars, endVars, reader, closer, sender, inAge, peer, closeVars, lost>>

WriterFails ==
  /\ writer = "write" /\ Broken /\ writer' = "done"
  /\ EndConnection("error")
  /\ UNCHANGED <<queueVars, reader, closer, sender, clockVars, netVars, closeVars, lost>>

(* The writer goes from one test of its loop to the next.                  *)
WriterTests(from, holds, then, else) ==
  /\ writer = from /\ writer' = IF holds THEN then ELSE else
  /\ UNCHANGED <<queueVars, endVars, reader, closer, sender, clockVars, netVars,
                 closeVars, lost>>

(* Mutant of CountControl: the queue was found empty a moment ago, and is  *)
(* not counted again after the request is seen.                            *)
CountControlNever == WriterTests("countControl", TRUE, "countData", "beat")

CheckStopping == WriterTests("stopping", stopping, "done", "graceful")
CheckGraceful == WriterTests("graceful", gracefulRequested, "countControl", "beat")
CountControl  == WriterTests("countControl", controlQueue = <<>>, "countData", "beat")
CountData     == WriterTests("countData", dataQueue = <<>>, "flushed", "beat")

WriterFlushed ==
  /\ writer = "flushed" /\ writer' = "done"
  /\ EndConnection("flushed")
  /\ UNCHANGED <<queueVars, reader, closer, sender, clockVars, netVars, closeVars, lost>>

(* MaintainHeartbeat: the connection is idle for too long,                 *)
BeatIdle ==
  /\ writer = "beat" /\ inAge > IdleLimit /\ writer' = "done"
  /\ EndConnection("idle")
  /\ UNCHANGED <<queueVars, reader, closer, sender, clockVars, netVars, closeVars, lost>>

(* or a ping is due (mutant of PingDue: a tick too late),                  *)
PingDueLate ==
  /\ outAge > Interval
  /\ controlQueue = <<>> /\ dataQueue = <<>>

PingDue ==
  /\ outAge >= Interval
  /\ controlQueue = <<>> /\ dataQueue = <<>>

BeatChecks ==
  /\ inAge <= IdleLimit
  /\ WriterTests("beat", PingDue, "ping", "wait")

(* or neither; the result of the ping's own enqueue is not looked at.      *)
BeatPings ==
  /\ writer = "ping" /\ writer' = "wait"
  /\ outAge' = 0
  /\ \/ EnqueueControl
     \/ (~accepting \/ ControlFull \/ Spent) /\ UNCHANGED queueVars
  /\ UNCHANGED <<endVars, reader, closer, sender, inAge, netVars, closeVars, lost>>

(* Mutant of Beat: the silence of the peer is looked at with a ping only.  *)
BeatLazy ==
  \/ outAge >= Interval /\ BeatIdle
  \/ BeatChecks
  \/ inAge > IdleLimit /\ outAge < Interval /\ WriterTests("beat", TRUE, "wait", "wait")
  \/ BeatPings

Beat == BeatIdle \/ BeatChecks \/ BeatPings

WriterWakes == WriterTests("wait", TRUE, "dequeue", "dequeue")

Writer ==
  \/ WriterDequeues \/ WriterWrites \/ WriterFails
  \/ CheckStopping \/ CheckGraceful \/ CountControl \/ CountData \/ WriterFlushed
  \/ Beat \/ WriterWakes

---------------------------------------------------------------------------
(* The reader thread: ReadLoop.  Any byte counts as a sign of life; a ping *)
(* is answered; a bad frame or a handler that throws ends the connection.  *)
Receive ==
  /\ reader = "read" /\ ~stopping /\ peer = "alive"
  /\ inAge' = 0
  /\ \/ reader' = "pong" /\ UNCHANGED endVars
     \/ reader' = "read" /\ UNCHANGED endVars
     \/ reader' = "done" /\ EndConnection("error")
  /\ UNCHANGED <<queueVars, writer, closer, sender, outAge, netVars, closeVars, lost>>

ReaderPongs ==
  /\ reader = "pong" /\ reader' = "read"
  /\ \/ PutControl
     \/ stopping /\ UNCHANGED <<queueVars, endVars>>
  /\ UNCHANGED <<writer, closer, sender, clockVars, netVars, closeVars, lost>>

ReaderEnds ==
  /\ reader = "read" /\ Broken /\ reader' = "done"
  /\ EndConnection("peer")
  /\ UNCHANGED <<queueVars, writer, closer, sender, clockVars, netVars, closeVars, lost>>

Reader == ReaderPongs \/ ReaderEnds

---------------------------------------------------------------------------
(* The peer and the network.                                               *)
PeerTakes ==
  /\ peer = "alive" /\ unread > 0 /\ unread' = unread - 1
  /\ UNCHANGED <<queueVars, endVars, threadVars, clockVars, peer, closeVars, lost>>

PeerLeaves ==
  /\ \/ peer = "alive" /\ peer' = "silent"
     \/ peer # "closed" /\ peer' = "closed"
  /\ UNCHANGED <<queueVars, endVars, threadVars, clockVars, unread, closeVars, lost>>

(* A tick: all threads wait, the writer for a message, in the stream or for *)
(* good; its poll ends well within the tick.  Or the writer is busy: the    *)
(* ticks pass between one message and the next, without a look at the       *)
(* heartbeat.                                                              *)
Busy == writer = "dequeue" /\ (controlQueue # <<>> \/ dataQueue # <<>>) /\ outAge = 0

Tick ==
  /\ \/ writer = "wait" /\ controlQueue = <<>> /\ dataQueue = <<>>
     \/ writer = "done" \/ Blocked \/ Busy
  /\ reader # "pong" /\ closer \in {"idle", "done"}
  /\ \A s \in Thread : sender[s] = "idle"
  /\ life \in {"open", "notified"}
  /\ inAge' = IF inAge > IdleLimit + 1 THEN inAge ELSE inAge + 1
  /\ outAge' = IF outAge > Interval THEN outAge ELSE outAge + 1
  /\ writer' = IF writer = "wait" THEN "dequeue" ELSE writer
  /\ UNCHANGED <<queueVars, endVars, reader, closer, sender, netVars, closeVars, lost>>

SocketNext ==
  \/ End \/ Close
  \/ \E s \in Thread : Send(s) \/ Enqueue(s)
  \/ CloseGracefully \/ CloserStopsAccepting \/ CloserReturns
  \/ Writer
  \/ Receive \/ Reader
  \/ PeerTakes \/ PeerLeaves
  \/ Tick

(* Threads run; peers, senders and ticks owe nothing.                      *)
SocketFairness ==
  /\ WF_socketVars(End) /\ WF_socketVars(Writer) /\ WF_socketVars(Reader)
  /\ WF_socketVars(CloserStopsAccepting) /\ WF_socketVars(CloserReturns)

SocketSpec == SocketInit /\ [][SocketNext]_socketVars /\ SocketFairness

---------------------------------------------------------------------------
SocketTypes ==
  /\ life \in Life
  /\ cause \in {"none", "close", "full", "timeout", "error", "flushed", "idle", "peer"}
  /\ stopping <=> cause # "none"
  /\ closed <=> life \in {"emptied", "disposed", "notified"}
  /\ gracefulRequested \in BOOLEAN /\ requestedAt \in 1..(MaxSequence + 1)
  /\ writer \in {"dequeue", "write", "stopping", "graceful", "countControl",
                 "countData", "flushed", "beat", "ping", "wait", "done"}
  /\ reader \in {"read", "pong", "done"}
  /\ closer \in {"idle", "stopAccepting", "wait", "done"}
  /\ sender \in [Thread -> {"idle", "control", "data"}]
  /\ peer \in {"alive", "silent", "closed"} /\ unread \in 0..Window
  /\ inAge \in 0..(IdleLimit + 2) /\ outAge \in 0..(Interval + 1)
  /\ lost \subseteq 1..MaxSequence

(* The variables have their types and the queues keep theirs while threads *)
(* race for them.                                                          *)
SocketTypeOK == QueueTypeOK /\ SocketTypes

(* A graceful close that the writer completes has written every control    *)
(* message accepted before it was asked for: the error reply is not lost.  *)
FlushLosesNothing == cause = "flushed" => \A n \in lost : n >= requestedAt

(* No tick passes with the peer silent beyond the limit, unless the writer *)
(* is stuck in a write, or has sent something since the last one and finds *)
(* the next message waiting: traffic alone hides a dead peer, no wait, no   *)
(* test and no ping of WriteLoop does.                                     *)
SilenceEnds ==
  [][inAge' > inAge => inAge <= IdleLimit \/ stopping \/ Blocked \/ Busy]_socketVars

(* A writer that can write never stays silent beyond the interval.         *)
SpeaksInTime ==
  [][outAge' > outAge => outAge < Interval \/ stopping \/ Blocked]_socketVars

(* An end that has begun is completed, and both loops leave, even when a   *)
(* thread was blocked in the stream.                                       *)
EndCompletes ==
  stopping ~> life = "notified" /\ writer = "done" /\ reader = "done"

(* A graceful close ends the connection, by its timeout if need be.        *)
GracefulCloseEnds == gracefulRequested ~> life = "notified"
=============================================================================
