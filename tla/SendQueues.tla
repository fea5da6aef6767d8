----------------------------- MODULE SendQueues -----------------------------
(***************************************************************************)
(* The two send queues of a bridge connection: BridgeSendQueues in         *)
(* Tools/VSCodeExtension/src/bridge/sendQueues.ts and, the same under a    *)
(* lock, VisualBridgeSendQueues in the Unity package.  A refused message   *)
(* (closed, too large, control queue full) changes no queue and is not a   *)
(* step: the count of refusals is left out, as are the counts in bytes.    *)
(* Of a payload only its size matters, and only in the data queue.         *)
(***************************************************************************)
EXTENDS Naturals, Sequences

CONSTANTS
  Size,                  \* payload sizes of data messages
  ControlCapacity,       \* messages in the control queue (256)
  DataCapacityMessages,  \* messages in the data queue (65536)
  DataCapacityBytes,     \* bytes in the data queue (16 MB)
  MaxMessageBytes,       \* bytes in a message (1 MB)
  MaxSequence            \* bound: messages accepted in a behaviour

ASSUME CapacityAssumption ==
  /\ Size \subseteq Nat
  /\ ControlCapacity \in Nat \ {0}
  /\ DataCapacityMessages \in Nat \ {0}
  /\ DataCapacityBytes \in Nat \ {0}
  /\ MaxMessageBytes \in Nat \ {0}
  /\ MaxSequence \in Nat \ {0}

VARIABLES
  controlQueue,      \* sequence numbers and barriers
  dataQueue,         \* sequence numbers and sizes
  nextSequence,
  lastDataSequence,
  dataBytes,         \* cached size of the data queue
  accepting, closed,
  counters,          \* what counterSnapshot reports
  lastWritten        \* history: the last message dequeued

queueVars == <<controlQueue, dataQueue, nextSequence, lastDataSequence,
               dataBytes, accepting, closed, counters, lastWritten>>

Control == [sequence : Nat, barrier : Nat]
Debug   == [sequence : Nat, size : Size]
Counter == {"controlEnqueued", "debugEnqueued", "debugDroppedMessages",
            "writtenControl", "writtenDebug"}

(* Mutant of Count: what is written is counted by the channel of its frame, *)
(* not by its queue, and control messages travel on the debug channel too. *)
CountByChannel(counter, n) ==
  LET channel == IF counter = "writtenControl" THEN "writtenDebug" ELSE counter
  IN  counters' = [counters EXCEPT ![channel] = @ + n]

Count(counter, n) == counters' = [counters EXCEPT ![counter] = @ + n]

(* The bytes of the first messages of a queue, and of all of them.         *)
BytesOfFirst(queue) ==
  LET bytes[k \in 0..Len(queue)] ==
        IF k = 0 THEN 0 ELSE bytes[k - 1] + queue[k].size
  IN  bytes
Bytes(queue) == BytesOfFirst(queue)[Len(queue)]

---------------------------------------------------------------------------
QueueInit ==
  /\ controlQueue = <<>> /\ dataQueue = <<>>
  /\ nextSequence = 1 /\ lastDataSequence = 0 /\ dataBytes = 0
  /\ accepting = TRUE /\ closed = FALSE
  /\ counters = [counter \in Counter |-> 0]
  /\ lastWritten = 0

ControlFull == Len(controlQueue) >= ControlCapacity

(* enqueueControl: the barrier is the last data message accepted so far.   *)
EnqueueControl ==
  /\ accepting /\ ~ControlFull
  /\ nextSequence <= MaxSequence /\ nextSequence' = nextSequence + 1
  /\ controlQueue' = Append(controlQueue,
       [sequence |-> nextSequence, barrier |-> lastDataSequence])
  /\ Count("controlEnqueued", 1)
  /\ UNCHANGED <<dataQueue, lastDataSequence, dataBytes, accepting, closed,
                 lastWritten>>

Acceptable(size) == size <= MaxMessageBytes /\ size <= DataCapacityBytes

(* Mutant of Overfull: the bytes of the message to come are forgotten.     *)
OverfullStale(size, k) ==
  /\ k < Len(dataQueue)
  /\ \/ Len(dataQueue) - k + 1 > DataCapacityMessages
     \/ dataBytes - Bytes(SubSeq(dataQueue, 1, k)) > DataCapacityBytes

(* The loop of enqueueDebug goes on: after k evictions there still is no   *)
(* room for a message.                                                     *)
Overfull(size, k) ==
  /\ k < Len(dataQueue)
  /\ \/ Len(dataQueue) - k + 1 > DataCapacityMessages
     \/ dataBytes - Bytes(SubSeq(dataQueue, 1, k)) + size > DataCapacityBytes

(* enqueueDebug: the oldest data messages make room.                       *)
EnqueueDebug(size) ==
  /\ accepting /\ Acceptable(size)
  /\ nextSequence <= MaxSequence /\ nextSequence' = nextSequence + 1
  /\ lastDataSequence' = nextSequence
  /\ \E k \in 0..Len(dataQueue) :
       /\ ~Overfull(size, k) /\ \A j \in 0..(k - 1) : Overfull(size, j)
       /\ dataQueue' = Append(SubSeq(dataQueue, k + 1, Len(dataQueue)),
            [sequence |-> nextSequence, size |-> size])
       /\ dataBytes' = dataBytes - Bytes(SubSeq(dataQueue, 1, k)) + size
       /\ counters' = [counters EXCEPT !["debugEnqueued"] = @ + 1,
                                       !["debugDroppedMessages"] = @ + k]
  /\ UNCHANGED <<controlQueue, accepting, closed, lastWritten>>

(* Mutant of DataFirst: control messages have priority.                    *)
DataFirstNever == FALSE

(* dequeue, with both queues non-empty: data goes first while it is below  *)
(* the barrier of the control message or simply older.                     *)
DataFirst ==
  \/ Head(dataQueue).sequence <= Head(controlQueue).barrier
  \/ Head(dataQueue).sequence < Head(controlQueue).sequence

DequeueControl ==
  /\ ~closed /\ controlQueue # <<>>
  /\ dataQueue # <<>> => ~DataFirst
  /\ controlQueue' = Tail(controlQueue)
  /\ lastWritten' = Head(controlQueue).sequence
  /\ Count("writtenControl", 1)
  /\ UNCHANGED <<dataQueue, nextSequence, lastDataSequence, dataBytes,
                 accepting, closed>>

DequeueDebug ==
  /\ ~closed /\ dataQueue # <<>>
  /\ controlQueue # <<>> => DataFirst
  /\ dataQueue' = Tail(dataQueue)
  /\ dataBytes' = dataBytes - Head(dataQueue).size
  /\ lastWritten' = Head(dataQueue).sequence
  /\ Count("writtenDebug", 1)
  /\ UNCHANGED <<controlQueue, nextSequence, lastDataSequence, accepting, closed>>

Dequeue == DequeueControl \/ DequeueDebug

StopAccepting ==
  /\ accepting' = FALSE
  /\ UNCHANGED <<controlQueue, dataQueue, nextSequence, lastDataSequence,
                 dataBytes, closed, counters, lastWritten>>

CloseQueues ==
  /\ accepting' = FALSE /\ closed' = TRUE
  /\ controlQueue' = <<>> /\ dataQueue' = <<>> /\ dataBytes' = 0
  /\ UNCHANGED <<nextSequence, lastDataSequence, counters, lastWritten>>

QueueNext ==
  \/ EnqueueControl
  \/ \E size \in Size : EnqueueDebug(size)
  \/ Dequeue
  \/ StopAccepting
  \/ CloseQueues

QueueSpec == QueueInit /\ [][QueueNext]_queueVars

---------------------------------------------------------------------------
(* The variables have their types, and the control queue, which drops      *)
(* nothing, never exceeds its capacity.                                    *)
QueueTypeOK ==
  /\ controlQueue \in Seq(Control) /\ Len(controlQueue) <= ControlCapacity
  /\ dataQueue \in Seq(Debug)
  /\ nextSequence \in 1..(MaxSequence + 1)
  /\ lastDataSequence \in 0..MaxSequence
  /\ accepting \in BOOLEAN /\ closed \in BOOLEAN
  /\ counters \in [Counter -> Nat]
  /\ lastWritten \in 0..MaxSequence

(* The limits of the data queue hold and its cached size is its size, after *)
(* any mix of evictions, dequeues and closes.                              *)
DataBounded ==
  /\ Len(dataQueue) <= DataCapacityMessages
  /\ dataBytes \in 0..DataCapacityBytes
  /\ dataBytes = Bytes(dataQueue)

(* Every accepted message is written, dropped and counted, or still        *)
(* pending: the counters the user sees explain each of them.               *)
Accounted ==
  ~closed =>
    /\ counters["controlEnqueued"] = counters["writtenControl"] + Len(controlQueue)
    /\ counters["debugEnqueued"] = counters["writtenDebug"]
         + counters["debugDroppedMessages"] + Len(dataQueue)

(* The inductive invariant of the refinement: each queue is in the order   *)
(* of the sequence numbers, all of them accepted and none of them written, *)
(* and a control message is younger than its barrier.                      *)
Ascending(queue) ==
  \A i, j \in 1..Len(queue) : i < j => queue[i].sequence < queue[j].sequence
Fresh(queue) ==
  \A i \in 1..Len(queue) :
    lastWritten < queue[i].sequence /\ queue[i].sequence < nextSequence
BelowNext == lastDataSequence < nextSequence /\ lastWritten < nextSequence
Distinct ==
  \A i \in 1..Len(controlQueue), j \in 1..Len(dataQueue) :
    controlQueue[i].sequence # dataQueue[j].sequence
YoungerThanBarrier ==
  \A i \in 1..Len(controlQueue) : controlQueue[i].barrier < controlQueue[i].sequence
ClosedEmpty == closed => ~accepting /\ controlQueue = <<>> /\ dataQueue = <<>>
QueueInv ==
  /\ Ascending(controlQueue) /\ Ascending(dataQueue)
  /\ Fresh(controlQueue) /\ Fresh(dataQueue)
  /\ BelowNext /\ Distinct /\ YoungerThanBarrier /\ ClosedEmpty

Tagged(queue, kind) ==
  {[number |-> queue[i].sequence, kind |-> kind] : i \in 1..Len(queue)}
Sender == INSTANCE OrderedSender WITH
  pending <- Tagged(controlQueue, "control") \cup Tagged(dataQueue, "data"),
  next <- nextSequence,
  last <- lastWritten,
  open <- IF closed THEN "closed" ELSE IF accepting THEN "open" ELSE "flushing"

(* The two queues are one ordered sender: messages leave in the order in   *)
(* which they were accepted whatever is evicted in between, evictions take *)
(* the oldest data and never a control message.                            *)
SendsInOrder == Sender!Spec
=============================================================================
