-------------------------- MODULE SendQueuesProofs --------------------------
(***************************************************************************)
(* SendQueues implements OrderedSender, accounts for every message and     *)
(* keeps its limits, for all capacities, sizes and numbers of messages.    *)
(***************************************************************************)
EXTENDS SendQueues, SequenceTheorems, WellFoundedInduction, TLAPS

Suffix(queue, k) == SubSeq(queue, k + 1, Len(queue))
Prefix(queue, k, kind) ==
  {[number |-> queue[i].sequence, kind |-> kind] : i \in 1..k}

(* Appending a message adds its tag.                                       *)
LEMMA TaggedAppend ==
  ASSUME NEW S, NEW queue \in Seq(S), NEW message \in S, NEW kind
  PROVE  Tagged(Append(queue, message), kind)
           = Tagged(queue, kind) \cup {[number |-> message.sequence, kind |-> kind]}
<1>1. /\ Len(Append(queue, message)) = Len(queue) + 1
      /\ \A i \in 1..Len(queue) : Append(queue, message)[i] = queue[i]
      /\ Append(queue, message)[Len(queue) + 1] = message
      /\ Len(queue) \in Nat
  OBVIOUS
<1> QED BY <1>1 DEF Tagged

(* Taking the k first messages of an ascending queue removes their tags.   *)
LEMMA TaggedSuffix ==
  ASSUME NEW S, NEW queue \in Seq(S), NEW kind, NEW k \in 0..Len(queue),
         \A i \in 1..Len(queue) : queue[i].sequence \in Nat,
         Ascending(queue)
  PROVE  Tagged(Suffix(queue, k), kind) = Tagged(queue, kind) \ Prefix(queue, k, kind)
<1> DEFINE rest == Suffix(queue, k)
           tag(i) == [number |-> queue[i].sequence, kind |-> kind]
<1>1. /\ Len(rest) = Len(queue) - k
      /\ Len(queue) \in Nat
      /\ \A i \in 1..(Len(queue) - k) : rest[i] = queue[i + k]
  BY DEF Suffix
<1>2. \A i, j \in 1..Len(queue) : tag(i) = tag(j) => i = j
  <2> TAKE i, j \in 1..Len(queue)
  <2> HAVE tag(i) = tag(j)
  <2>1. queue[i].sequence = queue[j].sequence
    OBVIOUS
  <2> QED BY <2>1, <1>1 DEF Ascending
<1> HIDE DEF rest
<1>3. Tagged(rest, kind) = {tag(i) : i \in (k + 1)..Len(queue)}
  <2>1. \A x \in Tagged(rest, kind) : x \in {tag(i) : i \in (k + 1)..Len(queue)}
    <3> TAKE x \in Tagged(rest, kind)
    <3>1. PICK i \in 1..Len(rest) : x = [number |-> rest[i].sequence, kind |-> kind]
      BY DEF Tagged
    <3>2. i + k \in (k + 1)..Len(queue) /\ x = tag(i + k)
      BY <3>1, <1>1
    <3> QED BY <3>2
  <2>2. \A i \in (k + 1)..Len(queue) : tag(i) \in Tagged(rest, kind)
    <3> TAKE i \in (k + 1)..Len(queue)
    <3>1. i - k \in 1..Len(rest) /\ rest[i - k] = queue[i]
      BY <1>1
    <3> QED BY <3>1 DEF Tagged
  <2> QED BY <2>1, <2>2
<1>4. Tagged(queue, kind) = {tag(i) : i \in 1..Len(queue)}
  BY DEF Tagged
<1>5. Prefix(queue, k, kind) = {tag(i) : i \in 1..k}
  BY DEF Prefix
<1>6. \A i \in (k + 1)..Len(queue) :
        i \in 1..Len(queue) /\ \A j \in 1..k : j \in 1..Len(queue) /\ i # j
  BY <1>1
<1>7. \A i \in 1..Len(queue) : i \in 1..k \/ i \in (k + 1)..Len(queue)
  BY <1>1
<1> HIDE DEF tag
<1>8. {tag(i) : i \in (k + 1)..Len(queue)}
        = {tag(i) : i \in 1..Len(queue)} \ {tag(i) : i \in 1..k}
  BY <1>2, <1>6, <1>7
<1> QED BY <1>3, <1>4, <1>5, <1>8 DEF rest

---------------------------------------------------------------------------
(* The two queues keep their types, their limits of entries and of         *)
(* sequence numbers, and their order.                                      *)
QueueIInv == QueueTypeOK /\ QueueInv

LEMMA QueueInitial == QueueInit => QueueIInv
<1> SUFFICES ASSUME QueueInit
             PROVE  QueueIInv
  OBVIOUS
<1>1. Len(<<>>) = 0 /\ <<>> \in Seq(Control) /\ <<>> \in Seq(Debug)
  OBVIOUS
<1>2. counters \in [Counter -> Nat]
  BY DEF QueueInit
<1>3. QueueTypeOK
  <2>1. nextSequence \in 1..(MaxSequence + 1) /\ lastDataSequence \in 0..MaxSequence
        /\ lastWritten \in 0..MaxSequence /\ Len(<<>>) <= ControlCapacity
    BY <1>1, CapacityAssumption DEF QueueInit
  <2>2. accepting \in BOOLEAN /\ closed \in BOOLEAN
    BY DEF QueueInit
  <2> QED BY <1>1, <1>2, <2>1, <2>2 DEF QueueInit, QueueTypeOK
<1>4. QueueInv
  BY <1>1 DEF QueueInit, QueueInv, Ascending, Fresh, BelowNext, Distinct,
     YoungerThanBarrier, ClosedEmpty
<1> QED BY <1>3, <1>4 DEF QueueIInv

(* What leaves at the front of an ascending queue is older than what stays. *)
LEMMA SuffixFacts ==
  ASSUME NEW S, NEW queue \in Seq(S), NEW k \in 0..Len(queue)
  PROVE  /\ Len(queue) \in Nat
         /\ Suffix(queue, k) \in Seq(S)
         /\ Len(Suffix(queue, k)) = Len(queue) - k
         /\ \A i \in 1..(Len(queue) - k) :
              i + k \in 1..Len(queue) /\ Suffix(queue, k)[i] = queue[i + k]
BY DEF Suffix

LEMMA TailIsSuffix ==
  ASSUME NEW S, NEW queue \in Seq(S), queue # <<>>
  PROVE  /\ Tail(queue) = Suffix(queue, 1)
         /\ Head(queue) = queue[1] /\ 1 \in 1..Len(queue) /\ 1 \in 0..Len(queue)
<1>1. Tail(queue) = SubSeq(queue, 2, Len(queue))
  BY TailIsSubSeq
<1>2. Head(queue) = queue[1] /\ Len(queue) \in Nat \ {0}
  OBVIOUS
<1> QED BY <1>1, <1>2 DEF Suffix

LEMMA AppendFacts ==
  ASSUME NEW S, NEW queue \in Seq(S), NEW message \in S
  PROVE  /\ Len(queue) \in Nat
         /\ Append(queue, message) \in Seq(S)
         /\ Len(Append(queue, message)) = Len(queue) + 1
         /\ \A i \in 1..Len(queue) : Append(queue, message)[i] = queue[i]
         /\ Append(queue, message)[Len(queue) + 1] = message
OBVIOUS

LEMMA AppendOrder ==
  ASSUME NEW S, NEW queue \in Seq(S), NEW message \in S,
         message.sequence \in Nat, Ascending(queue),
         \A i \in 1..Len(queue) : queue[i].sequence < message.sequence
  PROVE  Ascending(Append(queue, message))
BY AppendFacts DEF Ascending

LEMMA SuffixOrder ==
  ASSUME NEW S, NEW queue \in Seq(S), NEW k \in 0..Len(queue), Ascending(queue)
  PROVE  Ascending(Suffix(queue, k))
<1>1. /\ Len(queue) \in Nat
      /\ Len(Suffix(queue, k)) = Len(queue) - k
      /\ \A i \in 1..(Len(queue) - k) :
           i + k \in 1..Len(queue) /\ Suffix(queue, k)[i] = queue[i + k]
  BY SuffixFacts
<1> QED BY <1>1 DEF Ascending

(* The types of what the invariant speaks about, one by one.               *)
LEMMA Elements ==
  ASSUME QueueIInv
  PROVE  /\ controlQueue \in Seq(Control) /\ dataQueue \in Seq(Debug)
         /\ Len(controlQueue) \in Nat /\ Len(dataQueue) \in Nat
         /\ \A i \in 1..Len(controlQueue) :
              /\ controlQueue[i] \in Control
              /\ controlQueue[i].sequence \in Nat /\ controlQueue[i].barrier \in Nat
         /\ \A i \in 1..Len(dataQueue) :
              dataQueue[i] \in Debug /\ dataQueue[i].sequence \in Nat
         /\ nextSequence \in Nat /\ lastDataSequence \in Nat /\ lastWritten \in Nat
         /\ MaxSequence \in Nat
<1>1. controlQueue \in Seq(Control) /\ dataQueue \in Seq(Debug)
  BY DEF QueueIInv, QueueTypeOK
<1>2. Len(controlQueue) \in Nat /\ Len(dataQueue) \in Nat
  BY <1>1
<1>3. \A i \in 1..Len(controlQueue) : controlQueue[i] \in Control
  BY <1>1
<1>4. \A i \in 1..Len(dataQueue) : dataQueue[i] \in Debug
  BY <1>1
<1>5. \A m \in Control : m.sequence \in Nat /\ m.barrier \in Nat
  BY DEF Control
<1>6. \A m \in Debug : m.sequence \in Nat
  BY DEF Debug
<1>7. nextSequence \in Nat /\ lastDataSequence \in Nat /\ lastWritten \in Nat
      /\ MaxSequence \in Nat
  BY CapacityAssumption DEF QueueIInv, QueueTypeOK
<1> QED BY <1>1, <1>2, <1>3, <1>4, <1>5, <1>6, <1>7

LEMMA EnqueueControlKeeps ==
  ASSUME QueueIInv, EnqueueControl
  PROVE  QueueIInv'
<1> DEFINE message == [sequence |-> nextSequence, barrier |-> lastDataSequence]
<1>0. message \in Control /\ message.sequence = nextSequence
      /\ message.barrier = lastDataSequence
  BY Elements DEF Control
<1>1. controlQueue' = Append(controlQueue, message)
  BY DEF EnqueueControl
<1> HIDE DEF message
<1>2. /\ controlQueue' \in Seq(Control)
      /\ Len(controlQueue') = Len(controlQueue) + 1
      /\ \A i \in 1..Len(controlQueue) : controlQueue'[i] = controlQueue[i]
      /\ controlQueue'[Len(controlQueue) + 1] = message
  BY <1>0, <1>1, AppendFacts, Elements
<1>3. QueueTypeOK'
  <2>1. Len(controlQueue') <= ControlCapacity
    BY <1>2, Elements, CapacityAssumption DEF EnqueueControl, ControlFull
  <2>2. nextSequence' \in 1..(MaxSequence + 1)
    BY CapacityAssumption DEF EnqueueControl, QueueIInv, QueueTypeOK
  <2>3. counters' \in [Counter -> Nat]
    BY DEF EnqueueControl, QueueIInv, QueueTypeOK, Count, Counter
  <2> QED BY <1>2, <2>1, <2>2, <2>3 DEF EnqueueControl, QueueIInv, QueueTypeOK
<1>4. /\ nextSequence' = nextSequence + 1 /\ lastWritten' = lastWritten
      /\ dataQueue' = dataQueue /\ lastDataSequence' = lastDataSequence
      /\ closed' = closed /\ accepting /\ accepting' = accepting
  BY DEF EnqueueControl
<1>5. Ascending(controlQueue') /\ Ascending(dataQueue')
  <2>1. \A i \in 1..Len(controlQueue) : controlQueue[i].sequence < message.sequence
    BY <1>0, Elements DEF QueueIInv, QueueInv, Fresh
  <2>2. Ascending(controlQueue')
    BY <1>0, <1>1, <2>1, AppendOrder, Elements DEF QueueIInv, QueueInv
  <2> QED BY <2>2, <1>4 DEF QueueIInv, QueueInv, Ascending
<1>6. Fresh(controlQueue)'
  <2> SUFFICES ASSUME NEW i \in 1..Len(controlQueue')
               PROVE  /\ lastWritten' < controlQueue'[i].sequence
                      /\ controlQueue'[i].sequence < nextSequence'
    BY DEF Fresh
  <2>1. CASE i \in 1..Len(controlQueue)
    <3>1. lastWritten < controlQueue[i].sequence /\ controlQueue[i].sequence < nextSequence
      BY <2>1 DEF QueueIInv, QueueInv, Fresh
    <3> QED BY <2>1, <3>1, <1>2, <1>4, Elements
  <2>2. CASE i = Len(controlQueue) + 1
    BY <2>2, <1>0, <1>2, <1>4, Elements DEF QueueIInv, QueueInv, BelowNext
  <2> QED BY <2>1, <2>2, <1>2, Elements
<1>7. Fresh(dataQueue)'
  BY <1>4, Elements DEF QueueIInv, QueueInv, Fresh
<1>8. BelowNext'
  BY <1>4, Elements DEF QueueIInv, QueueInv, BelowNext
<1>9. Distinct'
  <2> SUFFICES ASSUME NEW i \in 1..Len(controlQueue'), NEW j \in 1..Len(dataQueue)
               PROVE  controlQueue'[i].sequence # dataQueue[j].sequence
    BY <1>4 DEF Distinct
  <2>1. CASE i \in 1..Len(controlQueue)
    BY <2>1, <1>2 DEF QueueIInv, QueueInv, Distinct
  <2>2. CASE i = Len(controlQueue) + 1
    BY <2>2, <1>0, <1>2, Elements DEF QueueIInv, QueueInv, Fresh
  <2> QED BY <2>1, <2>2, <1>2, Elements
<1>10. YoungerThanBarrier'
  <2> SUFFICES ASSUME NEW i \in 1..Len(controlQueue')
               PROVE  controlQueue'[i].barrier < controlQueue'[i].sequence
    BY DEF YoungerThanBarrier
  <2>1. CASE i \in 1..Len(controlQueue)
    BY <2>1, <1>2 DEF QueueIInv, QueueInv, YoungerThanBarrier
  <2>2. CASE i = Len(controlQueue) + 1
    BY <2>2, <1>0, <1>2 DEF QueueIInv, QueueInv, BelowNext
  <2> QED BY <2>1, <2>2, <1>2, Elements
<1>11. ClosedEmpty'
  BY <1>4 DEF QueueIInv, QueueInv, ClosedEmpty
<1>12. Ascending(controlQueue)' /\ Ascending(dataQueue)'
  BY <1>5 DEF Ascending
<1> QED BY <1>3, <1>12, <1>6, <1>7, <1>8, <1>9, <1>10, <1>11 DEF QueueIInv, QueueInv

LEMMA EnqueueDebugKeeps ==
  ASSUME QueueIInv, NEW size \in Size, EnqueueDebug(size)
  PROVE  QueueIInv'
<1> DEFINE message == [sequence |-> nextSequence, size |-> size]
<1>0. message \in Debug /\ message.sequence = nextSequence
  BY Elements DEF Debug
<1>1. PICK k \in 0..Len(dataQueue) :
        /\ dataQueue' = Append(Suffix(dataQueue, k), message)
        /\ counters' = [counters EXCEPT !["debugEnqueued"] = @ + 1,
                                        !["debugDroppedMessages"] = @ + k]
  BY DEF EnqueueDebug, Suffix
<1> HIDE DEF message
<1> DEFINE rest == Suffix(dataQueue, k)
<1>2. /\ rest \in Seq(Debug) /\ Len(rest) \in Nat
      /\ \A i \in 1..Len(rest) : i + k \in 1..Len(dataQueue) /\ rest[i] = dataQueue[i + k]
  <2>1. dataQueue \in Seq(Debug)
    BY Elements
  <2>2. /\ Len(dataQueue) \in Nat /\ rest \in Seq(Debug)
        /\ Len(rest) = Len(dataQueue) - k
        /\ \A i \in 1..(Len(dataQueue) - k) :
             i + k \in 1..Len(dataQueue) /\ rest[i] = dataQueue[i + k]
    BY <2>1, SuffixFacts
  <2> QED BY <2>2
<1>3. Ascending(rest)
  BY Elements, SuffixOrder DEF QueueIInv, QueueInv
<1>4. dataQueue' = Append(rest, message)
  BY <1>1
<1> HIDE DEF rest
<1>5. /\ dataQueue' \in Seq(Debug)
      /\ Len(dataQueue') = Len(rest) + 1
      /\ \A i \in 1..Len(rest) : dataQueue'[i] = rest[i]
      /\ dataQueue'[Len(rest) + 1] = message
  BY <1>0, <1>2, <1>4, AppendFacts
<1>6. /\ nextSequence' = nextSequence + 1 /\ lastDataSequence' = nextSequence
      /\ lastWritten' = lastWritten /\ controlQueue' = controlQueue
      /\ closed' = closed /\ accepting /\ accepting' = accepting
      /\ nextSequence <= MaxSequence
  BY DEF EnqueueDebug
<1>7. QueueTypeOK'
  <2>1. nextSequence' \in 1..(MaxSequence + 1) /\ lastDataSequence' \in 0..MaxSequence
    BY <1>6, Elements
  <2>2. counters' \in [Counter -> Nat]
    <3>1. counters \in [Counter -> Nat] /\ k \in Nat
      BY <1>1, Elements DEF QueueIInv, QueueTypeOK
    <3> QED BY <1>1, <3>1 DEF Counter
  <2> QED BY <1>5, <1>6, <2>1, <2>2 DEF QueueIInv, QueueTypeOK
<1>8. \A i \in 1..Len(rest) :
        lastWritten < rest[i].sequence /\ rest[i].sequence < nextSequence
  BY <1>2 DEF QueueIInv, QueueInv, Fresh
<1>9. Ascending(dataQueue)'
  <2>1. Ascending(Append(rest, message))
    BY <1>0, <1>2, <1>3, <1>8, AppendOrder, Elements
  <2> QED BY <2>1, <1>4 DEF Ascending
<1>10. Ascending(controlQueue)'
  BY <1>6 DEF QueueIInv, QueueInv, Ascending
<1>11. Fresh(dataQueue)'
  <2> SUFFICES ASSUME NEW i \in 1..Len(dataQueue')
               PROVE  /\ lastWritten' < dataQueue'[i].sequence
                      /\ dataQueue'[i].sequence < nextSequence'
    BY DEF Fresh
  <2>1. CASE i \in 1..Len(rest)
    <3>1. i + k \in 1..Len(dataQueue) /\ dataQueue'[i] = dataQueue[i + k]
      BY <2>1, <1>2, <1>5
    <3>2. dataQueue[i + k].sequence \in Nat
      BY <3>1, Elements
    <3>3. lastWritten < dataQueue[i + k].sequence
          /\ dataQueue[i + k].sequence < nextSequence
      BY <3>1 DEF QueueIInv, QueueInv, Fresh
    <3> QED BY <3>1, <3>2, <3>3, <1>6, Elements
  <2>2. CASE i = Len(rest) + 1
    BY <2>2, <1>0, <1>5, <1>6, Elements DEF QueueIInv, QueueInv, BelowNext
  <2> QED BY <2>1, <2>2, <1>2, <1>5
<1>12. Fresh(controlQueue)'
  BY <1>6, Elements DEF QueueIInv, QueueInv, Fresh
<1>13. BelowNext'
  BY <1>6, Elements DEF QueueIInv, QueueInv, BelowNext
<1>14. Distinct'
  <2> SUFFICES ASSUME NEW i \in 1..Len(controlQueue), NEW j \in 1..Len(dataQueue')
               PROVE  controlQueue[i].sequence # dataQueue'[j].sequence
    BY <1>6 DEF Distinct
  <2>1. CASE j \in 1..Len(rest)
    BY <2>1, <1>2, <1>5 DEF QueueIInv, QueueInv, Distinct
  <2>2. CASE j = Len(rest) + 1
    BY <2>2, <1>0, <1>5, Elements DEF QueueIInv, QueueInv, Fresh
  <2> QED BY <2>1, <2>2, <1>2, <1>5
<1>15. YoungerThanBarrier'
  BY <1>6 DEF QueueIInv, QueueInv, YoungerThanBarrier
<1>16. ClosedEmpty'
  BY <1>6 DEF QueueIInv, QueueInv, ClosedEmpty
<1> QED
  BY <1>7, <1>9, <1>10, <1>11, <1>12, <1>13, <1>14, <1>15, <1>16 DEF QueueIInv, QueueInv

LEMMA DequeueControlKeeps ==
  ASSUME QueueIInv, DequeueControl
  PROVE  QueueIInv'
<1>1. controlQueue # <<>> /\ controlQueue \in Seq(Control)
  BY Elements DEF DequeueControl
<1>2. /\ controlQueue' = Suffix(controlQueue, 1) /\ lastWritten' = controlQueue[1].sequence
      /\ 1 \in 1..Len(controlQueue) /\ 1 \in 0..Len(controlQueue)
  BY <1>1, TailIsSuffix DEF DequeueControl
<1>3. /\ controlQueue' \in Seq(Control)
      /\ Len(controlQueue') = Len(controlQueue) - 1
      /\ \A i \in 1..Len(controlQueue') :
           /\ i + 1 \in 1..Len(controlQueue) /\ 1 < i + 1
           /\ controlQueue'[i] = controlQueue[i + 1]
  <2>1. /\ controlQueue' \in Seq(Control) /\ Len(controlQueue) \in Nat
        /\ Len(controlQueue') = Len(controlQueue) - 1
        /\ \A i \in 1..(Len(controlQueue) - 1) :
             i + 1 \in 1..Len(controlQueue) /\ controlQueue'[i] = controlQueue[i + 1]
    BY <1>1, <1>2, SuffixFacts
  <2> QED BY <2>1
<1>4. /\ dataQueue' = dataQueue /\ nextSequence' = nextSequence
      /\ lastDataSequence' = lastDataSequence
      /\ accepting' = accepting /\ closed' = closed /\ ~closed
  BY DEF DequeueControl
<1>5. lastWritten < lastWritten' /\ lastWritten' < nextSequence /\ lastWritten' \in Nat
  BY <1>2, Elements DEF QueueIInv, QueueInv, Fresh
<1>6. \A i \in 1..Len(dataQueue) : lastWritten' < dataQueue[i].sequence
  <2> SUFFICES ASSUME NEW i \in 1..Len(dataQueue)
               PROVE  controlQueue[1].sequence < dataQueue[i].sequence
    BY <1>2
  <2>1. dataQueue # <<>> /\ dataQueue \in Seq(Debug) /\ 1 \in 1..Len(dataQueue)
    BY Elements
  <2>2. controlQueue[1].sequence < dataQueue[1].sequence
    <3>1. ~ dataQueue[1].sequence < controlQueue[1].sequence
      BY <1>1, <2>1 DEF DequeueControl, DataFirst
    <3>2. controlQueue[1].sequence # dataQueue[1].sequence
      BY <1>2, <2>1 DEF QueueIInv, QueueInv, Distinct
    <3> QED BY <3>1, <3>2, <1>2, <2>1, Elements
  <2>3. i = 1 \/ dataQueue[1].sequence < dataQueue[i].sequence
    BY <2>1, Elements DEF QueueIInv, QueueInv, Ascending
  <2>4. /\ controlQueue[1].sequence \in Nat /\ dataQueue[1].sequence \in Nat
        /\ dataQueue[i].sequence \in Nat
    BY <1>2, <2>1, Elements
  <2> QED BY <2>2, <2>3, <2>4
<1>7. QueueTypeOK'
  <2>1. counters' \in [Counter -> Nat]
    BY DEF DequeueControl, QueueIInv, QueueTypeOK, Count, Counter
  <2>2. lastWritten' \in 0..MaxSequence
    BY <1>5, Elements DEF QueueIInv, QueueTypeOK
  <2>3. Len(controlQueue') <= ControlCapacity
    BY <1>3, <1>4, Elements, CapacityAssumption DEF QueueIInv, QueueTypeOK
  <2> QED BY <1>3, <1>4, <2>1, <2>2, <2>3 DEF QueueIInv, QueueTypeOK
<1>8. Ascending(controlQueue)'
  <2>1. Ascending(Suffix(controlQueue, 1))
    BY <1>1, <1>2, SuffixOrder DEF QueueIInv, QueueInv
  <2> QED BY <1>2, <2>1 DEF Ascending
<1>9. Ascending(dataQueue)'
  BY <1>4 DEF QueueIInv, QueueInv, Ascending
<1>10. Fresh(controlQueue)'
  <2> SUFFICES ASSUME NEW i \in 1..Len(controlQueue')
               PROVE  /\ lastWritten' < controlQueue'[i].sequence
                      /\ controlQueue'[i].sequence < nextSequence'
    BY DEF Fresh
  <2>1. controlQueue[1].sequence < controlQueue[i + 1].sequence
    BY <1>2, <1>3 DEF QueueIInv, QueueInv, Ascending
  <2>2. controlQueue[i + 1].sequence < nextSequence
    BY <1>3 DEF QueueIInv, QueueInv, Fresh
  <2> QED BY <2>1, <2>2, <1>2, <1>3, <1>4
<1>11. Fresh(dataQueue)'
  BY <1>4, <1>6 DEF QueueIInv, QueueInv, Fresh
<1>12. BelowNext'
  BY <1>4, <1>5 DEF QueueIInv, QueueInv, BelowNext
<1>13. Distinct'
  BY <1>3, <1>4 DEF QueueIInv, QueueInv, Distinct
<1>14. YoungerThanBarrier'
  BY <1>3, <1>4 DEF QueueIInv, QueueInv, YoungerThanBarrier
<1>15. ClosedEmpty'
  BY <1>4 DEF QueueIInv, QueueInv, ClosedEmpty
<1> QED
  BY <1>7, <1>8, <1>9, <1>10, <1>11, <1>12, <1>13, <1>14, <1>15 DEF QueueIInv, QueueInv

LEMMA DequeueDebugKeeps ==
  ASSUME QueueIInv, DequeueDebug
  PROVE  QueueIInv'
<1>1. dataQueue # <<>> /\ dataQueue \in Seq(Debug)
  BY Elements DEF DequeueDebug
<1>2. /\ dataQueue' = Suffix(dataQueue, 1) /\ lastWritten' = dataQueue[1].sequence
      /\ 1 \in 1..Len(dataQueue) /\ 1 \in 0..Len(dataQueue)
  BY <1>1, TailIsSuffix DEF DequeueDebug
<1>3. /\ dataQueue' \in Seq(Debug)
      /\ Len(dataQueue') = Len(dataQueue) - 1
      /\ \A i \in 1..Len(dataQueue') :
           /\ i + 1 \in 1..Len(dataQueue) /\ 1 < i + 1
           /\ dataQueue'[i] = dataQueue[i + 1]
  <2>1. /\ dataQueue' \in Seq(Debug) /\ Len(dataQueue) \in Nat
        /\ Len(dataQueue') = Len(dataQueue) - 1
        /\ \A i \in 1..(Len(dataQueue) - 1) :
             i + 1 \in 1..Len(dataQueue) /\ dataQueue'[i] = dataQueue[i + 1]
    BY <1>1, <1>2, SuffixFacts
  <2> QED BY <2>1
<1>4. /\ controlQueue' = controlQueue /\ nextSequence' = nextSequence
      /\ lastDataSequence' = lastDataSequence
      /\ accepting' = accepting /\ closed' = closed /\ ~closed
  BY DEF DequeueDebug
<1>5. lastWritten < lastWritten' /\ lastWritten' < nextSequence /\ lastWritten' \in Nat
  BY <1>2, Elements DEF QueueIInv, QueueInv, Fresh
<1>6. \A i \in 1..Len(controlQueue) : lastWritten' < controlQueue[i].sequence
  <2> SUFFICES ASSUME NEW i \in 1..Len(controlQueue)
               PROVE  dataQueue[1].sequence < controlQueue[i].sequence
    BY <1>2
  <2>1. controlQueue # <<>> /\ controlQueue \in Seq(Control) /\ 1 \in 1..Len(controlQueue)
    BY Elements
  <2>2. dataQueue[1].sequence < controlQueue[1].sequence
    <3>1. \/ dataQueue[1].sequence <= controlQueue[1].barrier
          \/ dataQueue[1].sequence < controlQueue[1].sequence
      BY <1>1, <2>1 DEF DequeueDebug, DataFirst
    <3>2. controlQueue[1].barrier < controlQueue[1].sequence
      BY <2>1 DEF QueueIInv, QueueInv, YoungerThanBarrier
    <3> QED BY <3>1, <3>2, <1>2, <2>1, Elements
  <2>3. i = 1 \/ controlQueue[1].sequence < controlQueue[i].sequence
    BY <2>1, Elements DEF QueueIInv, QueueInv, Ascending
  <2>4. /\ controlQueue[1].sequence \in Nat /\ dataQueue[1].sequence \in Nat
        /\ controlQueue[i].sequence \in Nat
    BY <1>2, <2>1, Elements
  <2> QED BY <2>2, <2>3, <2>4
<1>7. QueueTypeOK'
  <2>1. counters' \in [Counter -> Nat]
    BY DEF DequeueDebug, QueueIInv, QueueTypeOK, Count, Counter
  <2>2. lastWritten' \in 0..MaxSequence
    BY <1>5, Elements DEF QueueIInv, QueueTypeOK
  <2>3. Len(controlQueue') <= ControlCapacity
    BY <1>3, <1>4, Elements, CapacityAssumption DEF QueueIInv, QueueTypeOK
  <2> QED BY <1>3, <1>4, <2>1, <2>2, <2>3 DEF QueueIInv, QueueTypeOK
<1>8. Ascending(dataQueue)'
  <2>1. Ascending(Suffix(dataQueue, 1))
    BY <1>1, <1>2, SuffixOrder DEF QueueIInv, QueueInv
  <2> QED BY <1>2, <2>1 DEF Ascending
<1>9. Ascending(controlQueue)'
  BY <1>4 DEF QueueIInv, QueueInv, Ascending
<1>10. Fresh(dataQueue)'
  <2> SUFFICES ASSUME NEW i \in 1..Len(dataQueue')
               PROVE  /\ lastWritten' < dataQueue'[i].sequence
                      /\ dataQueue'[i].sequence < nextSequence'
    BY DEF Fresh
  <2>1. dataQueue[1].sequence < dataQueue[i + 1].sequence
    BY <1>2, <1>3 DEF QueueIInv, QueueInv, Ascending
  <2>2. dataQueue[i + 1].sequence < nextSequence
    BY <1>3 DEF QueueIInv, QueueInv, Fresh
  <2> QED BY <2>1, <2>2, <1>2, <1>3, <1>4
<1>11. Fresh(controlQueue)'
  BY <1>4, <1>6 DEF QueueIInv, QueueInv, Fresh
<1>12. BelowNext'
  BY <1>4, <1>5 DEF QueueIInv, QueueInv, BelowNext
<1>13. Distinct'
  BY <1>3, <1>4 DEF QueueIInv, QueueInv, Distinct
<1>14. YoungerThanBarrier'
  BY <1>3, <1>4 DEF QueueIInv, QueueInv, YoungerThanBarrier
<1>15. ClosedEmpty'
  BY <1>4 DEF QueueIInv, QueueInv, ClosedEmpty
<1> QED
  BY <1>7, <1>8, <1>9, <1>10, <1>11, <1>12, <1>13, <1>14, <1>15 DEF QueueIInv, QueueInv

LEMMA StopAcceptingKeeps ==
  ASSUME QueueIInv, StopAccepting
  PROVE  QueueIInv'
BY DEF StopAccepting, QueueIInv, QueueTypeOK, QueueInv, Ascending, Fresh, BelowNext,
   Distinct, YoungerThanBarrier, ClosedEmpty

LEMMA CloseQueuesKeeps ==
  ASSUME QueueIInv, CloseQueues
  PROVE  QueueIInv'
<1>1. /\ controlQueue' = <<>> /\ dataQueue' = <<>> /\ Len(<<>>) = 0
      /\ <<>> \in Seq(Control) /\ <<>> \in Seq(Debug)
  BY DEF CloseQueues
<1>2. QueueTypeOK'
  <2>1. Len(controlQueue') <= ControlCapacity
    BY <1>1, CapacityAssumption
  <2>2. accepting' \in BOOLEAN /\ closed' \in BOOLEAN
    BY DEF CloseQueues
  <2> QED BY <1>1, <2>1, <2>2 DEF CloseQueues, QueueIInv, QueueTypeOK
<1>3. QueueInv'
  BY <1>1 DEF CloseQueues, QueueIInv, QueueInv, Ascending, Fresh, BelowNext,
     Distinct, YoungerThanBarrier, ClosedEmpty
<1> QED BY <1>2, <1>3 DEF QueueIInv

LEMMA UnchangedKeeps ==
  ASSUME QueueIInv, UNCHANGED queueVars
  PROVE  QueueIInv'
BY DEF queueVars, QueueIInv, QueueTypeOK, QueueInv, Ascending, Fresh, BelowNext,
   Distinct, YoungerThanBarrier, ClosedEmpty

LEMMA QueueInductive == QueueIInv /\ [QueueNext]_queueVars => QueueIInv'
<1> SUFFICES ASSUME QueueIInv, [QueueNext]_queueVars
             PROVE  QueueIInv'
  OBVIOUS
<1>1. CASE EnqueueControl
  BY <1>1, EnqueueControlKeeps
<1>2. CASE \E size \in Size : EnqueueDebug(size)
  BY <1>2, EnqueueDebugKeeps
<1>3. CASE DequeueControl
  BY <1>3, DequeueControlKeeps
<1>4. CASE DequeueDebug
  BY <1>4, DequeueDebugKeeps
<1>5. CASE StopAccepting
  BY <1>5, StopAcceptingKeeps
<1>6. CASE CloseQueues
  BY <1>6, CloseQueuesKeeps
<1>7. CASE UNCHANGED queueVars
  BY <1>7, UnchangedKeeps
<1> QED BY <1>1, <1>2, <1>3, <1>4, <1>5, <1>6, <1>7 DEF QueueNext, Dequeue

THEOREM QueueTypeCorrect == QueueSpec => []QueueTypeOK
<1>1. QueueIInv => QueueTypeOK
  BY DEF QueueIInv
<1> QED BY <1>1, QueueInitial, QueueInductive, PTL DEF QueueSpec

THEOREM QueueOrdered == QueueSpec => []QueueInv
<1>1. QueueIInv => QueueInv
  BY DEF QueueIInv
<1> QED BY <1>1, QueueInitial, QueueInductive, PTL DEF QueueSpec

---------------------------------------------------------------------------
(* The counters explain every message accepted: it was written, dropped and *)
(* counted, or is still in its queue.                                      *)
LEMMA AccountedInductive == QueueIInv /\ Accounted /\ [QueueNext]_queueVars => Accounted'
<1> SUFFICES ASSUME QueueIInv, Accounted, [QueueNext]_queueVars, ~closed'
             PROVE  /\ counters'["controlEnqueued"]
                         = counters'["writtenControl"] + Len(controlQueue')
                    /\ counters'["debugEnqueued"]
                         = counters'["writtenDebug"]
                             + counters'["debugDroppedMessages"] + Len(dataQueue')
  BY DEF Accounted
<1>0. /\ counters \in [Counter -> Nat]
      /\ controlQueue \in Seq(Control) /\ dataQueue \in Seq(Debug)
  BY DEF QueueIInv, QueueTypeOK
<1>1. \A counter \in Counter : counters[counter] \in Nat
  BY <1>0
<1>2. ~closed
  BY DEF QueueNext, EnqueueControl, EnqueueDebug, Dequeue, DequeueControl,
     DequeueDebug, StopAccepting, CloseQueues, queueVars
<1>3. /\ counters["controlEnqueued"] = counters["writtenControl"] + Len(controlQueue)
      /\ counters["debugEnqueued"] = counters["writtenDebug"]
           + counters["debugDroppedMessages"] + Len(dataQueue)
  BY <1>2 DEF Accounted
<1>4. CASE EnqueueControl
  <2>1. Len(controlQueue') = Len(controlQueue) + 1 /\ dataQueue' = dataQueue
    BY <1>0, <1>4, Elements, AppendFacts DEF EnqueueControl, Control
  <2>2. counters' = [counters EXCEPT !["controlEnqueued"] = @ + 1]
    BY <1>4 DEF EnqueueControl, Count
  <2> QED BY <1>0, <1>1, <1>3, <2>1, <2>2 DEF Counter
<1>5. CASE \E size \in Size : EnqueueDebug(size)
  <2>1. PICK size \in Size : EnqueueDebug(size)
    BY <1>5
  <2> DEFINE message == [sequence |-> nextSequence, size |-> size]
  <2>2. PICK k \in 0..Len(dataQueue) :
          /\ dataQueue' = Append(Suffix(dataQueue, k), message)
          /\ counters' = [counters EXCEPT !["debugEnqueued"] = @ + 1,
                                          !["debugDroppedMessages"] = @ + k]
    BY <2>1 DEF EnqueueDebug, Suffix
  <2>3. message \in Debug
    BY Elements DEF Debug
  <2> HIDE DEF message
  <2>4. Suffix(dataQueue, k) \in Seq(Debug)
        /\ Len(Suffix(dataQueue, k)) = Len(dataQueue) - k /\ Len(dataQueue) \in Nat
    BY <1>0, SuffixFacts
  <2>5. Len(dataQueue') = Len(dataQueue) - k + 1
    <3> DEFINE rest == Suffix(dataQueue, k)
    <3>1. rest \in Seq(Debug) /\ Len(rest) = Len(dataQueue) - k
          /\ dataQueue' = Append(rest, message)
      BY <2>2, <2>4
    <3> HIDE DEF rest
    <3>2. Len(Append(rest, message)) = Len(rest) + 1
      BY <2>3, <3>1, AppendFacts
    <3> QED BY <3>1, <3>2
  <2>6. controlQueue' = controlQueue
    BY <2>1 DEF EnqueueDebug
  <2>7. /\ counters'["debugEnqueued"] = counters["debugEnqueued"] + 1
        /\ counters'["debugDroppedMessages"] = counters["debugDroppedMessages"] + k
        /\ counters'["writtenDebug"] = counters["writtenDebug"]
        /\ counters'["controlEnqueued"] = counters["controlEnqueued"]
        /\ counters'["writtenControl"] = counters["writtenControl"]
    BY <1>0, <2>2 DEF Counter
  <2>8. /\ counters["debugEnqueued"] \in Nat /\ counters["writtenDebug"] \in Nat
        /\ counters["debugDroppedMessages"] \in Nat /\ k \in Nat
    BY <1>1, <2>4 DEF Counter
  <2> QED BY <1>3, <2>4, <2>5, <2>6, <2>7, <2>8
<1>6. CASE DequeueControl
  <2>1. Len(controlQueue') = Len(controlQueue) - 1 /\ dataQueue' = dataQueue
        /\ Len(controlQueue) \in Nat
    BY <1>0, <1>6 DEF DequeueControl
  <2>2. counters' = [counters EXCEPT !["writtenControl"] = @ + 1]
    BY <1>6 DEF DequeueControl, Count
  <2> QED BY <1>0, <1>1, <1>3, <2>1, <2>2 DEF Counter
<1>7. CASE DequeueDebug
  <2>1. Len(dataQueue') = Len(dataQueue) - 1 /\ controlQueue' = controlQueue
        /\ Len(dataQueue) \in Nat
    BY <1>0, <1>7 DEF DequeueDebug
  <2>2. counters' = [counters EXCEPT !["writtenDebug"] = @ + 1]
    BY <1>7 DEF DequeueDebug, Count
  <2> QED BY <1>0, <1>1, <1>3, <2>1, <2>2 DEF Counter
<1>8. CASE StopAccepting \/ UNCHANGED queueVars
  BY <1>3, <1>8 DEF StopAccepting, queueVars
<1>9. CASE CloseQueues
  BY <1>9 DEF CloseQueues
<1> QED BY <1>4, <1>5, <1>6, <1>7, <1>8, <1>9 DEF QueueNext, Dequeue

THEOREM EveryMessageAccounted == QueueSpec => []Accounted
<1>1. QueueInit => Accounted
  BY DEF QueueInit, Accounted, Counter
<1> QED BY <1>1, QueueInitial, QueueInductive, AccountedInductive, PTL DEF QueueSpec

---------------------------------------------------------------------------
(* The refinement: the abstract sender's state is read off the queues.     *)
Pending == Tagged(controlQueue, "control") \cup Tagged(dataQueue, "data")
Open == IF closed THEN "closed" ELSE IF accepting THEN "open" ELSE "flushing"

LEMMA TaggedEmpty == \A kind : Tagged(<<>>, kind) = {}
BY DEF Tagged

LEMMA InitialRefines == QueueInit => Sender!Init
BY TaggedEmpty DEF QueueInit, Sender!Init

LEMMA EnqueueControlRefines ==
  ASSUME QueueIInv, EnqueueControl
  PROVE  Sender!AcceptControl
<1>1. ~closed /\ accepting /\ accepting' /\ ~closed'
  BY DEF EnqueueControl, QueueIInv, QueueInv, ClosedEmpty
<1> DEFINE message == [sequence |-> nextSequence, barrier |-> lastDataSequence]
<1>2. message \in Control /\ message.sequence = nextSequence
  BY Elements DEF Control
<1>3. controlQueue' = Append(controlQueue, message) /\ dataQueue' = dataQueue
  BY DEF EnqueueControl
<1> HIDE DEF message
<1>4. Tagged(controlQueue, "control")'
        = Tagged(controlQueue, "control") \cup {[number |-> nextSequence, kind |-> "control"]}
  <2>1. Tagged(Append(controlQueue, message), "control")
          = Tagged(controlQueue, "control")
              \cup {[number |-> message.sequence, kind |-> "control"]}
    BY <1>2, Elements, TaggedAppend
  <2> QED BY <1>2, <1>3, <2>1 DEF Tagged
<1>5. Pending' = Pending \cup {[number |-> nextSequence, kind |-> "control"]}
  BY <1>3, <1>4 DEF Pending, Tagged
<1>6. Open = "open" /\ Open' = "open"
  BY <1>1 DEF Open
<1>7. nextSequence' = nextSequence + 1 /\ lastWritten' = lastWritten
  BY DEF EnqueueControl
<1> QED BY <1>5, <1>6, <1>7 DEF Sender!AcceptControl, Sender!Message, Pending, Open

LEMMA EnqueueDebugRefines ==
  ASSUME QueueIInv, NEW size \in Size, EnqueueDebug(size)
  PROVE  Sender!AcceptData
<1> DEFINE message == [sequence |-> nextSequence, size |-> size]
           added == [number |-> nextSequence, kind |-> "data"]
           data == Tagged(dataQueue, "data")
<1>1. ~closed /\ accepting /\ accepting' /\ ~closed'
  BY DEF EnqueueDebug, QueueIInv, QueueInv, ClosedEmpty
<1>2. message \in Debug /\ message.sequence = nextSequence
  BY Elements DEF Debug
<1>3. PICK k \in 0..Len(dataQueue) : dataQueue' = Append(Suffix(dataQueue, k), message)
  BY DEF EnqueueDebug, Suffix
<1> HIDE DEF message
<1> DEFINE lost == Prefix(dataQueue, k, "data")
           rest == Suffix(dataQueue, k)
<1>4. rest \in Seq(Debug)
  BY Elements, SuffixFacts
<1>5. Tagged(rest, "data") = data \ lost
  BY Elements, TaggedSuffix DEF QueueIInv, QueueInv
<1>6. Tagged(dataQueue, "data")' = (data \ lost) \cup {added}
  <2> HIDE DEF rest
  <2>1. Tagged(Append(rest, message), "data")
          = Tagged(rest, "data") \cup {[number |-> message.sequence, kind |-> "data"]}
    BY <1>2, <1>4, TaggedAppend
  <2>2. dataQueue' = Append(rest, message)
    BY <1>3 DEF rest
  <2> QED BY <1>2, <1>5, <2>1, <2>2 DEF Tagged
<1>7. Sender!Data = data
  BY DEF Sender!Data, Tagged
<1>8. lost \subseteq data
  BY Elements DEF Prefix, Tagged
<1>9. \A m \in lost, kept \in data \ lost : m.number < kept.number
  <2> SUFFICES ASSUME NEW m \in lost, NEW kept \in data \ lost
               PROVE  m.number < kept.number
    OBVIOUS
  <2>1. PICK i \in 1..k : m = [number |-> dataQueue[i].sequence, kind |-> "data"]
    BY DEF Prefix
  <2>2. PICK j \in 1..Len(dataQueue) :
          kept = [number |-> dataQueue[j].sequence, kind |-> "data"]
    BY DEF Tagged
  <2>3. j \notin 1..k
    BY <2>2 DEF Prefix
  <2>4. i \in 1..Len(dataQueue) /\ i < j
    BY <2>3, Elements
  <2> QED BY <2>1, <2>2, <2>4 DEF QueueIInv, QueueInv, Ascending
<1>10. lost \cap Tagged(controlQueue, "control") = {}
  BY DEF Prefix, Tagged
<1>11. Pending' = (Pending \ lost) \cup {added}
  <2>1. Tagged(controlQueue, "control")' = Tagged(controlQueue, "control")
    BY DEF EnqueueDebug, Tagged
  <2> QED BY <1>6, <1>10, <2>1 DEF Pending
<1>12. /\ nextSequence' = nextSequence + 1 /\ lastWritten' = lastWritten
       /\ Open = "open" /\ Open' = "open"
  BY <1>1 DEF EnqueueDebug, Open
<1> HIDE DEF lost, data
<1> QED
  BY <1>7, <1>8, <1>9, <1>11, <1>12
  DEF Sender!AcceptData, Sender!Message, Pending, Open

LEMMA DequeueControlRefines ==
  ASSUME QueueIInv, DequeueControl
  PROVE  Sender!Write
<1> DEFINE oldest == [number |-> controlQueue[1].sequence, kind |-> "control"]
<1>1. controlQueue # <<>> /\ dataQueue' = dataQueue /\ nextSequence' = nextSequence
      /\ closed' = closed /\ accepting' = accepting
  BY DEF DequeueControl
<1>2. /\ controlQueue' = Suffix(controlQueue, 1) /\ lastWritten' = controlQueue[1].sequence
      /\ 1 \in 1..Len(controlQueue) /\ 1 \in 0..Len(controlQueue)
  BY <1>1, TailIsSuffix, Elements DEF DequeueControl
<1>3. QueueIInv'
  BY DequeueControlKeeps
<1>4. Prefix(controlQueue, 1, "control") = {oldest}
  BY DEF Prefix
<1>5. Tagged(controlQueue', "control") = Tagged(controlQueue, "control") \ {oldest}
  <2>1. Tagged(Suffix(controlQueue, 1), "control")
          = Tagged(controlQueue, "control") \ Prefix(controlQueue, 1, "control")
    BY <1>2, Elements, TaggedSuffix DEF QueueIInv, QueueInv
  <2> QED BY <1>2, <1>4, <2>1
<1>6. oldest \notin Tagged(dataQueue, "data")
  BY DEF Tagged
<1>7. Pending' = Pending \ {oldest}
  <2>1. Tagged(controlQueue, "control")' = Tagged(controlQueue', "control")
        /\ Tagged(dataQueue, "data")' = Tagged(dataQueue, "data")
    BY <1>1 DEF Tagged
  <2> QED BY <1>5, <1>6, <2>1 DEF Pending
<1>8. oldest \in Pending /\ oldest.number > lastWritten /\ lastWritten' = oldest.number
  <2>1. oldest \in Tagged(controlQueue, "control")
    BY <1>2 DEF Tagged
  <2>2. controlQueue[1].sequence > lastWritten
    BY <1>2, Elements DEF QueueIInv, QueueInv, Fresh
  <2> QED BY <1>2, <2>1, <2>2 DEF Pending
<1>9. \A m \in Pending \ {oldest} : oldest.number < m.number
  <2>1. \A i \in 1..Len(controlQueue') : lastWritten' < controlQueue'[i].sequence
    BY <1>3 DEF QueueIInv, QueueInv, Fresh
  <2>2. \A i \in 1..Len(dataQueue') : lastWritten' < dataQueue'[i].sequence
    BY <1>3 DEF QueueIInv, QueueInv, Fresh
  <2>3. \A m \in Pending' : lastWritten' < m.number
    BY <2>1, <2>2 DEF Pending, Tagged
  <2> QED BY <1>7, <1>8, <2>3
<1>10. Open' = Open
  BY <1>1 DEF Open
<1> HIDE DEF oldest
<1> QED BY <1>1, <1>7, <1>8, <1>9, <1>10 DEF Sender!Write, Pending, Open

LEMMA DequeueDebugRefines ==
  ASSUME QueueIInv, DequeueDebug
  PROVE  Sender!Write
<1> DEFINE oldest == [number |-> dataQueue[1].sequence, kind |-> "data"]
<1>1. dataQueue # <<>> /\ controlQueue' = controlQueue /\ nextSequence' = nextSequence
      /\ closed' = closed /\ accepting' = accepting
  BY DEF DequeueDebug
<1>2. /\ dataQueue' = Suffix(dataQueue, 1) /\ lastWritten' = dataQueue[1].sequence
      /\ 1 \in 1..Len(dataQueue) /\ 1 \in 0..Len(dataQueue)
  BY <1>1, TailIsSuffix, Elements DEF DequeueDebug
<1>3. QueueIInv'
  BY DequeueDebugKeeps
<1>4. Prefix(dataQueue, 1, "data") = {oldest}
  BY DEF Prefix
<1>5. Tagged(dataQueue', "data") = Tagged(dataQueue, "data") \ {oldest}
  <2>1. Tagged(Suffix(dataQueue, 1), "data")
          = Tagged(dataQueue, "data") \ Prefix(dataQueue, 1, "data")
    BY <1>2, Elements, TaggedSuffix DEF QueueIInv, QueueInv
  <2> QED BY <1>2, <1>4, <2>1
<1>6. oldest \notin Tagged(controlQueue, "control")
  BY DEF Tagged
<1>7. Pending' = Pending \ {oldest}
  <2>1. Tagged(dataQueue, "data")' = Tagged(dataQueue', "data")
        /\ Tagged(controlQueue, "control")' = Tagged(controlQueue, "control")
    BY <1>1 DEF Tagged
  <2> QED BY <1>5, <1>6, <2>1 DEF Pending
<1>8. oldest \in Pending /\ oldest.number > lastWritten /\ lastWritten' = oldest.number
  <2>1. oldest \in Tagged(dataQueue, "data")
    BY <1>2 DEF Tagged
  <2>2. dataQueue[1].sequence > lastWritten
    BY <1>2, Elements DEF QueueIInv, QueueInv, Fresh
  <2> QED BY <1>2, <2>1, <2>2 DEF Pending
<1>9. \A m \in Pending \ {oldest} : oldest.number < m.number
  <2>1. \A i \in 1..Len(controlQueue') : lastWritten' < controlQueue'[i].sequence
    BY <1>3 DEF QueueIInv, QueueInv, Fresh
  <2>2. \A i \in 1..Len(dataQueue') : lastWritten' < dataQueue'[i].sequence
    BY <1>3 DEF QueueIInv, QueueInv, Fresh
  <2>3. \A m \in Pending' : lastWritten' < m.number
    BY <2>1, <2>2 DEF Pending, Tagged
  <2> QED BY <1>7, <1>8, <2>3
<1>10. Open' = Open
  BY <1>1 DEF Open
<1> HIDE DEF oldest
<1> QED BY <1>1, <1>7, <1>8, <1>9, <1>10 DEF Sender!Write, Pending, Open

LEMMA StopAcceptingRefines ==
  ASSUME QueueIInv, StopAccepting
  PROVE  [Sender!Next]_(Sender!vars)
<1>1. UNCHANGED <<controlQueue, dataQueue, nextSequence, lastWritten, closed>>
      /\ accepting' = FALSE /\ accepting \in BOOLEAN
  BY DEF StopAccepting, QueueIInv, QueueTypeOK
<1>2. Pending' = Pending
  BY <1>1 DEF Pending, Tagged
<1>3. CASE closed \/ ~accepting
  <2>1. Open' = Open
    BY <1>1, <1>3 DEF Open
  <2> QED BY <1>1, <1>2, <2>1 DEF Sender!vars, Pending, Open
<1>4. CASE ~closed /\ accepting
  <2>1. Open = "open" /\ Open' = "flushing"
    BY <1>1, <1>4 DEF Open
  <2> QED BY <1>1, <1>2, <2>1 DEF Sender!Next, Sender!Flush, Pending, Open
<1> QED BY <1>3, <1>4

LEMMA CloseQueuesRefines ==
  ASSUME QueueIInv, CloseQueues
  PROVE  [Sender!Next]_(Sender!vars)
<1>1. /\ nextSequence' = nextSequence /\ lastWritten' = lastWritten /\ closed'
      /\ controlQueue' = <<>> /\ dataQueue' = <<>>
  BY DEF CloseQueues
<1>2. Pending' = {}
  BY <1>1 DEF Pending, Tagged
<1>3. Open' = "closed"
  BY <1>1 DEF Open
<1>4. CASE closed
  <2>1. Open = "closed"
    BY <1>4 DEF Open
  <2>2. Pending = {}
    BY <1>4, TaggedEmpty DEF Pending, QueueIInv, QueueInv, ClosedEmpty
  <2> QED BY <1>1, <1>2, <1>3, <2>1, <2>2 DEF Sender!vars, Pending, Open
<1>5. CASE ~closed
  <2>1. Open # "closed"
    BY <1>5 DEF Open
  <2> QED BY <1>1, <1>2, <1>3, <2>1 DEF Sender!Next, Sender!Close, Pending, Open
<1> QED BY <1>4, <1>5

LEMMA UnchangedRefines == UNCHANGED queueVars => UNCHANGED Sender!vars
BY DEF queueVars, Sender!vars, Tagged

LEMMA StepRefines ==
  ASSUME QueueIInv, [QueueNext]_queueVars
  PROVE  [Sender!Next]_(Sender!vars)
<1>1. CASE EnqueueControl
  BY <1>1, EnqueueControlRefines DEF Sender!Next
<1>2. CASE \E size \in Size : EnqueueDebug(size)
  BY <1>2, EnqueueDebugRefines DEF Sender!Next
<1>3. CASE DequeueControl
  BY <1>3, DequeueControlRefines DEF Sender!Next
<1>4. CASE DequeueDebug
  BY <1>4, DequeueDebugRefines DEF Sender!Next
<1>5. CASE StopAccepting
  BY <1>5, StopAcceptingRefines
<1>6. CASE CloseQueues
  BY <1>6, CloseQueuesRefines
<1>7. CASE UNCHANGED queueVars
  BY <1>7, UnchangedRefines
<1> QED BY <1>1, <1>2, <1>3, <1>4, <1>5, <1>6, <1>7 DEF QueueNext, Dequeue

(* The two queues implement the ordered sender.                            *)
THEOREM QueuesSendInOrder == QueueSpec => SendsInOrder
<1> QED
  BY InitialRefines, StepRefines, QueueInitial, QueueInductive, PTL
  DEF QueueSpec, SendsInOrder, Sender!Spec

---------------------------------------------------------------------------
(* A set of numbers has a least one.  The three facts below about sums are *)
(* inductions: the least length for which they fail leads to a smaller one. *)
LEMMA LeastNumber ==
  ASSUME NEW S \in SUBSET Nat, S # {}
  PROVE  \E x \in S : \A y \in S : x <= y
<1>1. \E x \in S : \A y \in S : ~ (<<y, x>> \in OpToRel(<, Nat))
  BY NatLessThanWellFounded, WFMin
<1>2. PICK x \in S : \A y \in S : ~ (<<y, x>> \in OpToRel(<, Nat))
  BY <1>1
<1>3. \A y \in S : x <= y
  <2> SUFFICES ASSUME NEW y \in S PROVE ~(y < x)
    OBVIOUS
  <2> QED BY <1>2 DEF OpToRel
<1> QED BY <1>3

IsBytes(bytes, queue, n) ==
  bytes = [k \in 0..n |-> IF k = 0 THEN 0 ELSE bytes[k - 1] + queue[k].size]

(* The recursive definition of the sums has a solution.                    *)
LEMMA BytesDefined ==
  ASSUME NEW queue \in Seq(Debug)
  PROVE  IsBytes(BytesOfFirst(queue), queue, Len(queue))
<1> DEFINE bad == {n \in 0..Len(queue) : ~ \E bytes : IsBytes(bytes, queue, n)}
<1>0. Len(queue) \in Nat
  OBVIOUS
<1>1. ASSUME bad # {} PROVE FALSE
  <2>1. bad \in SUBSET Nat
    BY <1>0
  <2>2. PICK n \in bad : \A m \in bad : n <= m
    BY <2>1, <1>1, LeastNumber
  <2>3. n \in 0..Len(queue) /\ n \in Nat /\ ~ \E bytes : IsBytes(bytes, queue, n)
    BY <1>0
  <2>4. n # 0
    <3> SUFFICES ASSUME n = 0 PROVE FALSE
      OBVIOUS
    <3> DEFINE zero == [k \in 0..0 |-> 0]
    <3>1. IsBytes(zero, queue, 0)
      BY DEF IsBytes
    <3> QED BY <3>1, <2>3
  <2>5. n - 1 \in 0..Len(queue) /\ n - 1 \notin bad
    BY <2>2, <2>3, <2>4, <1>0
  <2>6. PICK bytes : IsBytes(bytes, queue, n - 1)
    BY <2>5
  <2> DEFINE longer == [k \in 0..n |-> IF k = 0 THEN 0 ELSE bytes[k - 1] + queue[k].size]
  <2>7. \A k \in 0..(n - 1) : longer[k] = bytes[k]
    BY <2>3, <2>6 DEF IsBytes
  <2> HIDE DEF longer
  <2>8. \A k \in 0..n : k # 0 => longer[k - 1] = bytes[k - 1]
    <3> SUFFICES ASSUME NEW k \in 0..n, k # 0 PROVE longer[k - 1] = bytes[k - 1]
      OBVIOUS
    <3>1. k - 1 \in 0..(n - 1)
      BY <2>3
    <3> QED BY <3>1, <2>7
  <2>9. longer = [k \in 0..n |-> IF k = 0 THEN 0 ELSE longer[k - 1] + queue[k].size]
    BY <2>8 DEF longer
  <2> QED BY <2>9, <2>3 DEF IsBytes
<1>2. \E bytes : IsBytes(bytes, queue, Len(queue))
  BY <1>0, <1>1
<1>3. BytesOfFirst(queue) = CHOOSE bytes : IsBytes(bytes, queue, Len(queue))
  BY DEF BytesOfFirst, IsBytes
<1> QED BY <1>2, <1>3

(* Each sum exceeds the one before it by a message.                        *)
LEMMA BytesStep ==
  ASSUME NEW queue \in Seq(Debug)
  PROVE  /\ BytesOfFirst(queue)[0] = 0
         /\ \A k \in 1..Len(queue) :
              /\ queue[k].size \in Nat
              /\ BytesOfFirst(queue)[k] = BytesOfFirst(queue)[k - 1] + queue[k].size
<1>1. Len(queue) \in Nat /\ \A k \in 1..Len(queue) : queue[k] \in Debug
  OBVIOUS
<1>2. \A message \in Debug : message.size \in Nat
  BY CapacityAssumption DEF Debug
<1> DEFINE bytes == BytesOfFirst(queue)
<1>3. bytes = [k \in 0..Len(queue) |-> IF k = 0 THEN 0 ELSE bytes[k - 1] + queue[k].size]
  BY BytesDefined DEF IsBytes
<1> HIDE DEF bytes
<1>4. bytes[0] = 0 /\ \A k \in 1..Len(queue) : bytes[k] = bytes[k - 1] + queue[k].size
  BY <1>1, <1>3
<1> QED BY <1>1, <1>2, <1>4 DEF bytes

LEMMA BytesNat ==
  ASSUME NEW queue \in Seq(Debug)
  PROVE  \A k \in 0..Len(queue) : BytesOfFirst(queue)[k] \in Nat
<1> DEFINE bytes == BytesOfFirst(queue)
           bad == {k \in 0..Len(queue) : bytes[k] \notin Nat}
<1>0. /\ Len(queue) \in Nat /\ bytes[0] = 0
      /\ \A k \in 1..Len(queue) :
           queue[k].size \in Nat /\ bytes[k] = bytes[k - 1] + queue[k].size
  BY BytesStep
<1> HIDE DEF bytes
<1>1. ASSUME bad # {} PROVE FALSE
  <2>0. bad \in SUBSET Nat
    BY <1>0
  <2>1. PICK n \in bad : \A m \in bad : n <= m
    BY <2>0, <1>1, LeastNumber
  <2>2. n \in 1..Len(queue) /\ n - 1 \in 0..Len(queue) /\ n - 1 \notin bad
    BY <1>0, <2>1
  <2>3. bytes[n - 1] \in Nat
    BY <2>2
  <2>4. bytes[n] \in Nat
    BY <1>0, <2>2, <2>3
  <2> QED BY <2>1, <2>4
<1> QED BY <1>1 DEF bytes

(* The sums of a part of a queue are those of the queue beyond its start.  *)
LEMMA BytesOfPart ==
  ASSUME NEW queue \in Seq(Debug), NEW part \in Seq(Debug), NEW k \in 0..Len(queue),
         k + Len(part) <= Len(queue),
         \A i \in 1..Len(part) : part[i] = queue[i + k]
  PROVE  \A i \in 0..Len(part) :
           BytesOfFirst(queue)[i + k] = BytesOfFirst(queue)[k] + BytesOfFirst(part)[i]
<1> DEFINE all == BytesOfFirst(queue)
           some == BytesOfFirst(part)
           bad == {i \in 0..Len(part) : all[i + k] # all[k] + some[i]}
<1>0. /\ Len(queue) \in Nat /\ Len(part) \in Nat /\ k \in Nat
      /\ some[0] = 0 /\ all[k] \in Nat
      /\ \A i \in 1..Len(queue) :
           queue[i].size \in Nat /\ all[i] = all[i - 1] + queue[i].size
      /\ \A i \in 1..Len(part) : some[i] = some[i - 1] + part[i].size
      /\ \A i \in 0..Len(part) : some[i] \in Nat
      /\ \A i \in 0..Len(queue) : all[i] \in Nat
  BY BytesStep, BytesNat
<1> HIDE DEF all, some
<1>1. ASSUME bad # {} PROVE FALSE
  <2>0. bad \in SUBSET Nat
    BY <1>0
  <2>1. PICK n \in bad : \A m \in bad : n <= m
    BY <2>0, <1>1, LeastNumber
  <2>2. n \in 0..Len(part) /\ n # 0
    BY <1>0
  <2>3. n \in 1..Len(part) /\ n - 1 \in 0..Len(part) /\ n - 1 \notin bad
    BY <1>0, <2>1, <2>2
  <2>4. all[(n - 1) + k] = all[k] + some[n - 1]
    BY <2>3
  <2>5. /\ n + k \in 1..Len(queue) /\ (n - 1) + k = (n + k) - 1
        /\ part[n] = queue[n + k]
    BY <1>0, <2>3
  <2>6. all[n + k] = all[(n - 1) + k] + queue[n + k].size /\ queue[n + k].size \in Nat
    BY <1>0, <2>5
  <2>7. some[n] = some[n - 1] + queue[n + k].size /\ some[n - 1] \in Nat
    BY <1>0, <2>3, <2>5
  <2>8. all[n + k] = all[k] + some[n]
    <3>1. all[n + k] = (all[k] + some[n - 1]) + queue[n + k].size
      BY <2>4, <2>5, <2>6
    <3>2. all[k] \in Nat
      BY <1>0
    <3> HIDE DEF bad
    <3> QED BY <3>1, <3>2, <2>6, <2>7
  <2> QED BY <2>1, <2>8
<1> QED BY <1>1 DEF all, some

(* What is evicted and what stays together are the queue.                  *)
LEMMA BytesOfSuffix ==
  ASSUME NEW queue \in Seq(Debug), NEW k \in 0..Len(queue)
  PROVE  /\ Bytes(SubSeq(queue, 1, k)) \in Nat
         /\ Bytes(Suffix(queue, k)) \in Nat
         /\ Bytes(queue) = Bytes(SubSeq(queue, 1, k)) + Bytes(Suffix(queue, k))
<1> DEFINE front == SubSeq(queue, 1, k)
           rest == Suffix(queue, k)
<1>1. /\ Len(queue) \in Nat /\ rest \in Seq(Debug) /\ Len(rest) = Len(queue) - k
      /\ \A i \in 1..Len(rest) : rest[i] = queue[i + k]
  BY SuffixFacts
<1>2. /\ front \in Seq(Debug) /\ Len(front) = k
      /\ \A i \in 1..Len(front) : front[i] = queue[i + 0]
  BY <1>1
<1> HIDE DEF front, rest
<1>3. BytesOfFirst(queue)[Len(rest) + k] = BytesOfFirst(queue)[k] + Bytes(rest)
  <2>1. k + Len(rest) <= Len(queue) /\ Len(rest) \in 0..Len(rest)
    BY <1>1
  <2>2. \A i \in 0..Len(rest) :
          BytesOfFirst(queue)[i + k] = BytesOfFirst(queue)[k] + BytesOfFirst(rest)[i]
    BY <1>1, <2>1, BytesOfPart
  <2> QED BY <2>1, <2>2 DEF Bytes
<1>4. BytesOfFirst(queue)[Len(front) + 0] = BytesOfFirst(queue)[0] + Bytes(front)
  <2>1. 0 \in 0..Len(queue) /\ 0 + Len(front) <= Len(queue)
        /\ Len(front) \in 0..Len(front)
    BY <1>1, <1>2
  <2>2. \A i \in 0..Len(front) :
          BytesOfFirst(queue)[i + 0] = BytesOfFirst(queue)[0] + BytesOfFirst(front)[i]
    BY <1>2, <2>1, BytesOfPart
  <2> QED BY <2>1, <2>2 DEF Bytes
<1>5. Bytes(front) \in Nat /\ Bytes(rest) \in Nat
  BY <1>1, <1>2, BytesNat DEF Bytes
<1>6. BytesOfFirst(queue)[0] = 0
  BY BytesStep
<1>7. BytesOfFirst(queue)[k] = Bytes(front)
  BY <1>2, <1>4, <1>5, <1>6
<1>8. Len(rest) + k = Len(queue)
  BY <1>1
<1> QED BY <1>3, <1>5, <1>7, <1>8 DEF front, rest, Bytes

LEMMA BytesOfAppend ==
  ASSUME NEW queue \in Seq(Debug), NEW message \in Debug
  PROVE  Bytes(Append(queue, message)) = Bytes(queue) + message.size
<1> DEFINE longer == Append(queue, message)
<1>1. /\ Len(queue) \in Nat /\ longer \in Seq(Debug) /\ Len(longer) = Len(queue) + 1
      /\ \A i \in 1..Len(queue) : queue[i] = longer[i + 0]
      /\ longer[Len(queue) + 1] = message
  BY AppendFacts
<1> HIDE DEF longer
<1>2. BytesOfFirst(longer)[Len(queue) + 0] = BytesOfFirst(longer)[0] + Bytes(queue)
  <2>1. 0 \in 0..Len(longer) /\ 0 + Len(queue) <= Len(longer)
        /\ Len(queue) \in 0..Len(queue)
    BY <1>1
  <2>2. \A i \in 0..Len(queue) :
          BytesOfFirst(longer)[i + 0] = BytesOfFirst(longer)[0] + BytesOfFirst(queue)[i]
    BY <1>1, <2>1, BytesOfPart
  <2> QED BY <2>1, <2>2 DEF Bytes
<1>3. BytesOfFirst(longer)[0] = 0 /\ Bytes(queue) \in Nat
  BY <1>1, BytesStep, BytesNat DEF Bytes
<1>4. BytesOfFirst(longer)[Len(longer)]
        = BytesOfFirst(longer)[Len(longer) - 1] + message.size
  BY <1>1, BytesStep
<1>5. BytesOfFirst(longer)[Len(longer) - 1] = Bytes(queue)
  BY <1>1, <1>2, <1>3
<1> QED BY <1>4, <1>5 DEF longer, Bytes

LEMMA BytesOfEmpty == Bytes(<<>>) = 0 /\ Len(<<>>) = 0
<1>1. <<>> \in Seq(Debug) /\ Len(<<>>) = 0
  OBVIOUS
<1> QED BY <1>1, BytesStep DEF Bytes

(* The cached size follows the queue, and the eviction loop goes on until   *)
(* the message fits: alone it fits because it was acceptable.              *)
LEMMA DataBoundedInductive ==
  ASSUME QueueIInv, DataBounded, [QueueNext]_queueVars
  PROVE  DataBounded'
<1>0. /\ dataQueue \in Seq(Debug) /\ Len(dataQueue) \in Nat
      /\ DataCapacityMessages \in Nat \ {0} /\ DataCapacityBytes \in Nat
      /\ dataBytes \in Nat /\ dataBytes = Bytes(dataQueue)
      /\ Len(dataQueue) <= DataCapacityMessages /\ dataBytes <= DataCapacityBytes
  BY Elements, CapacityAssumption DEF DataBounded
<1>1. ASSUME NEW size \in Size, EnqueueDebug(size)
      PROVE  DataBounded'
  <2> DEFINE message == [sequence |-> nextSequence, size |-> size]
  <2>1. message \in Debug /\ message.size = size /\ size \in Nat
        /\ size <= DataCapacityBytes
    BY <1>1, Elements, CapacityAssumption DEF Debug, EnqueueDebug, Acceptable
  <2>2. PICK k \in 0..Len(dataQueue) :
          /\ ~Overfull(size, k)
          /\ dataQueue' = Append(Suffix(dataQueue, k), message)
          /\ dataBytes' = dataBytes - Bytes(SubSeq(dataQueue, 1, k)) + size
    BY <1>1 DEF EnqueueDebug, Suffix
  <2> HIDE DEF message
  <2> DEFINE rest == Suffix(dataQueue, k)
             front == SubSeq(dataQueue, 1, k)
  <2>3. rest \in Seq(Debug) /\ Len(rest) = Len(dataQueue) - k
    BY <1>0, SuffixFacts
  <2>4. Bytes(front) \in Nat /\ Bytes(rest) \in Nat /\ dataBytes = Bytes(front) + Bytes(rest)
    BY <1>0, BytesOfSuffix
  <2>5. Len(dataQueue') = Len(rest) + 1 /\ Bytes(dataQueue') = Bytes(rest) + size
    BY <2>1, <2>2, <2>3, AppendFacts, BytesOfAppend
  <2>6. dataBytes' = dataBytes - Bytes(front) + size
    BY <2>2
  <2>7. \/ k = Len(dataQueue)
        \/ /\ Len(dataQueue) - k + 1 <= DataCapacityMessages
           /\ dataBytes - Bytes(front) + size <= DataCapacityBytes
    <3>1. \/ ~ k < Len(dataQueue)
          \/ /\ ~ Len(dataQueue) - k + 1 > DataCapacityMessages
             /\ ~ dataBytes - Bytes(front) + size > DataCapacityBytes
      BY <2>2 DEF Overfull
    <3> HIDE DEF front
    <3> QED BY <3>1, <1>0, <2>1, <2>4
  <2>8. k = Len(dataQueue) => Len(rest) = 0 /\ Bytes(rest) = 0
    <3> SUFFICES ASSUME k = Len(dataQueue) PROVE Len(rest) = 0 /\ Bytes(rest) = 0
      OBVIOUS
    <3>1. Len(rest) = 0
      BY <2>3, <1>0
    <3>2. rest = <<>>
      BY <3>1, <2>3
    <3> QED BY <3>1, <3>2, BytesOfEmpty
  <2> HIDE DEF rest, front
  <2>9. dataBytes' = Bytes(rest) + size
    BY <2>1, <2>4, <2>6
  <2>10. Len(dataQueue') <= DataCapacityMessages /\ Bytes(rest) + size <= DataCapacityBytes
    <3>1. CASE k = Len(dataQueue)
      BY <3>1, <1>0, <2>1, <2>5, <2>8
    <3>2. CASE k # Len(dataQueue)
      BY <3>2, <1>0, <2>1, <2>3, <2>4, <2>5, <2>7
    <3> QED BY <3>1, <3>2
  <2>11. dataBytes' \in 0..DataCapacityBytes /\ dataBytes' = Bytes(dataQueue')
    BY <1>0, <2>1, <2>4, <2>5, <2>9, <2>10
  <2> QED BY <2>10, <2>11 DEF DataBounded, Bytes, BytesOfFirst
<1>2. ASSUME DequeueDebug
      PROVE  DataBounded'
  <2>1. /\ dataQueue' = Suffix(dataQueue, 1) /\ 1 \in 0..Len(dataQueue) /\ 1 \in 1..Len(dataQueue)
        /\ dataBytes' = dataBytes - dataQueue[1].size
    BY <1>0, <1>2, TailIsSuffix DEF DequeueDebug
  <2> DEFINE front == SubSeq(dataQueue, 1, 1)
  <2>2. Bytes(front) = dataQueue[1].size
    <3>1. /\ <<>> \in Seq(Debug) /\ Len(<<>>) = 0 /\ dataQueue[1] \in Debug
          /\ front \in Seq(Debug) /\ Len(front) = 1 /\ front[1] = dataQueue[1]
      BY <1>0, <2>1
    <3>2. front = Append(<<>>, dataQueue[1])
      <4> DEFINE single == Append(<<>>, dataQueue[1])
      <4>1. single \in Seq(Debug) /\ Len(single) = 1 /\ single[1] = dataQueue[1]
        BY <3>1, AppendFacts
      <4> HIDE DEF single, front
      <4>2. \A i \in 1..Len(front) : front[i] = single[i]
        BY <3>1, <4>1
      <4> QED BY <3>1, <4>1, <4>2, SeqEqual DEF single
    <3>3. dataQueue[1].size \in Nat
      BY <1>0, <2>1, BytesStep
    <3>4. Bytes(Append(<<>>, dataQueue[1])) = Bytes(<<>>) + dataQueue[1].size
      BY <3>1, BytesOfAppend
    <3>5. Bytes(<<>>) = 0
      BY BytesOfEmpty
    <3> HIDE DEF front
    <3> QED BY <3>2, <3>3, <3>4, <3>5
  <2>3. /\ Bytes(front) \in Nat /\ Bytes(Suffix(dataQueue, 1)) \in Nat
        /\ dataBytes = Bytes(front) + Bytes(Suffix(dataQueue, 1))
    BY <1>0, <2>1, BytesOfSuffix
  <2> HIDE DEF front
  <2>4. dataBytes' = Bytes(dataQueue') /\ dataBytes' \in 0..DataCapacityBytes
    BY <1>0, <2>1, <2>2, <2>3
  <2>5. Len(dataQueue') <= DataCapacityMessages
    BY <1>0, <2>1, SuffixFacts
  <2> QED BY <2>4, <2>5 DEF DataBounded, Bytes, BytesOfFirst
<1>3. ASSUME CloseQueues
      PROVE  DataBounded'
  <2>1. dataQueue' = <<>> /\ dataBytes' = 0
    BY <1>3 DEF CloseQueues
  <2> QED BY <1>0, <2>1, BytesOfEmpty DEF DataBounded, Bytes, BytesOfFirst
<1>4. ASSUME UNCHANGED <<dataQueue, dataBytes>>
      PROVE  DataBounded'
  BY <1>4 DEF DataBounded, Bytes, BytesOfFirst
<1>5. CASE EnqueueControl \/ DequeueControl \/ StopAccepting \/ UNCHANGED queueVars
  BY <1>4, <1>5 DEF EnqueueControl, DequeueControl, StopAccepting, queueVars
<1> QED BY <1>1, <1>2, <1>3, <1>5 DEF QueueNext, Dequeue

(* The data queue keeps both its limits and its cached size, after any mix  *)
(* of evictions, dequeues and closes, for any sizes and capacities.        *)
THEOREM DataBoundedCorrect == QueueSpec => []DataBounded
<1>1. QueueInit => DataBounded
  BY BytesOfEmpty, CapacityAssumption DEF QueueInit, DataBounded
<1> QED BY <1>1, QueueInitial, QueueInductive, DataBoundedInductive, PTL DEF QueueSpec
=============================================================================
