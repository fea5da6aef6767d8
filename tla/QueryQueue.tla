----------------------------- MODULE QueryQueue -----------------------------
(***************************************************************************)
(* The queries of the debug protocol inside the Unity process: the queue   *)
(* of VisualBridgeDebugQueryQueue between the reader threads of the debug  *)
(* links, the pump on the main thread and the threads on which handlers    *)
(* answer, and VisualBridgeDebugSession, through which they answer.  The   *)
(* steps lie between two acquisitions of the queue's lock Gate, an answer  *)
(* being written in the step that decides on it.  Requests are known by    *)
(* their number alone and answers go to the link that is active when they  *)
(* are written: ConnOf and the `of' of an answer are what the code does    *)
(* not look at.  Time is abstract: a request may be too old whenever Pump  *)
(* looks.  How links and instances come and go is reduced from             *)
(* DebugSession: closing and its Detach are one step.                      *)
(***************************************************************************)
EXTENDS Naturals, Sequences, FiniteSets

CONSTANTS
  Request,         \* the queries of a behaviour
  ConnOf,          \* the link on which a query is asked: 1 for the first
  SeqOf,           \* its number there
  InstOf,          \* the instance it is about
  Instance,
  MaxConn,         \* bound: links opened
  MaxQueued,       \* MaxQueuedRequests
  MaxConcurrent,   \* MaxConcurrentRequests
  MaxInvalidated,  \* MaxInvalidatedRequests
  NoRequest

Conn == 1..MaxConn

ASSUME QueryAssumption ==
  /\ {MaxConn, MaxQueued, MaxConcurrent, MaxInvalidated} \subseteq Nat \ {0}
  /\ ConnOf \in [Request -> Conn] /\ SeqOf \in [Request -> Nat]
  /\ InstOf \in [Request -> Instance]
  /\ \A r, s \in Request : ConnOf[r] = ConnOf[s] /\ SeqOf[r] = SeqOf[s] => r = s
  /\ NoRequest \notin Request

VARIABLES
  opened, closed,      \* links opened so far; of them closed
  session,             \* the link that began the session, 0 if there is none
  life,                \* life[i]: "new", "registered" and then "finished"
  alive,               \* the instances of s_snapshot
  reading,             \* reading[c]: validated by the reader of c, not yet added
  queue,               \* s_queue
  inFlight,            \* s_inFlight, keyed by request number
  invalidated,         \* s_invalidatedOrder
  pump,                \* the main thread inside Pump
  reply,               \* what the handler of a request does with its handle
  gen,                 \* ConnectionGeneration of the result being written
  down,                \* down[c]: frames on their way to the client of c
  answers,             \* history: answers written for a request
  received,            \* history: requests read from a link
  forgotten            \* history: requests whose number is no longer kept

linkVars  == <<opened, closed, session, life, alive>>
tableVars == <<queue, inFlight, invalidated>>
replyVars == <<reply, gen>>
sentVars  == <<down, answers>>
queryVars == <<linkVars, reading, tableVars, pump, replyVars, sentVars, received, forgotten>>

Max(S)  == CHOOSE m \in S : \A n \in S : n <= m
Links   == 1..opened \ closed
Active  == IF Links = {} THEN 0 ELSE Max(Links)

Rest == [pc |-> "idle", cur |-> NoRequest]

QueryInit ==
  /\ opened = 0 /\ closed = {} /\ session = 0
  /\ life = [i \in Instance |-> "new"] /\ alive = {}
  /\ reading = [c \in Conn |-> NoRequest]
  /\ queue = <<>> /\ inFlight = {} /\ invalidated = <<>>
  /\ pump = Rest
  /\ reply = [r \in Request |-> "none"] /\ gen = [r \in Request |-> 0]
  /\ down = [c \in Conn |-> <<>>] /\ answers = [r \in Request |-> 0]
  /\ received = {} /\ forgotten = {}

---------------------------------------------------------------------------
(* What is written goes to the active link, and nowhere if there is none.  *)
Write(frames) == down' = IF Active = 0 THEN down ELSE [down EXCEPT ![Active] = @ \o frames]

AnswerAll(q, kind) ==
  /\ Write([k \in 1..Len(q) |-> [kind |-> kind, of |-> q[k]]])
  /\ answers' = IF Active = 0 THEN answers
                ELSE [r \in Request |-> answers[r] + Cardinality({k \in 1..Len(q) : q[k] = r})]

Answer(r, kind) == AnswerAll(<<r>>, kind)

Numbers(S)   == {SeqOf[r] : r \in S}
Numbered(n)  == {r \in Request : SeqOf[r] = n}
Elements(q)  == {q[k] : k \in 1..Len(q)}
Invalid      == Elements(invalidated)
Queued       == Elements(queue)

\* Elements of S, each at most once, in some order.
Arrangements(S) ==
  {q \in UNION {[1..k -> S] : k \in 0..Cardinality(S)} :
     \A j, k \in 1..Len(q) : q[j] = q[k] => j = k}

\* IsTrackedLocked
Tracked(n) == n \in Numbers(inFlight) \cup Invalid \cup Numbers(Queued)

\* InvalidateLocked: numbers that are not in the table yet enter it, and
\* leave it first in first out.
Kept(q) == IF Len(q) > MaxInvalidated THEN SubSeq(q, Len(q) - MaxInvalidated + 1, Len(q)) ELSE q
Remember(ns) ==
  LET q == invalidated \o ns
  IN /\ invalidated' = Kept(q)
     /\ forgotten' = forgotten \cup UNION {Numbered(q[k]) : k \in 1..Len(q) - Len(Kept(q))}

Invalidate(n) ==
  IF n \in Invalid THEN UNCHANGED <<invalidated, forgotten>> ELSE Remember(<<n>>)

\* Those of one look at the clock, in some order.
InvalidateAll(S) ==
  \E ns \in Arrangements(Numbers(S) \ Invalid) :
    Elements(ns) = Numbers(S) \ Invalid /\ Remember(ns)

\* The number leaves the requests in flight.
Settled(n) == inFlight' = inFlight \ Numbered(n)

---------------------------------------------------------------------------
(* Links and instances, as far as the queries depend on them.              *)
Open ==
  /\ opened < MaxConn
  /\ opened' = opened + 1
  /\ session' = IF Active = 0 THEN opened + 1 ELSE session
  /\ UNCHANGED <<closed, life, alive, reading, tableVars, pump, replyVars, sentVars, received, forgotten>>

\* The link under the closed one takes over; without one the session is
\* detached: ResetSession empties the tables and gives up the open message.
Close(c) ==
  /\ c \in Links /\ closed' = closed \cup {c}
  /\ IF Links = {c}
     THEN /\ session' = 0 /\ alive' = {}
          /\ queue' = <<>> /\ inFlight' = {} /\ invalidated' = <<>>
          /\ reply' = [r \in Request |-> IF reply[r] = "writing" THEN "held" ELSE reply[r]]
          /\ gen' = [r \in Request |-> IF reply[r] = "writing" THEN 0 ELSE gen[r]]
          /\ forgotten' = forgotten \cup {r \in Request : ConnOf[r] <= opened}
     ELSE UNCHANGED <<session, alive, tableVars, replyVars, forgotten>>
  /\ UNCHANGED <<opened, life, reading, pump, sentVars, received>>

\* Bound: an instance is created once.  One that is still registered is
\* described again on the link that begins a new session.
Describe(i) ==
  /\ i \notin alive /\ Active # 0 /\ life[i] # "finished"
  /\ life' = [life EXCEPT ![i] = "registered"] /\ alive' = alive \cup {i}
  /\ Write(<<[kind |-> "create", inst |-> i]>>)
  /\ UNCHANGED <<opened, closed, session, reading, tableVars, pump, replyVars, answers, received, forgotten>>

Finish(i) ==
  /\ life[i] = "registered"
  /\ life' = [life EXCEPT ![i] = "finished"] /\ alive' = alive \ {i}
  /\ IF i \in alive THEN Write(<<[kind |-> "finish", inst |-> i]>>) ELSE down' = down
  /\ UNCHANGED <<opened, closed, session, reading, tableVars, pump, replyVars, answers, received, forgotten>>

---------------------------------------------------------------------------
(* The reader thread: OnFrameReceived and Enqueue.  A frame of a link that *)
(* is not active is dropped.  What Enqueue refuses is answered at once.    *)
Ignored(c, r) ==
  /\ c # Active
  /\ UNCHANGED <<linkVars, reading, tableVars, pump, replyVars, sentVars, forgotten>>

Refused(c, r) ==
  /\ c = Active /\ Answer(r, "error")
  /\ UNCHANGED <<linkVars, reading, tableVars, pump, replyVars, forgotten>>

Validated(c, r) ==
  /\ c = Active /\ InstOf[r] \in alive
  /\ reading' = [reading EXCEPT ![c] = r]
  /\ UNCHANGED <<linkVars, tableVars, pump, replyVars, sentVars, forgotten>>

Receive(c, r) ==
  /\ c \in Links /\ reading[c] = NoRequest
  /\ ConnOf[r] = c /\ r \notin received
  /\ received' = received \cup {r}
  /\ Ignored(c, r) \/ Refused(c, r) \/ Validated(c, r)

\* QueueFull, ConcurrencyLimited
Busy == Len(queue) >= MaxQueued \/ Cardinality(inFlight) >= MaxConcurrent

Add(c) ==
  LET r == reading[c]
  IN /\ r # NoRequest
     /\ reading' = [reading EXCEPT ![c] = NoRequest]
     /\ IF Busy \/ Tracked(SeqOf[r])
        THEN Answer(r, "error") /\ queue' = queue
        ELSE queue' = Append(queue, r) /\ UNCHANGED sentVars
     /\ UNCHANGED <<linkVars, inFlight, invalidated, pump, replyVars, received, forgotten>>

---------------------------------------------------------------------------
(* Pump, once per frame on the main thread: both timeouts and their        *)
(* answers, then at most one request.  Of the queue the first n are too    *)
(* old, of those in flight the requests of q.  A look that finds nothing   *)
(* too old is part of the step that dequeues.                              *)
\* Mutant of Remaining: one that was timed out is left in the queue.
RemainingMore(n) == SubSeq(queue, IF n = 0 THEN 1 ELSE n, Len(queue))

Remaining(n) == SubSeq(queue, n + 1, Len(queue))

\* Mutant of Due: nothing is looked at while the queue is empty.
DueQueued == pump.pc = "idle" /\ queue # <<>>

Due == pump.pc = "idle"

TakeTimeouts(n, q) ==
  /\ Due /\ n + Len(q) > 0
  /\ inFlight' = inFlight \ Elements(q) /\ queue' = Remaining(n)
  /\ LET late == SubSeq(queue, 1, n) \o q
     IN InvalidateAll(Elements(late)) /\ AnswerAll(late, "error")
  /\ pump' = [pump EXCEPT !.pc = "dequeue"]
  /\ UNCHANGED <<linkVars, reading, replyVars, received>>

DequeueNone ==
  /\ pump.pc = "dequeue" /\ queue = <<>> /\ pump' = Rest
  /\ UNCHANGED <<linkVars, reading, tableVars, replyVars, sentVars, received, forgotten>>

Dequeue ==
  /\ pump.pc \in {"idle", "dequeue"} /\ queue # <<>>
  /\ queue' = Tail(queue) /\ pump' = [pc |-> "dispatch", cur |-> Head(queue)]
  /\ UNCHANGED <<linkVars, reading, inFlight, invalidated, replyVars, sentVars, received, forgotten>>

\* Dispatch, of an instance that finished meanwhile and of a live one.
DispatchDead ==
  /\ pump.pc = "dispatch" /\ InstOf[pump.cur] \notin alive
  /\ Invalidate(SeqOf[pump.cur]) /\ Answer(pump.cur, "error") /\ pump' = Rest
  /\ UNCHANGED <<linkVars, reading, queue, inFlight, replyVars, received>>

DispatchLive ==
  /\ pump.pc = "dispatch" /\ InstOf[pump.cur] \in alive
  /\ pump' = [pump EXCEPT !.pc = "enter"]
  /\ UNCHANGED <<linkVars, reading, tableVars, replyVars, sentVars, received, forgotten>>

\* The request is in flight and its handler is called.
Dispatch ==
  /\ pump.pc = "enter"
  /\ inFlight' = (inFlight \ Numbered(SeqOf[pump.cur])) \cup {pump.cur}
  /\ pump' = [pump EXCEPT !.pc = "handler"]
  /\ reply' = [reply EXCEPT ![pump.cur] = "held"]
  /\ UNCHANGED <<linkVars, reading, queue, invalidated, gen, sentVars, received, forgotten>>

\* The handler has answered or will do so later.
HandlerReturns ==
  /\ pump.pc = "handler" /\ pump' = Rest
  /\ UNCHANGED <<linkVars, reading, tableVars, replyVars, sentVars, received, forgotten>>

\* It says it has not (TryReleaseUnanswered): the number is not invalidated.
HandlerFails ==
  /\ pump.pc = "handler" /\ SeqOf[pump.cur] \in Numbers(inFlight)
  /\ Settled(SeqOf[pump.cur]) /\ forgotten' = forgotten \cup Numbered(SeqOf[pump.cur])
  /\ Answer(pump.cur, "error") /\ pump' = Rest
  /\ UNCHANGED <<linkVars, reading, queue, invalidated, replyVars, received>>

---------------------------------------------------------------------------
(* A handler answers, on any thread, as often as it likes: StartResult     *)
(* with CompleteResult or Discard, then End; RejectRequest with            *)
(* CompleteReject.  A number that was invalidated is dropped.              *)
\* Bound: a handle is used until it has led to two answers.
Holds(r) == reply[r] = "held" /\ Active # 0 /\ answers[r] < 2
NobodyWrites == \A r \in Request : reply[r] # "writing"

\* Mutant of Release: a settled number is not remembered.
ReleaseOnly(n) == Settled(n) /\ UNCHANGED <<invalidated, forgotten>>

\* The number leaves the table and is remembered if it was there.
Release(n) ==
  /\ Settled(n)
  /\ IF n \in Numbers(inFlight) THEN Invalidate(n) ELSE UNCHANGED <<invalidated, forgotten>>

Discard(r) ==
  /\ Holds(r) /\ NobodyWrites /\ InstOf[r] \notin alive
  /\ Settled(SeqOf[r]) /\ Invalidate(SeqOf[r])
  /\ UNCHANGED <<linkVars, reading, queue, pump, replyVars, sentVars, received>>

\* The number is settled before the one open message is claimed: a thread
\* that opens a message in between costs the result.
StartResult(r, claimed) ==
  /\ Holds(r) /\ NobodyWrites /\ InstOf[r] \in alive /\ SeqOf[r] \notin Invalid
  /\ Release(SeqOf[r])
  /\ IF claimed
     THEN reply' = [reply EXCEPT ![r] = "writing"] /\ gen' = [gen EXCEPT ![r] = session]
     ELSE UNCHANGED replyVars
  /\ UNCHANGED <<linkVars, reading, queue, pump, sentVars, received>>

End(r) ==
  /\ reply[r] = "writing"
  /\ reply' = [reply EXCEPT ![r] = "held"] /\ gen' = [gen EXCEPT ![r] = 0]
  /\ IF gen[r] = session THEN Answer(r, "result") ELSE UNCHANGED sentVars
  /\ UNCHANGED <<linkVars, reading, tableVars, pump, received, forgotten>>

RejectRequest(r) ==
  /\ Holds(r) /\ SeqOf[r] \notin Invalid
  /\ Release(SeqOf[r]) /\ Answer(r, "error")
  /\ UNCHANGED <<linkVars, reading, queue, pump, replyVars, received>>

---------------------------------------------------------------------------
\* A frame reaches the client.
Deliver(c) ==
  /\ down[c] # <<>> /\ down' = [down EXCEPT ![c] = Tail(@)]
  /\ UNCHANGED <<linkVars, reading, tableVars, pump, replyVars, answers, received, forgotten>>

Pump ==
  \/ \E n \in 0..Len(queue), q \in Arrangements(inFlight) : TakeTimeouts(n, q)
  \/ DequeueNone \/ Dequeue
  \/ DispatchDead \/ DispatchLive \/ Dispatch \/ HandlerReturns \/ HandlerFails

Handler(r) ==
  Discard(r) \/ StartResult(r, TRUE) \/ StartResult(r, FALSE) \/ End(r) \/ RejectRequest(r)

\* The steps that neither take a frame from a link nor deliver one.
QueryStep ==
  \/ Open \/ \E c \in Conn : Close(c) \/ Add(c)
  \/ \E i \in Instance : Describe(i) \/ Finish(i)
  \/ Pump \/ \E r \in Request : Handler(r)

QueryNext ==
  \/ QueryStep
  \/ \E c \in Conn : Deliver(c) \/ \E r \in Request : Receive(c, r)

QuerySpec == QueryInit /\ [][QueryNext]_queryVars

---------------------------------------------------------------------------
Frame == [kind : {"result", "error"}, of : Request] \cup [kind : {"create", "finish"}, inst : Instance]

QueryTypeOK ==
  /\ opened \in 0..MaxConn /\ closed \subseteq 1..opened /\ session \in 0..opened
  /\ life \in [Instance -> {"new", "registered", "finished"}]
  /\ alive \subseteq {i \in Instance : life[i] = "registered"}
  /\ reading \in [Conn -> Request \cup {NoRequest}]
  /\ queue \in Seq(Request) /\ inFlight \subseteq Request
  /\ invalidated \in Seq(Nat) /\ Len(invalidated) <= MaxInvalidated
  /\ pump \in [pc : {"idle", "dequeue", "dispatch", "enter", "handler"}, cur : Request \cup {NoRequest}]
  /\ reply \in [Request -> {"none", "held", "writing"}]
  /\ gen \in [Request -> 0..MaxConn]
  /\ down \in [Conn -> Seq(Frame)] /\ answers \in [Request -> Nat]
  /\ {received, forgotten} \subseteq SUBSET Request

(***************************************************************************)
(* What the two limits amount to: Enqueue looks at both but Dispatch at    *)
(* none, so what was queued while one more was allowed in flight adds to   *)
(* MaxConcurrent (Enqueue, Dequeue, Dispatch).                             *)
(***************************************************************************)
Bounded ==
  /\ Len(queue) <= MaxQueued
  /\ Cardinality(inFlight) <= MaxConcurrent + MaxQueued

(***************************************************************************)
(* At most one answer is written for a request, whichever of the two       *)
(* timeouts, the end of its instance, its handler and its refusal comes    *)
(* first, as long as its number is kept (CompleteResult, CompleteReject,   *)
(* Discard, InvalidateLocked).                                             *)
(***************************************************************************)
AnsweredOnce == \A r \in Request : answers[r] > 1 => r \in forgotten

(***************************************************************************)
(* A handler is called at most once for a request, and not for a request   *)
(* that has been answered (TakeQueuedTimeoutsLocked, Dequeue, Dispatch).   *)
(***************************************************************************)
CalledInTime ==
  [][pump.pc = "enter" /\ pump'.pc = "handler" =>
       reply[pump.cur] = "none" /\ answers[pump.cur] = 0]_queryVars
=============================================================================
