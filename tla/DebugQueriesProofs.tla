------------------------- MODULE DebugQueriesProofs -------------------------
(***************************************************************************)
(* Debug queries, for any number of links, requests and instances and any  *)
(* limits.  First the queue inside the Unity process: a request whose      *)
(* number is kept gets at most one answer, its handler is called once and  *)
(* before any answer, and the two limits together bound what is in flight. *)
(* Then the clients and trackers around it: the queue between them is the  *)
(* one of QueryQueue, so what holds of it holds here, the promise of a     *)
(* query is settled once, and a late answer is known as one.               *)
(***************************************************************************)
EXTENDS DebugQueries, FiniteSetTheorems, SequenceTheorems, TLAPS

---------------------------------------------------------------------------
(* What the table of invalidated numbers does in every step: it stays      *)
(* within its limit, and a number of N or one that was in it is there, or  *)
(* its requests are forgotten.                                             *)
Table ==
  /\ invalidated \in Seq(Nat) /\ Len(invalidated) <= MaxInvalidated
  /\ forgotten \in SUBSET Request

Remembers(N) ==
  /\ invalidated' \in Seq(Nat) /\ Len(invalidated') <= MaxInvalidated
  /\ forgotten' \in SUBSET Request /\ forgotten \subseteq forgotten'
  /\ \A x \in Invalid \cup N : x \in Invalid' \/ Numbered(x) \subseteq forgotten'

LEMMA SequenceFacts ==
  ASSUME NEW S, NEW q \in Seq(S)
  PROVE  /\ Len(q) \in Nat /\ Elements(q) \subseteq S
         /\ \A k \in 1..Len(q) : q[k] \in S
         /\ q # <<>> => Head(q) = q[1] /\ 1 \in 1..Len(q) /\ Tail(q) \in Seq(S)
BY DEF Elements

LEMMA RememberFacts ==
  ASSUME Table, NEW ns \in Seq(Nat), Remember(ns)
  PROVE  Remembers(Elements(ns))
<1> DEFINE q == invalidated \o ns
           d == Len(q) - Len(Kept(q))
<1>0. MaxInvalidated \in Nat \ {0}
  BY QueryAssumption
<1>1. /\ q \in Seq(Nat) /\ Len(q) = Len(invalidated) + Len(ns) /\ Len(q) \in Nat
      /\ \A k \in 1..Len(invalidated) : q[k] = invalidated[k]
      /\ \A k \in 1..Len(ns) : q[Len(invalidated) + k] = ns[k]
  BY DEF Table
<1>2. /\ invalidated' = Kept(q)
      /\ forgotten' = forgotten \cup UNION {Numbered(q[k]) : k \in 1..d}
  BY DEF Remember
<1> HIDE DEF q
<1>3. /\ Kept(q) \in Seq(Nat) /\ Len(Kept(q)) <= MaxInvalidated
      /\ d \in Nat /\ Len(Kept(q)) = Len(q) - d
      /\ \A k \in 1..Len(Kept(q)) : Kept(q)[k] = q[d + k]
  <2>1. CASE Len(q) > MaxInvalidated
    <3> DEFINE m == Len(q) - MaxInvalidated + 1
    <3>1. m \in Int /\ \A i \in m..Len(q) : q[i] \in Nat
      BY <1>0, <1>1, <2>1
    <3>2. /\ SubSeq(q, m, Len(q)) \in Seq(Nat)
          /\ Len(SubSeq(q, m, Len(q))) = MaxInvalidated
          /\ \A i \in 1..Len(q) - m + 1 : SubSeq(q, m, Len(q))[i] = q[m + i - 1]
      BY <1>0, <1>1, <2>1, <3>1, SubSeqProperties
    <3>3. Kept(q) = SubSeq(q, m, Len(q)) /\ d = m - 1
      BY <1>0, <1>1, <2>1, <3>2 DEF Kept
    <3> HIDE DEF d
    <3>4. ASSUME NEW k \in 1..Len(Kept(q)) PROVE Kept(q)[k] = q[d + k]
      <4>1. k \in 1..Len(q) - m + 1 /\ m + k - 1 = d + k
        BY <1>0, <1>1, <2>1, <3>2, <3>3
      <4> QED BY <3>2, <3>3, <4>1
    <3> QED BY <1>0, <1>1, <2>1, <3>2, <3>3, <3>4
  <2>2. CASE ~(Len(q) > MaxInvalidated)
    BY <1>0, <1>1, <2>2 DEF Kept
  <2> QED BY <2>1, <2>2
<1> HIDE DEF d
<1>4. ASSUME NEW k \in 1..Len(q) PROVE q[k] \in Invalid' \/ Numbered(q[k]) \subseteq forgotten'
  <2>1. CASE k <= d
    BY <1>2, <1>3, <2>1
  <2>2. CASE k > d
    <3>1. k - d \in 1..Len(Kept(q)) /\ d + (k - d) = k
      BY <1>1, <1>3, <2>2
    <3>2. Kept(q)[k - d] = q[k]
      BY <1>3, <3>1
    <3> QED BY <3>1, <3>2, <1>2 DEF Invalid, Elements
  <2> QED BY <1>3, <2>1, <2>2
<1>5. \A x \in Invalid \cup Elements(ns) : \E k \in 1..Len(q) : x = q[k]
  <2>1. ASSUME NEW k \in 1..Len(ns)
        PROVE  Len(invalidated) + k \in 1..Len(q) /\ q[Len(invalidated) + k] = ns[k]
    BY <1>1 DEF Table
  <2>2. \A k \in 1..Len(invalidated) : k \in 1..Len(q) /\ q[k] = invalidated[k]
    BY <1>1 DEF Table
  <2> QED BY <2>1, <2>2 DEF Invalid, Elements
<1>6. forgotten' \in SUBSET Request
  BY <1>2 DEF Table, Numbered
<1> QED BY <1>2, <1>3, <1>4, <1>5, <1>6 DEF Remembers

LEMMA InvalidateFacts ==
  ASSUME Table, NEW n \in Nat, Invalidate(n)
  PROVE  Remembers({n})
<1>1. CASE n \in Invalid
  BY <1>1 DEF Invalidate, Remembers, Table, Invalid
<1>2. CASE n \notin Invalid
  <2>0. <<n>> \in Seq(Nat) /\ Remember(<<n>>)
    BY <1>2 DEF Invalidate
  <2>1. Remembers(Elements(<<n>>))
    BY <2>0, RememberFacts
  <2>2. Elements(<<n>>) = {n}
    BY DEF Elements
  <2> QED BY <2>1, <2>2
<1> QED BY <1>1, <1>2

LEMMA InvalidateAllFacts ==
  ASSUME Table, NEW S \in SUBSET Request, InvalidateAll(S)
  PROVE  Remembers(Numbers(S))
<1>0. Numbers(S) \in SUBSET Nat
  BY QueryAssumption DEF Numbers
<1>1. PICK ns \in Arrangements(Numbers(S) \ Invalid) :
        Elements(ns) = Numbers(S) \ Invalid /\ Remember(ns)
  BY DEF InvalidateAll
<1>2. ns \in Seq(Nat)
  BY <1>0 DEF Arrangements
<1>3. Remembers(Elements(ns))
  BY <1>1, <1>2, RememberFacts
<1> QED BY <1>1, <1>3 DEF Remembers

LEMMA TableKept ==
  ASSUME Table, UNCHANGED <<invalidated, forgotten>>
  PROVE  Remembers({})
BY DEF Table, Remembers, Invalid

---------------------------------------------------------------------------
(* What is written are frames, and an answer counts once for each request  *)
(* it is written for, if it is written at all.                             *)
Sent ==
  /\ down \in [Conn -> Seq(Frame)] /\ answers \in [Request -> Nat]

Answers(S) ==
  /\ Sent'
  /\ \A r \in Request : answers'[r] = answers[r] \/ (r \in S /\ answers'[r] = answers[r] + 1)

LEMMA WriteFacts ==
  ASSUME down \in [Conn -> Seq(Frame)], NEW frames \in Seq(Frame), Write(frames)
  PROVE  down' \in [Conn -> Seq(Frame)]
<1>1. \A c \in Conn : down[c] \o frames \in Seq(Frame)
  OBVIOUS
<1> QED BY <1>1 DEF Write

LEMMA AnswerAllFacts ==
  ASSUME Sent, NEW q \in Seq(Request), NEW kind \in {"result", "error"},
         \A j, k \in 1..Len(q) : q[j] = q[k] => j = k,
         AnswerAll(q, kind)
  PROVE  Answers(Elements(q))
<1>1. [k \in 1..Len(q) |-> [kind |-> kind, of |-> q[k]]] \in Seq(Frame)
  <2>1. \A k \in 1..Len(q) : [kind |-> kind, of |-> q[k]] \in Frame
    BY DEF Frame
  <2>2. Len(q) \in Nat
    OBVIOUS
  <2> QED BY <2>1, <2>2, IsASeq
<1>2. down' \in [Conn -> Seq(Frame)]
  BY <1>1, WriteFacts DEF AnswerAll, Sent
<1>3. ASSUME NEW r \in Request
      PROVE  \/ Cardinality({k \in 1..Len(q) : q[k] = r}) = 0
             \/ Cardinality({k \in 1..Len(q) : q[k] = r}) = 1 /\ r \in Elements(q)
  <2>1. CASE \E k \in 1..Len(q) : q[k] = r
    <3>1. PICK k \in 1..Len(q) : q[k] = r
      BY <2>1
    <3>2. {j \in 1..Len(q) : q[j] = r} = {k}
      BY <3>1
    <3> QED BY <3>1, <3>2, FS_Singleton DEF Elements
  <2>2. CASE ~ \E k \in 1..Len(q) : q[k] = r
    <3>1. {j \in 1..Len(q) : q[j] = r} = {}
      BY <2>2
    <3> QED BY <3>1, FS_EmptySet
  <2> QED BY <2>1, <2>2
<1>4. CASE Active = 0
  BY <1>2, <1>4 DEF AnswerAll, Answers, Sent
<1>5. CASE Active # 0
  <2> DEFINE count(r) == Cardinality({k \in 1..Len(q) : q[k] = r})
  <2>1. answers' = [r \in Request |-> answers[r] + count(r)]
    BY <1>5 DEF AnswerAll
  <2>2. \A r \in Request : count(r) = 0 \/ (count(r) = 1 /\ r \in Elements(q))
    BY <1>3
  <2> HIDE DEF count
  <2>3. \A r \in Request : answers'[r] = answers[r] + count(r)
    BY <2>1
  <2>4. \A r \in Request : answers[r] \in Nat
    BY DEF Sent
  <2>5. \A r \in Request : answers'[r] = answers[r] \/ (r \in Elements(q) /\ answers'[r] = answers[r] + 1)
    BY <2>2, <2>3, <2>4
  <2>6. answers' \in [Request -> Nat]
    BY <2>1, <2>2, <2>4
  <2> QED BY <1>2, <2>5, <2>6 DEF Answers, Sent
<1> QED BY <1>4, <1>5

LEMMA AnswerFacts ==
  ASSUME Sent, NEW r \in Request, NEW kind \in {"result", "error"}, Answer(r, kind)
  PROVE  Answers({r})
<1>1. <<r>> \in Seq(Request) /\ Elements(<<r>>) = {r}
  BY DEF Elements
<1>2. \A j, k \in 1..Len(<<r>>) : <<r>>[j] = <<r>>[k] => j = k
  OBVIOUS
<1>3. AnswerAll(<<r>>, kind)
  BY DEF Answer
<1>4. Answers(Elements(<<r>>))
  BY ONLY Sent, kind \in {"result", "error"}, <1>1, <1>2, <1>3, AnswerAllFacts
<1> QED BY <1>1, <1>4

LEMMA NothingSent ==
  ASSUME Sent, UNCHANGED <<down, answers>>
  PROVE  Answers({})
BY DEF Sent, Answers

---------------------------------------------------------------------------
(* The variables have their types, and the table of invalidated numbers    *)
(* stays within its limit.                                                 *)
LinkTypes ==
  /\ opened \in 0..MaxConn /\ closed \subseteq 1..opened /\ session \in 0..opened
  /\ life \in [Instance -> {"new", "registered", "finished"}]
  /\ alive \subseteq {i \in Instance : life[i] = "registered"}

RequestTypes ==
  /\ reading \in [Conn -> Request \cup {NoRequest}]
  /\ queue \in Seq(Request) /\ inFlight \subseteq Request
  /\ pump \in [pc : {"idle", "dequeue", "dispatch", "enter", "handler"},
              cur : Request \cup {NoRequest}]
  /\ reply \in [Request -> {"none", "held", "writing"}]
  /\ gen \in [Request -> 0..MaxConn]
  /\ received \subseteq Request

LEMMA TypeParts == QueryTypeOK <=> LinkTypes /\ RequestTypes /\ Table /\ Sent
BY DEF QueryTypeOK, LinkTypes, RequestTypes, Table, Sent

LEMMA LinkTypesKept ==
  ASSUME LinkTypes, [QueryNext]_queryVars
  PROVE  LinkTypes'
<1>0. MaxConn \in Nat
  BY QueryAssumption
<1>1. CASE Open
  BY <1>0, <1>1 DEF Open, LinkTypes
<1>2. CASE \E c \in Conn : Close(c)
  BY <1>0, <1>2 DEF Close, LinkTypes, Links, tableVars, replyVars
<1>3. CASE \E i \in Instance : Describe(i)
  BY <1>3 DEF Describe, LinkTypes
<1>4. CASE \E i \in Instance : Finish(i)
  BY <1>4 DEF Finish, LinkTypes
<1>5. CASE UNCHANGED linkVars
  BY <1>5 DEF linkVars, LinkTypes
<1>6. (\E c \in Conn : Add(c)) \/ Pump \/ (\E r \in Request : Handler(r)) => UNCHANGED linkVars
  BY DEF Add, Pump, TakeTimeouts, DequeueNone, Dequeue, DispatchDead, DispatchLive, Dispatch,
     HandlerReturns, HandlerFails, Handler, Discard, StartResult, End, RejectRequest
<1>7. (\E c \in Conn : Deliver(c) \/ \E r \in Request : Receive(c, r)) => UNCHANGED linkVars
  BY DEF Deliver, Receive, Ignored, Refused, Validated
<1>8. UNCHANGED queryVars => UNCHANGED linkVars
  BY DEF queryVars
<1> QED BY <1>1, <1>2, <1>3, <1>4, <1>5, <1>6, <1>7, <1>8 DEF QueryNext, QueryStep

---------------------------------------------------------------------------
(* The inductive invariant.  Until its handler is called a request is in   *)
(* one place: with the reader, in the queue or with the pump, and has no   *)
(* answer.  From then on, as long as its number is kept, the number is in  *)
(* flight or invalidated, and invalidated once an answer exists or is      *)
(* being written.                                                          *)
Taken(r)  == pump.pc \in {"dispatch", "enter"} /\ pump.cur = r
Fresh(r)  == r \in received /\ reply[r] = "none" /\ answers[r] = 0 /\ r \notin inFlight
Called(r) == reply[r] # "none"

Places ==
  /\ \A r \in received : ConnOf[r] <= opened
  /\ \A r \in Request \ received : reply[r] = "none" /\ answers[r] = 0
  /\ \A c \in Conn : reading[c] # NoRequest =>
       /\ ConnOf[reading[c]] = c /\ Fresh(reading[c])
       /\ reading[c] \notin Queued /\ ~Taken(reading[c])
  /\ \A j, k \in 1..Len(queue) : queue[j] = queue[k] => j = k
  /\ \A r \in Queued : Fresh(r) /\ ~Taken(r)
  /\ pump.pc \in {"dispatch", "enter"} => pump.cur \in Request /\ Fresh(pump.cur)
  /\ pump.pc = "handler" => pump.cur \in Request /\ Called(pump.cur)
  /\ \A r \in inFlight : reply[r] = "held" /\ answers[r] = 0

Answered(r) == answers[r] # 0 \/ reply[r] = "writing"

Numbering ==
  /\ \A r \in Request : answers[r] = 0 \/ Called(r) \/ answers[r] = 1
  /\ \A r \in Request \ forgotten : Called(r) =>
       /\ SeqOf[r] \in Numbers(inFlight) \cup Invalid
       /\ Answered(r) => SeqOf[r] \in Invalid
       /\ answers[r] = 0 \/ (answers[r] = 1 /\ reply[r] = "held")

QueryInv == QueryTypeOK /\ Places /\ Numbering

RequestInv == RequestTypes /\ Table /\ Sent /\ Places /\ Numbering

LEMMA InvParts == QueryInv <=> LinkTypes /\ RequestInv
BY TypeParts DEF QueryInv, RequestInv

LEMMA NumbersAreNatural ==
  /\ \A r \in Request : SeqOf[r] \in Nat /\ r \in Numbered(SeqOf[r]) /\ ConnOf[r] \in Nat
  /\ NoRequest \notin Request
BY QueryAssumption DEF Numbered, Conn

(* A step that remembers the numbers N and answers the requests of S, none *)
(* of them answered before.                                                *)
LEMMA NumberingKept ==
  ASSUME RequestInv, reply' = reply, NEW N, NEW S \in SUBSET Request,
         Remembers(N), Answers(S),
         \A r \in Request : Called(r) /\ SeqOf[r] \in Numbers(inFlight) =>
           SeqOf[r] \in Numbers(inFlight') \cup N,
         \A r \in S : ~Called(r) => answers[r] = 0,
         \A r \in S : Called(r) /\ r \notin forgotten' =>
           answers[r] = 0 /\ reply[r] = "held" /\ SeqOf[r] \in N
  PROVE  Numbering'
<1>0. \A r \in Request : answers[r] \in Nat
  BY DEF RequestInv, Sent
<1>1. ASSUME NEW r \in Request
      PROVE  answers'[r] = 0 \/ Called(r)' \/ answers'[r] = 1
  <2>1. CASE r \in S
    BY <1>0, <2>1 DEF RequestInv, Numbering, Answers, Called
  <2>2. CASE r \notin S
    BY <2>2 DEF RequestInv, Numbering, Answers, Called
  <2> QED BY <2>1, <2>2
<1>2. ASSUME NEW r \in Request \ forgotten', Called(r)'
      PROVE  /\ SeqOf[r] \in Numbers(inFlight') \cup Invalid'
             /\ Answered(r)' => SeqOf[r] \in Invalid'
             /\ answers'[r] = 0 \/ (answers'[r] = 1 /\ reply'[r] = "held")
  <2>0. r \in Request \ forgotten /\ Called(r) /\ r \in Numbered(SeqOf[r])
    BY <1>2, NumbersAreNatural DEF Remembers, Called
  <2>1. \A x \in Invalid \cup N : x = SeqOf[r] => x \in Invalid'
    BY <1>2, <2>0 DEF Remembers
  <2>2. SeqOf[r] \in Numbers(inFlight') \cup Invalid'
    BY <2>0, <2>1 DEF RequestInv, Numbering
  <2>3. CASE r \in S
    BY <1>0, <1>2, <2>0, <2>1, <2>2, <2>3 DEF Answers, Answered
  <2>4. CASE r \notin S
    BY <1>0, <1>2, <2>0, <2>1, <2>2, <2>4 DEF Answers, Answered, RequestInv, Numbering
  <2> QED BY <2>3, <2>4
<1>3. Numbers(inFlight)' = Numbers(inFlight')
  BY DEF Numbers
<1> QED BY <1>1, <1>2, <1>3 DEF Numbering

(* Steps that leave the requests where they are.                           *)
LEMMA RequestsStay ==
  ASSUME QueryInv, opened' \in Nat, opened <= opened',
         UNCHANGED <<reading, tableVars, pump, replyVars, received, forgotten>>,
         Answers({})
  PROVE  RequestInv'
<1>0. RequestInv /\ opened \in Nat
  BY InvParts, QueryAssumption DEF LinkTypes
<1>1. Remembers({})
  BY <1>0, TableKept DEF RequestInv, tableVars
<1>2. Numbering'
  BY <1>0, <1>1, NumberingKept DEF replyVars, tableVars
<1>3. \A r \in Request : answers'[r] = answers[r]
  BY DEF Answers
<1>4. RequestTypes'
  BY <1>0 DEF RequestInv, RequestTypes, tableVars, replyVars
<1>5. Places'
  <2>1. \A r \in received' : ConnOf[r] <= opened'
    <3>1. \A r \in received : ConnOf[r] \in Nat
      BY <1>0, NumbersAreNatural DEF RequestInv, RequestTypes
    <3>2. \A r \in received : ConnOf[r] <= opened
      BY <1>0 DEF RequestInv, Places
    <3> QED BY <1>0, <3>1, <3>2
  <2>2. \A r \in Request \ received' : reply'[r] = "none" /\ answers'[r] = 0
    BY <1>0, <1>3 DEF RequestInv, Places, replyVars
  <2>3. \A r \in Request : /\ Fresh(r) => Fresh(r)'
                           /\ Taken(r)' <=> Taken(r)
                           /\ Called(r)' <=> Called(r)
    BY <1>3 DEF Fresh, Taken, Called, tableVars, replyVars
  <2>4. Queued' = Queued
    BY DEF Queued, tableVars, Elements
  <2>5. \A c \in Conn : reading[c] # NoRequest => reading[c] \in Request
    BY <1>0 DEF RequestInv, RequestTypes
  <2>6. Queued \subseteq Request /\ inFlight \subseteq Request
    BY <1>0, SequenceFacts DEF RequestInv, RequestTypes, Queued
  <2> QED BY <1>0, <1>3, <2>1, <2>2, <2>3, <2>4, <2>5, <2>6 DEF RequestInv, Places, tableVars, replyVars
<1> QED BY <1>1, <1>2, <1>4, <1>5 DEF RequestInv, Remembers, Table, Answers

LEMMA LinkStepsKeep ==
  ASSUME QueryInv,
         \/ Open \/ \E i \in Instance : Describe(i) \/ Finish(i)
         \/ \E c \in Conn : Deliver(c)
         \/ UNCHANGED queryVars
  PROVE  RequestInv'
<1>0. RequestInv /\ opened \in Nat /\ down \in [Conn -> Seq(Frame)]
  BY InvParts, QueryAssumption DEF LinkTypes, RequestInv, Sent
<1>1. CASE Open
  BY <1>0, <1>1, NothingSent, RequestsStay DEF Open, sentVars, RequestInv
<1>2. ASSUME NEW i \in Instance, NEW kind \in {"create", "finish"},
             Write(<<[kind |-> kind, inst |-> i]>>) \/ down' = down, answers' = answers
      PROVE  Answers({})
  <2>1. [kind |-> kind, inst |-> i] \in Frame
    BY DEF Frame
  <2>2. <<[kind |-> kind, inst |-> i]>> \in Seq(Frame)
    BY <2>1
  <2>3. down' \in [Conn -> Seq(Frame)]
    BY <1>0, <1>2, <2>2, WriteFacts
  <2> QED BY <1>0, <1>2, <2>3 DEF Answers, Sent, RequestInv
<1>3. CASE \E i \in Instance : Describe(i)
  <2>1. PICK i \in Instance : Describe(i)
    BY <1>3
  <2>2. Answers({})
    BY <1>2, <2>1 DEF Describe
  <2> QED BY <1>0, <2>1, <2>2, RequestsStay DEF Describe
<1>4. CASE \E i \in Instance : Finish(i)
  <2>1. PICK i \in Instance : Finish(i)
    BY <1>4
  <2>2. Answers({})
    BY <1>2, <2>1 DEF Finish
  <2> QED BY <1>0, <2>1, <2>2, RequestsStay DEF Finish
<1>5. CASE \E c \in Conn : Deliver(c)
  <2>1. PICK c \in Conn : Deliver(c)
    BY <1>5
  <2>2. down[c] \in Seq(Frame) /\ down[c] # <<>>
    BY <1>0, <2>1 DEF Deliver
  <2>3. Tail(down[c]) \in Seq(Frame)
    BY <2>2
  <2>4. Answers({})
    BY <1>0, <2>1, <2>3 DEF Deliver, Answers, Sent, RequestInv
  <2> QED BY <1>0, <2>1, <2>4, RequestsStay DEF Deliver, linkVars
<1>6. CASE UNCHANGED queryVars
  BY <1>0, <1>6, NothingSent, RequestsStay DEF queryVars, linkVars, sentVars, RequestInv
<1> QED BY <1>1, <1>3, <1>4, <1>5, <1>6

---------------------------------------------------------------------------
(* The readers.                                                            *)
LEMMA ReceiveKeeps ==
  ASSUME QueryInv, NEW c \in Conn, NEW r \in Request, Receive(c, r)
  PROVE  RequestInv'
<1>0. /\ RequestInv /\ opened \in Nat /\ closed \subseteq 1..opened
      /\ reading[c] = NoRequest /\ ConnOf[r] = c /\ r \notin received /\ c \in 1..opened
      /\ received' = received \cup {r}
      /\ UNCHANGED <<linkVars, tableVars, pump, replyVars, forgotten>>
  BY InvParts, QueryAssumption DEF LinkTypes, Receive, Ignored, Refused, Validated, Links
<1>1. /\ reply[r] = "none" /\ answers[r] = 0 /\ r \notin Queued /\ ~Taken(r) /\ r \notin inFlight
      /\ \A d \in Conn : reading[d] # r
  BY <1>0, NumbersAreNatural DEF RequestInv, Places, Fresh, Taken
<1>2. /\ Answers({r})
      /\ \/ reading' = reading
         \/ reading' = [reading EXCEPT ![c] = r] /\ answers' = answers
  <2>1. CASE Ignored(c, r) \/ Validated(c, r)
    BY <1>0, <2>1, NothingSent DEF Ignored, Validated, RequestInv, sentVars, Answers
  <2>2. CASE Refused(c, r)
    BY <1>0, <2>2, AnswerFacts DEF Refused, RequestInv
  <2> QED BY <2>1, <2>2 DEF Receive
<1>3. Remembers({})
  BY <1>0, TableKept DEF RequestInv, tableVars
<1>4. Numbering'
  BY <1>0, <1>1, <1>2, <1>3, NumberingKept DEF replyVars, tableVars, Called
<1>5. RequestTypes'
  BY <1>0, <1>2 DEF RequestInv, RequestTypes, tableVars, replyVars
<1>6. Places'
  <2>1. \A x \in received' : ConnOf[x] <= opened'
    BY <1>0 DEF RequestInv, Places, linkVars
  <2>2. \A x \in Request \ received' : reply'[x] = "none" /\ answers'[x] = 0
    BY <1>0, <1>2 DEF RequestInv, Places, replyVars, Answers
  <2>3. \A x \in Request : /\ x # r /\ Fresh(x) => Fresh(x)'
                           /\ Taken(x)' <=> Taken(x)
                           /\ Called(x)' <=> Called(x)
    BY <1>0, <1>2 DEF Fresh, Taken, Called, tableVars, replyVars, Answers
  <2>4. Queued' = Queued /\ Queued \subseteq Request /\ inFlight \subseteq Request
    BY <1>0, SequenceFacts DEF Queued, tableVars, Elements, RequestInv, RequestTypes
  <2>5. ASSUME NEW d \in Conn, reading'[d] # NoRequest
        PROVE  /\ ConnOf[reading'[d]] = d /\ Fresh(reading[d])'
               /\ reading'[d] \notin Queued' /\ ~Taken(reading[d])'
    <3>1. CASE reading'[d] = reading[d]
      <4>1. reading[d] \in Request /\ reading[d] # r
        BY <1>0, <1>1, <2>5, <3>1 DEF RequestInv, RequestTypes
      <4> QED BY <1>0, <2>3, <2>4, <2>5, <3>1, <4>1 DEF RequestInv, Places, Fresh, Taken
    <3>2. CASE reading'[d] # reading[d]
      <4>1. d = c /\ reading'[d] = r /\ answers' = answers
        BY <1>0, <1>2, <3>2 DEF RequestInv, RequestTypes
      <4> QED BY <1>0, <1>1, <2>3, <2>4, <4>1 DEF Fresh, Taken, tableVars, replyVars
    <3> QED BY <3>1, <3>2
  <2>6. \A x \in Queued : Fresh(x)' /\ ~Taken(x)'
    BY <1>0, <1>1, <2>3, <2>4 DEF RequestInv, Places
  <2>7. \A x \in inFlight : reply'[x] = "held" /\ answers'[x] = 0
    BY <1>0, <1>1, <1>2, <2>4 DEF RequestInv, Places, Answers, replyVars
  <2>8. pump.pc \in {"dispatch", "enter"} => pump.cur \in Request /\ Fresh(pump.cur)'
    BY <1>0, <1>1, <2>3 DEF RequestInv, Places, Taken
  <2> QED BY <1>0, <2>1, <2>2, <2>3, <2>4, <2>5, <2>6, <2>7, <2>8 DEF RequestInv, Places, tableVars, Fresh
<1> QED BY <1>2, <1>3, <1>4, <1>5, <1>6 DEF RequestInv, Remembers, Table, Answers

---------------------------------------------------------------------------
(* Steps after which no request waits where it did not wait before, that   *)
(* answer and release requests that were called or are with the pump.      *)
LEMMA PlacesLeft ==
  ASSUME QueryInv, UNCHANGED <<linkVars, reading, queue, received>>,
         inFlight' \subseteq inFlight, NEW S \in SUBSET Request, Answers(S),
         \A r \in Request : reply'[r] # reply[r] =>
           Called(r) /\ Called(r)' /\ r \notin inFlight',
         \A r \in S : r \notin inFlight' /\ (Called(r) \/ Taken(r)),
         pump' = Rest \/ (pump' = pump /\ \A r \in S : Called(r))
  PROVE  Places'
<1>0. RequestInv
  BY InvParts
<1>1. \A r \in received' : ConnOf[r] <= opened'
  BY <1>0 DEF RequestInv, Places, linkVars
<1>2. ASSUME NEW r \in Request, Fresh(r), ~Taken(r)
      PROVE  Fresh(r)' /\ ~Taken(r)'
  <2>1. r \notin S /\ reply'[r] = reply[r] /\ r \notin inFlight'
    BY <1>2 DEF Fresh, Called
  <2>2. answers'[r] = answers[r]
    BY <2>1 DEF Answers
  <2> QED BY <1>2, <2>1, <2>2 DEF Fresh, Taken, Rest
<1>3. ASSUME NEW r \in Request \ received'
      PROVE  reply'[r] = "none" /\ answers'[r] = 0
  <2>1. reply[r] = "none" /\ answers[r] = 0 /\ ~Taken(r)
    BY <1>0 DEF RequestInv, Places, Taken, Fresh
  <2> QED BY <2>1 DEF Answers, Called
<1>4. Queued' = Queued /\ Queued \subseteq Request /\ inFlight \subseteq Request
  BY <1>0, SequenceFacts DEF Queued, Elements, RequestInv, RequestTypes
<1>5. ASSUME NEW c \in Conn, reading'[c] # NoRequest
      PROVE  /\ ConnOf[reading'[c]] = c /\ Fresh(reading[c])'
             /\ reading'[c] \notin Queued' /\ ~Taken(reading[c])'
  <2>1. reading[c] \in Request
    BY <1>0, <1>5 DEF RequestInv, RequestTypes
  <2>2. ConnOf[reading[c]] = c /\ Fresh(reading[c]) /\ reading[c] \notin Queued /\ ~Taken(reading[c])
    BY <1>0, <1>5 DEF RequestInv, Places
  <2>3. Fresh(reading[c])' /\ ~Taken(reading[c])'
    BY <1>2, <2>1, <2>2 DEF Fresh, Taken
  <2> QED BY <1>4, <2>2, <2>3
<1>6. \A r \in Queued' : Fresh(r)' /\ ~Taken(r)'
  BY <1>0, <1>2, <1>4 DEF RequestInv, Places
<1>7. pump'.pc \in {"dispatch", "enter"} => pump'.cur \in Request /\ Fresh(pump.cur)'
  <2>1. SUFFICES ASSUME pump' = pump, pump.pc \in {"dispatch", "enter"}
                 PROVE  pump.cur \in Request /\ Fresh(pump.cur)'
    BY DEF Rest, Fresh
  <2>2. pump.cur \in Request /\ Fresh(pump.cur)
    BY <1>0, <2>1 DEF RequestInv, Places
  <2>3. pump.cur \notin S
    BY <2>1, <2>2 DEF Rest, Fresh, Called
  <2> QED BY <2>1, <2>2, <2>3 DEF Fresh, Called, Answers
<1>8. pump'.pc = "handler" => pump'.cur \in Request /\ Called(pump.cur)'
  BY <1>0 DEF RequestInv, Places, Rest, Called
<1>9. ASSUME NEW r \in inFlight' PROVE reply'[r] = "held" /\ answers'[r] = 0
  <2>1. reply[r] = "held" /\ answers[r] = 0 /\ r \in Request
    BY <1>0, <1>4 DEF RequestInv, Places
  <2> QED BY <2>1 DEF Answers
<1>10. \A j, k \in 1..Len(queue') : queue'[j] = queue'[k] => j = k
  BY <1>0 DEF RequestInv, Places
<1> QED BY <1>1, <1>3, <1>5, <1>6, <1>7, <1>8, <1>9, <1>10 DEF Places

LEMMA HandlerReturnsKeeps ==
  ASSUME QueryInv, HandlerReturns
  PROVE  RequestInv'
<1>0. RequestInv /\ pump.cur \in Request
  BY InvParts DEF HandlerReturns, RequestInv, Places
<1>1. Answers({}) /\ Remembers({})
  BY <1>0, NothingSent, TableKept DEF HandlerReturns, RequestInv, tableVars, sentVars
<1>2. RequestTypes'
  BY <1>0 DEF HandlerReturns, RequestInv, RequestTypes, tableVars, replyVars, Rest
<1>3. Numbering'
  BY <1>0, <1>1, NumberingKept DEF HandlerReturns, replyVars, tableVars
<1>4. Places'
  <2>1. UNCHANGED <<linkVars, reading, queue, received>> /\ inFlight' = inFlight /\ reply' = reply /\ pump' = Rest
    BY DEF HandlerReturns, tableVars, replyVars
  <2> QED BY <1>1, <2>1, PlacesLeft
<1> QED BY <1>1, <1>2, <1>3, <1>4 DEF RequestInv, Remembers, Table, Answers

LEMMA HandlerFailsKeeps ==
  ASSUME QueryInv, HandlerFails
  PROVE  RequestInv'
<1> DEFINE r == pump.cur
           n == SeqOf[r]
<1>0. /\ RequestInv /\ r \in Request /\ Called(r) /\ n \in Nat /\ r \in Numbered(n)
      /\ inFlight' = inFlight \ Numbered(n) /\ forgotten' = forgotten \cup Numbered(n)
      /\ Answer(r, "error") /\ pump' = Rest
      /\ UNCHANGED <<linkVars, reading, queue, invalidated, replyVars, received>>
  BY InvParts, NumbersAreNatural DEF HandlerFails, RequestInv, Places, Settled
<1> HIDE DEF r, n
<1>1. Answers({r}) /\ Remembers({n})
  <2>1. Answers({r})
    BY <1>0, AnswerFacts DEF RequestInv
  <2>2. Remembers({n})
    BY <1>0 DEF RequestInv, Table, Remembers, Invalid, Numbered
  <2> QED BY <2>1, <2>2
<1>2. RequestTypes'
  BY <1>0 DEF RequestInv, RequestTypes, replyVars, Rest
<1>3. Numbering'
  <2>1. \A x \in Request : SeqOf[x] \in Numbers(inFlight) => SeqOf[x] \in Numbers(inFlight') \cup {n}
    BY <1>0 DEF Numbers, Numbered
  <2> QED BY <1>0, <1>1, <2>1, NumberingKept DEF replyVars
<1>4. Places'
  <2>1. inFlight' \subseteq inFlight /\ reply' = reply /\ r \notin inFlight'
    BY <1>0 DEF replyVars
  <2> QED BY <1>0, <1>1, <2>1, PlacesLeft
<1> QED BY <1>1, <1>2, <1>3, <1>4 DEF RequestInv, Remembers, Table, Answers

LEMMA DispatchDeadKeeps ==
  ASSUME QueryInv, DispatchDead
  PROVE  RequestInv'
<1> DEFINE r == pump.cur
           n == SeqOf[r]
<1>0. /\ RequestInv /\ r \in Request /\ Fresh(r) /\ Taken(r) /\ n \in Nat
      /\ Invalidate(n) /\ Answer(r, "error") /\ pump' = Rest
      /\ UNCHANGED <<linkVars, reading, queue, inFlight, replyVars, received>>
  BY InvParts, NumbersAreNatural DEF DispatchDead, RequestInv, Places, Taken
<1> HIDE DEF r, n
<1>1. Answers({r}) /\ Remembers({n})
  BY <1>0, AnswerFacts, InvalidateFacts DEF RequestInv
<1>2. RequestTypes'
  BY <1>0 DEF RequestInv, RequestTypes, replyVars, Rest
<1>3. Numbering'
  BY <1>0, <1>1, NumberingKept DEF replyVars, Fresh, Called
<1>4. Places'
  <2>1. inFlight' = inFlight /\ reply' = reply /\ r \notin inFlight'
    BY <1>0 DEF replyVars, Fresh
  <2> QED BY <1>0, <1>1, <2>1, PlacesLeft
<1> QED BY <1>1, <1>2, <1>3, <1>4 DEF RequestInv, Remembers, Table, Answers

---------------------------------------------------------------------------
(* The handlers.                                                           *)
LEMMA DiscardKeeps ==
  ASSUME QueryInv, NEW r \in Request, Discard(r)
  PROVE  RequestInv'
<1> DEFINE n == SeqOf[r]
<1>0. /\ RequestInv /\ n \in Nat /\ inFlight' = inFlight \ Numbered(n) /\ Invalidate(n)
      /\ UNCHANGED <<linkVars, reading, queue, pump, replyVars, sentVars, received>>
  BY InvParts, NumbersAreNatural DEF Discard, Settled
<1> HIDE DEF n
<1>1. Answers({}) /\ Remembers({n})
  BY <1>0, NothingSent, InvalidateFacts DEF RequestInv, sentVars
<1>2. RequestTypes'
  BY <1>0 DEF RequestInv, RequestTypes, replyVars
<1>3. Numbering'
  <2>1. \A x \in Request : SeqOf[x] \in Numbers(inFlight) => SeqOf[x] \in Numbers(inFlight') \cup {n}
    BY <1>0 DEF Numbers, Numbered
  <2> QED BY <1>0, <1>1, <2>1, NumberingKept DEF replyVars
<1>4. Places'
  BY <1>0, <1>1, PlacesLeft DEF replyVars
<1> QED BY <1>1, <1>2, <1>3, <1>4 DEF RequestInv, Remembers, Table, Answers

(* A number is released: nothing in flight has it any more, and it is      *)
(* remembered or forgotten if something had.                               *)
LEMMA ReleaseFacts ==
  ASSUME RequestInv, NEW n \in Nat, Release(n)
  PROVE  /\ inFlight' = inFlight \ Numbered(n)
         /\ \E N \in SUBSET {n} :
              /\ Remembers(N) /\ (n \in Numbers(inFlight) => N = {n})
              /\ \A x \in Request : SeqOf[x] \in Numbers(inFlight) =>
                   SeqOf[x] \in Numbers(inFlight') \cup N
<1>1. inFlight' = inFlight \ Numbered(n)
  BY DEF Release, Settled
<1>2. \A x \in Request : SeqOf[x] \in Numbers(inFlight) => SeqOf[x] \in Numbers(inFlight') \cup {n}
  BY <1>1 DEF Numbers, Numbered
<1>3. CASE n \in Numbers(inFlight)
  <2>1. Remembers({n})
    BY <1>3, InvalidateFacts DEF Release, RequestInv
  <2> QED BY <1>1, <1>2, <2>1
<1>4. CASE n \notin Numbers(inFlight)
  <2>1. Remembers({})
    BY <1>4, TableKept DEF Release, RequestInv
  <2>2. \A x \in Request : SeqOf[x] \in Numbers(inFlight) => SeqOf[x] \in Numbers(inFlight')
    BY <1>2, <1>4
  <2> QED BY <1>1, <1>4, <2>1, <2>2
<1> QED BY <1>3, <1>4

LEMMA RejectRequestKeeps ==
  ASSUME QueryInv, NEW r \in Request, RejectRequest(r)
  PROVE  RequestInv'
<1> DEFINE n == SeqOf[r]
<1>0. /\ RequestInv /\ n \in Nat /\ r \in Numbered(n)
      /\ reply[r] = "held" /\ n \notin Invalid /\ Release(n) /\ Answer(r, "error")
      /\ UNCHANGED <<linkVars, reading, queue, pump, replyVars, received>>
  BY InvParts, NumbersAreNatural DEF RejectRequest, Holds
<1> HIDE DEF n
<1>1. Answers({r})
  BY <1>0, AnswerFacts DEF RequestInv
<1>2. inFlight' = inFlight \ Numbered(n)
  BY <1>0, ReleaseFacts
<1>3. PICK N \in SUBSET {n} :
        /\ Remembers(N) /\ (n \in Numbers(inFlight) => N = {n})
        /\ \A x \in Request : SeqOf[x] \in Numbers(inFlight) =>
             SeqOf[x] \in Numbers(inFlight') \cup N
  BY <1>0, ReleaseFacts
<1>4. r \notin forgotten' => answers[r] = 0 /\ N = {n}
  <2>1. r \notin forgotten' => r \notin forgotten
    BY <1>3 DEF Remembers
  <2> QED BY <1>0, <1>3, <2>1 DEF RequestInv, Numbering, Called, Answered, n
<1>5. RequestTypes'
  BY <1>0, <1>2 DEF RequestInv, RequestTypes, replyVars
<1>6. Numbering'
  BY <1>0, <1>1, <1>3, <1>4, NumberingKept DEF replyVars, Called, n
<1>7. Places'
  <2>1. r \notin inFlight' /\ Called(r) /\ inFlight' \subseteq inFlight /\ reply' = reply
    BY <1>0, <1>2 DEF Called, replyVars
  <2> QED BY <1>0, <1>1, <2>1, PlacesLeft
<1> QED BY <1>1, <1>3, <1>5, <1>6, <1>7 DEF RequestInv, Remembers, Table, Answers

(* The same of a step that changes what the handler of one request does:   *)
(* a call, a result begun or a result ended.                               *)
LEMMA NumberingChanged ==
  ASSUME RequestInv, NEW r \in Request, NEW N, Remembers(N), Answers({r}),
         reply' \in [Request -> {"none", "held", "writing"}], Called(r)',
         \A x \in Request \ {r} : reply'[x] = reply[x] /\ answers'[x] = answers[x],
         \A x \in Request : Called(x) /\ SeqOf[x] \in Numbers(inFlight) =>
           SeqOf[x] \in Numbers(inFlight') \cup N,
         r \notin forgotten' =>
           /\ SeqOf[r] \in Numbers(inFlight') \cup Invalid \cup N
           /\ Answered(r)' => SeqOf[r] \in Invalid \cup N
           /\ answers'[r] = 0 \/ (answers'[r] = 1 /\ reply'[r] = "held")
  PROVE  Numbering'
<1>1. ASSUME NEW x \in Request
      PROVE  answers'[x] = 0 \/ Called(x)' \/ answers'[x] = 1
  BY DEF RequestInv, Numbering, Called
<1>2. ASSUME NEW x \in Request \ forgotten', Called(x)'
      PROVE  /\ SeqOf[x] \in Numbers(inFlight') \cup Invalid'
             /\ Answered(x)' => SeqOf[x] \in Invalid'
             /\ answers'[x] = 0 \/ (answers'[x] = 1 /\ reply'[x] = "held")
  <2>0. x \in Request \ forgotten /\ x \in Numbered(SeqOf[x])
    BY NumbersAreNatural DEF Remembers
  <2>1. \A y \in Invalid \cup N : y = SeqOf[x] => y \in Invalid'
    BY <2>0 DEF Remembers
  <2>2. CASE x = r
    BY <1>2, <2>1, <2>2
  <2>3. CASE x # r
    BY <1>2, <2>0, <2>1, <2>3 DEF RequestInv, Numbering, Called, Answered
  <2> QED BY <2>2, <2>3
<1>3. Numbers(inFlight)' = Numbers(inFlight')
  BY DEF Numbers
<1> QED BY <1>1, <1>2, <1>3 DEF Numbering

LEMMA StartResultKeeps ==
  ASSUME QueryInv, NEW r \in Request, NEW claimed \in BOOLEAN, StartResult(r, claimed)
  PROVE  RequestInv'
<1> DEFINE n == SeqOf[r]
<1>0. /\ RequestInv /\ n \in Nat /\ r \in Numbered(n) /\ session \in 0..MaxConn
      /\ reply[r] = "held" /\ n \notin Invalid /\ Release(n)
      /\ \/ UNCHANGED replyVars
         \/ reply' = [reply EXCEPT ![r] = "writing"] /\ gen' = [gen EXCEPT ![r] = session]
      /\ UNCHANGED <<linkVars, reading, queue, pump, sentVars, received>>
  <2>1. session \in 0..MaxConn
    BY InvParts, QueryAssumption DEF LinkTypes
  <2> QED BY <2>1, InvParts, NumbersAreNatural DEF StartResult, Holds
<1> HIDE DEF n
<1>1. Answers({}) /\ Answers({r}) /\ answers' = answers
  BY <1>0, NothingSent DEF RequestInv, sentVars, Answers
<1>2. inFlight' = inFlight \ Numbered(n)
  BY <1>0, ReleaseFacts
<1>3. PICK N \in SUBSET {n} :
        /\ Remembers(N) /\ (n \in Numbers(inFlight) => N = {n})
        /\ \A x \in Request : SeqOf[x] \in Numbers(inFlight) =>
             SeqOf[x] \in Numbers(inFlight') \cup N
  BY <1>0, ReleaseFacts
<1>4. r \notin forgotten' => answers[r] = 0 /\ N = {n}
  <2>1. r \notin forgotten' => r \notin forgotten
    BY <1>3 DEF Remembers
  <2> QED BY <1>0, <1>3, <2>1 DEF RequestInv, Numbering, Called, Answered, n
<1>5. RequestTypes'
  <2>1. reply' \in [Request -> {"none", "held", "writing"}] /\ gen' \in [Request -> 0..MaxConn]
    <3>1. reply \in [Request -> {"none", "held", "writing"}] /\ gen \in [Request -> 0..MaxConn]
      BY <1>0 DEF RequestInv, RequestTypes
    <3> QED BY <1>0, <3>1 DEF replyVars
  <2>2. pump' = pump /\ inFlight' \subseteq inFlight
    BY <1>0, <1>2
  <2> QED BY <1>0, <2>1, <2>2 DEF RequestInv, RequestTypes
<1>6. Called(r) /\ Called(r)' /\ \A x \in Request \ {r} : reply'[x] = reply[x]
  BY <1>0 DEF Called, replyVars, RequestInv, RequestTypes
<1>7. Numbering'
  <2>1. reply' \in [Request -> {"none", "held", "writing"}]
    BY <1>5 DEF RequestTypes
  <2> QED BY <1>0, <1>1, <1>3, <1>4, <1>6, <2>1, NumberingChanged DEF n
<1>8. Places'
  <2>1. r \notin inFlight' /\ inFlight' \subseteq inFlight
    BY <1>0, <1>2
  <2>2. \A x \in Request : reply'[x] # reply[x] => Called(x) /\ Called(x)' /\ x \notin inFlight'
    BY <1>6, <2>1
  <2> QED BY <1>0, <1>1, <2>1, <2>2, PlacesLeft
<1> QED BY <1>1, <1>3, <1>5, <1>7, <1>8 DEF RequestInv, Remembers, Table, Answers

LEMMA EndKeeps ==
  ASSUME QueryInv, NEW r \in Request, End(r)
  PROVE  RequestInv'
<1>0. /\ RequestInv /\ MaxConn \in Nat
      /\ reply[r] = "writing" /\ reply' = [reply EXCEPT ![r] = "held"]
      /\ gen' = [gen EXCEPT ![r] = 0]
      /\ Answer(r, "result") \/ UNCHANGED sentVars
      /\ UNCHANGED <<linkVars, reading, tableVars, pump, received, forgotten>>
  BY InvParts, QueryAssumption DEF End
<1>1. Answers({r})
  BY <1>0, AnswerFacts, NothingSent DEF RequestInv, sentVars, Answers
<1>2. Remembers({})
  BY <1>0, TableKept DEF RequestInv, tableVars
<1>3. RequestTypes'
  BY <1>0 DEF RequestInv, RequestTypes, tableVars
<1>4. Called(r) /\ Called(r)' /\ reply'[r] = "held" /\ \A x \in Request \ {r} : reply'[x] = reply[x]
  BY <1>0 DEF Called, RequestInv, RequestTypes
<1>5. Numbering'
  <2>1. r \notin forgotten => answers[r] = 0 /\ SeqOf[r] \in Invalid
    BY <1>0 DEF RequestInv, Numbering, Called, Answered
  <2>2. r \notin forgotten' => answers'[r] = 0 \/ answers'[r] = 1
    BY <1>0, <1>1, <2>1 DEF Answers
  <2>3. \A x \in Request \ {r} : answers'[x] = answers[x]
    BY <1>1 DEF Answers
  <2>4. reply' \in [Request -> {"none", "held", "writing"}]
    BY <1>3 DEF RequestTypes
  <2>5. inFlight' = inFlight /\ forgotten' = forgotten
    BY <1>0 DEF tableVars
  <2> QED BY <1>0, <1>1, <1>2, <1>4, <2>1, <2>2, <2>3, <2>4, <2>5, NumberingChanged
<1>6. Places'
  <2>1. r \notin inFlight' /\ inFlight' = inFlight /\ queue' = queue
    BY <1>0 DEF RequestInv, Places, tableVars
  <2>2. \A x \in Request : reply'[x] # reply[x] => Called(x) /\ Called(x)' /\ x \notin inFlight'
    BY <1>4, <2>1
  <2> QED BY <1>0, <1>1, <1>4, <2>1, <2>2, PlacesLeft
<1> QED BY <1>1, <1>2, <1>3, <1>5, <1>6 DEF RequestInv, Remembers, Table, Answers

---------------------------------------------------------------------------
(* The pump.                                                               *)
LEMMA DequeueNoneKeeps ==
  ASSUME QueryInv, DequeueNone
  PROVE  RequestInv'
<1>0. RequestInv
  BY InvParts
<1>1. Answers({}) /\ Remembers({})
  BY <1>0, NothingSent, TableKept DEF DequeueNone, RequestInv, tableVars, sentVars
<1>2. RequestTypes'
  BY <1>0 DEF DequeueNone, RequestInv, RequestTypes, tableVars, replyVars, Rest
<1>3. Numbering'
  BY <1>0, <1>1, NumberingKept DEF DequeueNone, replyVars, tableVars
<1>4. Places'
  <2>1. UNCHANGED <<linkVars, reading, queue, received>> /\ inFlight' = inFlight /\ reply' = reply /\ pump' = Rest
    BY DEF DequeueNone, tableVars, replyVars
  <2> QED BY <1>1, <2>1, PlacesLeft
<1> QED BY <1>1, <1>2, <1>3, <1>4 DEF RequestInv, Remembers, Table, Answers

LEMMA SuffixFacts ==
  ASSUME NEW q \in Seq(Request), NEW n \in 0..Len(q),
         \A j, k \in 1..Len(q) : q[j] = q[k] => j = k
  PROVE  LET p == SubSeq(q, n + 1, Len(q))
         IN /\ p \in Seq(Request) /\ Elements(p) \subseteq Elements(q)
            /\ \A j, k \in 1..Len(p) : p[j] = p[k] => j = k
            /\ \A k \in 1..n : q[k] \notin Elements(p)
<1> DEFINE p == SubSeq(q, n + 1, Len(q))
<1>0. Len(q) \in Nat /\ n \in Nat /\ n <= Len(q)
  OBVIOUS
<1>1. \A i \in (n + 1)..Len(q) : q[i] \in Request
  BY <1>0
<1>2. /\ p \in Seq(Request) /\ Len(p) = IF n + 1 <= Len(q) THEN Len(q) - (n + 1) + 1 ELSE 0
      /\ \A i \in 1..Len(q) - (n + 1) + 1 : p[i] = q[n + 1 + i - 1]
  BY <1>0, <1>1, SubSeqProperties
<1> HIDE DEF p
<1>3. Len(p) = Len(q) - n
  BY <1>0, <1>2
<1>4. \A i \in 1..Len(p) : i + n \in 1..Len(q) /\ p[i] = q[i + n] /\ i + n > n
  <2>1. ASSUME NEW i \in 1..Len(p) PROVE i + n \in 1..Len(q) /\ p[i] = q[i + n] /\ i + n > n
    <3>1. i \in 1..Len(q) - (n + 1) + 1 /\ n + 1 + i - 1 = i + n
      BY <1>0, <1>3
    <3>2. p[i] = q[i + n]
      BY <1>2, <3>1
    <3> QED BY <1>0, <1>3, <3>2
  <2> QED BY <2>1
<1>5. \A j, k \in 1..Len(p) : p[j] = p[k] => j = k
  <2>1. ASSUME NEW j \in 1..Len(p), NEW k \in 1..Len(p), p[j] = p[k] PROVE j = k
    <3>1. j + n = k + n
      BY <1>4, <2>1
    <3> QED BY <1>0, <1>3, <3>1
  <2> QED BY <2>1
<1>6. \A k \in 1..n : q[k] \notin Elements(p)
  <2>1. ASSUME NEW k \in 1..n, NEW i \in 1..Len(p) PROVE q[k] # p[i]
    <3>1. k \in 1..Len(q) /\ k <= n /\ k \in Nat
      BY <1>0
    <3>2. i + n \in 1..Len(q) /\ p[i] = q[i + n] /\ i + n > n /\ i + n \in Nat
      BY <1>0, <1>4
    <3>3. k # i + n
      BY <1>0, <3>1, <3>2
    <3> QED BY <3>1, <3>2, <3>3
  <2> QED BY <2>1 DEF Elements
<1>7. Elements(p) \subseteq Elements(q)
  <2>1. ASSUME NEW i \in 1..Len(p) PROVE p[i] \in Elements(q)
    BY <1>4 DEF Elements
  <2> QED BY <2>1 DEF Elements
<1> QED BY <1>2, <1>5, <1>6, <1>7 DEF p

LEMMA DequeueKeeps ==
  ASSUME QueryInv, Dequeue
  PROVE  RequestInv'
<1> DEFINE r == Head(queue)
<1>0. /\ RequestInv /\ queue \in Seq(Request) /\ queue # <<>>
      /\ queue' = Tail(queue) /\ pump' = [pc |-> "dispatch", cur |-> r]
      /\ pump.pc \in {"idle", "dequeue"}
      /\ UNCHANGED <<linkVars, reading, inFlight, invalidated, replyVars, sentVars, received, forgotten>>
  BY InvParts DEF Dequeue, RequestInv, RequestTypes
<1>1. Len(queue) \in Nat /\ 1 \in 1..Len(queue) /\ 1 \in 0..Len(queue) /\ r = queue[1] /\ r \in Queued
  BY <1>0 DEF Queued, Elements
<1>2. /\ queue' \in Seq(Request) /\ Queued' \subseteq Queued /\ r \notin Queued'
      /\ \A j, k \in 1..Len(queue') : queue'[j] = queue'[k] => j = k
  <2>1. queue' = SubSeq(queue, 1 + 1, Len(queue))
    BY <1>0, TailIsSubSeq
  <2>2. \A j, k \in 1..Len(queue) : queue[j] = queue[k] => j = k
    BY <1>0 DEF RequestInv, Places
  <2>3. /\ SubSeq(queue, 1 + 1, Len(queue)) \in Seq(Request)
        /\ Elements(SubSeq(queue, 1 + 1, Len(queue))) \subseteq Elements(queue)
        /\ \A j, k \in 1..Len(SubSeq(queue, 1 + 1, Len(queue))) :
             SubSeq(queue, 1 + 1, Len(queue))[j] = SubSeq(queue, 1 + 1, Len(queue))[k] => j = k
        /\ \A k \in 1..1 : queue[k] \notin Elements(SubSeq(queue, 1 + 1, Len(queue)))
    BY <1>0, <1>1, <2>2, SuffixFacts
  <2>4. 1 \in 1..1 /\ Queued' = Elements(queue')
    BY DEF Queued, Elements
  <2> QED BY <1>1, <2>1, <2>3, <2>4 DEF Queued
<1> HIDE DEF r
<1>3. r \in Request /\ Fresh(r) /\ Queued \subseteq Request
  BY <1>0, <1>1, SequenceFacts DEF RequestInv, Places, Queued
<1>4. Answers({}) /\ Remembers({})
  BY <1>0, NothingSent, TableKept DEF RequestInv, sentVars
<1>5. RequestTypes'
  BY <1>0, <1>2, <1>3 DEF RequestInv, RequestTypes, replyVars
<1>6. Numbering'
  BY <1>0, <1>4, NumberingKept DEF replyVars
<1>7. Places'
  <2>1. \A x : (Fresh(x)' <=> Fresh(x)) /\ (Taken(x)' <=> x = r) /\ (Called(x)' <=> Called(x))
    BY <1>0 DEF Fresh, Taken, Called, replyVars, sentVars
  <2>2. \A c \in Conn : reading[c] # r \/ reading[c] = NoRequest
    BY <1>0, <1>1 DEF RequestInv, Places
  <2>3. \A c \in Conn : reading[c] # NoRequest => reading[c] \notin Queued'
    BY <1>0, <1>2 DEF RequestInv, Places
  <2>4. \A x \in Queued' : Fresh(x)' /\ ~Taken(x)'
    BY <1>0, <1>2, <2>1 DEF RequestInv, Places
  <2>5. pump'.pc = "dispatch" /\ pump'.cur = r
    BY <1>0
  <2>6. pump'.pc \in {"dispatch", "enter"} => pump'.cur \in Request /\ Fresh(pump.cur)'
    BY <1>3, <2>1, <2>5 DEF Fresh
  <2>7. \A c \in Conn : reading'[c] # NoRequest =>
          /\ ConnOf[reading'[c]] = c /\ Fresh(reading[c])'
          /\ reading'[c] \notin Queued' /\ ~Taken(reading[c])'
    BY <1>0, <2>1, <2>2, <2>3 DEF RequestInv, Places, Fresh, Taken
  <2> QED BY <1>0, <1>2, <2>4, <2>5, <2>6, <2>7 DEF RequestInv, Places, linkVars, replyVars, sentVars
<1> QED BY <1>4, <1>5, <1>6, <1>7 DEF RequestInv, Remembers, Table, Answers

LEMMA DispatchLiveKeeps ==
  ASSUME QueryInv, DispatchLive
  PROVE  RequestInv'
<1>0. /\ RequestInv /\ pump.pc = "dispatch" /\ pump' = [pump EXCEPT !.pc = "enter"]
      /\ UNCHANGED <<linkVars, reading, tableVars, replyVars, sentVars, received, forgotten>>
  BY InvParts DEF DispatchLive
<1>1. Answers({}) /\ Remembers({})
  BY <1>0, NothingSent, TableKept DEF RequestInv, tableVars, sentVars
<1>2. /\ pump.cur \in Request /\ pump'.cur = pump.cur /\ pump'.pc = "enter"
      /\ pump' \in [pc : {"idle", "dequeue", "dispatch", "enter", "handler"},
                    cur : Request \cup {NoRequest}]
  BY <1>0 DEF RequestInv, RequestTypes, Places
<1>3. RequestTypes'
  BY <1>0, <1>2 DEF RequestInv, RequestTypes, tableVars, replyVars
<1>4. Numbering'
  BY <1>0, <1>1, NumberingKept DEF replyVars, tableVars
<1>5. Places'
  <2>1. \A x : (Fresh(x)' <=> Fresh(x)) /\ (Taken(x)' <=> Taken(x)) /\ (Called(x)' <=> Called(x))
    BY <1>0, <1>2 DEF Fresh, Taken, Called, replyVars, sentVars, tableVars
  <2>2. Queued' = Queued /\ pump'.pc # "handler"
    BY <1>0, <1>2 DEF Queued, tableVars, Elements
  <2>3. ASSUME NEW c \in Conn, reading'[c] # NoRequest
        PROVE  /\ ConnOf[reading'[c]] = c /\ Fresh(reading[c])'
               /\ reading'[c] \notin Queued' /\ ~Taken(reading[c])'
    BY <1>0, <1>2, <2>1, <2>2, <2>3 DEF RequestInv, Places, Fresh, Taken
  <2>4. Fresh(pump.cur)'
    BY <1>0, <1>2, <2>1 DEF RequestInv, Places, Fresh
  <2> QED BY <1>0, <1>2, <2>1, <2>2, <2>3, <2>4
          DEF RequestInv, Places, linkVars, tableVars, replyVars, sentVars
<1> QED BY <1>1, <1>3, <1>4, <1>5 DEF RequestInv, Remembers, Table, Answers

(* The handler is called: the number is in flight from now on.             *)
LEMMA DispatchKeeps ==
  ASSUME QueryInv, Dispatch
  PROVE  RequestInv'
<1>a. PICK r \in Request : r = pump.cur
  BY InvParts DEF Dispatch, RequestInv, Places
<1> DEFINE n == SeqOf[r]
<1>0. /\ RequestInv /\ r \in Request /\ Fresh(r) /\ Taken(r) /\ r \in Numbered(n)
      /\ inFlight' = (inFlight \ Numbered(n)) \cup {r}
      /\ pump' = [pump EXCEPT !.pc = "handler"]
      /\ reply' = [reply EXCEPT ![r] = "held"]
      /\ UNCHANGED <<linkVars, reading, queue, invalidated, gen, sentVars, received, forgotten>>
  BY <1>a, InvParts, NumbersAreNatural DEF Dispatch, RequestInv, Places, Taken
<1>1. pump'.pc = "handler" /\ pump'.cur = r
  BY <1>a, <1>0 DEF RequestInv, RequestTypes
<1>2. n \in Numbers(inFlight')
  BY <1>0 DEF Numbers
<1>3. \A x \in Request : SeqOf[x] \in Numbers(inFlight) => SeqOf[x] \in Numbers(inFlight')
  BY <1>0 DEF Numbers, Numbered
<1>4. pump' \in [pc : {"idle", "dequeue", "dispatch", "enter", "handler"},
                 cur : Request \cup {NoRequest}]
  BY <1>0 DEF RequestInv, RequestTypes
<1>5. Answers({}) /\ Answers({r}) /\ Remembers({}) /\ answers' = answers
  BY <1>0, NothingSent, TableKept DEF RequestInv, sentVars, Answers
<1>6. reply'[r] = "held" /\ \A x \in Request \ {r} : reply'[x] = reply[x]
  BY <1>0 DEF RequestInv, RequestTypes
<1>7. RequestTypes'
  BY <1>0, <1>4 DEF RequestInv, RequestTypes
<1>8. Numbering'
  <2>1. Called(r)' /\ answers'[r] = 0 /\ ~Answered(r)'
    BY <1>0, <1>5, <1>6 DEF Called, Fresh, Answered
  <2>2. reply' \in [Request -> {"none", "held", "writing"}]
    BY <1>7 DEF RequestTypes
  <2> QED BY <1>0, <1>2, <1>3, <1>5, <1>6, <2>1, <2>2, NumberingChanged
<1>9. Places'
  <2>1. \A x \in Request \ {r} : (Fresh(x) => Fresh(x)') /\ (Called(x)' <=> Called(x))
    BY <1>0, <1>5, <1>6 DEF Fresh, Called
  <2>2. \A x : ~Taken(x)'
    BY <1>1 DEF Taken
  <2>3. Queued' = Queued /\ Queued \subseteq Request /\ r \notin Queued /\ r \in received
    BY <1>0, SequenceFacts DEF Queued, Elements, RequestInv, RequestTypes, Places, Fresh
  <2>4. ASSUME NEW c \in Conn, reading'[c] # NoRequest
        PROVE  /\ ConnOf[reading'[c]] = c /\ Fresh(reading[c])'
               /\ reading'[c] \notin Queued' /\ ~Taken(reading[c])'
    <3>1. reading[c] \in Request /\ Fresh(reading[c]) /\ ~Taken(reading[c])
      BY <1>0, <2>4 DEF RequestInv, RequestTypes, Places
    <3>2. reading[c] # r /\ reading'[c] = reading[c]
      BY <1>0, <3>1
    <3>3. Fresh(reading[c])'
      BY <2>1, <3>1, <3>2 DEF Fresh
    <3> QED BY <1>0, <2>2, <2>3, <2>4, <3>2, <3>3 DEF RequestInv, Places, Taken
  <2>5. \A x \in Queued' : Fresh(x)' /\ ~Taken(x)'
    BY <1>0, <2>1, <2>2, <2>3 DEF RequestInv, Places
  <2>6. ASSUME NEW x \in inFlight' PROVE reply'[x] = "held" /\ answers'[x] = 0
    BY <1>0, <1>5, <1>6 DEF RequestInv, RequestTypes, Places, Fresh
  <2>7. \A x \in Request \ received' : reply'[x] = "none" /\ answers'[x] = 0
    BY <1>0, <1>5, <1>6, <2>3 DEF RequestInv, Places
  <2>8. pump'.cur \in Request /\ Called(pump.cur)'
    BY <1>0, <1>1, <1>6 DEF Called
  <2> QED BY <1>0, <1>1, <2>4, <2>5, <2>6, <2>7, <2>8 DEF RequestInv, Places, linkVars
<1> QED BY <1>5, <1>7, <1>8, <1>9 DEF RequestInv, Remembers, Table, Answers

LEMMA AppendFacts ==
  ASSUME NEW q \in Seq(Request), NEW r \in Request \ Elements(q),
         \A j, k \in 1..Len(q) : q[j] = q[k] => j = k
  PROVE  /\ Append(q, r) \in Seq(Request)
         /\ Elements(Append(q, r)) = Elements(q) \cup {r}
         /\ \A j, k \in 1..Len(Append(q, r)) : Append(q, r)[j] = Append(q, r)[k] => j = k
<1> DEFINE p == Append(q, r)
           m == Len(q) + 1
<1>1. /\ p \in Seq(Request) /\ Len(p) = m /\ m \in Nat /\ m \in 1..m /\ p[m] = r
      /\ \A k \in 1..Len(q) : p[k] = q[k] /\ k \in 1..m /\ k # m
  OBVIOUS
<1>2. \A k \in 1..m : k = m \/ k \in 1..Len(q)
  OBVIOUS
<1> HIDE DEF p, m
<1>3. \A k \in 1..Len(q) : p[k] # r
  BY <1>1 DEF Elements
<1>4. ASSUME NEW x \in Elements(p) PROVE x \in Elements(q) \cup {r}
  BY <1>1, <1>2 DEF Elements
<1>5. ASSUME NEW x \in Elements(q) \cup {r} PROVE x \in Elements(p)
  BY <1>1 DEF Elements
<1>6. ASSUME NEW j \in 1..Len(p), NEW k \in 1..Len(p), p[j] = p[k] PROVE j = k
  BY <1>1, <1>2, <1>3, <1>6
<1> QED BY <1>1, <1>4, <1>5, <1>6 DEF p

LEMMA AddKeeps ==
  ASSUME QueryInv, NEW c \in Conn, Add(c)
  PROVE  RequestInv'
<1>a. PICK r \in Request : r = reading[c]
  BY InvParts DEF Add, RequestInv, RequestTypes
<1>0. /\ RequestInv /\ r # NoRequest /\ ConnOf[r] = c
      /\ Fresh(r) /\ ~Taken(r) /\ r \notin Queued
      /\ reading' = [reading EXCEPT ![c] = NoRequest]
      /\ \/ Answer(r, "error") /\ queue' = queue
         \/ queue' = Append(queue, r) /\ UNCHANGED sentVars
      /\ UNCHANGED <<linkVars, inFlight, invalidated, pump, replyVars, received, forgotten>>
  <2>1. ConnOf[r] = c /\ Fresh(r) /\ ~Taken(r) /\ r \notin Queued
    BY <1>a, InvParts DEF Add, RequestInv, Places
  <2> QED BY <1>a, <2>1, InvParts DEF Add
<1>1. \A d \in Conn : d # c => reading'[d] = reading[d] /\ reading[d] # r
  BY <1>0 DEF RequestInv, RequestTypes, Places
<1>2. reading'[c] = NoRequest
  BY <1>0 DEF RequestInv, RequestTypes
<1>3. Answers({r}) /\ Remembers({})
  BY <1>0, AnswerFacts, NothingSent, TableKept DEF RequestInv, sentVars, Answers
<1>4. /\ queue' \in Seq(Request) /\ Queued' \subseteq Queued \cup {r}
      /\ \A j, k \in 1..Len(queue') : queue'[j] = queue'[k] => j = k
      /\ r \in Queued' => answers' = answers
  <2>1. queue \in Seq(Request) /\ \A j, k \in 1..Len(queue) : queue[j] = queue[k] => j = k
    BY <1>0 DEF RequestInv, RequestTypes, Places
  <2>2. Queued' = Elements(queue')
    BY DEF Queued, Elements
  <2>3. CASE queue' = queue
    BY <1>0, <2>1, <2>2, <2>3 DEF Queued
  <2>4. CASE queue' = Append(queue, r) /\ UNCHANGED sentVars
    BY <1>0, <2>1, <2>2, <2>4, AppendFacts DEF Queued, sentVars
  <2> QED BY <1>0, <2>3, <2>4
<1>5. RequestTypes'
  BY <1>0, <1>4 DEF RequestInv, RequestTypes, replyVars
<1>6. Numbering'
  BY <1>0, <1>3, NumberingKept DEF replyVars, Fresh, Called
<1>7. Places'
  <2>1. \A x : (Taken(x)' <=> Taken(x)) /\ (Called(x)' <=> Called(x))
    BY <1>0 DEF Taken, Called, replyVars
  <2>2. \A x \in Request \ {r} : Fresh(x) => Fresh(x)'
    BY <1>0, <1>3 DEF Fresh, Answers, replyVars
  <2>3. Queued \subseteq Request /\ inFlight \subseteq Request
    BY <1>0, SequenceFacts DEF Queued, RequestInv, RequestTypes
  <2>4. ASSUME NEW d \in Conn, reading'[d] # NoRequest
        PROVE  /\ ConnOf[reading'[d]] = d /\ Fresh(reading[d])'
               /\ reading'[d] \notin Queued' /\ ~Taken(reading[d])'
    <3>1. d # c /\ reading'[d] = reading[d] /\ reading[d] \in Request \ {r}
      BY <1>0, <1>1, <1>2, <2>4 DEF RequestInv, RequestTypes
    <3>2. Fresh(reading[d]) /\ ~Taken(reading[d]) /\ ConnOf[reading[d]] = d /\ reading[d] \notin Queued
      BY <1>0, <2>4, <3>1 DEF RequestInv, Places
    <3>3. Fresh(reading[d])'
      BY <2>2, <3>1, <3>2 DEF Fresh
    <3> QED BY <1>4, <2>1, <3>1, <3>2, <3>3 DEF Taken
  <2>5. ASSUME NEW x \in Queued' PROVE Fresh(x)' /\ ~Taken(x)'
    <3>1. CASE x = r
      <4>1. answers' = answers
        BY <1>4, <2>5, <3>1
      <4> QED BY <1>0, <2>1, <3>1, <4>1 DEF Fresh, replyVars
    <3>2. CASE x # r
      BY <1>0, <1>4, <2>1, <2>2, <2>3, <2>5, <3>2 DEF RequestInv, Places
    <3> QED BY <3>1, <3>2
  <2>6. \A x \in inFlight' : reply'[x] = "held" /\ answers'[x] = 0
    BY <1>0, <1>3, <2>3 DEF RequestInv, Places, Answers, replyVars, Fresh
  <2>7. \A x \in Request \ received' : reply'[x] = "none" /\ answers'[x] = 0
    BY <1>0, <1>3 DEF RequestInv, Places, Answers, replyVars, Fresh
  <2>8. pump'.pc \in {"dispatch", "enter"} => pump'.cur \in Request /\ Fresh(pump.cur)'
    BY <1>0, <2>2 DEF RequestInv, Places, Taken, Fresh
  <2>9. pump'.pc = "handler" => pump'.cur \in Request /\ Called(pump.cur)'
    BY <1>0, <2>1 DEF RequestInv, Places, Called
  <2>10. \A x \in received' : ConnOf[x] <= opened'
    BY <1>0 DEF RequestInv, Places, linkVars
  <2> QED BY <1>4, <2>4, <2>5, <2>6, <2>7, <2>8, <2>9, <2>10 DEF Places
<1> QED BY <1>3, <1>5, <1>6, <1>7 DEF RequestInv, Remembers, Table, Answers

(* The last link closes: every request that was read loses its number.     *)
LEMMA CloseKeeps ==
  ASSUME QueryInv, NEW c \in Conn, Close(c)
  PROVE  RequestInv'
<1>0. RequestInv /\ opened \in Nat /\ UNCHANGED <<opened, life, reading, pump, sentVars, received>>
  BY InvParts, QueryAssumption DEF LinkTypes, Close
<1>1. Answers({})
  BY <1>0, NothingSent DEF RequestInv, sentVars
<1>2. CASE Links # {c}
  BY <1>0, <1>1, <1>2, RequestsStay DEF Close
<1>3. CASE Links = {c}
  <2>0. /\ queue' = <<>> /\ inFlight' = {} /\ invalidated' = <<>>
        /\ reply' = [r \in Request |-> IF reply[r] = "writing" THEN "held" ELSE reply[r]]
        /\ gen' = [r \in Request |-> IF reply[r] = "writing" THEN 0 ELSE gen[r]]
        /\ forgotten' = forgotten \cup {r \in Request : ConnOf[r] <= opened}
    BY <1>3 DEF Close
  <2>1. Table' /\ Sent'
    BY <1>0, <1>1, <2>0, QueryAssumption DEF RequestInv, Table, Answers
  <2>2. gen' \in [Request -> 0..MaxConn]
    <3>1. \A r \in Request : gen[r] \in 0..MaxConn /\ 0 \in 0..MaxConn
      BY <1>0, QueryAssumption DEF RequestInv, RequestTypes
    <3> QED BY <2>0, <3>1
  <2>3. reply' \in [Request -> {"none", "held", "writing"}]
    BY <1>0, <2>0 DEF RequestInv, RequestTypes
  <2>4. RequestTypes'
    BY <1>0, <2>0, <2>2, <2>3 DEF RequestInv, RequestTypes
  <2>5. \A x \in Request : reply'[x] = "none" <=> reply[x] = "none"
    BY <2>0
  <2>6. answers' = answers
    BY <1>0 DEF sentVars
  <2>7. Numbering'
    <3>1. \A x \in Request \ forgotten' : x \notin received /\ reply'[x] = "none"
      BY <1>0, <2>0, <2>5 DEF RequestInv, Places
    <3> QED BY <1>0, <2>5, <2>6, <3>1 DEF RequestInv, Numbering, Called
  <2>8. Places'
    <3>1. \A x \in Request : /\ Fresh(x) => Fresh(x)'
                             /\ Taken(x)' <=> Taken(x)
                             /\ Called(x)' <=> Called(x)
      BY <1>0, <2>0, <2>5, <2>6 DEF Fresh, Taken, Called
    <3>2. Queued' = {} /\ Len(queue') = 0
      BY <2>0 DEF Queued, Elements
    <3>3. \A d \in Conn : reading[d] # NoRequest => reading[d] \in Request
      BY <1>0 DEF RequestInv, RequestTypes
    <3>4. ASSUME NEW d \in Conn, reading'[d] # NoRequest
          PROVE  /\ ConnOf[reading'[d]] = d /\ Fresh(reading[d])'
                 /\ reading'[d] \notin Queued' /\ ~Taken(reading[d])'
      BY <1>0, <3>1, <3>2, <3>3, <3>4 DEF RequestInv, Places, Fresh, Taken
    <3>5. \A x \in Request \ received' : reply'[x] = "none" /\ answers'[x] = 0
      BY <1>0, <2>5, <2>6 DEF RequestInv, Places
    <3>6. pump'.pc \in {"dispatch", "enter"} => pump'.cur \in Request /\ Fresh(pump.cur)'
      BY <1>0, <3>1 DEF RequestInv, Places, Fresh
    <3>7. pump'.pc = "handler" => pump'.cur \in Request /\ Called(pump.cur)'
      BY <1>0, <3>1 DEF RequestInv, Places, Called
    <3>8. \A x \in received' : ConnOf[x] <= opened'
      BY <1>0 DEF RequestInv, Places
    <3>9. \A x \in inFlight' : reply'[x] = "held" /\ answers'[x] = 0
      BY <2>0
    <3>10. \A j, k \in 1..Len(queue') : queue'[j] = queue'[k] => j = k
      BY <3>2
    <3> QED BY <3>2, <3>4, <3>5, <3>6, <3>7, <3>8, <3>9, <3>10 DEF Places
  <2> QED BY <2>1, <2>4, <2>7, <2>8 DEF RequestInv
<1> QED BY <1>2, <1>3

LEMMA PrefixFacts ==
  ASSUME NEW q \in Seq(Request), NEW n \in 0..Len(q)
  PROVE  /\ SubSeq(q, 1, n) \in Seq(Request) /\ Len(SubSeq(q, 1, n)) = n
         /\ \A k \in 1..n : SubSeq(q, 1, n)[k] = q[k] /\ k \in 1..Len(q)
         /\ Elements(SubSeq(q, 1, n)) \subseteq Elements(q)
<1>0. Len(q) \in Nat /\ n \in Nat /\ n <= Len(q) /\ \A k \in 1..n : k \in 1..Len(q)
  OBVIOUS
<1>1. \A i \in 1..n : q[i] \in Request
  BY <1>0
<1> DEFINE p == SubSeq(q, 1, n)
<1>2. /\ p \in Seq(Request) /\ Len(p) = IF 1 <= n THEN n - 1 + 1 ELSE 0
      /\ \A i \in 1..n - 1 + 1 : p[i] = q[1 + i - 1]
  BY <1>0, <1>1, SubSeqProperties
<1> HIDE DEF p
<1>3. Len(p) = n /\ \A k \in 1..n : p[k] = q[k]
  BY <1>0, <1>2
<1>4. Elements(p) \subseteq Elements(q)
  BY <1>0, <1>3 DEF Elements
<1> QED BY <1>0, <1>2, <1>3, <1>4 DEF p

(* Two sequences without repetition that have nothing in common.           *)
LEMMA ConcatFacts ==
  ASSUME NEW p \in Seq(Request), NEW q \in Seq(Request),
         \A j, k \in 1..Len(p) : p[j] = p[k] => j = k,
         \A j, k \in 1..Len(q) : q[j] = q[k] => j = k,
         Elements(p) \cap Elements(q) = {}
  PROVE  /\ p \o q \in Seq(Request) /\ Elements(p \o q) = Elements(p) \cup Elements(q)
         /\ \A j, k \in 1..Len(p \o q) : (p \o q)[j] = (p \o q)[k] => j = k
<1> DEFINE s == p \o q
           l == Len(p)
<1>1. /\ s \in Seq(Request) /\ l \in Nat /\ Len(q) \in Nat /\ Len(s) = l + Len(q)
      /\ \A k \in 1..l : s[k] = p[k]
      /\ \A k \in 1..Len(q) : s[l + k] = q[k]
  OBVIOUS
<1> HIDE DEF s
<1>2. ASSUME NEW k \in 1..Len(s)
      PROVE  \/ k \in 1..l /\ s[k] = p[k]
             \/ k - l \in 1..Len(q) /\ s[k] = q[k - l]
  <2>1. CASE k <= l
    BY <1>1, <2>1
  <2>2. CASE k > l
    <3>1. k - l \in 1..Len(q) /\ l + (k - l) = k
      BY <1>1, <2>2
    <3>2. s[l + (k - l)] = q[k - l]
      BY <1>1, <3>1
    <3> QED BY <3>1, <3>2
  <2> QED BY <1>1, <2>1, <2>2
<1>3. Elements(s) = Elements(p) \cup Elements(q)
  <2>1. ASSUME NEW k \in 1..Len(s) PROVE s[k] \in Elements(p) \cup Elements(q)
    BY <1>2 DEF Elements
  <2>2. ASSUME NEW k \in 1..Len(p) PROVE p[k] \in Elements(s)
    <3>1. k \in 1..Len(s)
      BY <1>1
    <3> QED BY <1>1, <3>1 DEF Elements
  <2>3. ASSUME NEW k \in 1..Len(q) PROVE q[k] \in Elements(s)
    <3>1. l + k \in 1..Len(s)
      BY <1>1
    <3> QED BY <1>1, <3>1 DEF Elements
  <2>4. Elements(s) \subseteq Elements(p) \cup Elements(q)
    BY <2>1 DEF Elements
  <2>5. Elements(p) \subseteq Elements(s)
    BY <2>2 DEF Elements
  <2>6. Elements(q) \subseteq Elements(s)
    BY <2>3 DEF Elements
  <2> QED BY <2>4, <2>5, <2>6
<1>4. ASSUME NEW j \in 1..Len(s), NEW k \in 1..Len(s), s[j] = s[k] PROVE j = k
  <2>1. CASE j \in 1..l /\ s[j] = p[j] /\ k \in 1..l /\ s[k] = p[k]
    BY <1>4, <2>1
  <2>2. CASE j - l \in 1..Len(q) /\ s[j] = q[j - l] /\ k - l \in 1..Len(q) /\ s[k] = q[k - l]
    <3>1. j - l = k - l
      BY <1>4, <2>2
    <3> QED BY <1>1, <3>1
  <2>3. \A x \in 1..Len(p), y \in 1..Len(q) : p[x] # q[y]
    BY DEF Elements
  <2> QED BY <1>2, <1>4, <2>1, <2>2, <2>3
<1> QED BY <1>1, <1>3, <1>4 DEF s

LEMMA TakeTimeoutsKeeps ==
  ASSUME QueryInv, NEW n \in 0..Len(queue), NEW q \in Arrangements(inFlight), TakeTimeouts(n, q)
  PROVE  RequestInv'
<1> DEFINE p    == SubSeq(queue, 1, n)
           late == p \o q
           S    == Elements(late)
<1>0. /\ RequestInv /\ queue \in Seq(Request) /\ inFlight \subseteq Request
      /\ inFlight' = inFlight \ Elements(q) /\ queue' = SubSeq(queue, n + 1, Len(queue))
      /\ InvalidateAll(S) /\ AnswerAll(late, "error")
      /\ pump.pc = "idle" /\ pump' = [pump EXCEPT !.pc = "dequeue"]
      /\ UNCHANGED <<linkVars, reading, replyVars, received>>
  BY InvParts DEF TakeTimeouts, Due, Remaining, RequestInv, RequestTypes
<1>1. \A j, k \in 1..Len(queue) : queue[j] = queue[k] => j = k
  BY <1>0 DEF RequestInv, Places
<1>2. /\ p \in Seq(Request) /\ Len(p) = n /\ Elements(p) \subseteq Queued
      /\ \A j, k \in 1..Len(p) : p[j] = p[k] => j = k
      /\ \A k \in 1..n : p[k] = queue[k]
  BY <1>0, <1>1, PrefixFacts DEF Queued
<1>3. /\ q \in Seq(Request) /\ Elements(q) \subseteq inFlight
      /\ \A j, k \in 1..Len(q) : q[j] = q[k] => j = k
  <2>1. PICK m \in 0..Cardinality(inFlight) : q \in [1..m -> inFlight]
    BY DEF Arrangements
  <2>2. q \in Seq(inFlight)
    BY <2>1
  <2> QED BY <1>0, <2>2 DEF Arrangements, Elements
<1>4. \A x \in Queued : x \in Request /\ Fresh(x) /\ ~Called(x)
  BY <1>0, SequenceFacts DEF RequestInv, Places, Queued, Fresh, Called
<1>5. \A x \in inFlight : Called(x) /\ answers[x] = 0 /\ reply[x] = "held"
  BY <1>0 DEF RequestInv, Places, Called
<1>6. /\ late \in Seq(Request) /\ S = Elements(p) \cup Elements(q)
      /\ \A j, k \in 1..Len(late) : late[j] = late[k] => j = k
  <2>1. Elements(p) \cap Elements(q) = {}
    BY <1>2, <1>3, <1>4, <1>5
  <2> HIDE DEF p
  <2> QED BY <1>2, <1>3, <2>1, ConcatFacts
<1> HIDE DEF late
<1>7. S \in SUBSET Request /\ Answers(S) /\ Remembers(Numbers(S))
  <2>1. S \in SUBSET Request
    BY <1>6, SequenceFacts
  <2>2. Answers(S)
    BY <1>0, <1>6, AnswerAllFacts DEF RequestInv
  <2> HIDE DEF S
  <2>3. Remembers(Numbers(S))
    BY <1>0, <2>1, InvalidateAllFacts DEF RequestInv
  <2> QED BY <2>1, <2>2, <2>3
<1>8. /\ queue' \in Seq(Request) /\ Queued' \subseteq Queued
      /\ \A j, k \in 1..Len(queue') : queue'[j] = queue'[k] => j = k
      /\ \A x \in Queued' : x \notin Elements(p)
  <2>1. /\ queue' \in Seq(Request) /\ Elements(queue') \subseteq Elements(queue)
        /\ \A j, k \in 1..Len(queue') : queue'[j] = queue'[k] => j = k
        /\ \A k \in 1..n : queue[k] \notin Elements(queue')
    BY <1>0, <1>1, SuffixFacts
  <2>2. Queued' = Elements(queue')
    BY DEF Queued, Elements
  <2> HIDE DEF p
  <2>3. \A x \in Elements(p) : \E k \in 1..n : x = queue[k]
    BY <1>2 DEF Elements
  <2> QED BY <2>1, <2>2, <2>3 DEF Queued
<1> HIDE DEF p, S
<1>9. \A x \in S : (~Called(x) => x \in Elements(p) /\ answers[x] = 0)
                   /\ (Called(x) => x \in inFlight /\ x \in Elements(q))
  BY <1>2, <1>3, <1>4, <1>5, <1>6 DEF Fresh
<1>10. RequestTypes'
  <2>1. pump' \in [pc : {"idle", "dequeue", "dispatch", "enter", "handler"},
                   cur : Request \cup {NoRequest}]
    BY <1>0 DEF RequestInv, RequestTypes
  <2> QED BY <1>0, <1>8, <2>1 DEF RequestInv, RequestTypes, replyVars
<1>11. Numbering'
  <2>1. ASSUME NEW x \in Request, SeqOf[x] \in Numbers(inFlight)
        PROVE  SeqOf[x] \in Numbers(inFlight') \cup Numbers(S)
    <3>1. PICK y \in inFlight : SeqOf[y] = SeqOf[x]
      BY <2>1 DEF Numbers
    <3>2. y \in inFlight' \/ y \in S
      BY <1>0, <1>6
    <3> QED BY <3>1, <3>2 DEF Numbers
  <2>2. \A x \in S : SeqOf[x] \in Numbers(S)
    BY DEF Numbers
  <2>3. /\ \A x \in S : ~Called(x) => answers[x] = 0
        /\ \A x \in S : Called(x) /\ x \notin forgotten' =>
             answers[x] = 0 /\ reply[x] = "held" /\ SeqOf[x] \in Numbers(S)
    BY <1>5, <1>9, <2>2
  <2> QED BY <1>0, <1>7, <2>1, <2>3, NumberingKept DEF replyVars
<1>12. Places'
  <2>1. \A x : ~Taken(x)' /\ (Called(x)' <=> Called(x))
    BY <1>0 DEF Taken, Called, replyVars, RequestInv, RequestTypes
  <2>2. ASSUME NEW x \in Request \ S, Fresh(x) PROVE Fresh(x)'
    BY <1>0, <1>7, <2>2 DEF Fresh, Answers, replyVars
  <2>3. ASSUME NEW d \in Conn, reading'[d] # NoRequest
        PROVE  /\ ConnOf[reading'[d]] = d /\ Fresh(reading[d])'
               /\ reading'[d] \notin Queued' /\ ~Taken(reading[d])'
    <3>1. /\ reading[d] \in Request /\ reading'[d] = reading[d] /\ ConnOf[reading[d]] = d
          /\ Fresh(reading[d]) /\ reading[d] \notin Queued
      BY <1>0, <2>3 DEF RequestInv, RequestTypes, Places
    <3>2. reading[d] \notin S
      BY <1>2, <1>9, <3>1 DEF Fresh
    <3>3. Fresh(reading[d])'
      BY <2>2, <3>1, <3>2 DEF Fresh
    <3> QED BY <1>8, <2>1, <3>1, <3>3
  <2>4. ASSUME NEW x \in Queued' PROVE Fresh(x)' /\ ~Taken(x)'
    <3>1. x \in Request \ S /\ Fresh(x)
      BY <1>4, <1>5, <1>8, <1>9, <2>4
    <3> QED BY <2>1, <2>2, <3>1
  <2>5. ASSUME NEW x \in inFlight' PROVE reply'[x] = "held" /\ answers'[x] = 0
    <3>1. x \in Request \ S /\ answers[x] = 0 /\ reply[x] = "held"
      BY <1>0, <1>5, <1>9, <2>5
    <3> QED BY <1>0, <1>7, <3>1 DEF Answers, replyVars
  <2>6. ASSUME NEW x \in Request \ received' PROVE reply'[x] = "none" /\ answers'[x] = 0
    <3>1. x \notin S /\ reply[x] = "none" /\ answers[x] = 0
      BY <1>0, <1>2, <1>4, <1>9 DEF RequestInv, Places, Fresh, Called
    <3> QED BY <1>0, <1>7, <3>1 DEF Answers, replyVars
  <2>7. pump'.pc = "dequeue"
    BY <1>0 DEF RequestInv, RequestTypes
  <2>8. \A x \in received' : ConnOf[x] <= opened'
    BY <1>0 DEF RequestInv, Places, linkVars
  <2> QED BY <1>8, <2>3, <2>4, <2>5, <2>6, <2>7, <2>8 DEF Places
<1> QED BY <1>7, <1>10, <1>11, <1>12 DEF RequestInv, Remembers, Table, Answers

---------------------------------------------------------------------------
LEMMA QueryInvInit == QueryInit => QueryInv
<1> SUFFICES ASSUME QueryInit PROVE QueryInv
  OBVIOUS
<1>0. NoRequest \notin Request /\ MaxConn \in Nat /\ MaxInvalidated \in Nat
  BY QueryAssumption
<1>1. QueryTypeOK
  BY <1>0 DEF QueryInit, QueryTypeOK, Rest
<1>2. Places
  BY DEF QueryInit, Places, Queued, Elements, Taken, Fresh, Rest
<1>3. Numbering
  BY DEF QueryInit, Numbering, Called
<1> QED BY <1>1, <1>2, <1>3 DEF QueryInv

LEMMA QueryInvStep ==
  ASSUME QueryInv, [QueryNext]_queryVars
  PROVE  QueryInv'
<1>1. LinkTypes'
  BY InvParts, LinkTypesKept
<1>2. ASSUME Pump PROVE RequestInv'
  BY <1>2, TakeTimeoutsKeeps, DequeueNoneKeeps, DequeueKeeps, DispatchDeadKeeps,
     DispatchLiveKeeps, DispatchKeeps, HandlerReturnsKeeps, HandlerFailsKeeps DEF Pump
<1>3. ASSUME NEW r \in Request, Handler(r) PROVE RequestInv'
  BY <1>3, DiscardKeeps, StartResultKeeps, EndKeeps, RejectRequestKeeps DEF Handler
<1>4. RequestInv'
  BY <1>2, <1>3, LinkStepsKeep, CloseKeeps, AddKeeps, ReceiveKeeps DEF QueryNext, QueryStep
<1>5. QueryInv' <=> LinkTypes' /\ RequestInv'
  BY InvParts, PTL
<1> QED BY <1>1, <1>4, <1>5

LEMMA QueryInvAlways == QuerySpec => []QueryInv
BY QueryInvInit, QueryInvStep, PTL DEF QuerySpec

(***************************************************************************)
(* The variables of the queue have their types, and the table of           *)
(* invalidated numbers stays within its limit.                             *)
(***************************************************************************)
THEOREM QueryTypeCorrect == QuerySpec => []QueryTypeOK
BY QueryInvAlways, PTL DEF QueryInv

(***************************************************************************)
(* A request whose number is kept has at most one answer written for it,   *)
(* whichever of its timeouts, its handler and the end of its instance      *)
(* comes first.                                                            *)
(***************************************************************************)
THEOREM AnsweredOnceCorrect == QuerySpec => []AnsweredOnce
<1>1. QueryInv => AnsweredOnce
  BY DEF QueryInv, Numbering, AnsweredOnce
<1> QED BY <1>1, QueryInvAlways, PTL

(***************************************************************************)
(* The handler of a request is called once, and before any answer to it.   *)
(***************************************************************************)
THEOREM CalledInTimeCorrect == QuerySpec => CalledInTime
<1> DEFINE InTime == pump.pc = "enter" /\ pump'.pc = "handler" =>
                       reply[pump.cur] = "none" /\ answers[pump.cur] = 0
<1>1. QueryInv /\ [QueryNext]_queryVars => [InTime]_queryVars
  BY DEF QueryInv, Places, Fresh
<1> QED BY <1>1, QueryInvAlways, PTL DEF QuerySpec, CalledInTime

---------------------------------------------------------------------------
(* Why both limits together bound what is in flight: what is queued while  *)
(* one more is allowed will be in flight, and so will what the pump holds. *)
Held == IF pump.pc \in {"dispatch", "enter"} THEN 1 ELSE 0

Room ==
  /\ IsFiniteSet(inFlight) /\ Len(queue) <= MaxQueued
  /\ Cardinality(inFlight) + Len(queue) + Held <= MaxConcurrent + MaxQueued

(* A step that takes something out of any of the three and adds nothing.   *)
LEMMA RoomLeft ==
  ASSUME QueryTypeOK, Room, queue' \in Seq(Request), Len(queue') <= Len(queue),
         inFlight' \subseteq inFlight, Len(queue') + Held' <= Len(queue) + Held
  PROVE  Room'
<1>0. MaxConcurrent \in Nat /\ MaxQueued \in Nat
  BY QueryAssumption
<1>1. /\ IsFiniteSet(inFlight') /\ Cardinality(inFlight') \in Nat
      /\ Cardinality(inFlight) \in Nat /\ Cardinality(inFlight') <= Cardinality(inFlight)
  BY FS_Subset, FS_CardinalityType DEF Room
<1>2. Len(queue) \in Nat /\ Len(queue') \in Nat /\ Held \in Nat /\ Held' \in Nat
  BY DEF QueryTypeOK, Held
<1> QED BY <1>0, <1>1, <1>2 DEF Room

LEMMA RoomKept ==
  ASSUME QueryInv, Room, [QueryNext]_queryVars
  PROVE  Room'
<1>0. /\ MaxConcurrent \in Nat /\ MaxQueued \in Nat /\ QueryTypeOK /\ QueryTypeOK'
      /\ queue \in Seq(Request) /\ queue' \in Seq(Request)
      /\ Len(queue) \in Nat /\ Len(queue') \in Nat
      /\ IsFiniteSet(inFlight) /\ Cardinality(inFlight) \in Nat
  <2>1. QueryTypeOK /\ QueryTypeOK'
    BY QueryInvStep DEF QueryInv
  <2>2. queue \in Seq(Request) /\ queue' \in Seq(Request)
    BY <2>1 DEF QueryTypeOK
  <2>3. IsFiniteSet(inFlight) /\ Cardinality(inFlight) \in Nat
    BY FS_CardinalityType DEF Room
  <2>4. MaxConcurrent \in Nat /\ MaxQueued \in Nat
    BY QueryAssumption
  <2> QED BY <2>1, <2>2, <2>3, <2>4
<1>1. ASSUME UNCHANGED <<queue, inFlight, pump>> PROVE Room'
  BY <1>1 DEF Room, Held
<1>2. ASSUME UNCHANGED queue, inFlight' \subseteq inFlight, Held' <= Held PROVE Room'
  <2>1. Held \in Nat /\ Held' \in Nat
    BY DEF Held
  <2> QED BY <1>0, <1>2, <2>1, RoomLeft
<1>3. ASSUME NEW c \in Conn, Close(c) PROVE Room'
  <2>1. pump' = pump
    BY <1>3 DEF Close
  <2>2. CASE Links = {c}
    <3>1. queue' = <<>> /\ inFlight' = {}
      BY <1>3, <2>2 DEF Close
    <3>2. Len(queue') = 0 /\ Held' = Held /\ Held \in Nat
      BY <2>1, <3>1 DEF Held
    <3> QED BY <1>0, <3>1, <3>2, RoomLeft
  <2>3. CASE Links # {c}
    BY <1>1, <1>3, <2>1, <2>3 DEF Close, tableVars
  <2> QED BY <2>2, <2>3
<1>4. ASSUME NEW c \in Conn, Add(c) PROVE Room'
  <2>0. pump' = pump /\ inFlight' = inFlight /\ Held' = Held /\ Held \in 0..1
    BY <1>4 DEF Add, Held
  <2>1. CASE queue' = queue
    BY <1>1, <2>0, <2>1
  <2>2. CASE queue' # queue
    <3>1. ~Busy /\ queue' = Append(queue, reading[c])
      BY <1>4, <2>2 DEF Add
    <3>2. Len(queue') = Len(queue) + 1 /\ Len(queue) < MaxQueued /\ Cardinality(inFlight) < MaxConcurrent
      BY <1>0, <3>1 DEF Busy
    <3> QED BY <1>0, <2>0, <3>2 DEF Room
  <2> QED BY <2>1, <2>2
<1>5. ASSUME NEW n \in 0..Len(queue), NEW q \in Arrangements(inFlight), TakeTimeouts(n, q)
      PROVE  Room'
  <2>1. pump.pc = "idle" /\ pump'.pc = "dequeue"
    BY <1>5 DEF TakeTimeouts, Due, QueryInv, QueryTypeOK
  <2>2. inFlight' \subseteq inFlight /\ queue' = SubSeq(queue, n + 1, Len(queue))
    BY <1>5 DEF TakeTimeouts, Remaining
  <2>3. Len(queue') <= Len(queue)
    <3>1. Len(SubSeq(queue, n + 1, Len(queue))) = IF n + 1 <= Len(queue) THEN Len(queue) - (n + 1) + 1 ELSE 0
      <4>1. \A i \in n + 1..Len(queue) : queue[i] \in Request
        BY <1>0
      <4> QED BY <1>0, <4>1, SubSeqProperties
    <3> QED BY <1>0, <2>2, <3>1
  <2>4. Held = 0 /\ Held' = 0
    BY <2>1 DEF Held
  <2> QED BY <1>0, <2>2, <2>3, <2>4, RoomLeft
<1>6. ASSUME Dequeue PROVE Room'
  <2>1. /\ pump.pc \in {"idle", "dequeue"} /\ pump'.pc = "dispatch"
        /\ queue # <<>> /\ queue' = Tail(queue) /\ inFlight' = inFlight
    BY <1>6 DEF Dequeue
  <2>2. Held = 0 /\ Held' = 1 /\ Len(queue') = Len(queue) - 1
    BY <1>0, <2>1 DEF Held
  <2> QED BY <1>0, <2>1, <2>2, RoomLeft
<1>7. ASSUME Dispatch PROVE Room'
  <2> DEFINE left == inFlight \ Numbered(SeqOf[pump.cur])
  <2>1. /\ pump.pc = "enter" /\ pump'.pc = "handler" /\ queue' = queue
        /\ inFlight' = left \cup {pump.cur}
    BY <1>7 DEF Dispatch, QueryInv, QueryTypeOK
  <2>2. IsFiniteSet(left) /\ Cardinality(left) \in Nat /\ Cardinality(left) <= Cardinality(inFlight)
    BY <1>0, FS_Subset, FS_CardinalityType
  <2> HIDE DEF left
  <2>3. /\ IsFiniteSet(inFlight') /\ Cardinality(inFlight') \in Nat
        /\ Cardinality(inFlight') <= Cardinality(left) + 1
    <3>1. /\ IsFiniteSet(left \cup {pump.cur})
          /\ Cardinality(left \cup {pump.cur}) =
               IF pump.cur \in left THEN Cardinality(left) ELSE Cardinality(left) + 1
      BY <2>2, FS_AddElement
    <3> QED BY <2>1, <2>2, <3>1
  <2>4. Held = 1 /\ Held' = 0
    BY <2>1 DEF Held
  <2> QED BY <1>0, <2>1, <2>2, <2>3, <2>4 DEF Room
<1>8. ASSUME DequeueNone \/ DispatchDead \/ HandlerReturns \/ HandlerFails PROVE Room'
  <2>1. pump' = Rest /\ queue' = queue /\ inFlight' \subseteq inFlight
    BY <1>8 DEF DequeueNone, DispatchDead, HandlerReturns, HandlerFails, Settled, tableVars
  <2>2. Held' = 0 /\ Held \in Nat
    BY <2>1 DEF Held, Rest
  <2> QED BY <1>2, <2>1, <2>2
<1>9. ASSUME DispatchLive PROVE Room'
  <2>1. UNCHANGED <<queue, inFlight>> /\ pump.pc = "dispatch"
    BY <1>9 DEF DispatchLive, tableVars
  <2>2. Held = 1 /\ Held' \in 0..1
    BY <2>1 DEF Held
  <2> QED BY <1>2, <2>1, <2>2
<1>10. ASSUME NEW r \in Request, Handler(r) PROVE Room'
  <2>1. UNCHANGED <<queue, pump>> /\ inFlight' \subseteq inFlight
    BY <1>10 DEF Handler, Discard, StartResult, End, RejectRequest, Release, Settled, tableVars
  <2>2. Held' = Held /\ Held \in Nat
    BY <2>1 DEF Held
  <2> QED BY <1>2, <2>1, <2>2
<1>11. ASSUME \/ Open \/ \E i \in Instance : Describe(i) \/ Finish(i)
              \/ \E c \in Conn : Deliver(c) \/ \E r \in Request : Receive(c, r)
              \/ UNCHANGED queryVars
       PROVE  Room'
  <2>1. UNCHANGED <<queue, inFlight, pump>>
    BY <1>11 DEF Open, Describe, Finish, Deliver, Receive, Ignored, Refused, Validated,
       tableVars, queryVars
  <2> QED BY <1>1, <2>1
<1> QED BY <1>3, <1>4, <1>5, <1>6, <1>7, <1>8, <1>9, <1>10, <1>11 DEF QueryNext, QueryStep, Pump

(***************************************************************************)
(* No more than MaxQueued requests are queued, and never more in flight    *)
(* than the two limits together.                                           *)
(***************************************************************************)
THEOREM BoundedCorrect == QuerySpec => []Bounded
<1>1. QueryInit => Room
  <2>1. Cardinality({}) = 0 /\ IsFiniteSet({})
    BY FS_EmptySet
  <2> QED BY <2>1, QueryAssumption DEF QueryInit, Room, Held, Rest
<1>2. QueryInv /\ Room /\ [QueryNext]_queryVars => Room'
  BY RoomKept
<1>3. QueryInv /\ Room => Bounded
  <2> SUFFICES ASSUME QueryInv, Room PROVE Bounded
    OBVIOUS
  <2>1. /\ Len(queue) \in Nat /\ Held \in Nat /\ Cardinality(inFlight) \in Nat
        /\ MaxConcurrent \in Nat /\ MaxQueued \in Nat
    BY QueryAssumption, FS_CardinalityType DEF QueryInv, QueryTypeOK, Held, Room
  <2> QED BY <2>1 DEF Room, Bounded
<1> QED BY <1>1, <1>2, <1>3, QueryInvAlways, PTL DEF QuerySpec

---------------------------------------------------------------------------
(* The clients and trackers around the queue.                              *)
ClientTypes ==
  /\ nextSeq \in [Conn -> Nat] /\ up \in [Conn -> Seq(Request)]
  /\ pending \in [Conn -> SUBSET Request] /\ waiting \in [Conn -> SUBSET Request]
  /\ settled \in [Request -> Nat]

(* The two tables agree.  A query with a number still to be given has not  *)
(* been asked, and one that was settled is not pending.                    *)
Promises ==
  /\ waiting = pending
  /\ \A c \in Conn : \A r \in pending[c] : ConnOf[r] = c /\ SeqOf[r] < nextSeq[c]
  /\ \A r \in Request : settled[r] # 0 =>
       settled[r] = 1 /\ r \notin pending[ConnOf[r]] /\ SeqOf[r] < nextSeq[ConnOf[r]]

ClientInv == ClientTypes /\ Promises

LEMMA RequestFacts ==
  \A r \in Request : ConnOf[r] \in Conn /\ SeqOf[r] \in Nat
BY QueryAssumption

(* Some of what is pending ends, and its promises with it.                 *)
LEMMA ConcludeKeeps ==
  ASSUME ClientInv, NEW c \in Conn, NEW S \in SUBSET pending[c], Conclude(c, S), up' = up
  PROVE  ClientInv'
<1>0. /\ pending' = [pending EXCEPT ![c] = @ \ S] /\ waiting' = [waiting EXCEPT ![c] = @ \ S]
      /\ settled' = [r \in Request |-> IF r \in S \cap waiting[c] THEN settled[r] + 1 ELSE settled[r]]
      /\ nextSeq' = nextSeq
  BY DEF Conclude, Retire, SettlePromises
<1>1. \A d \in Conn : pending'[d] \subseteq pending[d]
  BY <1>0 DEF ClientInv, ClientTypes
<1>2. pending'[c] = pending[c] \ S
  BY <1>0 DEF ClientInv, ClientTypes
<1>3. /\ pending' \in [Conn -> SUBSET Request] /\ waiting' \in [Conn -> SUBSET Request]
      /\ settled' \in [Request -> Nat]
  BY <1>0 DEF ClientInv, ClientTypes
<1>4. \A d \in Conn : \A r \in pending'[d] : ConnOf[r] = d /\ SeqOf[r] < nextSeq'[d]
  BY <1>0, <1>1 DEF ClientInv, Promises
<1>5. ASSUME NEW r \in Request, settled'[r] # 0
      PROVE  settled'[r] = 1 /\ r \notin pending'[ConnOf[r]] /\ SeqOf[r] < nextSeq'[ConnOf[r]]
  <2>1. CASE r \in S
    <3>1. ConnOf[r] = c /\ SeqOf[r] < nextSeq[c] /\ r \in pending[ConnOf[r]]
      BY <2>1 DEF ClientInv, Promises
    <3>2. settled[r] = 0 /\ settled'[r] = settled[r] + 1
      BY <1>0, <2>1, <3>1 DEF ClientInv, Promises
    <3> QED BY <1>0, <1>2, <2>1, <3>1, <3>2
  <2>2. CASE r \notin S
    BY <1>0, <1>1, <1>5, <2>2, RequestFacts DEF ClientInv, Promises
  <2> QED BY <2>1, <2>2
<1>6. waiting' = pending'
  BY <1>0 DEF ClientInv, Promises
<1> QED BY <1>0, <1>3, <1>4, <1>5, <1>6 DEF ClientInv, ClientTypes, Promises

LEMMA QueryKeeps ==
  ASSUME ClientInv, NEW c \in Conn, NEW r \in Request, NEW sent \in BOOLEAN, Query(c, r, sent)
  PROVE  ClientInv'
<1>0. ConnOf[r] = c /\ SeqOf[r] = nextSeq[c] /\ Issue(c, r, sent)
  BY DEF Query
<1>1. /\ nextSeq' = [nextSeq EXCEPT ![c] = @ + 1] /\ nextSeq' \in [Conn -> Nat]
      /\ nextSeq'[c] = nextSeq[c] + 1 /\ nextSeq[c] \in Nat
      /\ \A d \in Conn : nextSeq[d] <= nextSeq'[d] /\ nextSeq[d] \in Nat /\ nextSeq'[d] \in Nat
  BY <1>0 DEF Issue, ClientInv, ClientTypes
<1>2. r \notin pending[c] /\ settled[r] = 0
  BY <1>0, <1>1 DEF ClientInv, Promises
<1>3. \A x \in Request : SeqOf[x] < nextSeq[ConnOf[x]] => SeqOf[x] < nextSeq'[ConnOf[x]]
  BY <1>1, RequestFacts
<1>4. CASE sent
  <2>0. /\ pending' = [pending EXCEPT ![c] = @ \cup {r}]
        /\ waiting' = [waiting EXCEPT ![c] = @ \cup {r}]
        /\ up' = [up EXCEPT ![c] = Append(@, r)] /\ settled' = settled
    BY <1>0, <1>4 DEF Issue
  <2>1. /\ pending' \in [Conn -> SUBSET Request] /\ waiting' \in [Conn -> SUBSET Request]
        /\ up' \in [Conn -> Seq(Request)] /\ settled' \in [Request -> Nat]
    BY <2>0 DEF ClientInv, ClientTypes
  <2>2. \A d \in Conn : pending'[d] = IF d = c THEN pending[d] \cup {r} ELSE pending[d]
    BY <2>0 DEF ClientInv, ClientTypes
  <2>3. \A d \in Conn : \A x \in pending'[d] : ConnOf[x] = d /\ SeqOf[x] < nextSeq'[d]
    <3>1. ASSUME NEW d \in Conn, NEW x \in pending'[d]
          PROVE  ConnOf[x] = d /\ SeqOf[x] < nextSeq'[d]
      <4>1. CASE x = r /\ d = c
        BY <1>0, <1>1, <4>1
      <4>2. CASE ~(x = r /\ d = c)
        <5>1. x \in pending[d]
          BY <2>2, <4>2, <3>1
        <5>2. ConnOf[x] = d /\ SeqOf[x] < nextSeq[d] /\ x \in Request
          BY <5>1 DEF ClientInv, Promises, ClientTypes
        <5> QED BY <1>3, <5>2
      <4> QED BY <4>1, <4>2
    <3> QED BY <3>1
  <2>4. \A x \in Request : settled'[x] # 0 =>
          settled'[x] = 1 /\ x \notin pending'[ConnOf[x]] /\ SeqOf[x] < nextSeq'[ConnOf[x]]
    BY <1>2, <1>3, <2>0, <2>2, RequestFacts DEF ClientInv, Promises
  <2>5. waiting' = pending'
    BY <2>0 DEF ClientInv, Promises
  <2> QED BY <1>1, <2>1, <2>3, <2>4, <2>5 DEF ClientInv, ClientTypes, Promises
<1>5. CASE ~sent
  <2>0. /\ pending' = [pending EXCEPT ![c] = @ \ {r}]
        /\ settled' = [settled EXCEPT ![r] = @ + 1] /\ UNCHANGED <<waiting, up>>
    BY <1>0, <1>5 DEF Issue, Retire
  <2>1. pending' = pending
    BY <1>2, <2>0 DEF ClientInv, ClientTypes
  <2>2. /\ settled' \in [Request -> Nat]
        /\ \A x \in Request : settled'[x] = IF x = r THEN 1 ELSE settled[x]
    BY <1>2, <2>0 DEF ClientInv, ClientTypes
  <2>3. \A d \in Conn : \A x \in pending'[d] : ConnOf[x] = d /\ SeqOf[x] < nextSeq'[d]
    <3>1. ASSUME NEW d \in Conn, NEW x \in pending[d]
          PROVE  ConnOf[x] = d /\ SeqOf[x] < nextSeq'[d]
      <4>1. ConnOf[x] = d /\ SeqOf[x] < nextSeq[d] /\ x \in Request
        BY DEF ClientInv, Promises, ClientTypes
      <4> QED BY <1>3, <4>1
    <3> QED BY <2>1, <3>1
  <2>4. ASSUME NEW x \in Request, settled'[x] # 0
        PROVE  settled'[x] = 1 /\ x \notin pending'[ConnOf[x]] /\ SeqOf[x] < nextSeq'[ConnOf[x]]
    <3>1. CASE x = r
      BY <1>0, <1>1, <1>2, <2>1, <2>2, <3>1
    <3>2. CASE x # r
      BY <1>3, <2>1, <2>2, <2>4, <3>2 DEF ClientInv, Promises
    <3> QED BY <3>1, <3>2
  <2> QED BY <1>1, <2>0, <2>1, <2>2, <2>3, <2>4 DEF ClientInv, ClientTypes, Promises
<1> QED BY <1>4, <1>5

LEMMA ClientInvStep ==
  ASSUME ClientInv, [DebugNext]_allVars
  PROVE  ClientInv'
<1>1. ASSUME UNCHANGED <<nextSeq, pending, waiting, settled, up>> PROVE ClientInv'
  BY <1>1 DEF ClientInv, ClientTypes, Promises
<1>2. ASSUME NEW c \in Conn, Read(c) PROVE ClientInv'
  <2>1. up' = [up EXCEPT ![c] = Tail(@)] /\ up[c] # <<>> /\ UNCHANGED clientVars
    BY <1>2 DEF Read
  <2>2. up[c] \in Seq(Request)
    BY DEF ClientInv, ClientTypes
  <2>3. Tail(up[c]) \in Seq(Request)
    BY <2>1, <2>2
  <2>4. up' \in [Conn -> Seq(Request)]
    BY <2>1, <2>3 DEF ClientInv, ClientTypes
  <2> QED BY <2>1, <2>4 DEF ClientInv, ClientTypes, Promises, clientVars
<1>3. ASSUME NEW c \in Conn, NEW r \in Request, Expire(c, r) PROVE ClientInv'
  BY <1>3, ConcludeKeeps DEF Expire
<1>4. ASSUME NEW c \in Conn, NEW i \in Instance, CancelInstance(c, i) PROVE ClientInv'
  <2>1. {r \in pending[c] : InstOf[r] = i} \in SUBSET pending[c]
    OBVIOUS
  <2> QED BY <1>4, <2>1, ConcludeKeeps DEF CancelInstance
<1>5. ASSUME NEW c \in Conn, Disconnect(c) PROVE ClientInv'
  BY <1>5, ConcludeKeeps DEF Disconnect
<1>6. ASSUME NEW c \in Conn, AcceptFrame(c) PROVE ClientInv'
  <2> DEFINE f == Head(down[c])
  <2>0. up' = up /\ (AcceptAnswer(c, f) \/ AcceptCreate(c, f) \/ AcceptFinish(c, f))
    BY <1>6 DEF AcceptFrame
  <2> HIDE DEF f
  <2>1. CASE AcceptAnswer(c, f)
    <3>1. Pending(c, f) \in SUBSET pending[c]
      BY DEF Pending
    <3> QED BY <1>1, <2>0, <2>1, <3>1, ConcludeKeeps DEF AcceptAnswer, clientVars
  <2>2. CASE AcceptCreate(c, f)
    BY <1>1, <2>0, <2>2 DEF AcceptCreate, clientVars
  <2>3. CASE AcceptFinish(c, f)
    <3>1. {r \in pending[c] : InstOf[r] = f.inst} \in SUBSET pending[c]
      OBVIOUS
    <3> QED BY <2>0, <2>3, <3>1, ConcludeKeeps DEF AcceptFinish
  <2> QED BY <2>0, <2>1, <2>2, <2>3
<1>7. ASSUME Unity \/ UNCHANGED allVars PROVE ClientInv'
  BY <1>1, <1>7 DEF Unity, allVars, clientVars
<1> QED BY <1>2, <1>3, <1>4, <1>5, <1>6, <1>7, QueryKeeps DEF DebugNext, Client

LEMMA ClientInvAlways == DebugSafety => []ClientInv
<1>1. DebugInit => ClientInv
  BY DEF DebugInit, ClientInv, ClientTypes, Promises
<1> QED BY <1>1, ClientInvStep, PTL DEF DebugSafety

(***************************************************************************)
(* The promise of every query is settled at most once, and the client and  *)
(* the tracker never disagree about what is pending.                       *)
(***************************************************************************)
THEOREM SettledOnceCorrect == DebugSafety => []SettledOnce
<1>1. ClientInv => SettledOnce
  <2> SUFFICES ASSUME ClientInv PROVE SettledOnce
    OBVIOUS
  <2>1. ASSUME NEW r \in Request
        PROVE  settled[r] + (IF r \in waiting[ConnOf[r]] THEN 1 ELSE 0) <= 1
    <3>1. settled[r] = 0 \/ (settled[r] = 1 /\ r \notin waiting[ConnOf[r]])
      BY DEF ClientInv, Promises
    <3> QED BY <3>1
  <2> QED BY <2>1 DEF ClientInv, Promises, SettledOnce
<1> QED BY <1>1, ClientInvAlways, PTL

(***************************************************************************)
(* Whatever the clients do, the queue between them behaves as QueryQueue   *)
(* says it does.                                                           *)
(***************************************************************************)
THEOREM QueueImplemented == DebugSafety => QuerySpec
<1>1. DebugInit => QueryInit
  BY DEF DebugInit
<1>2. ClientInv /\ [DebugNext]_allVars => [QueryNext]_queryVars
  <2> SUFFICES ASSUME ClientInv, [DebugNext]_allVars PROVE [QueryNext]_queryVars
    OBVIOUS
  <2>1. CASE Unity
    BY <2>1 DEF Unity, QueryNext
  <2>2. ASSUME NEW c \in Conn, Read(c) PROVE QueryNext
    <3>1. up[c] \in Seq(Request) /\ up[c] # <<>>
      BY <2>2 DEF Read, ClientInv, ClientTypes
    <3>2. Head(up[c]) \in Request /\ Receive(c, Head(up[c]))
      BY <2>2, <3>1 DEF Read
    <3> QED BY <3>2 DEF QueryNext
  <2>3. ASSUME NEW c \in Conn, AcceptFrame(c) PROVE QueryNext
    BY <2>3 DEF AcceptFrame, QueryNext
  <2>4. ASSUME NEW c \in Conn, Client(c), ~AcceptFrame(c) PROVE UNCHANGED queryVars
    BY <2>4 DEF Client, Query, Expire, CancelInstance, Disconnect
  <2>5. CASE UNCHANGED allVars
    BY <2>5 DEF allVars
  <2> QED BY <2>1, <2>2, <2>3, <2>4, <2>5 DEF DebugNext
<1> QED BY <1>1, <1>2, ClientInvAlways, PTL DEF DebugSafety, QuerySpec

---------------------------------------------------------------------------
(* A finite set of numbers has an order, so InOrder enumerates it.  The    *)
(* place of a number is how many are below it.                             *)
LEMMA InOrderFacts ==
  ASSUME NEW S \in SUBSET Nat, IsFiniteSet(S)
  PROVE  InOrder(S) \in Seq(Nat) /\ Elements(InOrder(S)) = S
<1> DEFINE n == Cardinality(S)
           Below(x) == {y \in S : y < x}
           rank == [x \in S |-> Cardinality(Below(x)) + 1]
           Sorted(q) == \A j, k \in 1..n : j < k => q[j] < q[k]
<1>0. n \in Nat /\ IsFiniteSet(1..n) /\ Cardinality(1..n) = n
  BY FS_CardinalityType, FS_Interval
<1>1. ASSUME NEW x \in S
      PROVE  IsFiniteSet(Below(x)) /\ Cardinality(Below(x)) \in Nat /\ Cardinality(Below(x)) + 1 \in 1..n
  <2>1. Below(x) \in SUBSET S /\ Below(x) # S
    OBVIOUS
  <2>2. IsFiniteSet(Below(x)) /\ Cardinality(Below(x)) <= n /\ Cardinality(Below(x)) # n
    BY <2>1, FS_Subset
  <2>3. Cardinality(Below(x)) \in Nat
    BY <2>2, FS_CardinalityType
  <2> QED BY <1>0, <2>2, <2>3
<1>2. ASSUME NEW x \in S, NEW y \in S, x < y
      PROVE  Cardinality(Below(x)) < Cardinality(Below(y))
  <2>0. x \in Nat /\ y \in Nat /\ \A z \in S : z \in Nat
    OBVIOUS
  <2>1. Below(x) \in SUBSET Below(y) /\ Below(x) # Below(y)
    <3>1. \A z \in Below(x) : z \in Below(y)
      BY <1>2, <2>0
    <3>2. x \in Below(y) /\ x \notin Below(x)
      BY <1>2, <2>0
    <3> HIDE DEF Below
    <3> QED BY <3>1, <3>2
  <2>2. /\ Cardinality(Below(x)) <= Cardinality(Below(y))
        /\ Cardinality(Below(x)) # Cardinality(Below(y))
    BY <1>1, <2>1, FS_Subset
  <2> QED BY <1>1, <2>2
<1> HIDE DEF n, Below
<1>3. rank \in [S -> 1..n]
  BY <1>1
<1>4. \A x, y \in S : x < y => rank[x] < rank[y]
  BY <1>2, <1>1
<1>5. \A x \in S : rank[x] \in Nat
  BY <1>1
<1> HIDE DEF rank
<1>6. rank \in Injection(S, 1..n)
  <2>1. \A x, y \in S : rank[x] = rank[y] => x = y
    <3>1. \A x, y \in S : x < y \/ y < x \/ x = y
      OBVIOUS
    <3> QED BY <1>4, <1>5, <3>1
  <2> QED BY <1>3, <2>1 DEF Injection, IsInjective
<1>7. rank \in Surjection(S, 1..n)
  BY <1>0, <1>6, FS_Injection DEF n
<1>8. \E q \in [1..n -> S] : Sorted(q)
  <2> DEFINE q == [k \in 1..n |-> CHOOSE x \in S : rank[x] = k]
  <2>1. \A k \in 1..n : q[k] \in S /\ rank[q[k]] = k
    BY <1>7 DEF Surjection
  <2>2. q \in [1..n -> S]
    BY <2>1
  <2> HIDE DEF q
  <2>3. ASSUME NEW j \in 1..n, NEW k \in 1..n, j < k PROVE q[j] < q[k]
    <3>1. q[j] \in S /\ q[k] \in S /\ rank[q[j]] = j /\ rank[q[k]] = k
      BY <2>1
    <3>2. q[j] \in Nat /\ q[k] \in Nat
      BY <3>1
    <3>3. q[j] < q[k] \/ q[k] < q[j] \/ q[j] = q[k]
      BY <3>2
    <3>4. ~(q[k] < q[j]) /\ q[j] # q[k]
      BY <1>4, <2>3, <3>1, <3>2
    <3> QED BY <3>3, <3>4
  <2> QED BY <2>2, <2>3
<1>9. InOrder(S) \in [1..n -> S] /\ Sorted(InOrder(S))
  BY <1>8 DEF InOrder, n
<1> DEFINE q == InOrder(S)
<1> HIDE DEF q
<1>10. q \in Injection(1..n, S)
  <2>1. ASSUME NEW j \in 1..n, NEW k \in 1..n, q[j] = q[k] PROVE j = k
    <3>1. q[j] \in Nat /\ q[k] \in Nat
      BY <1>9 DEF q
    <3>2. ~(j < k) /\ ~(k < j)
      BY <1>9, <2>1, <3>1 DEF q
    <3> QED BY <1>0, <3>2
  <2> QED BY <1>9, <2>1 DEF q, Injection, IsInjective
<1>11. q \in Surjection(1..n, S)
  BY <1>0, <1>10, FS_Injection DEF n
<1>12. q \in Seq(Nat) /\ Len(q) = n
  <2>1. q \in [1..n -> Nat]
    BY <1>9 DEF q
  <2> QED BY <1>0, <2>1, SeqDef, LenProperties
<1>13. Elements(q) = S
  BY <1>9, <1>11, <1>12 DEF q, Surjection, Elements
<1> QED BY <1>12, <1>13 DEF q

(* Whatever goes to a client as an answer was written for a request that   *)
(* was read from a link.                                                   *)
AnswersReceived ==
  \A c \in Conn : \A k \in 1..Len(down[c]) :
    IsAnswer(down[c][k]) => down[c][k].of \in received

LEMMA WriteReceived ==
  ASSUME AnswersReceived, Sent, received \subseteq received', NEW frames \in Seq(Frame),
         \A k \in 1..Len(frames) : IsAnswer(frames[k]) => frames[k].of \in received',
         Write(frames) \/ down' = down
  PROVE  AnswersReceived'
<1>1. CASE down' = down
  BY <1>1 DEF AnswersReceived
<1>2. CASE down' # down
  <2>1. down' = [down EXCEPT ![Active] = @ \o frames]
    BY <1>2 DEF Write
  <2>2. down \in [Conn -> Seq(Frame)]
    BY DEF Sent
  <2> SUFFICES ASSUME NEW c \in Conn, NEW k \in 1..Len(down'[c]), IsAnswer(down'[c][k])
               PROVE  down'[c][k].of \in received'
    BY DEF AnswersReceived
  <2>3. CASE c # Active
    BY <2>1, <2>2, <2>3 DEF AnswersReceived
  <2>4. CASE c = Active
    <3>1. down'[c] = down[c] \o frames /\ down[c] \in Seq(Frame)
      BY <2>1, <2>2, <2>4
    <3>2. Len(down'[c]) = Len(down[c]) + Len(frames) /\ Len(down[c]) \in Nat /\ Len(frames) \in Nat
      BY <3>1
    <3>3. CASE k <= Len(down[c])
      <4>1. k \in 1..Len(down[c]) /\ down'[c][k] = down[c][k]
        BY <3>1, <3>2, <3>3
      <4> QED BY <4>1 DEF AnswersReceived
    <3>4. CASE k > Len(down[c])
      <4>1. k - Len(down[c]) \in 1..Len(frames) /\ down'[c][k] = frames[k - Len(down[c])]
        BY <3>1, <3>2, <3>4
      <4> QED BY <4>1
    <3> QED BY <3>2, <3>3, <3>4
  <2> QED BY <2>3, <2>4
<1> QED BY <1>1, <1>2

LEMMA AnswerAllReceived ==
  ASSUME AnswersReceived, Sent, received \subseteq received', NEW q \in Seq(Request),
         NEW kind \in {"result", "error"}, Elements(q) \subseteq received', AnswerAll(q, kind)
  PROVE  AnswersReceived'
<1> DEFINE frames == [k \in 1..Len(q) |-> [kind |-> kind, of |-> q[k]]]
<1>0. Len(q) \in Nat
  OBVIOUS
<1>1. \A k \in 1..Len(q) : [kind |-> kind, of |-> q[k]] \in Frame
  BY DEF Frame
<1>2. frames \in Seq(Frame) /\ Len(frames) = Len(q)
  BY <1>0, <1>1, IsASeq
<1>3. \A k \in 1..Len(frames) : frames[k].of \in received'
  BY <1>2 DEF Elements
<1>4. Write(frames)
  BY DEF AnswerAll
<1> HIDE DEF frames
<1> QED BY <1>2, <1>3, <1>4, WriteReceived

LEMMA AnswerReceived ==
  ASSUME AnswersReceived, Sent, received \subseteq received', NEW r \in Request,
         NEW kind \in {"result", "error"}, r \in received', Answer(r, kind)
  PROVE  AnswersReceived'
<1>1. <<r>> \in Seq(Request) /\ Elements(<<r>>) = {r}
  BY DEF Elements
<1>2. AnswerAll(<<r>>, kind)
  BY DEF Answer
<1>3. Elements(<<r>>) \subseteq received'
  BY <1>1
<1> HIDE DEF Answer
<1> QED BY ONLY AnswersReceived, Sent, received \subseteq received', kind \in {"result", "error"},
             <1>1, <1>2, <1>3, AnswerAllReceived

LEMMA ConcatElements ==
  ASSUME NEW S, NEW p \in Seq(S), NEW q \in Seq(S)
  PROVE  p \o q \in Seq(S) /\ Elements(p \o q) = Elements(p) \cup Elements(q)
<1>1. /\ p \o q \in Seq(S) /\ Len(p \o q) = Len(p) + Len(q)
      /\ \A k \in 1..Len(p) : (p \o q)[k] = p[k]
      /\ \A k \in 1..Len(q) : (p \o q)[Len(p) + k] = q[k]
      /\ Len(p) \in Nat /\ Len(q) \in Nat
  OBVIOUS
<1>2. ASSUME NEW x \in Elements(p \o q) PROVE x \in Elements(p) \cup Elements(q)
  <2>1. PICK k \in 1..Len(p) + Len(q) : x = (p \o q)[k]
    BY <1>1, <1>2 DEF Elements
  <2>2. CASE k <= Len(p)
    BY <1>1, <2>1, <2>2 DEF Elements
  <2>3. CASE k > Len(p)
    <3>1. k - Len(p) \in 1..Len(q) /\ Len(p) + (k - Len(p)) = k
      BY <1>1, <2>1, <2>3
    <3> QED BY <1>1, <2>1, <3>1 DEF Elements
  <2> QED BY <1>1, <2>1, <2>2, <2>3
<1>3. ASSUME NEW x \in Elements(p) \cup Elements(q) PROVE x \in Elements(p \o q)
  <2>1. CASE x \in Elements(p)
    <3>1. PICK k \in 1..Len(p) : x = p[k]
      BY <2>1 DEF Elements
    <3> QED BY <1>1, <3>1 DEF Elements
  <2>2. CASE x \in Elements(q)
    <3>1. PICK k \in 1..Len(q) : x = q[k]
      BY <2>2 DEF Elements
    <3>2. Len(p) + k \in 1..Len(p \o q)
      BY <1>1
    <3> QED BY <1>1, <3>1, <3>2 DEF Elements
  <2> QED BY <1>3, <2>1, <2>2
<1> QED BY <1>1, <1>2, <1>3

LEMMA AnswersReceivedStep ==
  ASSUME QueryInv, AnswersReceived, [QueryNext]_queryVars
  PROVE  AnswersReceived' /\ received \subseteq received'
<1>0. /\ Sent /\ RequestTypes /\ Places
      /\ \A r \in Queued \cup inFlight : r \in received
      /\ pump.pc # "idle" /\ pump.pc # "dequeue" => pump.cur \in received
      /\ \A r \in Request : Called(r) \/ answers[r] # 0 => r \in received
  <2>1. Sent /\ RequestTypes /\ Places
    BY InvParts DEF QueryInv, RequestInv
  <2>2. pump.pc # "idle" /\ pump.pc # "dequeue" =>
          pump.pc = "handler" \/ pump.pc \in {"dispatch", "enter"}
    BY <2>1 DEF RequestTypes
  <2> QED BY <2>1, <2>2 DEF Places, Fresh, Called, RequestTypes
<1>1. ASSUME down' = down, received \subseteq received' PROVE AnswersReceived'
  BY <1>1 DEF AnswersReceived
<1>2. ASSUME NEW c \in Conn, NEW r \in Request, Receive(c, r)
      PROVE  AnswersReceived' /\ received \subseteq received'
  <2>1. received \subseteq received' /\ r \in received'
    BY <1>2 DEF Receive
  <2>2. CASE Refused(c, r)
    BY <1>0, <2>1, <2>2, AnswerReceived DEF Refused
  <2>3. CASE ~Refused(c, r)
    BY <1>1, <1>2, <2>1, <2>3 DEF Receive, Ignored, Validated, sentVars
  <2> QED BY <2>1, <2>2, <2>3
<1>3. ASSUME NEW c \in Conn, Deliver(c)
      PROVE  AnswersReceived' /\ received \subseteq received'
  <2>1. /\ down[c] \in Seq(Frame) /\ down[c] # <<>> /\ received' = received
        /\ down' = [down EXCEPT ![c] = Tail(@)] /\ down \in [Conn -> Seq(Frame)]
    BY <1>0, <1>3 DEF Deliver, Sent
  <2> SUFFICES ASSUME NEW d \in Conn, NEW k \in 1..Len(down'[d]), IsAnswer(down'[d][k])
               PROVE  down'[d][k].of \in received
    BY <2>1 DEF AnswersReceived
  <2>2. CASE d # c
    BY <2>1, <2>2 DEF AnswersReceived
  <2>3. CASE d = c
    <3>1. down'[d] = Tail(down[d]) /\ down[d] \in Seq(Frame) /\ down[d] # <<>>
      BY <2>1, <2>3
    <3>2. k + 1 \in 1..Len(down[d]) /\ down'[d][k] = down[d][k + 1]
      BY <3>1
    <3> QED BY <3>2 DEF AnswersReceived
  <2> QED BY <2>2, <2>3
<1>4. ASSUME NEW i \in Instance, Describe(i) \/ Finish(i)
      PROVE  AnswersReceived' /\ received \subseteq received'
  <2>1. received' = received
    BY <1>4 DEF Describe, Finish
  <2>2. ASSUME NEW kind \in {"create", "finish"}, Write(<<[kind |-> kind, inst |-> i]>>)
        PROVE  AnswersReceived'
    <3>1. [kind |-> kind, inst |-> i] \in Frame /\ ~IsAnswer([kind |-> kind, inst |-> i])
      BY DEF Frame, IsAnswer
    <3>2. <<[kind |-> kind, inst |-> i]>> \in Seq(Frame)
      BY <3>1
    <3>3. \A k \in 1..Len(<<[kind |-> kind, inst |-> i]>>) :
            ~IsAnswer(<<[kind |-> kind, inst |-> i]>>[k])
      BY <3>1
    <3> QED BY <1>0, <2>1, <2>2, <3>2, <3>3, WriteReceived
  <2> QED BY <1>1, <1>4, <2>1, <2>2 DEF Describe, Finish
<1>5. CASE Pump
  <2>1. received' = received
    BY <1>5 DEF Pump, TakeTimeouts, DequeueNone, Dequeue, DispatchDead, DispatchLive,
                Dispatch, HandlerReturns, HandlerFails
  <2>2. ASSUME NEW n \in 0..Len(queue), NEW q \in Arrangements(inFlight), TakeTimeouts(n, q)
        PROVE  AnswersReceived'
    <3> DEFINE late == SubSeq(queue, 1, n) \o q
    <3>0. queue \in Seq(Request) /\ inFlight \subseteq Request
      BY <1>0 DEF RequestTypes
    <3>1. /\ SubSeq(queue, 1, n) \in Seq(Request) /\ Elements(SubSeq(queue, 1, n)) \subseteq Queued
          /\ q \in Seq(Request) /\ Elements(q) \subseteq inFlight
      <4>1. q \in Seq(inFlight)
        BY DEF Arrangements
      <4>2. q \in Seq(Request) /\ Elements(q) \subseteq inFlight
        BY <3>0, <4>1, SeqMonotonic, SequenceFacts
      <4>3. \A k \in 1..n : queue[k] \in Queued /\ k \in 1..Len(queue)
        BY <3>0 DEF Queued, Elements
      <4>4. /\ SubSeq(queue, 1, n) \in Seq(Request)
            /\ Len(SubSeq(queue, 1, n)) = n
            /\ \A k \in 1..n : SubSeq(queue, 1, n)[k] = queue[k]
        BY <3>0
      <4> QED BY <4>2, <4>3, <4>4 DEF Elements
    <3>2. late \in Seq(Request) /\ Elements(late) = Elements(SubSeq(queue, 1, n)) \cup Elements(q)
      BY <3>1, ConcatElements
    <3>3. Elements(late) \subseteq received' /\ AnswerAll(late, "error")
      BY <1>0, <2>1, <2>2, <3>1, <3>2 DEF TakeTimeouts
    <3> HIDE DEF late
    <3> QED BY <1>0, <2>1, <3>2, <3>3, AnswerAllReceived
  <2>3. CASE DispatchDead \/ HandlerFails
    <3>1. pump.cur \in received' /\ pump.cur \in Request /\ Answer(pump.cur, "error")
      BY <1>0, <2>1, <2>3 DEF DispatchDead, HandlerFails, RequestTypes
    <3> QED BY <1>0, <2>1, <3>1, AnswerReceived
  <2>4. CASE DequeueNone \/ Dequeue \/ DispatchLive \/ Dispatch \/ HandlerReturns
    BY <1>1, <2>1, <2>4 DEF DequeueNone, Dequeue, DispatchLive, Dispatch, HandlerReturns, sentVars
  <2> QED BY <1>5, <2>1, <2>2, <2>3, <2>4 DEF Pump
<1>6. ASSUME NEW r \in Request, Handler(r)
      PROVE  AnswersReceived' /\ received \subseteq received'
  <2>1. received' = received /\ r \in received
    BY <1>0, <1>6 DEF Handler, Discard, StartResult, End, RejectRequest, Holds, Called
  <2>2. ASSUME NEW kind \in {"result", "error"}, Answer(r, kind) PROVE AnswersReceived'
    BY <1>0, <2>1, <2>2, AnswerReceived
  <2> QED BY <1>1, <1>6, <2>1, <2>2
          DEF Handler, Discard, StartResult, End, RejectRequest, sentVars
<1>7. ASSUME NEW c \in Conn, Add(c)
      PROVE  AnswersReceived' /\ received \subseteq received'
  <2>1. received' = received /\ reading[c] \in Request /\ reading[c] \in received
    BY <1>0, <1>7 DEF Add, RequestTypes, Places, Fresh
  <2> QED BY <1>0, <1>1, <1>7, <2>1, AnswerReceived DEF Add, sentVars
<1>8. CASE Open \/ UNCHANGED queryVars \/ \E c \in Conn : Close(c)
  BY <1>1, <1>8 DEF Open, Close, queryVars, sentVars
<1> QED BY <1>2, <1>3, <1>4, <1>5, <1>6, <1>7, <1>8 DEF QueryNext, QueryStep

(* What the tracker of its link still knows of a request.                  *)
Remembered(c) == Elements(retired[c]) \cup evicted[c]
Recalled(r)   == r \in pending[ConnOf[r]] \/ SeqOf[r] \in Remembered(ConnOf[r])

TrackerTypes ==
  /\ retired \in [Conn -> Seq(Nat)] /\ evicted \in [Conn -> SUBSET Nat]
  /\ \A c \in Conn : IsFiniteSet(pending[c])

(* Every request that is under way to Unity or was read there is recalled, *)
(* and answers are written for no others.                                  *)
RecalledInv ==
  /\ TrackerTypes /\ AnswersReceived
  /\ \A c \in Conn : \A r \in Elements(up[c]) : Recalled(r)
  /\ \A r \in received : Recalled(r)

(* What leaves the table of the tracker stays remembered, and so does what *)
(* was.                                                                    *)
LEMMA RetireFacts ==
  ASSUME ClientInv, TrackerTypes, NEW c \in Conn, NEW S \in SUBSET Request, IsFiniteSet(S),
         Retire(c, S)
  PROVE  TrackerTypes' /\ \A r \in Request : Recalled(r) => Recalled(r)'
<1> DEFINE ns == InOrder(Numbers(S))
           q == retired[c] \o ns
           n == IF Len(q) > MaxRetired THEN Len(q) - MaxRetired ELSE 0
<1>0. Numbers(S) \in SUBSET Nat /\ IsFiniteSet(Numbers(S)) /\ MaxRetired \in Nat
  <2>1. \A r \in S : SeqOf[r] \in Nat
    BY RequestFacts
  <2> DEFINE f == [r \in S |-> SeqOf[r]]
  <2>2. f \in Surjection(S, Numbers(S))
    BY DEF Surjection, Numbers
  <2>3. IsFiniteSet(Numbers(S))
    BY <2>2, FS_Surjection
  <2> QED BY <2>1, <2>3, ClientAssumption DEF Numbers
<1>1. ns \in Seq(Nat) /\ Elements(ns) = Numbers(S) /\ retired[c] \in Seq(Nat)
  BY <1>0, InOrderFacts DEF TrackerTypes
<1> HIDE DEF ns
<1>2. q \in Seq(Nat) /\ Elements(q) = Elements(retired[c]) \cup Numbers(S)
  BY <1>1, ConcatElements
<1>3. /\ pending' = [pending EXCEPT ![c] = @ \ S]
      /\ retired' = [retired EXCEPT ![c] = SubSeq(q, n + 1, Len(q))]
      /\ evicted' = [evicted EXCEPT ![c] = @ \cup {q[k] : k \in 1..n}]
  BY DEF Retire, ns
<1> HIDE DEF q
<1>4. Len(q) \in Nat /\ n \in 0..Len(q)
  BY <1>0, <1>2
<1> HIDE DEF n
<1>5. /\ SubSeq(q, n + 1, Len(q)) \in Seq(Nat)
      /\ Elements(q) \subseteq Elements(SubSeq(q, n + 1, Len(q))) \cup {q[k] : k \in 1..n}
      /\ {q[k] : k \in 1..n} \subseteq Nat
  <2>1. /\ SubSeq(q, n + 1, Len(q)) \in Seq(Nat)
        /\ Len(SubSeq(q, n + 1, Len(q))) = Len(q) - n
        /\ \A k \in 1..Len(q) - n : SubSeq(q, n + 1, Len(q))[k] = q[n + k]
    BY <1>2, <1>4
  <2>2. ASSUME NEW k \in 1..Len(q), k > n
        PROVE  q[k] \in Elements(SubSeq(q, n + 1, Len(q)))
    <3>1. k - n \in 1..Len(q) - n /\ n + (k - n) = k
      BY <1>4, <2>2
    <3>2. SubSeq(q, n + 1, Len(q))[k - n] = q[k] /\ k - n \in 1..Len(SubSeq(q, n + 1, Len(q)))
      BY <2>1, <3>1
    <3> QED BY <3>2 DEF Elements
  <2>3. Elements(q) \subseteq Elements(SubSeq(q, n + 1, Len(q))) \cup {q[k] : k \in 1..n}
    <3> SUFFICES ASSUME NEW k \in 1..Len(q)
                 PROVE  q[k] \in Elements(SubSeq(q, n + 1, Len(q))) \cup {q[j] : j \in 1..n}
      BY DEF Elements
    <3>1. CASE k > n
      BY <2>2, <3>1
    <3>2. CASE ~(k > n)
      <4>1. k \in 1..n
        BY <1>4, <3>2
      <4> QED BY <4>1
    <3> QED BY <3>1, <3>2
  <2>4. \A k \in 1..n : q[k] \in Nat
    BY <1>2, <1>4
  <2> QED BY <2>1, <2>3, <2>4
<1>6. \A d \in Conn : IsFiniteSet(pending'[d])
  <2>1. ASSUME NEW d \in Conn PROVE pending'[d] \in SUBSET pending[d]
    BY <1>3 DEF ClientInv, ClientTypes
  <2> QED BY <2>1, FS_Subset DEF TrackerTypes
<1>7. TrackerTypes'
  BY <1>3, <1>5, <1>6 DEF TrackerTypes
<1>8. \A d \in Conn : Remembered(d) \subseteq Remembered(d)'
  <2>1. retired'[c] = SubSeq(q, n + 1, Len(q)) /\ evicted'[c] = evicted[c] \cup {q[k] : k \in 1..n}
    BY <1>3 DEF TrackerTypes
  <2>2. Remembered(c) \subseteq Remembered(c)'
    BY <1>2, <1>5, <2>1 DEF Remembered
  <2>3. ASSUME NEW d \in Conn, d # c PROVE retired'[d] = retired[d] /\ evicted'[d] = evicted[d]
    BY <1>3, <2>3 DEF TrackerTypes
  <2> QED BY <2>2, <2>3 DEF Remembered
<1>9. Numbers(S) \subseteq Remembered(c)'
  <2>1. retired'[c] = SubSeq(q, n + 1, Len(q)) /\ evicted'[c] = evicted[c] \cup {q[k] : k \in 1..n}
    BY <1>3 DEF TrackerTypes
  <2> QED BY <1>2, <1>5, <2>1 DEF Remembered
<1>10. ASSUME NEW r \in Request, Recalled(r) PROVE Recalled(r)'
  <2>1. ConnOf[r] \in Conn
    BY RequestFacts
  <2>2. CASE SeqOf[r] \in Remembered(ConnOf[r])
    BY <1>8, <2>1, <2>2 DEF Recalled
  <2>3. CASE r \in pending[ConnOf[r]]
    <3>1. CASE ConnOf[r] = c /\ r \in S
      BY <1>9, <3>1 DEF Recalled, Numbers
    <3>2. CASE ~(ConnOf[r] = c /\ r \in S)
      BY <1>3, <2>1, <2>3, <3>2 DEF Recalled, ClientInv, ClientTypes
    <3> QED BY <3>1, <3>2
  <2> QED BY <1>10, <2>2, <2>3 DEF Recalled
<1> QED BY <1>7, <1>10

LEMMA ConcludeRecalls ==
  ASSUME ClientInv, TrackerTypes, NEW c \in Conn, NEW S \in SUBSET pending[c], Conclude(c, S)
  PROVE  TrackerTypes' /\ \A r \in Request : Recalled(r) => Recalled(r)'
<1>1. S \in SUBSET Request /\ IsFiniteSet(pending[c])
  BY DEF ClientInv, ClientTypes, TrackerTypes
<1>2. IsFiniteSet(S) /\ Retire(c, S)
  BY <1>1, FS_Subset DEF Conclude
<1> QED BY <1>1, <1>2, RetireFacts

(* A query is pending once it has been sent, and retired if it was not.    *)
LEMMA IssueRecalls ==
  ASSUME ClientInv, TrackerTypes, NEW c \in Conn, NEW r \in Request, ConnOf[r] = c,
         NEW sent \in BOOLEAN, Issue(c, r, sent)
  PROVE  /\ TrackerTypes' /\ \A x \in Request : Recalled(x) => Recalled(x)'
         /\ \A d \in Conn : \A x \in Elements(up'[d]) :
              x \in Elements(up[d]) \/ (x = r /\ Recalled(r)')
<1>1. CASE sent
  <2>0. /\ pending' = [pending EXCEPT ![c] = @ \cup {r}]
        /\ up' = [up EXCEPT ![c] = Append(@, r)] /\ UNCHANGED <<retired, evicted>>
    BY <1>1 DEF Issue
  <2>1. \A d \in Conn : pending'[d] = IF d = c THEN pending[d] \cup {r} ELSE pending[d]
    BY <2>0 DEF ClientInv, ClientTypes
  <2>2. ASSUME NEW d \in Conn PROVE IsFiniteSet(pending'[d])
    <3>1. IsFiniteSet(pending[d])
      BY DEF TrackerTypes
    <3>2. IsFiniteSet(pending[d] \cup {r})
      BY <3>1, FS_AddElement
    <3> QED BY <2>1, <3>1, <3>2
  <2>3. TrackerTypes'
    BY <2>0, <2>2 DEF TrackerTypes
  <2>4. \A x \in Request : Recalled(x) => Recalled(x)'
    BY <2>0, <2>1, RequestFacts DEF Recalled, Remembered
  <2>5. Recalled(r)'
    BY <2>1 DEF Recalled
  <2>6. ASSUME NEW d \in Conn, NEW x \in Elements(up'[d]) PROVE x \in Elements(up[d]) \/ x = r
    <3>1. up[d] \in Seq(Request)
      BY DEF ClientInv, ClientTypes
    <3>2. CASE d = c
      <4>1. up'[d] = Append(up[d], r)
        BY <2>0, <3>2 DEF ClientInv, ClientTypes
      <4> QED BY <2>6, <3>1, <4>1 DEF Elements
    <3>3. CASE d # c
      BY <2>0, <2>6, <3>3 DEF ClientInv, ClientTypes
    <3> QED BY <3>2, <3>3
  <2> QED BY <2>3, <2>4, <2>5, <2>6
<1>2. CASE ~sent
  <2>1. Retire(c, {r}) /\ up' = up
    BY <1>2 DEF Issue
  <2>2. {r} \in SUBSET Request /\ IsFiniteSet({r})
    BY FS_Singleton
  <2> QED BY <2>1, <2>2, RetireFacts
<1> QED BY <1>1, <1>2

LEMMA RecalledStep ==
  ASSUME QueryInv, ClientInv, RecalledInv, [DebugNext]_allVars, [QueryNext]_queryVars
  PROVE  RecalledInv'
<1>0. AnswersReceived' /\ received \subseteq received'
  BY AnswersReceivedStep DEF RecalledInv
<1>1. /\ received \subseteq Request
      /\ \A c \in Conn : up[c] \in Seq(Request) /\ Elements(up[c]) \subseteq Request
  <2>1. \A c \in Conn : up[c] \in Seq(Request)
    BY DEF ClientInv, ClientTypes
  <2> QED BY <2>1, SequenceFacts, InvParts DEF RequestInv, RequestTypes
<1>2. ASSUME TrackerTypes', \A r \in Request : Recalled(r) => Recalled(r)',
             up' = up, received' = received
      PROVE  RecalledInv'
  BY <1>0, <1>1, <1>2 DEF RecalledInv
<1>3. ASSUME UNCHANGED <<pending, retired, evicted>>
      PROVE  TrackerTypes' /\ \A r \in Request : Recalled(r) => Recalled(r)'
  BY <1>3 DEF RecalledInv, TrackerTypes, Recalled, Remembered
<1>4. ASSUME NEW c \in Conn, Read(c) PROVE RecalledInv'
  <2>1. /\ up[c] # <<>> /\ up' = [up EXCEPT ![c] = Tail(@)] /\ UNCHANGED clientVars
        /\ received' = received \cup {Head(up[c])}
    BY <1>4 DEF Read, Receive
  <2>2. TrackerTypes' /\ \A r \in Request : Recalled(r) => Recalled(r)'
    BY <1>3, <2>1 DEF clientVars
  <2>3. Head(up[c]) \in Elements(up[c]) /\ Elements(Tail(up[c])) \subseteq Elements(up[c])
    BY <1>1, <2>1 DEF Elements
  <2>4. \A d \in Conn : Elements(up'[d]) \subseteq Elements(up[d])
    BY <2>1, <2>3 DEF ClientInv, ClientTypes
  <2> QED BY <1>0, <1>1, <2>1, <2>2, <2>3, <2>4 DEF RecalledInv
<1>5. ASSUME NEW c \in Conn, NEW S \in SUBSET pending[c], Conclude(c, S), up' = up, received' = received
      PROVE  RecalledInv'
  BY <1>2, <1>5, ConcludeRecalls DEF RecalledInv
<1>6. ASSUME UNCHANGED clientVars, up' = up, received' = received PROVE RecalledInv'
  BY <1>2, <1>3, <1>6 DEF clientVars
<1>7. ASSUME NEW c \in Conn, NEW r \in Request, NEW sent \in BOOLEAN, Query(c, r, sent)
      PROVE  RecalledInv'
  <2>1. ConnOf[r] = c /\ Issue(c, r, sent) /\ received' = received
    BY <1>7 DEF Query, queryVars
  <2>2. /\ TrackerTypes' /\ \A x \in Request : Recalled(x) => Recalled(x)'
        /\ \A d \in Conn : \A x \in Elements(up'[d]) :
             x \in Elements(up[d]) \/ (x = r /\ Recalled(r)')
    BY <2>1, IssueRecalls DEF RecalledInv
  <2>3. \A d \in Conn : \A x \in Elements(up'[d]) : Recalled(x)'
    BY <1>1, <2>2 DEF RecalledInv
  <2> QED BY <1>0, <1>1, <2>1, <2>2, <2>3 DEF RecalledInv
<1>8. ASSUME NEW c \in Conn, AcceptFrame(c) PROVE RecalledInv'
  <2> DEFINE f == Head(down[c])
  <2>0. /\ up' = up /\ received' = received
        /\ AcceptAnswer(c, f) \/ AcceptCreate(c, f) \/ AcceptFinish(c, f)
    BY <1>8 DEF AcceptFrame, Deliver
  <2> HIDE DEF f
  <2>1. CASE AcceptAnswer(c, f)
    <3>1. Pending(c, f) \in SUBSET pending[c]
      BY DEF Pending
    <3> QED BY <1>5, <1>6, <2>0, <2>1, <3>1 DEF AcceptAnswer
  <2>2. CASE AcceptCreate(c, f)
    BY <1>6, <2>0, <2>2 DEF AcceptCreate
  <2>3. CASE AcceptFinish(c, f)
    <3>1. {r \in pending[c] : InstOf[r] = f.inst} \in SUBSET pending[c]
      OBVIOUS
    <3> QED BY <1>5, <2>0, <2>3, <3>1 DEF AcceptFinish
  <2> QED BY <2>0, <2>1, <2>2, <2>3
<1>9. ASSUME NEW c \in Conn, Disconnect(c) PROVE RecalledInv'
  BY <1>5, <1>9 DEF Disconnect, queryVars
<1>10. ASSUME NEW c \in Conn, NEW r \in Request, Expire(c, r) PROVE RecalledInv'
  BY <1>5, <1>10 DEF Expire, queryVars
<1>11. ASSUME NEW c \in Conn, NEW i \in Instance, CancelInstance(c, i) PROVE RecalledInv'
  <2>1. {r \in pending[c] : InstOf[r] = i} \in SUBSET pending[c]
    OBVIOUS
  <2> QED BY <1>5, <1>11, <2>1 DEF CancelInstance, queryVars
<1>12. ASSUME Unity PROVE RecalledInv'
  <2>1. UNCHANGED clientVars /\ up' = up /\ QueryStep
    BY <1>12 DEF Unity
  <2>2. received' = received
    BY <2>1 DEF QueryStep, Open, Close, Add, Describe, Finish, Pump, TakeTimeouts, DequeueNone,
                Dequeue, DispatchDead, DispatchLive, Dispatch, HandlerReturns, HandlerFails,
                Handler, Discard, StartResult, End, RejectRequest
  <2> QED BY <1>6, <2>1, <2>2
<1>13. CASE UNCHANGED allVars
  BY <1>6, <1>13 DEF allVars, queryVars
<1> QED BY <1>4, <1>7, <1>8, <1>9, <1>10, <1>11, <1>12, <1>13 DEF DebugNext, Client

(***************************************************************************)
(* What comes back for a query of this link is pending with its tracker or *)
(* remembered by it, unless the cap has pushed the number out, whatever    *)
(* timed out, was cancelled or was answered twice meanwhile.               *)
(***************************************************************************)
THEOREM LateIsKnownCorrect == DebugSafety => []LateIsKnown
<1>1. DebugInit => RecalledInv
  <2> SUFFICES ASSUME DebugInit PROVE RecalledInv
    OBVIOUS
  <2>1. TrackerTypes
    BY FS_EmptySet DEF DebugInit, TrackerTypes
  <2>2. AnswersReceived /\ received = {} /\ \A c \in Conn : Elements(up[c]) = {}
    BY DEF DebugInit, QueryInit, AnswersReceived, Elements
  <2> QED BY <2>1, <2>2 DEF RecalledInv
<1>2. RecalledInv /\ QueryInv => LateIsKnown
  <2> SUFFICES ASSUME RecalledInv, QueryInv, NEW c \in Conn, NEW k \in 1..Len(down[c]),
                      IsAnswer(down[c][k]), ConnOf[down[c][k].of] = c
               PROVE  \/ down[c][k].of \in pending[c]
                      \/ SeqOf[down[c][k].of] \in Elements(retired[c]) \cup evicted[c]
    BY DEF LateIsKnown, Elements
  <2>1. down[c][k].of \in received
    BY DEF RecalledInv, AnswersReceived
  <2> QED BY <2>1 DEF RecalledInv, Recalled, Remembered
<1> QED BY <1>1, <1>2, RecalledStep, QueryInvAlways, ClientInvAlways, QueueImplemented, PTL
        DEF DebugSafety, QuerySpec
=============================================================================
