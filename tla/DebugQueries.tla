---------------------------- MODULE DebugQueries ----------------------------
(***************************************************************************)
(* Debug queries from end to end: the DebugQueryClient of each link with   *)
(* its DebugQueryTracker (VS Code side, one thread, a handler is a step),  *)
(* the frames between the two processes, and the queue in Unity            *)
(* (QueryQueue).  Client and tracker keep a table of what is pending each, *)
(* the tracker also what was pending; they are told apart here because the *)
(* code must keep them together.                                           *)
(***************************************************************************)
EXTENDS QueryQueue

CONSTANTS
  MaxPending,   \* MAX_PENDING_QUERIES
  MaxRetired,   \* MAX_RETIRED_REQUEST_IDS
  MaxFrames     \* bound: Unity waits while so many frames are under way

ASSUME ClientAssumption == {MaxPending, MaxRetired, MaxFrames} \subseteq Nat \ {0}

VARIABLES
  nextSeq,      \* nextSeq of the tracker
  pending,      \* pending of the tracker
  waiting,      \* pending of the client: the promises not yet settled
  retired,      \* retiredOrder: numbers that may still be answered
  ended,        \* links whose client has been disposed
  up,           \* up[c]: frames on their way to Unity
  known,        \* known[c]: instances that the client of c can query
  settled,      \* history: how often the promise of a query was settled
  evicted       \* history: numbers retired that are no longer kept

clientVars == <<nextSeq, pending, waiting, retired, settled, evicted>>
allVars    == <<queryVars, clientVars, ended, up, known>>

DebugInit ==
  /\ QueryInit
  /\ nextSeq = [c \in Conn |-> 1]
  /\ pending = [c \in Conn |-> {}] /\ waiting = [c \in Conn |-> {}]
  /\ retired = [c \in Conn |-> <<>>] /\ ended = {}
  /\ up = [c \in Conn |-> <<>>] /\ known = [c \in Conn |-> {}]
  /\ settled = [r \in Request |-> 0] /\ evicted = [c \in Conn |-> {}]

\* Numbers in the order of the tracker's table, in which they are entered.
InOrder(S) ==
  CHOOSE q \in [1..Cardinality(S) -> S] :
    \A j, k \in 1..Cardinality(S) : j < k => q[j] < q[k]

Connected(c) == c <= opened /\ c \notin ended

---------------------------------------------------------------------------
(* The tracker: queries leave its table for the numbers it remembers, the  *)
(* oldest of which is given up at the cap (removePending, retire).         *)
\* Mutant of Retire: the numbers are forgotten at once.
RetireNothing(c, S) ==
  pending' = [pending EXCEPT ![c] = @ \ S] /\ UNCHANGED <<retired, evicted>>

Retire(c, S) ==
  LET q == retired[c] \o InOrder(Numbers(S))
      n == IF Len(q) > MaxRetired THEN Len(q) - MaxRetired ELSE 0
  IN /\ pending' = [pending EXCEPT ![c] = @ \ S]
     /\ retired' = [retired EXCEPT ![c] = SubSeq(q, n + 1, Len(q))]
     /\ evicted' = [evicted EXCEPT ![c] = @ \cup {q[k] : k \in 1..n}]

\* The client rejects or resolves the promises of S it still holds.
SettlePromises(c, S) ==
  /\ waiting' = [waiting EXCEPT ![c] = @ \ S]
  /\ settled' = [r \in Request |-> IF r \in S \cap waiting[c] THEN settled[r] + 1 ELSE settled[r]]

\* Mutant of Conclude: the promise is left to the timer that was cleared.
RetireOnly(c, S) == Retire(c, S) /\ UNCHANGED <<waiting, settled, nextSeq>>

\* What ends queries: a frame, the timer, a cancellation.
Conclude(c, S) == Retire(c, S) /\ SettlePromises(c, S) /\ nextSeq' = nextSeq

\* Mutant of Issue: a query that could not be sent stays with the tracker.
IssueUnsent(c, r, sent) ==
  /\ nextSeq' = [nextSeq EXCEPT ![c] = @ + 1]
  /\ pending' = [pending EXCEPT ![c] = @ \cup {r}]
  /\ IF sent
     THEN /\ waiting' = [waiting EXCEPT ![c] = @ \cup {r}]
          /\ up' = [up EXCEPT ![c] = Append(@, r)]
          /\ UNCHANGED <<retired, evicted, settled>>
     ELSE /\ settled' = [settled EXCEPT ![r] = @ + 1]
          /\ UNCHANGED <<waiting, up, retired, evicted>>

\* createRequest, entered in both tables, and the attempt to send it.
Issue(c, r, sent) ==
  /\ nextSeq' = [nextSeq EXCEPT ![c] = @ + 1]
  /\ IF sent
     THEN /\ pending' = [pending EXCEPT ![c] = @ \cup {r}]
          /\ waiting' = [waiting EXCEPT ![c] = @ \cup {r}]
          /\ up' = [up EXCEPT ![c] = Append(@, r)]
          /\ UNCHANGED <<retired, evicted, settled>>
     ELSE /\ Retire(c, {r}) /\ settled' = [settled EXCEPT ![r] = @ + 1]
          /\ UNCHANGED <<waiting, up>>

Query(c, r, sent) ==
  /\ Connected(c) /\ ConnOf[r] = c /\ SeqOf[r] = nextSeq[c]
  /\ InstOf[r] \in known[c] /\ Cardinality(pending[c]) < MaxPending
  /\ Issue(c, r, sent)
  /\ UNCHANGED <<queryVars, ended, known>>

\* The timer of the query.
Expire(c, r) ==
  /\ r \in pending[c] /\ Conclude(c, {r})
  /\ UNCHANGED <<queryVars, ended, up, known>>

\* cancelInstance, as the user turns to another instance.
CancelInstance(c, i) ==
  /\ \E r \in pending[c] : InstOf[r] = i
  /\ Conclude(c, {r \in pending[c] : InstOf[r] = i})
  /\ UNCHANGED <<queryVars, ended, up, known>>

\* dispose, once the link has ended: what has not arrived is lost.
Disconnect(c) ==
  /\ Connected(c) /\ c \in closed
  /\ ended' = ended \cup {c} /\ known' = [known EXCEPT ![c] = {}]
  /\ Conclude(c, pending[c])
  /\ UNCHANGED <<queryVars, up>>

---------------------------------------------------------------------------
(* acceptFrame.  An answer settles what is pending under its number,       *)
(* whatever request it was written for.                                    *)
IsAnswer(f) == f.kind \in {"result", "error"}
Pending(c, f) == IF IsAnswer(f) THEN {r \in pending[c] : SeqOf[r] = SeqOf[f.of]} ELSE {}

AcceptAnswer(c, f) ==
  /\ IsAnswer(f) /\ known' = known
  /\ IF Pending(c, f) = {} THEN UNCHANGED clientVars ELSE Conclude(c, Pending(c, f))

AcceptCreate(c, f) ==
  /\ f.kind = "create"
  /\ known' = [known EXCEPT ![c] = @ \cup {f.inst}] /\ UNCHANGED clientVars

AcceptFinish(c, f) ==
  /\ f.kind = "finish"
  /\ known' = [known EXCEPT ![c] = @ \ {f.inst}]
  /\ Conclude(c, {r \in pending[c] : InstOf[r] = f.inst})

AcceptFrame(c) ==
  /\ Connected(c) /\ Deliver(c)
  /\ LET f == Head(down[c]) IN AcceptAnswer(c, f) \/ AcceptCreate(c, f) \/ AcceptFinish(c, f)
  /\ UNCHANGED <<ended, up>>

Waits == \E c \in Conn \ ended : Len(down[c]) >= MaxFrames

Read(c) ==
  /\ up[c] # <<>> /\ ~Waits
  /\ Receive(c, Head(up[c])) /\ up' = [up EXCEPT ![c] = Tail(@)]
  /\ UNCHANGED <<clientVars, ended, known>>

Unity == ~Waits /\ QueryStep /\ UNCHANGED <<clientVars, ended, up, known>>

Client(c) ==
  \/ \E r \in Request, sent \in BOOLEAN : Query(c, r, sent)
  \/ \E r \in Request : Expire(c, r)
  \/ \E i \in Instance : CancelInstance(c, i)
  \/ Disconnect(c) \/ AcceptFrame(c)

DebugNext == Unity \/ \E c \in Conn : Client(c) \/ Read(c)

(***************************************************************************)
(* The timer of a pending query goes off.  The host calls Pump every       *)
(* frame, time passes, and a handler that was called returns.              *)
(***************************************************************************)
SomeTimesOut ==
  \E n \in 0..Len(queue), q \in Arrangements(inFlight) : q # <<>> /\ TakeTimeouts(n, q)
UnityStep(A) == ~Waits /\ A /\ UNCHANGED <<clientVars, ended, up, known>>

DebugFairness ==
  /\ \A c \in Conn : WF_allVars(\E r \in Request : Expire(c, r))
  /\ \A c \in Conn : WF_allVars(AcceptFrame(c)) /\ WF_allVars(Disconnect(c))
  /\ WF_allVars(UnityStep(Pump)) /\ SF_allVars(UnityStep(SomeTimesOut))

DebugSafety == DebugInit /\ [][DebugNext]_allVars
DebugSpec   == DebugSafety /\ DebugFairness

---------------------------------------------------------------------------
(***************************************************************************)
(* A query is settled exactly once: its promise waits for as long as the   *)
(* tracker has it, and is resolved or rejected once after that (query,     *)
(* handleEnvelope, onTimeout, cancelAll, cancelInstance, cancelRequest).   *)
(***************************************************************************)
SettledOnce ==
  /\ \A c \in Conn : waiting[c] = pending[c]
  /\ \A r \in Request : settled[r] + (IF r \in waiting[ConnOf[r]] THEN 1 ELSE 0) <= 1

(***************************************************************************)
(* A late answer is known as one: what comes back for a query of this link *)
(* is pending or remembered, unless the cap has pushed it out.  A binary   *)
(* result that is neither would be read as an event (isKnownRequest).      *)
(***************************************************************************)
LateIsKnown ==
  \A c \in Conn : \A f \in Elements(down[c]) :
    IsAnswer(f) /\ c \notin ended /\ ConnOf[f.of] = c =>
      f.of \in pending[c] \/ SeqOf[f.of] \in Elements(retired[c]) \cup evicted[c]

(***************************************************************************)
(* Every query comes to an end, whatever Unity does (setTimer, expire).    *)
(***************************************************************************)
EveryQueryEnds ==
  \A r \in Request : r \in waiting[ConnOf[r]] ~> r \notin waiting[ConnOf[r]]

(***************************************************************************)
(* What Unity has accepted it does not keep: a queued request is called or *)
(* answered, and one in flight does not count there for ever (Pump).       *)
(***************************************************************************)
NothingKept ==
  \A r \in Request : r \in Queued \cup inFlight ~> r \notin Queued \cup inFlight

(***************************************************************************)
(* "Numbers must be unique within a connection, so that results are not    *)
(* crossed" (the comment in Enqueue): an answer that settles a query was   *)
(* written for it.                                                         *)
(***************************************************************************)
NotCrossed ==
  \A c \in Conn : down[c] # <<>> /\ c \notin ended =>
    \A r \in Pending(c, Head(down[c])) : Head(down[c]).of = r
=============================================================================
