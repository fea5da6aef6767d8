------------------------ MODULE ProviderRuntimeProofs ------------------------
(***************************************************************************)
(* Theorems about ProviderRuntime: the types of its variables, that nobody *)
(* waits for a process that is gone, and that a quarantine is lifted by a  *)
(* start under way alone, for any number of calls, processes and faults.   *)
(***************************************************************************)
EXTENDS ProviderRuntime, TLAPS

(* The request of a start is the only one of its kind, and the start waits *)
(* for it or has just failed.                                              *)
HelloInv ==
  /\ \A r \in pending : r.of = Hello => starter.pc \in {"initialize", "failed"}
  /\ \A r, s \in pending : r.of = Hello /\ s.of = Hello => r = s

(* A failed start waits for one termination, and until it is over there is *)
(* no process.                                                             *)
CatchInv ==
  /\ starter.pc = "faulting" => process = 0
  /\ \A t \in tasks : t.kind = "catch" => starter.pc = "faulting"
  /\ \A t, u \in tasks : t.kind = "catch" /\ u.kind = "catch" => t = u

(* A disposed host asks for nothing; an exit is expected of a process that *)
(* was abandoned, and of no other; and a process that runs in a quarantine *)
(* runs in one that its crash confirms.                                    *)
EndInv ==
  /\ state = "disposed" => pending = {} /\ cancelled = {} /\ \A c \in Call : pc[c] # "go"
  /\ process # 0 /\ expectedExit = generation => state = "disposed"
  /\ process = 0 => \A g \in Generation :
        g = generation /\ child[g] \in {"live", "dying"} => expectedExit = g \/ state = "disposed"
  /\ state = "quarantined" /\ process # 0 => since = FALSE /\ attempts > MaxRestarts

ProviderInv ==
  /\ ProviderTypeOK /\ NothingAwaited
  /\ HelloInv /\ CatchInv /\ EndInv

---------------------------------------------------------------------------
(* The parts that the steps are made of.                                   *)
LEMMA EndedFacts ==
  ASSUME NEW S, NEW at \in [Caller -> Stage]
  PROVE  /\ Ended(S, at) \in [Caller -> Stage]
         /\ \A c \in Call : Ended(S, at)[c] = "go" => at[c] = "go"
BY DEF Ended, Stage, Caller

LEMMA RejectFacts ==
  ASSUME ProviderTypeOK, NEW at \in [Caller -> Stage], RejectAll(at)
  PROVE  /\ pending' = {} /\ cancelled' = {} /\ pc' \in [Caller -> Stage]
         /\ \A c \in Call : pc'[c] = "go" => at[c] = "go"
         /\ starter' \in Starters
         /\ starter'.pc = "failed" \/ starter' = starter
         /\ \/ starter' = starter
            \/ starter'.pc = "failed" /\ \E r \in pending : r.of = Hello
BY EndedFacts DEF RejectAll, StartFails, Asking, Starters, ProviderTypeOK

LEMMA CrashFacts ==
  ASSUME ProviderTypeOK, RecordCrash
  PROVE  /\ state' \in {"quarantined", "backoff"}
         /\ state' = "quarantined" => since' = FALSE /\ attempts' > MaxRestarts
         /\ attempts' \in Nat /\ rest' \in BOOLEAN /\ since' \in BOOLEAN
<1>1. PICK stable \in {FALSE, since} :
        /\ since' = FALSE
        /\ attempts' = IF stable THEN 1 ELSE attempts + 1
        /\ IF attempts' > MaxRestarts
           THEN state' = "quarantined" /\ rest' = rest
           ELSE state' = "backoff" /\ rest' = TRUE
  BY DEF RecordCrash
<1>2. attempts' = 1 \/ attempts' = attempts + 1
  BY <1>1
<1>3. attempts' \in Nat
  BY <1>2 DEF ProviderTypeOK
<1>4. (state' = "quarantined" /\ rest' = rest) \/ (state' = "backoff" /\ rest' = TRUE)
  BY <1>1
<1> QED BY <1>1, <1>3, <1>4 DEF ProviderTypeOK

LEMMA FaultEndsFacts ==
  ASSUME ProviderTypeOK, NEW record, FaultEnds(record)
  PROVE  /\ state' \in {"stopped", "starting", "ready", "backoff", "quarantined", "disposed"}
         /\ attempts' \in Nat /\ rest' \in BOOLEAN /\ since' \in BOOLEAN
         /\ state' = "disposed" <=> state = "disposed"
         /\ state = "quarantined" => state' = "quarantined"
         /\ state' = "quarantined" =>
              \/ UNCHANGED <<state, attempts, since>>
              \/ since' = FALSE /\ attempts' > MaxRestarts
BY CrashFacts DEF FaultEnds, Unavailable, crashVars, ProviderTypeOK

LEMMA StopEndsFacts ==
  ASSUME ProviderTypeOK, StopEnds
  PROVE  /\ state' \in {"stopped", "starting", "ready", "backoff", "quarantined", "disposed"}
         /\ attempts' \in Nat /\ rest' \in BOOLEAN /\ since' \in BOOLEAN
         /\ state' = "disposed" <=> state = "disposed"
         /\ state = "quarantined" => state' = "quarantined"
         /\ state' = "quarantined" =>
              \/ UNCHANGED <<state, attempts, since>>
              \/ since' = FALSE /\ attempts' > MaxRestarts
BY DEF StopEnds, Unavailable, crashVars, ProviderTypeOK

\* The process is abandoned, and what terminates it is of this kind.
Abandoned(kind) ==
  /\ process' = 0 /\ generation' = generation /\ expectedExit' = generation
  /\ state' \in {"stopped", "starting", "ready", "backoff", "quarantined", "disposed"}
  /\ attempts' \in Nat /\ rest' \in BOOLEAN /\ since' \in BOOLEAN
  /\ state' = "disposed" => state = "disposed"
  /\ state = "quarantined" => state' = "quarantined"
  /\ child' \in [Generation -> {"none", "live", "dying", "dead"}]
  /\ \/ process = 0 /\ tasks' = tasks
     \/ process # 0 /\ \E t \in Tasks : t.kind = kind /\ tasks' = tasks \cup {t}

LEMMA TaskFacts ==
  ASSUME ProviderTypeOK,
         NEW kind \in {"fault", "catch", "stop", "end"}, NEW g \in Generation,
         NEW record \in BOOLEAN, NEW c \in Caller,
         Terminate(Task(kind, g, record, c))
  PROVE  /\ \E t \in Tasks : t.kind = kind /\ tasks' = tasks \cup {t}
         /\ child' = [child EXCEPT ![g] = "dying"]
         /\ child' \in [Generation -> {"none", "live", "dying", "dead"}]
<1>1. Task(kind, g, record, c) \in Tasks /\ Task(kind, g, record, c).kind = kind
  BY DEF Task, Tasks
<1>2. tasks' = tasks \cup {Task(kind, g, record, c)}
  BY DEF Terminate
<1>3. child' = [child EXCEPT ![g] = "dying"]
  BY DEF Terminate, Task
<1> QED BY <1>1, <1>2, <1>3 DEF ProviderTypeOK

\* A process there is, is one of the generations.
LEMMA ProcessFacts ==
  ASSUME ProviderTypeOK, process # 0
  PROVE  process \in Generation /\ process = generation
BY DEF ProviderTypeOK

LEMMA FaultFacts ==
  ASSUME ProviderTypeOK, NEW kind \in {"fault", "catch"}, Fault(kind)
  PROVE  Abandoned(kind)
<1>1. Closing \in Caller
  BY DEF Caller
<1>2. CASE process # 0
  <2>1. UNCHANGED crashVars /\ Abandon
    BY <1>2 DEF Fault
  <2>2. PICK record \in BOOLEAN : Terminate(Task(kind, process, record, Closing))
    BY <1>2 DEF Fault
  <2>3. /\ \E t \in Tasks : t.kind = kind /\ tasks' = tasks \cup {t}
        /\ child' \in [Generation -> {"none", "live", "dying", "dead"}]
    BY <1>1, <1>2, <2>2, ProcessFacts, TaskFacts
  <2> QED BY <1>2, <2>1, <2>3 DEF Abandon, Abandoned, crashVars, ProviderTypeOK
<1>3. CASE process = 0
  <2>1. \E record : FaultEnds(record)
    BY <1>3 DEF Fault
  <2>2. UNCHANGED <<child, tasks>>
    BY <1>3 DEF Fault
  <2>3. Abandon
    BY DEF Fault
  <2> QED BY <1>3, <2>1, <2>2, <2>3, FaultEndsFacts DEF Abandon, Abandoned, ProviderTypeOK
<1> QED BY <1>2, <1>3

LEMMA StopFacts ==
  ASSUME ProviderTypeOK, Stop
  PROVE  Abandoned("stop")
<1>1. Closing \in Caller
  BY DEF Caller
<1>2. CASE process # 0
  <2>1. UNCHANGED crashVars /\ Abandon /\ Terminate(Task("stop", process, FALSE, Closing))
    BY <1>2 DEF Stop
  <2>2. /\ \E t \in Tasks : t.kind = "stop" /\ tasks' = tasks \cup {t}
        /\ child' \in [Generation -> {"none", "live", "dying", "dead"}]
    BY <1>1, <1>2, <2>1, ProcessFacts, TaskFacts
  <2> QED BY <1>2, <2>1, <2>2 DEF Abandon, Abandoned, crashVars, ProviderTypeOK
<1>3. CASE process = 0
  <2>1. StopEnds /\ UNCHANGED <<child, tasks>> /\ Abandon
    BY <1>3 DEF Stop
  <2> QED BY <1>3, <2>1, StopEndsFacts DEF Abandon, Abandoned, ProviderTypeOK
<1> QED BY <1>2, <1>3

---------------------------------------------------------------------------
(* What keeps the invariant.                                               *)

\* A step of the calls alone.
LEMMA CallsKeep ==
  ASSUME ProviderInv,
         UNCHANGED <<state, attempts, since, processVars, requestVars, tasks, child>>,
         rest' \in BOOLEAN, faults' \in Nat, edited' \subseteq Caller,
         closing' \in [process : Generation \cup {0}, generation : Generation \cup {0}],
         pc' \in [Caller -> Stage],
         \A c \in Call : pc'[c] = "go" => pc[c] = "go" \/ state # "disposed"
  PROVE  ProviderInv'
<1> USE DEF ProviderInv, processVars, requestVars
<1>1. ProviderTypeOK'
  BY DEF ProviderTypeOK
<1>2. NothingAwaited' /\ CatchInv'
  BY DEF NothingAwaited, CatchInv
<1>3. HelloInv' /\ EndInv'
  BY DEF HelloInv, EndInv
<1> QED BY <1>1, <1>2, <1>3

\* The process is abandoned, and nothing is waited for any more.
LEMMA AbandonedKeeps ==
  ASSUME ProviderInv, NEW kind, Abandoned(kind), CatchInv',
         pending' = {}, cancelled' = {}, starter' \in Starters,
         pc' \in [Caller -> Stage],
         \A c \in Call : pc'[c] = "go" => pc[c] = "go",
         UNCHANGED <<edited, closing>>, faults' \in Nat
  PROVE  ProviderInv'
<1> USE DEF ProviderInv, Abandoned
<1>1. tasks' \subseteq Tasks
  BY DEF ProviderTypeOK
<1>2. ProviderTypeOK'
  BY <1>1 DEF ProviderTypeOK
<1>3. NothingAwaited' /\ HelloInv'
  BY DEF NothingAwaited, HelloInv
<1>4. EndInv'
  BY DEF EndInv
<1> QED BY <1>2, <1>3, <1>4

\* Who waits is rejected: a failed start that is terminating is none of them.
LEMMA RejectedStart ==
  ASSUME ProviderInv, NEW at \in [Caller -> Stage], RejectAll(at)
  PROVE  /\ starter' = starter \/ \A t \in tasks : t.kind # "catch"
         /\ starter'.pc = "faulting" => process = 0
<1>1. \/ starter' = starter
      \/ starter'.pc = "failed" /\ \E r \in pending : r.of = Hello
  BY RejectFacts DEF ProviderInv
<1> QED BY <1>1 DEF ProviderInv, HelloInv, CatchInv

\* What is told to stop then is another matter.
LEMMA RejectedCatch ==
  ASSUME ProviderInv, NEW at \in [Caller -> Stage], RejectAll(at),
         process' = process \/ process' = 0,
         \A t \in tasks' : t \in tasks \/ t.kind # "catch"
  PROVE  CatchInv'
BY RejectedStart DEF ProviderInv, CatchInv

LEMMA FaultKeeps ==
  ASSUME ProviderInv, Fault("fault") \/ Stop, RejectAll(pc),
         UNCHANGED <<edited, closing>>, faults' \in Nat
  PROVE  ProviderInv'
<1>1. ProviderTypeOK /\ pc \in [Caller -> Stage]
  BY DEF ProviderInv, ProviderTypeOK
<1>2. PICK kind \in {"fault", "stop"} : Abandoned(kind)
  BY <1>1, FaultFacts, StopFacts
<1>3. CatchInv'
  BY <1>1, <1>2, RejectedCatch DEF Abandoned
<1> QED BY <1>1, <1>2, <1>3, RejectFacts, AbandonedKeeps

LEMMA CatchKeeps ==
  ASSUME ProviderInv, Catch
  PROVE  ProviderInv'
<1>1. ProviderTypeOK /\ pc \in [Caller -> Stage] /\ Closing \in Caller
  BY DEF ProviderInv, ProviderTypeOK, Caller
<1>2. Abandoned("catch")
  BY <1>1, FaultFacts DEF Catch
<1>3. /\ pc' \in [Caller -> Stage]
      /\ \A c \in Call : pc'[c] = "go" => pc[c] = "go"
  BY <1>1, EndedFacts DEF Catch, AfterStart
<1>4. starter' \in Starters /\ (process # 0 => starter'.pc = "faulting")
  BY <1>1 DEF Catch, NoStart, Starters, ProviderTypeOK
<1>5. \A t \in tasks : t.kind # "catch"
  BY DEF Catch, ProviderInv, CatchInv
<1>6. CatchInv'
  BY <1>2, <1>4, <1>5 DEF Abandoned, CatchInv
<1> QED BY <1>2, <1>3, <1>4, <1>6, AbandonedKeeps DEF Catch, sideVars, ProviderInv, ProviderTypeOK

\* What each step of a call keeps.
LEMMA CallTypes ==
  ASSUME ProviderTypeOK, NEW c \in Caller, NEW stage \in Stage
  PROVE  /\ [pc EXCEPT ![c] = stage] \in [Caller -> Stage]
         /\ \A d \in Call : [pc EXCEPT ![c] = stage][d] = "go" => pc[d] = "go" \/ stage = "go"
BY DEF ProviderTypeOK

LEMMA BeginKeeps ==
  ASSUME ProviderInv, NEW c \in Caller, Begin(c)
  PROVE  ProviderInv'
<1>1. "captured" \in Stage
  BY DEF Stage
<1> QED BY <1>1, CallTypes, CallsKeep
     DEF Begin, ProviderInv, ProviderTypeOK, crashVars, sideVars

\* A process is started beside whatever is still waited for or terminating.
LEMMA SpawnKeeps ==
  ASSUME ProviderInv, NEW c \in Caller, Spawn(c), UNCHANGED <<tasks, sideVars>>,
         starter.pc \in {"none", "delay"}, pc' \in [Caller -> Stage]
  PROVE  ProviderInv'
<1> DEFINE g == generation + 1
<1>1. g \in Generation /\ g # 0
  BY ProviderAssumption DEF Spawn, ProviderInv, ProviderTypeOK, Generation
<1>2. /\ process' = g /\ generation' = g /\ expectedExit' = 0 /\ state' = "starting"
      /\ pending' = pending \cup {Request(Hello, g)} /\ cancelled' = cancelled
      /\ starter' = [pc |-> "initialize", by |-> c]
      /\ child' = [child EXCEPT ![g] = "live"]
  BY DEF Spawn
<1>3. Request(Hello, g) \in Requests
  BY <1>1 DEF Request, Requests
<1>4. starter' \in Starters /\ starter'.pc = "initialize"
  BY <1>2 DEF Starters
<1>5. ProviderTypeOK'
  <2>1. pending' \subseteq Requests /\ cancelled' \subseteq CancelledRequests
    BY <1>2, <1>3 DEF ProviderInv, ProviderTypeOK
  <2>2. child' \in [Generation -> {"none", "live", "dying", "dead"}]
    BY <1>2 DEF ProviderInv, ProviderTypeOK
  <2> QED BY <1>1, <1>2, <1>4, <2>1, <2>2 DEF Spawn, sideVars, ProviderInv, ProviderTypeOK
<1>6. NothingAwaited' /\ EndInv'
  BY <1>1, <1>2 DEF NothingAwaited, EndInv
<1>7. HelloInv'
  <2>1. \A r \in pending : r.of # Hello
    BY DEF ProviderInv, HelloInv
  <2> QED BY <1>2, <1>4, <2>1 DEF HelloInv
<1>8. CatchInv'
  BY <1>4 DEF ProviderInv, CatchInv
<1> QED BY <1>5, <1>6, <1>7, <1>8 DEF ProviderInv

\* A call is told to wait for the end of a delay.
LEMMA DelayKeeps ==
  ASSUME ProviderInv, NeedsStart,
         state' = "backoff" \/ (state' = state /\ starter' = starter),
         starter' \in Starters, starter' = starter \/ starter'.pc = "delay",
         UNCHANGED <<attempts, rest, since, processVars, pending, cancelled, tasks, child, sideVars>>,
         pc' \in [Caller -> Stage],
         \A c \in Call : pc'[c] = "go" => pc[c] = "go"
  PROVE  ProviderInv'
<1>1. starter.pc = "none" /\ state \notin {"disposed", "quarantined"}
  BY DEF NeedsStart, Unavailable
<1> USE <1>1 DEF ProviderInv, processVars, sideVars
<1>2. ProviderTypeOK'
  BY DEF ProviderTypeOK
<1>3. NothingAwaited' /\ CatchInv'
  BY DEF NothingAwaited, CatchInv
<1>4. HelloInv' /\ EndInv'
  BY DEF HelloInv, EndInv
<1> QED BY <1>2, <1>3, <1>4

LEMMA EnsureKeeps ==
  ASSUME ProviderInv, NEW c \in Caller, Ensure(c)
  PROVE  ProviderInv'
<1>1. ProviderTypeOK /\ {"starting", "go"} \subseteq Stage /\ c \in Call /\ Call \subseteq Caller
  BY DEF ProviderInv, Ensure, Stage, Caller
<1>2. UNCHANGED <<tasks, sideVars>>
  BY DEF Ensure
<1>3. CASE EnsureUnavailable(c)
  <2>1. pc' \in [Caller -> Stage] /\ \A d \in Call : pc'[d] = "go" => pc[d] = "go"
    BY <1>1, <1>3, EndedFacts DEF EnsureUnavailable, ProviderTypeOK
  <2> QED BY <1>1, <1>2, <1>3, <2>1, CallsKeep
       DEF EnsureUnavailable, ProviderTypeOK, crashVars, sideVars
<1>4. CASE EnsureUsable(c)
  <2>1. pc' \in [Caller -> Stage] /\ state # "disposed"
    BY <1>1, <1>4, CallTypes DEF EnsureUsable, Usable
  <2> QED BY <1>1, <1>2, <1>4, <2>1, CallsKeep
       DEF EnsureUsable, ProviderTypeOK, crashVars, sideVars
<1>5. CASE EnsureJoins(c)
  <2>1. pc' \in [Caller -> Stage] /\ state # "disposed"
    BY <1>1, <1>5, CallTypes DEF EnsureJoins, Unavailable
  <2> QED BY <1>1, <1>2, <1>5, <2>1, CallsKeep
       DEF EnsureJoins, ProviderTypeOK, crashVars, sideVars
<1>6. CASE EnsureStarts(c)
  <2>1. /\ NeedsStart /\ pc' = [pc EXCEPT ![c] = "starting"]
    BY <1>6 DEF EnsureStarts
  <2>2. pc' \in [Caller -> Stage] /\ \A d \in Call : pc'[d] = "go" => pc[d] = "go"
    BY <1>1, <2>1, CallTypes
  <2>3. CASE rest
    <3>1. starter' \in Starters /\ starter'.pc = "delay" /\ state' = "backoff"
      BY <1>1, <1>6, <2>3 DEF EnsureStarts, Starters
    <3> QED BY <1>2, <1>6, <2>1, <2>2, <2>3, <3>1, DelayKeeps DEF EnsureStarts
  <2>4. CASE ~rest
    <3>1. Spawn(c)
      BY <1>6, <2>4 DEF EnsureStarts
    <3> QED BY <1>1, <1>2, <2>1, <2>2, <3>1, SpawnKeeps DEF NeedsStart
  <2> QED BY <2>3, <2>4
<1> QED BY <1>3, <1>4, <1>5, <1>6 DEF Ensure

LEMMA EnsureAbortedKeeps ==
  ASSUME ProviderInv, NEW c \in Caller, EnsureAborted(c)
  PROVE  ProviderInv'
<1>1. pc' \in [Caller -> Stage] /\ \A d \in Call : pc'[d] = "go" => pc[d] = "go"
  BY EndedFacts DEF EnsureAborted, ProviderInv, ProviderTypeOK
<1>2. CASE NeedsStart /\ rest
  <2>1. state' = "backoff" /\ starter' = starter /\ starter \in Starters
    BY <1>2 DEF EnsureAborted, requestVars, ProviderInv, ProviderTypeOK
  <2> QED BY <1>1, <1>2, <2>1, DelayKeeps DEF EnsureAborted, requestVars
<1>3. CASE ~(NeedsStart /\ rest)
  BY <1>1, <1>3, CallsKeep
  DEF EnsureAborted, ProviderInv, ProviderTypeOK, crashVars, sideVars
<1> QED BY <1>2, <1>3

LEMMA DelayOverKeeps ==
  ASSUME ProviderInv, DelayOver
  PROVE  ProviderInv'
<1>1. starter.pc = "delay" /\ starter.by \in Caller
  BY DEF DelayOver, ProviderInv, ProviderTypeOK, Starters
<1>2. CASE Unavailable
  <2>1. pc' \in [Caller -> Stage] /\ \A c \in Call : pc'[c] = "go" => pc[c] = "go"
    BY <1>2, EndedFacts DEF DelayOver, AfterStart, ProviderInv, ProviderTypeOK
  <2>2. starter' \in Starters /\ starter'.pc = "none"
    BY <1>2 DEF DelayOver, NoStart, Starters, Caller
  <2> USE <1>1, <1>2, <2>1, <2>2
      DEF DelayOver, ProviderInv, crashVars, processVars, sideVars
  <2>3. ProviderTypeOK'
    BY DEF ProviderTypeOK
  <2>4. NothingAwaited' /\ CatchInv'
    BY DEF NothingAwaited, CatchInv
  <2>5. HelloInv' /\ EndInv'
    BY DEF HelloInv, EndInv
  <2> QED BY <2>3, <2>4, <2>5
<1>3. CASE ~Unavailable
  <2>1. Spawn(starter.by) /\ UNCHANGED <<pc, tasks, sideVars>>
    BY <1>3 DEF DelayOver
  <2> QED BY <1>1, <2>1, SpawnKeeps DEF ProviderInv, ProviderTypeOK
<1> QED BY <1>2, <1>3

\* A request is written to the process there is.
LEMMA WritesKeeps ==
  ASSUME ProviderInv, NEW c \in Caller, process # 0, state # "disposed", Writes(c),
         UNCHANGED <<crashVars, processVars, cancelled, starter, tasks, child, sideVars>>
  PROVE  ProviderInv'
<1>1. process \in Generation
  BY DEF ProviderInv, ProviderTypeOK
<1>2. Request(c, process) \in Requests /\ Request(c, process).of # Hello
  BY <1>1, ProviderAssumption DEF Request, Requests
<1>3. pc' \in [Caller -> Stage]
  BY DEF Writes, Stage, ProviderInv, ProviderTypeOK
<1>4. pending' = pending \cup {Request(c, process)}
  BY DEF Writes
<1> USE <1>2, <1>3, <1>4 DEF ProviderInv, crashVars, processVars, sideVars
<1>5. ProviderTypeOK'
  BY DEF ProviderTypeOK
<1>6. NothingAwaited' /\ CatchInv'
  BY DEF NothingAwaited, CatchInv
<1>7. HelloInv' /\ EndInv'
  BY DEF HelloInv, EndInv
<1> QED BY <1>5, <1>6, <1>7

LEMMA SendKeeps ==
  ASSUME ProviderInv, NEW c \in Caller, Send(c)
  PROVE  ProviderInv'
<1>1. CASE process # 0 /\ Writes(c)
  <2>1. state # "disposed"
    BY DEF Send, ProviderInv, EndInv
  <2> QED BY <1>1, <2>1, WritesKeeps DEF Send
<1>2. CASE pc' = Ended({c}, pc) /\ UNCHANGED pending
  BY <1>2, EndedFacts, CallsKeep
  DEF Send, ProviderInv, ProviderTypeOK, crashVars, requestVars, sideVars
<1> QED BY <1>1, <1>2 DEF Send

LEMMA ShutdownKeeps ==
  ASSUME ProviderInv, Shutdown
  PROVE  ProviderInv'
<1>1. Closing \in Caller /\ "final" \in Stage
  BY DEF Caller, Stage
<1>2. CASE Usable /\ Writes(Closing)
  BY <1>1, <1>2, WritesKeeps DEF Shutdown, Usable
<1>3. CASE pc' = Ended({Closing}, pc) /\ UNCHANGED pending
  BY <1>1, <1>3, EndedFacts, CallsKeep
  DEF Shutdown, ProviderInv, ProviderTypeOK, crashVars, requestVars, sideVars
<1>4. CASE pc' = [pc EXCEPT ![Closing] = "final"] /\ UNCHANGED pending
  BY <1>1, <1>4, CallTypes, CallsKeep
  DEF Shutdown, ProviderInv, ProviderTypeOK, crashVars, requestVars, sideVars
<1> QED BY <1>2, <1>3, <1>4 DEF Shutdown

\* What is waited for is waited for at a process that is not terminating.
LEMMA PendingFacts ==
  ASSUME ProviderInv, pending # {}
  PROVE  /\ process # 0 /\ generation \in Generation /\ state # "disposed"
         /\ \A t \in tasks : t.kind # "catch"
BY DEF ProviderInv, ProviderTypeOK, NothingAwaited, CatchInv, EndInv

\* A request is waited for no more: no start waits for it any longer.
LEMMA FewerKeep ==
  ASSUME ProviderInv, pending # {}, pending' \subseteq pending,
         starter' = starter \/ starter'.pc = "failed",
         starter' \in Starters,
         cancelled' \subseteq CancelledRequests,
         UNCHANGED <<crashVars, processVars, tasks, child, sideVars>>,
         pc' \in [Caller -> Stage]
  PROVE  ProviderInv'
<1> USE PendingFacts DEF ProviderInv, crashVars, processVars, sideVars
<1>1. ProviderTypeOK'
  BY DEF ProviderTypeOK
<1>2. NothingAwaited' /\ CatchInv'
  BY DEF NothingAwaited, CatchInv
<1>3. HelloInv' /\ EndInv'
  BY DEF HelloInv, EndInv
<1> QED BY <1>1, <1>2, <1>3

LEMMA RespondKeeps ==
  ASSUME ProviderInv, NEW r \in pending, Respond(r)
  PROVE  ProviderInv'
<1>1. pc' \in [Caller -> Stage]
  BY EndedFacts DEF Respond, ProviderInv, ProviderTypeOK
<1> QED BY <1>1, FewerKeep DEF Respond, ProviderInv, ProviderTypeOK

LEMMA InitializedKeeps ==
  ASSUME ProviderInv, NEW r \in pending, Initialized(r)
  PROVE  ProviderInv'
<1>1. /\ process # 0 /\ state # "disposed" /\ expectedExit # generation
      /\ \A t \in tasks : t.kind # "catch"
  BY PendingFacts DEF ProviderInv, EndInv
<1>2. \A s \in pending \ {r} : s.of # Hello
  BY DEF Initialized, ProviderInv, HelloInv
<1>3. CASE /\ state' = "ready" /\ since' = TRUE /\ starter' = NoStart
           /\ pc' = [c \in Caller |-> IF pc[c] = "starting" THEN "go" ELSE pc[c]]
  <2>1. pc' \in [Caller -> Stage]
    BY <1>3 DEF Stage, ProviderInv, ProviderTypeOK
  <2>2. starter' \in Starters /\ starter'.pc = "none"
    BY <1>3 DEF NoStart, Starters, Caller
  <2> USE <1>1, <1>2, <1>3, <2>1, <2>2
      DEF Initialized, ProviderInv, processVars, sideVars
  <2>3. ProviderTypeOK'
    BY DEF ProviderTypeOK
  <2>4. NothingAwaited' /\ CatchInv'
    BY DEF NothingAwaited, CatchInv
  <2>5. HelloInv' /\ EndInv'
    BY DEF HelloInv, EndInv
  <2> QED BY <2>3, <2>4, <2>5
<1>4. CASE starter' = StartFails /\ UNCHANGED <<state, since, pc>>
  <2>1. starter' \in Starters /\ starter'.pc = "failed"
    BY <1>4 DEF StartFails, Starters, ProviderInv, ProviderTypeOK
  <2> QED BY <1>4, <2>1, FewerKeep
       DEF Initialized, ProviderInv, ProviderTypeOK, crashVars
<1> QED BY <1>3, <1>4 DEF Initialized

LEMMA ViolateKeeps ==
  ASSUME ProviderInv, NEW g \in Generation, Violate(g)
  PROVE  ProviderInv'
<1>1. faults' \in Nat
  BY DEF Violate, ProviderInv, ProviderTypeOK
<1> QED BY <1>1, FaultKeeps DEF Violate

LEMMA GraceKeeps ==
  ASSUME ProviderInv, NEW x \in cancelled, Grace(x)
  PROVE  ProviderInv'
<1>1. CASE x.generation = generation
  BY <1>1, FaultKeeps DEF Grace, sideVars, ProviderInv, ProviderTypeOK
<1>2. CASE x.generation # generation
  <2> USE <1>2 DEF Grace, ProviderInv, crashVars, processVars, sideVars
  <2>1. ProviderTypeOK'
    BY DEF ProviderTypeOK
  <2>2. NothingAwaited' /\ CatchInv'
    BY DEF NothingAwaited, CatchInv
  <2>3. HelloInv' /\ EndInv'
    BY DEF HelloInv, EndInv
  <2> QED BY <2>1, <2>2, <2>3
<1> QED BY <1>1, <1>2

LEMMA AnswerLateKeeps ==
  ASSUME ProviderInv, NEW x \in cancelled, AnswerLate(x)
  PROVE  ProviderInv'
<1> USE DEF AnswerLate, ProviderInv, crashVars, processVars, sideVars
<1>1. ProviderTypeOK'
  BY DEF ProviderTypeOK
<1>2. NothingAwaited' /\ CatchInv'
  BY DEF NothingAwaited, CatchInv
<1>3. HelloInv' /\ EndInv'
  BY DEF HelloInv, EndInv
<1> QED BY <1>1, <1>2, <1>3

\* A cancelled request is noted under the generation there is.
LEMMA CancelledFacts ==
  ASSUME ProviderInv, NEW r \in pending, NEW kill \in BOOLEAN, Cancelled(r, kill)
  PROVE  /\ pending # {} /\ pending' = pending \ {r} /\ pc' \in [Caller -> Stage]
         /\ cancelled' \subseteq CancelledRequests
<1> DEFINE new == [request |-> r, kill |-> kill, generation |-> generation]
<1>1. r \in Requests /\ generation \in Generation
  BY PendingFacts DEF ProviderInv, ProviderTypeOK
<1>2. new \in CancelledRequests
  BY <1>1 DEF CancelledRequests
<1>3. cancelled' = cancelled \cup {new} /\ pending' = pending \ {r} /\ pc' = Ended({r.of}, pc)
  BY DEF Cancelled
<1> QED BY <1>2, <1>3, EndedFacts DEF ProviderInv, ProviderTypeOK

LEMMA ExpireKeeps ==
  ASSUME ProviderInv, NEW r \in pending, Expire(r)
  PROVE  ProviderInv'
<1>1. Cancelled(r, TRUE)
  BY DEF Expire
<1>2. starter' \in Starters
  BY DEF Expire, StartFails, Starters, ProviderInv, ProviderTypeOK
<1>3. IF r.of = Hello THEN starter'.pc = "failed" ELSE starter' = starter
  BY DEF Expire, StartFails, Starters, ProviderInv, ProviderTypeOK
<1> QED BY <1>1, <1>2, <1>3, CancelledFacts, FewerKeep DEF Expire

LEMMA AbortStartingKeeps ==
  ASSUME ProviderInv, NEW c \in Call, AbortStarting(c),
         UNCHANGED <<crashVars, processVars, tasks, child, sideVars>>
  PROVE  ProviderInv'
<1>1. /\ Ended({c}, pc) \in [Caller -> Stage] /\ AfterStart \in [Caller -> Stage]
      /\ \A d \in Call : Ended({c}, pc)[d] = "go" => pc[d] = "go"
      /\ \A d \in Call : AfterStart[d] = "go" => pc[d] = "go"
  BY EndedFacts DEF AfterStart, ProviderInv, ProviderTypeOK
<1>2. CASE /\ starter = [pc |-> "delay", by |-> c] /\ starter' = NoStart
           /\ pc' = AfterStart /\ UNCHANGED pending
  <2>1. pc' = AfterStart /\ starter' = NoStart /\ UNCHANGED <<pending, cancelled>>
    BY <1>2 DEF AbortStarting
  <2>2. starter' \in Starters /\ starter'.pc = "none" /\ starter.pc = "delay"
    BY <1>2, <2>1 DEF NoStart, Starters, Caller
  <2> USE <1>1, <2>1, <2>2 DEF ProviderInv, crashVars, processVars, sideVars
  <2>3. ProviderTypeOK'
    BY DEF ProviderTypeOK
  <2>4. NothingAwaited' /\ CatchInv'
    BY DEF NothingAwaited, CatchInv
  <2>5. HelloInv' /\ EndInv'
    BY DEF HelloInv, EndInv
  <2> QED BY <2>3, <2>4, <2>5
<1>3. CASE /\ starter.by = c /\ Hello \in Asking /\ starter' = StartFails
           /\ pc' = Ended({c}, pc) /\ pending' = {r \in pending : r.of # Hello}
  <2>1. /\ pc' = Ended({c}, pc) /\ starter' = StartFails /\ UNCHANGED cancelled
        /\ pending' = {r \in pending : r.of # Hello}
    BY <1>3 DEF AbortStarting
  <2>2. pending # {} /\ starter' \in Starters /\ starter'.pc = "failed"
    BY <1>3, <2>1 DEF Asking, StartFails, Starters, ProviderInv, ProviderTypeOK
  <2> QED BY <1>1, <2>1, <2>2, FewerKeep DEF ProviderInv, ProviderTypeOK
<1>4. CASE pc' = Ended({c}, pc) /\ UNCHANGED <<starter, pending>>
  <2>1. pc' = Ended({c}, pc) /\ UNCHANGED <<starter, pending, cancelled>>
    BY <1>4 DEF AbortStarting
  <2> QED BY <1>1, <2>1, CallsKeep
       DEF ProviderInv, ProviderTypeOK, crashVars, requestVars, sideVars
<1> QED BY <1>2, <1>3, <1>4 DEF AbortStarting

LEMMA AbortKeeps ==
  ASSUME ProviderInv, NEW c \in Caller, Abort(c)
  PROVE  ProviderInv'
<1>1. /\ c \in Call /\ Hello # c
      /\ UNCHANGED <<crashVars, processVars, tasks, child, sideVars>>
  BY ProviderAssumption DEF Abort
<1>2. CASE pc[c] = "captured" /\ pc' = [pc EXCEPT ![c] = "aborted"] /\ UNCHANGED requestVars
  <2>1. "aborted" \in Stage
    BY DEF Stage
  <2> QED BY <1>1, <1>2, <2>1, CallTypes, CallsKeep
       DEF ProviderInv, ProviderTypeOK, crashVars, sideVars
<1>3. CASE AbortStarting(c)
  BY <1>1, <1>3, AbortStartingKeeps
<1>4. CASE \E r \in pending : r.of = c /\ Cancelled(r, FALSE) /\ UNCHANGED starter
  <2>1. PICK r \in pending : r.of = c /\ Cancelled(r, FALSE) /\ UNCHANGED starter
    BY <1>4
  <2> QED BY <1>1, <2>1, CancelledFacts, FewerKeep DEF ProviderInv, ProviderTypeOK
<1> QED BY <1>2, <1>3, <1>4 DEF Abort

LEMMA ExitKeeps ==
  ASSUME ProviderInv, NEW g \in Generation, Exit(g)
  PROVE  ProviderInv'
<1>1. /\ child[g] \in {"dying", "live"} /\ faults' \in Nat
      /\ child' = [child EXCEPT ![g] = "dead"]
      /\ UNCHANGED <<generation, expectedExit, tasks, edited, closing>>
      /\ g # 0
  BY DEF Exit, ProviderInv, ProviderTypeOK, Generation
<1>2. /\ child' \in [Generation -> {"none", "live", "dying", "dead"}]
      /\ \A h \in Generation : child'[h] # "dead" => child'[h] = child[h] /\ h # g
  BY <1>1 DEF ProviderInv, ProviderTypeOK
<1>3. CASE g = generation /\ ~Expected(g)
  <2>1. RejectAll(pc) /\ RecordCrash /\ process' = 0
    BY <1>3 DEF Exit
  <2>2. ProviderTypeOK /\ pc \in [Caller -> Stage]
    BY DEF ProviderInv, ProviderTypeOK
  <2>3. /\ pending' = {} /\ cancelled' = {} /\ pc' \in [Caller -> Stage]
        /\ starter' \in Starters
    BY <2>1, <2>2, RejectFacts
  <2>4. /\ state' \in {"quarantined", "backoff"}
        /\ attempts' \in Nat /\ rest' \in BOOLEAN /\ since' \in BOOLEAN
    BY <2>1, <2>2, CrashFacts
  <2>5. CatchInv'
    BY <1>1, <2>1, <2>2, RejectedCatch
  <2> USE <1>1, <1>2, <1>3, <2>1, <2>3, <2>4 DEF ProviderInv
  <2>6. ProviderTypeOK'
    BY DEF ProviderTypeOK
  <2>7. NothingAwaited' /\ HelloInv'
    BY DEF NothingAwaited, HelloInv
  <2>8. EndInv'
    BY DEF EndInv
  <2> QED BY <2>5, <2>6, <2>7, <2>8
<1>4. CASE ~(g = generation /\ ~Expected(g))
  <2>1. /\ UNCHANGED <<crashVars, requestVars, pc>>
        /\ process' = IF g = generation THEN 0 ELSE process
    BY <1>4 DEF Exit
  <2>2. g = generation => process = 0 \/ state = "disposed"
    BY <1>4 DEF Expected, ProviderInv, EndInv
  <2>3. g = generation => pending = {} /\ cancelled = {}
    BY <2>2 DEF ProviderInv, NothingAwaited, EndInv
  <2> USE <1>1, <1>2, <2>1, <2>2, <2>3 DEF ProviderInv, crashVars, requestVars
  <2>4. ProviderTypeOK'
    BY DEF ProviderTypeOK
  <2>5. NothingAwaited' /\ CatchInv' /\ HelloInv'
    BY DEF NothingAwaited, CatchInv, HelloInv
  <2>6. EndInv'
    BY DEF EndInv
  <2> QED BY <2>4, <2>5, <2>6
<1> QED BY <1>3, <1>4

\* A late end looks at the state, but not at who runs meanwhile.
LEMMA TaskEndsKeeps ==
  ASSUME ProviderInv, NEW t \in tasks, TaskEnds(t)
  PROVE  ProviderInv'
<1>1. /\ tasks' = tasks \ {t} /\ UNCHANGED <<processVars, pending, cancelled, child, sideVars>>
      /\ t.kind \in {"fault", "catch", "stop", "end"} /\ t.of \in Caller
  BY DEF TaskEnds, Tasks, ProviderInv, ProviderTypeOK
<1>2. t.kind = "catch" => pending = {} /\ \A u \in tasks' : u.kind # "catch"
  BY <1>1 DEF ProviderInv, CatchInv, NothingAwaited
<1>3. /\ state' \in {"stopped", "starting", "ready", "backoff", "quarantined", "disposed"}
      /\ attempts' \in Nat /\ rest' \in BOOLEAN /\ since' \in BOOLEAN
      /\ state' = "disposed" <=> state = "disposed"
      /\ state' = "quarantined" =>
           \/ UNCHANGED <<state, attempts, since>>
           \/ since' = FALSE /\ attempts' > MaxRestarts
  BY FaultEndsFacts, StopEndsFacts DEF TaskEnds, crashVars, ProviderInv, ProviderTypeOK
<1>4. /\ pc' \in [Caller -> Stage]
      /\ \A c \in Call : pc'[c] = "go" => pc[c] = "go"
  <2>1. AfterEnd(t.of) \in Stage /\ AfterEnd(t.of) # "go"
    BY DEF AfterEnd, Stage
  <2>2. CASE pc' = pc
    BY <2>2 DEF ProviderInv, ProviderTypeOK
  <2>3. CASE pc' = AfterStart
    BY <2>3, EndedFacts DEF AfterStart, ProviderInv, ProviderTypeOK
  <2>4. CASE pc' = [pc EXCEPT ![t.of] = AfterEnd(t.of)]
    BY <2>1, <2>4, <1>1, CallTypes DEF ProviderInv
  <2> QED BY <2>2, <2>3, <2>4 DEF TaskEnds
<1>5. /\ starter' \in Starters
      /\ starter' = starter \/ (starter'.pc = "none" /\ t.kind = "catch")
  BY DEF TaskEnds, NoStart, Starters, Caller, ProviderInv, ProviderTypeOK
<1> USE <1>1, <1>2, <1>3, <1>4, <1>5 DEF ProviderInv, processVars, sideVars
<1>6. ProviderTypeOK'
  BY DEF ProviderTypeOK
<1>7. NothingAwaited' /\ CatchInv'
  BY DEF NothingAwaited, CatchInv
<1>8. HelloInv'
  BY DEF HelloInv
<1>9. EndInv'
  BY DEF EndInv
<1> QED BY <1>6, <1>7, <1>8, <1>9

LEMMA SettleKeeps ==
  ASSUME ProviderInv, NEW c \in Caller, Settle(c)
  PROVE  ProviderInv'
<1>1. "check" \in Stage
  BY DEF Stage
<1> QED BY <1>1, CallTypes, CallsKeep
     DEF Settle, ProviderInv, ProviderTypeOK, crashVars, sideVars

LEMMA CheckKeeps ==
  ASSUME ProviderInv, NEW c \in Caller, Check(c)
  PROVE  ProviderInv'
<1>1. /\ {After(c), "quarantining"} \subseteq Stage /\ After(c) # "go"
      /\ ProviderTypeOK
  BY DEF After, Stage, ProviderInv
<1>2. CASE Unchanged(c)
  BY <1>1, <1>2, CallTypes, CallsKeep
  DEF Check, Unchanged, ProviderTypeOK, crashVars, sideVars
<1>3. CASE Changed(c)
  <2>1. PICK stage \in {After(c), "quarantining"} : RejectAll([pc EXCEPT ![c] = stage])
    BY <1>3 DEF Changed
  <2>2. /\ [pc EXCEPT ![c] = stage] \in [Caller -> Stage]
        /\ \A d \in Call : [pc EXCEPT ![c] = stage][d] = "go" => pc[d] = "go"
    BY <1>1, CallTypes
  <2>3. ASSUME process # 0
        PROVE  /\ child' \in [Generation -> {"none", "live", "dying", "dead"}]
               /\ \E t \in Tasks : t.kind = "end" /\ tasks' = tasks \cup {t}
    <3>1. Terminate(Task("end", process, FALSE, c))
      BY <1>3, <2>3 DEF Changed
    <3> QED BY <1>1, <2>3, <3>1, ProcessFacts, TaskFacts
  <2>4. /\ child' \in [Generation -> {"none", "live", "dying", "dead"}]
        /\ \/ process = 0 /\ tasks' = tasks
           \/ process # 0 /\ \E t \in Tasks : t.kind = "end" /\ tasks' = tasks \cup {t}
    BY <1>1, <1>3, <2>3 DEF Changed, ProviderTypeOK
  <2>5. Abandoned("end")
    BY <1>1, <1>3, <2>4 DEF Changed, Abandon, Abandoned, ProviderTypeOK
  <2>6. /\ pending' = {} /\ cancelled' = {} /\ pc' \in [Caller -> Stage] /\ starter' \in Starters
        /\ \A d \in Call : pc'[d] = "go" => pc[d] = "go"
    BY <1>1, <2>1, <2>2, RejectFacts
  <2>7. CatchInv'
    BY <2>1, <2>2, <2>5, RejectedCatch DEF Abandoned
  <2> QED BY <1>1, <2>5, <2>6, <2>7, AbandonedKeeps DEF Check, sideVars, ProviderTypeOK
<1> QED BY <1>2, <1>3 DEF Check

LEMMA DisposeKeeps ==
  ASSUME ProviderInv, Dispose
  PROVE  ProviderInv'
<1>1. "captured" \in Stage /\ Closing \in Caller
  BY DEF Stage, Caller
<1>2. closing' \in [process : Generation \cup {0}, generation : Generation \cup {0}]
  BY DEF Dispose, ProviderInv, ProviderTypeOK
<1> QED BY <1>1, <1>2, CallTypes, CallsKeep
     DEF Dispose, ProviderInv, ProviderTypeOK, crashVars

LEMMA FinalKeeps ==
  ASSUME ProviderInv, Final
  PROVE  ProviderInv'
<1>1. /\ ProviderTypeOK /\ Closing \in Caller /\ {"stopping", "done"} \subseteq Stage
      /\ closing.process \in Generation \cup {0} /\ closing.generation \in Generation \cup {0}
  BY DEF Caller, Stage, ProviderInv, ProviderTypeOK
<1>2. PICK stage \in {"stopping", "done"} : RejectAll([pc EXCEPT ![Closing] = stage])
  BY DEF Final
<1>3. /\ [pc EXCEPT ![Closing] = stage] \in [Caller -> Stage]
      /\ \A d \in Call : [pc EXCEPT ![Closing] = stage][d] = "go" => pc[d] = "go"
  BY <1>1, CallTypes
<1>4. /\ pending' = {} /\ cancelled' = {} /\ pc' \in [Caller -> Stage] /\ starter' \in Starters
      /\ \A d \in Call : pc'[d] # "go"
  BY <1>1, <1>2, <1>3, RejectFacts DEF Final, Quiet
<1>5. /\ child' \in [Generation -> {"none", "live", "dying", "dead"}]
      /\ tasks' \subseteq Tasks /\ \A t \in tasks' : t \in tasks \/ t.kind = "end"
  <2>1. CASE closing.process # 0 /\ child[closing.process] # "dead"
    <3>1. Terminate(Task("end", closing.process, FALSE, Closing)) /\ closing.process \in Generation
      BY <1>1, <2>1 DEF Final
    <3> QED BY <1>1, <3>1, TaskFacts DEF ProviderTypeOK
  <2>2. CASE ~(closing.process # 0 /\ child[closing.process] # "dead")
    BY <1>1, <2>2 DEF Final, ProviderTypeOK
  <2> QED BY <2>1, <2>2
<1>6. CatchInv'
  BY <1>2, <1>3, <1>5, RejectedCatch DEF Final
<1> USE <1>1, <1>4, <1>5 DEF Final, ProviderInv, sideVars
<1>7. ProviderTypeOK'
  BY DEF ProviderTypeOK
<1>8. NothingAwaited' /\ HelloInv'
  BY DEF NothingAwaited, HelloInv
<1>9. EndInv'
  BY DEF EndInv
<1> QED BY <1>6, <1>7, <1>8, <1>9

LEMMA EditKeeps ==
  ASSUME ProviderInv, Edit
  PROVE  ProviderInv'
BY CallsKeep DEF Edit, ProviderInv, ProviderTypeOK, crashVars

LEMMA BackoffKeeps ==
  ASSUME ProviderInv, BackoffEnds
  PROVE  ProviderInv'
BY CallsKeep DEF BackoffEnds, ProviderInv, ProviderTypeOK, sideVars

---------------------------------------------------------------------------
LEMMA ProviderInitInv == ProviderInit => ProviderInv
<1> SUFFICES ASSUME ProviderInit PROVE ProviderInv
  OBVIOUS
<1>1. NoStart \in Starters /\ NoStart.pc = "none" /\ "idle" \in Stage
  BY DEF NoStart, Starters, Stage, Caller
<1>2. ProviderTypeOK
  BY <1>1 DEF ProviderInit, ProviderTypeOK
<1>3. NothingAwaited /\ HelloInv
  BY DEF ProviderInit, NothingAwaited, HelloInv
<1>4. CatchInv /\ EndInv
  BY <1>1 DEF ProviderInit, CatchInv, EndInv, Generation
<1> QED BY <1>2, <1>3, <1>4 DEF ProviderInv

LEMMA ProviderNextInv ==
  ASSUME ProviderInv, [ProviderNext]_vars
  PROVE  ProviderInv'
<1>1. CASE UNCHANGED vars
  BY <1>1, CallsKeep
  DEF vars, crashVars, processVars, requestVars, sideVars, ProviderInv, ProviderTypeOK
<1>2. CASE Continue
  <2>1. ASSUME NEW c \in Caller,
               Ensure(c) \/ EnsureAborted(c) \/ Send(c) \/ Settle(c) \/ Check(c)
        PROVE  ProviderInv'
    BY <2>1, EnsureKeeps, EnsureAbortedKeeps, SendKeeps, SettleKeeps, CheckKeeps
  <2>2. ASSUME NEW r \in pending, Expire(r) PROVE ProviderInv'
    BY <2>2, ExpireKeeps
  <2>3. ASSUME NEW x \in cancelled, Grace(x) PROVE ProviderInv'
    BY <2>3, GraceKeeps
  <2>4. ASSUME NEW t \in tasks, TaskEnds(t) PROVE ProviderInv'
    BY <2>4, TaskEndsKeeps
  <2>5. CASE BackoffEnds \/ DelayOver \/ Catch \/ Shutdown \/ Final
    BY <2>5, BackoffKeeps, DelayOverKeeps, CatchKeeps, ShutdownKeeps, FinalKeeps
  <2> QED BY <1>2, <2>1, <2>2, <2>3, <2>4, <2>5 DEF Continue
<1>3. CASE Environment
  <2>1. ASSUME NEW c \in Caller, Begin(c) \/ Abort(c) PROVE ProviderInv'
    BY <2>1, BeginKeeps, AbortKeeps
  <2>2. ASSUME NEW r \in pending, Respond(r) \/ Initialized(r) PROVE ProviderInv'
    BY <2>2, RespondKeeps, InitializedKeeps
  <2>3. ASSUME NEW g \in Generation, Violate(g) \/ Exit(g) PROVE ProviderInv'
    BY <2>3, ViolateKeeps, ExitKeeps
  <2>4. ASSUME NEW x \in cancelled, AnswerLate(x) PROVE ProviderInv'
    BY <2>4, AnswerLateKeeps
  <2>5. CASE Dispose \/ Edit
    BY <2>5, DisposeKeeps, EditKeeps
  <2> QED BY <1>3, <2>1, <2>2, <2>3, <2>4, <2>5 DEF Environment
<1> QED BY <1>1, <1>2, <1>3 DEF ProviderNext

LEMMA ProviderInvHolds == ProviderSpec => []ProviderInv
<1>1. ProviderInit => ProviderInv
  BY ProviderInitInv
<1>2. ProviderInv /\ [ProviderNext]_vars => ProviderInv'
  BY ProviderNextInv
<1> QED BY <1>1, <1>2, PTL DEF ProviderSpec

(* The types of the variables (ProjectProviderRuntime).                    *)
THEOREM ProviderTypeCorrect == ProviderSpec => []ProviderTypeOK
<1>1. ProviderInv => ProviderTypeOK
  BY DEF ProviderInv
<1> QED BY <1>1, ProviderInvHolds, PTL

(* When the process is gone nobody waits for an answer, and no timer of a  *)
(* cancelled request is left, whoever starts a process while another is    *)
(* terminated (onProcessExit, faultProcess, stopAfterCancellation,         *)
(* rejectAll).                                                             *)
THEOREM NothingAwaitedCorrect == ProviderSpec => []NothingAwaited
<1>1. ProviderInv => NothingAwaited
  BY DEF ProviderInv
<1> QED BY <1>1, ProviderInvHolds, PTL

---------------------------------------------------------------------------
(* What a step makes of a quarantine while no process is initialized: the  *)
(* request of a start is not under way; no call starts a process; what     *)
(* ends afterwards looks before it records anything; and a process that    *)
(* runs nevertheless crashes into the quarantine again.                    *)
LEMMA StepLasts ==
  ASSUME ProviderInv, ProviderNext, state = "quarantined", starter.pc # "initialize"
  PROVE  state' \in {"quarantined", "disposed"}
<1>1. Unavailable /\ ~NeedsStart /\ ProviderTypeOK
  BY DEF Unavailable, NeedsStart, ProviderInv
<1>2. \A kind \in {"fault", "catch"} : Fault(kind) => state' = "quarantined"
  BY <1>1, FaultFacts DEF Abandoned
<1>3. Stop => state' = "quarantined"
  BY <1>1, StopFacts DEF Abandoned
<1>4. CASE Continue
  <2>1. ASSUME NEW c \in Caller, Ensure(c) \/ EnsureAborted(c) PROVE state' = "quarantined"
    BY <1>1, <2>1
    DEF Ensure, EnsureUnavailable, EnsureUsable, EnsureJoins, EnsureStarts, EnsureAborted,
        Usable, crashVars
  <2>2. ASSUME NEW c \in Caller, Send(c) \/ Settle(c) \/ Check(c) PROVE state' = "quarantined"
    BY <2>2 DEF Send, Settle, Check, Unchanged, Changed, crashVars
  <2>3. ASSUME NEW r \in pending, Expire(r) PROVE state' = "quarantined"
    BY <2>3 DEF Expire, crashVars
  <2>4. ASSUME NEW x \in cancelled, Grace(x) PROVE state' = "quarantined"
    BY <1>2, <1>3, <2>4 DEF Grace, crashVars
  <2>5. ASSUME NEW t \in tasks, TaskEnds(t) PROVE state' = "quarantined"
    BY <1>1, <2>5, FaultEndsFacts, StopEndsFacts DEF TaskEnds, crashVars
  <2>6. CASE BackoffEnds \/ DelayOver \/ Catch
    BY <1>1, <1>2, <2>6 DEF BackoffEnds, DelayOver, Catch, crashVars
  <2>7. CASE Shutdown \/ Final
    BY <2>7 DEF Shutdown, Final, crashVars
  <2> QED BY <1>4, <2>1, <2>2, <2>3, <2>4, <2>5, <2>6, <2>7 DEF Continue
<1>5. CASE Environment
  <2>1. ASSUME NEW c \in Caller, Begin(c) \/ Abort(c) PROVE state' = "quarantined"
    BY <2>1 DEF Begin, Abort, crashVars
  <2>2. ASSUME NEW r \in pending, Respond(r) \/ Initialized(r) PROVE state' = "quarantined"
    <3>1. ~Initialized(r)
      BY DEF Initialized, Quiet, ProviderInv, HelloInv
    <3> QED BY <2>2, <3>1 DEF Respond, crashVars
  <2>3. ASSUME NEW g \in Generation, Violate(g) PROVE state' = "quarantined"
    BY <1>2, <2>3 DEF Violate
  <2>4. ASSUME NEW g \in Generation, Exit(g) PROVE state' = "quarantined"
    <3>1. CASE g = generation /\ ~Expected(g)
      <4>1. process # 0
        BY <2>4, <3>1 DEF Exit, Expected, ProviderInv, EndInv
      <4>2. since = FALSE /\ attempts > MaxRestarts
        BY <4>1 DEF ProviderInv, EndInv
      <4>3. RecordCrash
        BY <2>4, <3>1 DEF Exit
      <4>4. attempts' = attempts + 1
        BY <4>2, <4>3 DEF RecordCrash
      <4>5. attempts' > MaxRestarts
        BY <1>1, <4>2, <4>4, ProviderAssumption DEF ProviderTypeOK
      <4> QED BY <4>3, <4>5 DEF RecordCrash
    <3>2. CASE ~(g = generation /\ ~Expected(g))
      BY <2>4, <3>2 DEF Exit, crashVars
    <3> QED BY <3>1, <3>2
  <2>5. ASSUME NEW x \in cancelled, AnswerLate(x) PROVE state' = "quarantined"
    BY <2>5 DEF AnswerLate, crashVars
  <2>6. CASE Dispose \/ Edit
    BY <2>6 DEF Dispose, Edit, crashVars
  <2> QED BY <1>5, <2>1, <2>2, <2>3, <2>4, <2>5, <2>6 DEF Environment
<1> QED BY <1>4, <1>5 DEF ProviderNext

(* Nothing but the success of a start that is under way lifts a            *)
(* quarantine, until the host is disposed of (recordCrash,                 *)
(* stopAfterCancellation, faultProcess, startProcess).                     *)
THEOREM QuarantineCorrect == ProviderSpec => QuarantineLasts
<1>1. ProviderInv /\ [ProviderNext]_vars =>
        [state = "quarantined" /\ starter.pc # "initialize"
         => state' \in {"quarantined", "disposed"}]_vars
  BY StepLasts
<1> QED BY <1>1, ProviderInvHolds, PTL DEF ProviderSpec, QuarantineLasts
=============================================================================
