--------------------------- MODULE ProviderRuntime ---------------------------
(***************************************************************************)
(* ProjectProviderRuntime: calls of one host to a provider, a program of   *)
(* the project that runs in a process of its own and is started when it is *)
(* needed.  Everything here runs on one event loop; an await of a call, of *)
(* the start or of a termination ends a step, and what else is under way   *)
(* goes on meanwhile.  A process is known by the number of its generation, *)
(* a request by the call that made it.                                     *)
(***************************************************************************)
EXTENDS Naturals

CONSTANTS
  Call,         \* invocations: start, request or projectChanged
  Closing,      \* the call of dispose
  Hello,        \* the requests of a start: initialize, then capabilities
  MaxRestarts,  \* restart.maxAttempts
  MaxGeneration,\* bound: processes started; a call starts one at most
  MaxFaults     \* bound: crashes and protocol violations

Caller == Call \cup {Closing}
Generation == 1..MaxGeneration

ASSUME ProviderAssumption ==
  /\ Closing \notin Call /\ Hello \notin Caller
  /\ MaxRestarts \in Nat /\ MaxGeneration \in Nat /\ MaxFaults \in Nat

VARIABLES
  state, attempts,  \* stateValue, restartAttempts
  rest,             \* restartNotBefore has not been reached
  since,            \* readySince is set
  generation,       \* processGeneration
  process,          \* processValue, 0 if undefined
  expectedExit,     \* expectedExitGeneration
  pending,          \* the requests of that map, with the process each went to
  cancelled,        \* and of that, with what their timers have been given
  starter,          \* startProcess: where it is, and whose signal it has
  tasks,            \* terminations under way, with what follows them
  pc,               \* where each call is
  edited,           \* calls whose captured manifest is no longer true
  closing,          \* process and generation when dispose was called
  child,            \* the processes: live, told to stop, or dead
  faults

crashVars == <<state, attempts, rest, since>>
processVars == <<generation, process, expectedExit>>
requestVars == <<pending, cancelled, starter>>
sideVars == <<edited, closing, faults>>
vars == <<crashVars, processVars, requestVars, tasks, pc, child, sideVars>>

NoStart == [pc |-> "none", by |-> Closing]

ProviderInit ==
  /\ state = "stopped" /\ attempts = 0 /\ rest = FALSE /\ since = FALSE
  /\ generation = 0 /\ process = 0 /\ expectedExit = 0
  /\ pending = {} /\ cancelled = {} /\ starter = NoStart /\ tasks = {}
  /\ pc = [c \in Caller |-> "idle"] /\ edited = {}
  /\ closing = [process |-> 0, generation |-> 0]
  /\ child = [g \in Generation |-> "none"] /\ faults = 0

---------------------------------------------------------------------------
Unavailable == state \in {"disposed", "quarantined"}
Usable == state = "ready" /\ process # 0
StartFails == [starter EXCEPT !.pc = "failed"]

\* Promises that have been settled are seen before any other event.
Quiet == starter.pc # "failed" /\ \A c \in Call : pc[c] # "go"

Request(c, g) == [of |-> c, process |-> g]
Asking == {r.of : r \in pending}

\* The action of these calls has ended, with a result or an error.
Ended(S, at) == [c \in Caller |-> IF c \in S THEN "settle" ELSE at[c]]
AfterStart == Ended({c \in Call : pc[c] = "starting"}, pc)

\* Mutant of RejectAll: who waits for the requests is not told.
RejectAllSilently(at) ==
  /\ pending' = {} /\ cancelled' = {} /\ pc' = at
  /\ starter' = IF Hello \in Asking THEN StartFails ELSE starter

\* Mutant of RejectAll: the timers of cancelled requests are left.
RejectAllPending(at) ==
  /\ pending' = {} /\ UNCHANGED cancelled /\ pc' = Ended(Asking, at)
  /\ starter' = IF Hello \in Asking THEN StartFails ELSE starter

(* rejectAll; `at' is where the calls would be without it.                 *)
RejectAll(at) ==
  /\ pending' = {} /\ cancelled' = {} /\ pc' = Ended(Asking, at)
  /\ starter' = IF Hello \in Asking THEN StartFails ELSE starter

(* recordCrash: a run that was stable begins the count anew.               *)
RecordCrash ==
  \E stable \in {FALSE, since} :
    /\ since' = FALSE
    /\ attempts' = IF stable THEN 1 ELSE attempts + 1
    /\ IF attempts' > MaxRestarts
       THEN state' = "quarantined" /\ rest' = rest
       ELSE state' = "backoff" /\ rest' = TRUE

(* terminateChild of a process: what follows comes when it has exited or   *)
(* has been waited for.                                                    *)
Task(kind, g, record, c) == [kind |-> kind, child |-> g, record |-> record, of |-> c]
Terminate(task) ==
  /\ child' = [child EXCEPT ![task.child] = "dying"]
  /\ tasks' = tasks \cup {task}

Abandon ==
  /\ expectedExit' = generation /\ process' = 0 /\ UNCHANGED generation

(* faultProcess and what it does after the termination.                    *)
FaultEnds(record) ==
  IF record /\ ~Unavailable THEN RecordCrash ELSE UNCHANGED crashVars

Fault(kind) ==
  LET record == process # 0 \/ state \notin {"backoff", "quarantined"} IN
  /\ Abandon
  /\ IF process # 0
     THEN Terminate(Task(kind, process, record, Closing)) /\ UNCHANGED crashVars
     ELSE FaultEnds(record) /\ UNCHANGED <<child, tasks>>

\* Mutant of StopEnds: whatever has happened meanwhile, it is stopped now.
StopEndsAlways == state' = "stopped" /\ rest' = FALSE /\ UNCHANGED <<attempts, since>>

(* stopAfterCancellation and what it does after the termination.           *)
StopEnds ==
  IF Unavailable THEN UNCHANGED crashVars
  ELSE state' = "stopped" /\ rest' = FALSE /\ UNCHANGED <<attempts, since>>

Stop ==
  /\ Abandon
  /\ IF process # 0
     THEN Terminate(Task("stop", process, FALSE, Closing)) /\ UNCHANGED crashVars
     ELSE StopEnds /\ UNCHANGED <<child, tasks>>

---------------------------------------------------------------------------
(* guarded, as far as its action, and ensureReady.                         *)
Begin(c) ==
  /\ Quiet /\ c \in Call /\ pc[c] = "idle"
  /\ pc' = [pc EXCEPT ![c] = "captured"]
  /\ UNCHANGED <<crashVars, processVars, requestVars, tasks, child, sideVars>>

EnsureUnavailable(c) ==
  /\ Unavailable
  /\ pc' = Ended({c}, pc) /\ UNCHANGED <<crashVars, processVars, requestVars, child>>

EnsureUsable(c) ==
  /\ Usable
  /\ pc' = [pc EXCEPT ![c] = "go"] /\ UNCHANGED <<crashVars, processVars, requestVars, child>>

EnsureJoins(c) ==
  /\ ~Unavailable /\ ~Usable /\ starter.pc # "none"
  /\ pc' = [pc EXCEPT ![c] = "starting"] /\ UNCHANGED <<crashVars, processVars, requestVars, child>>

Spawn(c) ==
  /\ generation < MaxGeneration
  /\ state' = "starting" /\ UNCHANGED <<attempts, rest, since>>
  /\ generation' = generation + 1 /\ process' = generation + 1 /\ expectedExit' = 0
  /\ child' = [child EXCEPT ![generation + 1] = "live"]
  /\ pending' = pending \cup {Request(Hello, generation + 1)} /\ UNCHANGED cancelled
  /\ starter' = [pc |-> "initialize", by |-> c]

NeedsStart == ~Unavailable /\ ~Usable /\ starter.pc = "none"

EnsureStarts(c) ==
  /\ NeedsStart
  /\ pc' = [pc EXCEPT ![c] = "starting"]
  /\ IF rest
     THEN /\ state' = "backoff" /\ starter' = [pc |-> "delay", by |-> c]
          /\ UNCHANGED <<attempts, rest, since, processVars, pending, cancelled, child>>
     ELSE Spawn(c)

Ensure(c) ==
  /\ Quiet /\ c \in Call /\ pc[c] = "captured"
  /\ EnsureUnavailable(c) \/ EnsureUsable(c) \/ EnsureJoins(c) \/ EnsureStarts(c)
  /\ UNCHANGED <<tasks, sideVars>>

\* With its signal aborted before, a call goes no further than this.
EnsureAborted(c) ==
  /\ Quiet /\ pc[c] = "aborted" /\ pc' = Ended({c}, pc)
  /\ state' = IF NeedsStart /\ rest THEN "backoff" ELSE state
  /\ UNCHANGED <<attempts, rest, since, processVars, requestVars, tasks, child, sideVars>>

BackoffEnds ==
  /\ Quiet /\ rest /\ rest' = FALSE
  /\ UNCHANGED <<state, attempts, since, processVars, requestVars, tasks, pc, child, sideVars>>

\* The delay of a start is over.
DelayOver ==
  /\ Quiet /\ starter.pc = "delay" /\ ~rest
  /\ IF Unavailable
     THEN /\ pc' = AfterStart /\ starter' = NoStart
          /\ UNCHANGED <<crashVars, processVars, pending, cancelled, child>>
     ELSE Spawn(starter.by) /\ UNCHANGED pc
  /\ UNCHANGED <<tasks, sideVars>>

(* The catch of startProcess: whoever waits is told after the termination. *)
Catch ==
  /\ starter.pc = "failed"
  /\ Fault("catch")
  /\ pending' = {} /\ cancelled' = {}
  /\ IF process # 0
     THEN pc' = Ended(Asking, pc) /\ starter' = [starter EXCEPT !.pc = "faulting"]
     ELSE pc' = Ended(Asking, AfterStart) /\ starter' = NoStart
  /\ UNCHANGED <<sideVars>>

---------------------------------------------------------------------------
(* sendRequest, or sendNotification, which waits for nothing.              *)
Writes(c) ==
  /\ pending' = pending \cup {Request(c, process)}
  /\ pc' = [pc EXCEPT ![c] = "waiting"]

Send(c) ==
  /\ c \in Call /\ pc[c] = "go" /\ starter.pc # "failed"
  /\ \/ process # 0 /\ Writes(c)
     \/ pc' = Ended({c}, pc) /\ UNCHANGED pending
  /\ UNCHANGED <<crashVars, processVars, cancelled, starter, tasks, child, sideVars>>

\* onProtocolLine: an answer, with a result or an error, of the current process.
Speaks(g) == g = generation /\ g \in Generation

Respond(r) ==
  /\ Quiet /\ r \in pending /\ r.of # Hello /\ Speaks(r.process)
  /\ pending' = pending \ {r} /\ pc' = Ended({r.of}, pc)
  /\ UNCHANGED <<crashVars, processVars, cancelled, starter, tasks, child, sideVars>>

Initialized(r) ==
  /\ Quiet /\ r \in pending /\ r.of = Hello /\ Speaks(r.process)
  /\ pending' = pending \ {r}
  /\ \/ /\ state' = "ready" /\ since' = TRUE /\ starter' = NoStart
        /\ pc' = [c \in Caller |-> IF pc[c] = "starting" THEN "go" ELSE pc[c]]
     \/ starter' = StartFails /\ UNCHANGED <<state, since, pc>>
  /\ UNCHANGED <<attempts, rest, processVars, cancelled, tasks, child, sideVars>>

\* A line that is no answer to anything, or the error event of the process.
Violate(g) ==
  /\ Quiet /\ Speaks(g) /\ faults < MaxFaults
  /\ Fault("fault") /\ RejectAll(pc)
  /\ faults' = faults + 1 /\ UNCHANGED <<edited, closing>>

---------------------------------------------------------------------------
(* cancelPending: the answer may still come, or the timer does.            *)
Cancelled(r, kill) ==
  /\ pending' = pending \ {r}
  /\ cancelled' = cancelled \cup {[request |-> r, kill |-> kill, generation |-> generation]}
  /\ pc' = Ended({r.of}, pc)

Expire(r) ==
  /\ Quiet /\ r \in pending /\ Cancelled(r, TRUE)
  /\ starter' = IF r.of = Hello THEN StartFails ELSE starter
  /\ UNCHANGED <<crashVars, processVars, tasks, child, sideVars>>

\* The signal of a call that is starting ends its wait, and the start if it is its own.
AbortStarting(c) ==
  /\ pc[c] = "starting" /\ UNCHANGED cancelled
  /\ \/ /\ starter = [pc |-> "delay", by |-> c] /\ starter' = NoStart
        /\ pc' = AfterStart /\ UNCHANGED pending
     \/ /\ starter.by = c /\ Hello \in Asking /\ starter' = StartFails
        /\ pc' = Ended({c}, pc) /\ pending' = {r \in pending : r.of # Hello}
     \/ /\ starter # [pc |-> "delay", by |-> c] /\ (starter.by = c => Hello \notin Asking)
        /\ pc' = Ended({c}, pc) /\ UNCHANGED <<starter, pending>>

Abort(c) ==
  /\ Quiet /\ c \in Call
  /\ \/ pc[c] = "captured" /\ pc' = [pc EXCEPT ![c] = "aborted"] /\ UNCHANGED requestVars
     \/ AbortStarting(c)
     \/ \E r \in pending : r.of = c /\ Cancelled(r, FALSE) /\ UNCHANGED starter
  /\ UNCHANGED <<crashVars, processVars, tasks, child, sideVars>>

AnswerLate(x) ==
  /\ Quiet /\ x \in cancelled /\ Speaks(x.request.process)
  /\ cancelled' = cancelled \ {x}
  /\ UNCHANGED <<crashVars, processVars, pending, starter, tasks, pc, child, sideVars>>

Grace(x) ==
  /\ Quiet /\ x \in cancelled
  /\ IF x.generation = generation
     THEN (IF x.kill THEN Fault("fault") ELSE Stop) /\ RejectAll(pc)
     ELSE /\ cancelled' = cancelled \ {x}
          /\ UNCHANGED <<crashVars, processVars, pending, starter, tasks, pc, child>>
  /\ UNCHANGED <<sideVars>>

---------------------------------------------------------------------------
(* onProcessExit.                                                          *)
Expected(g) == expectedExit = g \/ state = "disposed"

Exit(g) ==
  /\ Quiet
  /\ \/ child[g] = "dying" /\ UNCHANGED faults
     \/ child[g] = "live" /\ faults < MaxFaults /\ faults' = faults + 1
  /\ child' = [child EXCEPT ![g] = "dead"]
  /\ process' = IF g = generation THEN 0 ELSE process
  /\ IF g = generation /\ ~Expected(g) THEN RejectAll(pc) /\ RecordCrash
     ELSE UNCHANGED <<crashVars, requestVars, pc>>
  /\ UNCHANGED <<generation, expectedExit, tasks, edited, closing>>

\* A quarantine of dispose is followed by the rest of it.
AfterEnd(c) == IF c = Closing /\ pc[c] = "quarantining" THEN "final" ELSE "done"

(* A termination is over: the process has exited, or enough was waited.    *)
TaskEnds(t) ==
  /\ Quiet /\ t \in tasks /\ tasks' = tasks \ {t}
  /\ \/ t.kind \in {"fault", "catch"} /\ FaultEnds(t.record)
     \/ t.kind = "stop" /\ StopEnds
     \/ t.kind = "end" /\ UNCHANGED crashVars
  /\ \/ t.kind \in {"fault", "stop"} /\ UNCHANGED <<pc, starter>>
     \/ t.kind = "catch" /\ pc' = AfterStart /\ starter' = NoStart
     \/ t.kind = "end" /\ pc' = [pc EXCEPT ![t.of] = AfterEnd(t.of)] /\ UNCHANGED starter
  /\ UNCHANGED <<processVars, pending, cancelled, child, sideVars>>

---------------------------------------------------------------------------
(* guarded, after its action: the settlements are waited for, then the     *)
(* sources are compared with what they were.                               *)
Settled == cancelled = {} /\ \A t \in tasks : t.kind = "end"

Settle(c) ==
  /\ Quiet /\ pc[c] = "settle" /\ Settled
  /\ pc' = [pc EXCEPT ![c] = "check"]
  /\ UNCHANGED <<crashVars, processVars, requestVars, tasks, child, sideVars>>

After(c) == IF c = Closing THEN "final" ELSE "done"

Unchanged(c) ==
  /\ c \notin edited /\ pc' = [pc EXCEPT ![c] = After(c)]
  /\ UNCHANGED <<crashVars, processVars, requestVars, tasks, child>>

Changed(c) ==
  /\ c \in edited
  /\ state' = "quarantined" /\ Abandon /\ UNCHANGED <<attempts, rest, since>>
  /\ IF process # 0
     THEN /\ RejectAll([pc EXCEPT ![c] = "quarantining"])
          /\ Terminate(Task("end", process, FALSE, c))
     ELSE RejectAll([pc EXCEPT ![c] = After(c)]) /\ UNCHANGED <<tasks, child>>

Check(c) ==
  /\ Quiet /\ pc[c] = "check"
  /\ Unchanged(c) \/ Changed(c)
  /\ UNCHANGED <<sideVars>>

(* dispose: the process there was is asked to shut down, if it is still    *)
(* the one and ready, and terminated; at once if the sources cannot be     *)
(* captured or never were.                                                 *)
Dispose ==
  /\ Quiet /\ pc[Closing] = "idle" /\ state # "disposed"
  /\ closing' = [process |-> process, generation |-> generation]
  /\ pc' = [pc EXCEPT ![Closing] = "captured"]
  /\ UNCHANGED <<crashVars, processVars, requestVars, tasks, child, edited, faults>>

Shutdown ==
  /\ Quiet /\ pc[Closing] = "captured"
  /\ \/ Usable /\ closing.process = process /\ Writes(Closing)
     \/ pc' = Ended({Closing}, pc) /\ UNCHANGED pending
     \/ pc' = [pc EXCEPT ![Closing] = "final"] /\ UNCHANGED pending
  /\ UNCHANGED <<crashVars, processVars, cancelled, starter, tasks, child, sideVars>>

Final ==
  /\ Quiet /\ pc[Closing] = "final"
  /\ state' = "disposed" /\ expectedExit' = closing.generation
  /\ UNCHANGED <<attempts, rest, since, generation, process>>
  /\ IF closing.process # 0 /\ child[closing.process] # "dead"
     THEN /\ RejectAll([pc EXCEPT ![Closing] = "stopping"])
          /\ Terminate(Task("end", closing.process, FALSE, Closing))
     ELSE RejectAll([pc EXCEPT ![Closing] = "done"]) /\ UNCHANGED <<tasks, child>>
  /\ UNCHANGED <<sideVars>>

\* The provider or anybody else changes a source.
Edit ==
  /\ Quiet /\ edited' = {c \in Caller : pc[c] \in {"captured", "aborted", "starting", "waiting", "settle", "check"}}
  /\ UNCHANGED <<crashVars, processVars, requestVars, tasks, pc, child, closing, faults>>

---------------------------------------------------------------------------
\* What the event loop comes to by itself.
Continue ==
  \/ \E c \in Caller : Ensure(c) \/ EnsureAborted(c) \/ Send(c) \/ Settle(c) \/ Check(c)
  \/ \E r \in pending : Expire(r)
  \/ \E x \in cancelled : Grace(x)
  \/ \E t \in tasks : TaskEnds(t)
  \/ BackoffEnds \/ DelayOver \/ Catch \/ Shutdown \/ Final

Environment ==
  \/ \E c \in Caller : Begin(c) \/ Abort(c)
  \/ \E r \in pending : Respond(r) \/ Initialized(r)
  \/ \E g \in Generation : Violate(g) \/ Exit(g)
  \/ \E x \in cancelled : AnswerLate(x)
  \/ Dispose \/ Edit

ProviderNext == Continue \/ Environment

ProviderSpec == ProviderInit /\ [][ProviderNext]_vars /\ WF_vars(Continue)

---------------------------------------------------------------------------
Requests == [of : Caller \cup {Hello}, process : Generation]
CancelledRequests == [request : Requests, kill : BOOLEAN, generation : Generation]
Starters == [pc : {"none", "delay", "initialize", "failed", "faulting"}, by : Caller]
Tasks == [kind : {"fault", "catch", "stop", "end"}, child : Generation,
          record : BOOLEAN, of : Caller]
Stage == {"idle", "captured", "aborted", "starting", "go", "waiting", "settle", "check",
          "quarantining", "final", "stopping", "done"}

ProviderTypeOK ==
  /\ state \in {"stopped", "starting", "ready", "backoff", "quarantined", "disposed"}
  /\ attempts \in Nat /\ rest \in BOOLEAN /\ since \in BOOLEAN
  /\ generation \in Generation \cup {0} /\ process \in {0, generation}
  /\ expectedExit \in Generation \cup {0}
  /\ pending \subseteq Requests
  /\ cancelled \subseteq CancelledRequests
  /\ starter \in Starters /\ tasks \subseteq Tasks
  /\ pc \in [Caller -> Stage] /\ edited \subseteq Caller
  /\ child \in [Generation -> {"none", "live", "dying", "dead"}]
  /\ closing \in [process : Generation \cup {0}, generation : Generation \cup {0}]
  /\ faults \in Nat

(***************************************************************************)
(* Nothing is waited for from no process: when the process is gone, by its *)
(* own exit or by being told to stop, nobody waits for an answer any more  *)
(* and no timer of a cancelled request is left to stop a later process     *)
(* (onProcessExit, faultProcess, stopAfterCancellation, rejectAll).        *)
(***************************************************************************)
NothingAwaited == process = 0 => pending = {} /\ cancelled = {}

(***************************************************************************)
(* Unless a process is being initialized, a quarantine lasts until the     *)
(* host is disposed of: no call, no crash, no start in its delay and no    *)
(* late end of an earlier termination lifts it (recordCrash,               *)
(* stopAfterCancellation, faultProcess, startProcess).                     *)
(***************************************************************************)
QuarantineLasts ==
  [][state = "quarantined" /\ starter.pc # "initialize"
     => state' \in {"quarantined", "disposed"}]_vars

(***************************************************************************)
(* What Doc/ProjectProvider.md says of every quarantine: no call lifts it. *)
(* A start that was begun while an earlier process was being terminated    *)
(* does, when its initialization succeeds after the quarantine came        *)
(* (startProcess, faultProcess).                                           *)
(***************************************************************************)
QuarantineHolds ==
  [][state = "quarantined" => state' \in {"quarantined", "disposed"}]_vars

(***************************************************************************)
(* Every call ends, whatever the provider does, dispose too: from every    *)
(* state one is reached in which none is under way (guarded,               *)
(* waitForSettlements, cancelPending).                                     *)
(***************************************************************************)
EveryCallEnds ==
  []<>(\A c \in Caller : pc[c] \in {"idle", "done"})
=============================================================================
