# VisualBridge: formal models

TLA+ models of the protocols VisualBridge's correctness rests on, the TLC
configurations that check them on small instances, and theorems that TLAPS
proves about them for every value of the constants. `PROJECT.json` maps each
definition to the source lines it translates.

VisualBridge is an authoring environment: JSON and table documents of a game
project are edited in VS Code (or through an MCP server), compiled and debugged
in Unity. Its parts run in different processes (VS Code windows, MCP servers,
provider processes, the Unity editor, a player) which share files and sockets.

## 1. Inventory

| Component | State | Operations | Interacts through |
| --- | --- | --- | --- |
| **Project lock** (`Tools/NodeHost/src/projectTransaction.ts`) | lock file, guard files, releasable tokens | acquire, recover a stale lock, release | file system calls of several processes |
| **Transaction journal** (same file) | sources, `.tmp`, `.rollback`, journal | stage, prepare, replace, commit, clean up, roll back, recover | file system; editors that ignore the protocol |
| **Transaction users** (MCP `documentService`, `lifecycleService`, `refactorService`; VS Code `moduleSourcesEditorProvider`, `workspaceDocumentLifecycle`, `workspaceReferenceRefactor`) | what was read, mutations | plan, commit, report | the transaction |
| **Send queues** (`bridge/sendQueues.ts`, `VisualBridgeSendQueues.cs`) | control and data queue, sequence numbers | enqueue, evict, dequeue, stop, close | one socket |
| **Bridge socket** (`bridge/bridgeSocket.ts`, `VisualBridgeBridgeSocket.cs`) | queues, backpressure, heartbeat ages, life cycle | send, receive, drain, beat, close, close gracefully | TCP, reader/writer threads or the event loop |
| **Bridge session** (`editorBridgeServer.ts`, `runtimeBridgeService.ts`, `reconnectGrace.ts`, `VisualBridgeRuntimeBridgeServer.cs`) | connection, session id, lease, grace | hello, resume, rotate, reconnect | bridge sockets |
| **Debug queries** (`debugQueryTracker.ts`, `debugQueryClient.ts`, `VisualBridgeDebugQueryQueue.cs`, `VisualBridgeDebugQueryPump.cs`) | pending and retired requests, server queue, in-flight, invalidated | ask, settle, time out, cancel, pump, answer | bridge session |
| **Debug session** (`VisualBridgeDebugSession.cs`, transport and encoders) | categories, instance slots, handlers | install, create, finish, report | game threads, bridge session |
| **Debug ingress and store** (`debugIngress.ts`, `debugStore.ts`, `debugRouter.ts`, `debugInstanceManager.ts`) | decoded records, instances, capacities | decode, route, evict, select | bridge session, panels |
| **Recorder and replay** (`debugRecorder.ts`, `debugReplaySession.ts`, `debugKeyframe.ts`) | recording file, index, cursor | record, seal, open, seek | debug store, files |
| **Project providers** (`projectProviderRuntime.ts`, `projectProviderHost.ts`) | child process, generation, pending requests, quarantine | start, request, notify, stop | stdio of a child process, source manifest |
| **Modules** (`moduleLoader.ts`, `hostModuleRegistry.ts`) | loaded bundles, registrations | load, reload, disable | file system, editors |
| **Text editor sessions** (`moduleTextEditorSession.ts`, `webviewEpoch.ts`) | webview epoch, document version, disk baseline | handshake, apply operation, save, reveal | VS Code events, webview messages |
| **Source editors** (`moduleSourcesEditorProvider.ts`) | multi-file documents | open, edit, save, revert | the transaction, VS Code |
| **Document semantics** (`Core/`, `Modules/*`) | documents | parse, apply operation, serialise, validate | pure functions |
| **Unity compilers and exporters** (`Packages/.../Editor`) | assets | compile, export | Unity asset database |
| **Framing** (`bridge/framing.ts`, `VisualBridgeFraming.cs`) | bytes of a partial frame | encode, decode | bridge socket |
| **Discovery and probing** (`bridgeDiscovery.ts`, `bridgeProbe.ts`) | one probe | read, connect, ask | file system, bridge session |
| **Debug panels** (`debug/debugPanel*.ts`, `debug/debugFacetRouter.ts`) | what is shown | select, render | debug store |
| **Wire schemas** (`src/Protocol`) | none | generated validation | every message |

### What each part must get right

| Component | Hard behaviour | Correct means |
| --- | --- | --- |
| Project lock | processes die between any two file-system calls; calls of one process overlap; a lock is judged, then renamed by path | one writer, one recoverer; a live owner keeps its lock; a crash alone never locks the project out; every call ends |
| Transaction journal | crashes, failing calls and foreign editors between check and rename | all sources change or none, the answer says which; foreign bytes survive; a journal goes away |
| Send queues | two queues, barriers, evictions, a running byte count | order of acceptance within what is kept; limits hold; every message is accounted for |
| Bridge socket | reader, writer, senders and closers race; a blocked write; a silent peer | a flush writes what it owes; an end completes; silence is noticed and broken |
| Bridge session | reconnect inside and outside of the grace period; a second client; a reload of the editor domain | one session at a time; state of an old session never reaches a new one |
| Debug queries | a result races a timeout, a cancellation, a reconnect; the client and the game count requests separately | every request settles once, with its own answer; nothing grows without bound |
| Debug session | instance slots are reused from several threads | a record names the instance that wrote it |
| Debug ingress and store | capacities are reached while panels watch | eviction follows the documented order; panels see no half record |
| Recorder and replay | a recording is sealed while frames arrive | index and file agree; a seek shows what was recorded |
| Project providers | the child exits, is restarted or quarantined while requests wait | a request is answered by the generation it was sent to, or fails |
| Modules | a bundle is reloaded under open editors | an editor never mixes two generations |
| Text editor sessions | webview reload, external edit and save dialogs overlap | no lost update: an operation applies to the version it was made for |
| Source editors | several files saved at once | all or nothing, through the transaction |

### How they interact

Everything that writes project files (the MCP services, the VS Code life-cycle
and source editors) calls `withProjectTransaction`, which takes the **project
lock**, recovers the **journal** a crash may have left, and runs the mutation.
Nothing else orders two processes. On the debugging side a **bridge socket**
owns two **send queues**; a **bridge session** owns a socket and survives its
loss for a grace period. Its debug link is a wire of the **debug session**: the
last one opened is active, the ones below take over when it ends. **Debug
queries** run from the extension's event loop through that wire to the game's
main thread and back from any thread; the **debug store** keeps what arrives.
Providers, modules and editors share only VS Code's event loop, with awaits in
between; a **text editor session** meets the other writers in the document,
which VS Code owns, and in the file, which anybody may write.

## 2. Modules

| Module | Role |
| --- | --- |
| `ProjectLock` | the lock file, its recovery guards and its release |
| `ProjectLockProofs` | theorems about `ProjectLock` |
| `AtomicStore` | what a project transaction promises: all or nothing, truthfully |
| `TransactionJournal` | the journalled commit and its recovery; implements `AtomicStore` |
| `TransactionJournalProofs` | theorems about `TransactionJournal`, the refinement included |
| `OrderedSender` | what the send queues promise: order, and only the oldest data is given up |
| `SendQueues` | the two queues of a connection; implements `OrderedSender` |
| `SendQueuesProofs` | theorems about `SendQueues`, the refinement included |
| `RuntimeSocket` | the Unity side's connection: extends `SendQueues` with threads, peer and time |
| `NodeSocket` | the Node side's connection: extends `SendQueues` with an event loop, a buffered socket, peer and time |
| `NodeSocketProofs` | theorems about `NodeSocket`, its composition with `SendQueues` included |
| `WireStack` | the debug transport's stack of wires: who is active, who is listened to, whose slots are kept |
| `DebugSession` | the debug session over that stack: instances, slots, registrations, replay |
| `UnityProofs` | theorems about the Unity side: `RuntimeSocket` with its composition with `SendQueues`, `WireStack` and `DebugSession` |
| `QueryQueue` | queries inside the Unity process: readers, queue, pump, handlers |
| `DebugQueries` | extends `QueryQueue` with the client and the tracker of each link and the frames between |
| `DebugQueriesProofs` | theorems about `QueryQueue` and about the composition |
| `TextEditorSession` | a custom text editor: page, session, document and file |
| `TextEditorSessionProofs` | theorems about `TextEditorSession` |
| `ProviderRuntime` | the host of one provider process: calls, restarts, requests, quarantine, dispose |
| `ProviderRuntimeProofs` | theorems about `ProviderRuntime` |
| `MC*` | instances for TLC |

A variant of a definition that a comment calls a *mutant* is never part of a
specification: it is a plausible bug, and the run that lists the property finds
the property violated when the mutant takes the definition's place.

### ProjectLock

One process step is one file-system call: every `await` of
`acquireProjectLock`, `recoverStaleOwnerLock`, `acquireRecoveryGuard` and
`releaseOwnedLock` is a boundary, and other calls and crashes happen there.
`pc[t]` names the next call; `lock` and `guards[g]` hold the token found in the
lock file and in guard `g`; `ownerReleasable` and `guardReleasable` are the
in-memory sets by which a process knows that its own token is free again. A
token is the call that made it, since a call makes one that matters.

`isStaleOwnerFile` reads a file and, once the read is over, asks whether the
process of the token it got is alive, or whether this very process has recorded
the token as released. These are two steps, for the lock (`Inspect`, `JudgeLock`
and, under the guard, `Recheck`, `Rejudge`) and for a guard (`ReadGuard`,
`JudgeGuard`); `read[t]` is the token in between, and the file may hold another
by the time it is judged.

`Start`, `Link`, `Inspect`, `JudgeLock` are the first attempt; `ListGuards`,
`ReadGuard`, `JudgeGuard`, `OpenGuard`, `WriteGuard` elect a recoverer;
`CheckExists`, `Recheck`, `Rejudge`, `Steal`, `MarkGuard`, `Unguard` take the
stale lock away; `Recover` scans for orphans when there is evidence of a crash;
`Stage`, `Unstage`, `Return`, `Close`, `ReadOwn`, `Unlock` run and end the call;
`Crash` kills a process. A guard file that does not parse yet is *blank*: its
age is asked for after the read, and whether it is five minutes old is a
nondeterministic choice that needs a dead writer. The gaps between the read and
the question for the age, and between a call's own temporary file and its link,
are taken to be shorter than these five minutes.

A recovery *slips* (`slipped`, set by `Slip`) when it takes a file for left over
by a token that is no longer in it, or when a failing open unlinks the guard of
another. Finding 1 shows what one slip leads to. What holds up to the first one
is what the protocol does achieve: with serialised calls nothing else makes two
writers.

`Serialised` says whether a process runs one call at a time. The code does not
enforce it (nothing in `withProjectTransaction` queues calls of one process);
run `lock_concurrent` shows why the safety theorems need it.

### TransactionJournal and AtomicStore

One writer at a time (`ProjectLock`'s part), any number one after another. The
file system is `target`, `tmp`, `backup` per source, `journal`, and `litter`,
the files no journal lists any more. The writer's program counter goes through
`commitMutations`: check of what was read, staging, prepared journal, recheck,
and for each source in path order check, save (rename to the backup), install
(rename of the staged file), confirm; then the committed journal, clean-up and
answer. `recoverInterruptedTransaction` runs in three roles, which `ret`
remembers: on opening, after a failed commit, and to finish a clean-up.
`Crash` kills the writer anywhere, `Works`/`Fails` make each file-system call
succeed or fail, `Edit` is the editor that ignores the protocol. It may write at
any time; `late` remembers that it wrote a source in its `Window`, between the
hash check and the rename or unlink that relies on it, until that call is made.

Bytes stand for contents and hashes alike: two contents with the same SHA-256
are the same bytes.

The mapping to `AtomicStore` looks at the sources through the recovery that
will come (`Recoverable`): between the prepared and the committed journal a
source counts as its base whenever its backup or its own bytes give it back.
With that, the one step that changes the store is the rename that publishes the
committed journal. `RollbackOf` says what a rollback makes of one source; its
cases exclude each other, as the tests of the code do in their order.

### SendQueues and OrderedSender

`EnqueueControl`, `EnqueueDebug`, `Dequeue`, `StopAccepting` and `CloseQueues`
are the methods of `BridgeSendQueues` (TypeScript) and `VisualBridgeSendQueues`
(C#). The two classes take the same steps; C# takes each under one lock. A
control message carries as its *barrier* the number of the last data message
accepted before it; a dequeue takes control when the barrier is behind the head
of the data queue. `EnqueueDebug` includes the whole eviction loop. A refused
message changes no queue and is a stutter.

`OrderedSender` has one set of pending messages, numbered in order of
acceptance. `Write` takes the least, and `AcceptData` may give up the oldest
data with it; control is never given up, except by `Close`.

### RuntimeSocket

The reader thread, the writer thread, threads that call `SendControl` and
`SendDebug`, and one that calls `CloseGracefully`, each with its own program
counter; every read of a shared flag is a step of its own (the writer's tests
`stopping`, `graceful`, `countControl`, `countData` are four). An end of the
connection is `HandleConnectionEnd`: whoever comes first sets `life`, the rest
of its work (`EndQueues`, `EndStream`, `EndNotify`) is three steps that others
may interleave with. `CloseGracefully` called from the reader thread, as the
session does after an error frame, is the separate closer thread with the
reader blocked, which is one of its schedules.

Of network and peer there remain a window that fills (`unread`), bytes that
arrive and a peer that is alive, silent or closed. Time passes in ticks far
longer than the writer's poll (100 ms) and the closer's wait (500 ms): a tick
needs every thread at rest or blocked in the stream, or a writer that still
finds messages (`Busy`). `WriteLoop` goes on with the next message as long as
there is one and comes to the heartbeat only when there is none (`:302`, `:332`),
so that any time may pass under steady traffic.

### NodeSocket

The same promises on an event loop. A call of the owner, a chunk that arrives,
a drain event and a turn of the timer are events; within one, `drain` hands
frames to the socket until it asks to wait, and the frames of one chunk are
handled one after the other, also once the connection has finished on an
earlier one. `buffered` is what the kernel has not yet taken, `wireAge` the
time since the peer could see a byte (what `lastOutboundAt` is taken for) and
`outAge` the time since the last enqueue (what it is). The peer is alive, deaf
(reads nothing), silent (sends nothing either) or has closed.

### WireStack and DebugSession

Links open and close on threads of their own. `Bind` is two steps of its link:
the push under the transport's lock (`BindPush`, with the archive of the wire
below) and the exchange of subscriptions after it (`BindSubscribe`), which is
all that keeps `OnWireClosed` coming. `OnWireClosed` pops, skips closed wires
and restores the slots of the one it lands on (`PopActive`, `RemoveBuried`) and
subscribes to it in a later step (`SubscribeRestored`). The host then asks
whether any link is left and detaches the session if not (`CheckLastLink`,
`Detach`): two steps under a lock that `Bind` does not take. `overlapped`
remembers that a schedule has gone where the session and the wires no longer
speak of the same connection: the active wire changed inside an operation, or
the session was detached over a live link; `boundLate` that a link was bound
between the host's question and its `Detach`.

`DebugSession` puts on top what `VisualBridgeDebugSession` does under its own
lock, `Gate`: one operation at a time (`job`), but every frame it sends leaves
that lock's world, so that a wire may change between any two of its steps.
`Refresh` is what every operation begins with: it notices a new connection,
resets or keeps the tables, and starts the flush of pending descriptions and
the replay of registrations. `Create`, `Finish` and the replay have a branch
for each frame that cannot be sent, with what they roll back. `known[l]` is
what the client of a link was told, the other side of the wire.

### QueryQueue and DebugQueries

`QueryQueue` has the steps between two acquisitions of the queue's lock: a
reader validates a request (`Receive`) and adds it (`Add`) in different steps;
the pump takes timeouts (`TakeTimeouts`), then at most one request (`Dequeue`),
looks whether its instance lives (`DispatchLive`, `DispatchDead`) and only then
enters it in flight and calls the handler (`Dispatch`). Handlers answer on any
thread, as often as they like: `StartResult` settles the number before it
claims the one open message, `End` writes the result if the session is still
the one in which it was begun, `RejectRequest` and `Discard` settle as well.
Settled numbers are remembered in a table with a limit. Requests are known by
their number alone, and answers go to whatever link is active when they are
written: the link a request came on (`ConnOf`) and the request an answer was
written for (`of`) are what the code does not look at, kept for the properties.

Abstract: when a request is too old is a choice of `TakeTimeouts`, why a
request is refused (a bad instance, arguments, the reporting switch, a frame
too long) is a choice of `Receive`, and an answer is written in the step that
decides on it. Links and instances come and go as in `DebugSession`, reduced
to what queries depend on; a close and its detach are one step.

`DebugQueries` adds, per link, the promises of `DebugQueryClient` (`waiting`)
and the tables of `DebugQueryTracker` (`pending`, `retired`), told apart
because the code must keep them together, and both directions of the wire.
Each handler of the extension is one step, as its event loop makes it.

### TextEditorSession

Four parties write: the page in the webview, the session, VS Code with
everybody who edits the document, and processes that write the file. A text is
the set of edits it contains, so that a lost update is an edit that is missing;
equal sets are equal hashes. The token of an epoch (`WebviewEpoch`) is the
number of the epoch it was made for. `up` holds messages of the page, `queue`
is `operationQueue`, `job` the message in hand with what its handler has read
so far, and every `await` of a handler ends a step. `states` are the calls of
`sendState` that wait for the controller, beside the queue.

| Code | Actions |
| --- | --- |
| `onDidChangeViewState`, `dispose`, `requestWebviewReady` | `Hide`, `ShowPanel`, `Dispose`, `Retry` |
| the page | `PageLoads`, `PageGoes`, `PageAsks` |
| `onDidReceiveMessage`, `handleMessage` | `Receive`, `Drop`, `TakeProposal`, `TakeEcho`, `TakeOperation` |
| `handleReady` | `StateSent`, `MarkReady` |
| `confirmExternalChanges`, `reloadDocumentFromDisk` | `ReadDisk`, `Compare`, `Overwrite`, `Discard`, `Cancel`, `Replace`, `SaveReloaded`, `Reloaded` |
| `executeEffects`, `applyText` | `Handle`, `Apply`, `Complete`, `Refreshed` |
| `onDidChangeTextDocument`, `onDidSaveTextDocument`, `sendState` | `Changed`, `OnDidSave`, `StateArrives` |
| VS Code, other editors and processes | `Type`, `Save`, `FollowFile`, `WriteFile` |

Abstract: a project or catalog event sends the same state as a change of the
document and has no action; what a controller refuses is a choice of `Handle`
and `TakeOperation`; a `WorkspaceEdit` is refused when the document has changed
since it was made; a post arrives at once or not at all; a page is dropped only
while its panel is hidden. `requestReady` posts and then sets its timer (`:790`), here
in one step: two requests whose posts overlap could leave two timers, which
repeats a request of the state and harms nothing.

### ProviderRuntime

A provider is a program of the project in a process of its own. Processes carry
the number of their generation, requests the call that made them. `pc[c]` is
where an invocation is in `guarded` (the manifest captured, its action, the
wait for settlements, the second look at the sources), `starter` where
`startProcess` is, `tasks` the terminations that are waited for and what
follows each of them, `cancelled` the requests whose grace period runs.

| Code | Actions |
| --- | --- |
| `guarded` | `Begin`, `Settle`, `Check` |
| `ensureReady`, `startProcess` | `Ensure`, `EnsureAborted`, `BackoffEnds`, `DelayOver`, `Initialized`, `Catch` |
| `sendRequest`, `cancelPending` | `Send`, `Expire`, `Abort`, `AnswerLate`, `Grace` |
| `onProtocolLine`, `onProcessFault`, `onProcessExit` | `Respond`, `Violate`, `Exit` |
| `faultProcess`, `stopAfterCancellation`, `terminateChild` | `Fault`, `Stop`, `Terminate`, `TaskEnds` |
| `dispose` | `Dispose`, `Shutdown`, `Final` |

Promises that are settled run their continuations before any other event:
`Quiet` says that none is left. Abstract: `initialize` and `capabilities` are
one request (`Hello`); the sources are the set of calls whose captured manifest
is no longer true (`edited`); whether a run was stable is a choice of
`RecordCrash`.

Starting a process joins a start under way, but not a termination under way:
a call may start the next process while the last one is still terminating, and
the end of the termination then records a crash or a stop over whatever has
become of the host. A process that has exited may still have a line in its pipe,
which is read as long as its generation is the current one (`Speaks`). `dispose`
terminates the process there was when it was called (`Final`).

## 3. Runs

| Run | Question | Bounds |
| --- | --- | --- |
| `lock_serialised` | one writer, one recoverer, a live owner's lock and live staging, until a recovery slips; refusals and termination in any case | 4 calls, 3 processes (two calls in one), 3 generations, 2 tries, crashes and every failing call |
| `lock_misread` | *violation*: two writers after a lock was judged by a token no longer in it | 4 calls in 4 processes, 2 generations |
| `lock_concurrent` | *violation*: two writers when calls of one process overlap | 3 calls, 2 processes |
| `journal` | the journal implements the store; nothing is left behind; foreign bytes survive; journals go away | 2 sources, 2 contents, 1 crash, 1 fault, 1 edit at any time |
| `node_events` | order, limits and accounts of the queues; no lost wakeup, graceful end, silence and ping on the event loop | 4 messages of sizes 1, 3, 5; 1 control; 2 data or 4 bytes; largest message 4; buffer of 2; chunks of 2; limits of 1 and 2 ticks |
| `socket_threads` | flush, idle limit, ping, ends and graceful closes under all interleavings of threads | 1 sender, 2 messages, window 1, limits of 1 tick |
| `session_links` | the wire stack and the session's tables under all interleavings of links, operations and the switch | 2 links, 2 instances, 2 slots; the switch is used, and the active wire changes inside an operation, while at most 1 instance was created |
| `queries_settled` | one answer, one settlement, late answers recognised, and queries that end on both sides, with tables at their limits | 2 queries on a link that is replaced; all limits 1, 2 pending |
| `queries_crossed` | *violation*: an answer that settles another query | 1 query on each of 2 links |
| `editor_pages` | no lost update, external changes noticed, only the current page is heard, and the page catches up | one edit each of page, document and file; 3 epochs; 2 messages; 1 state under way while others act; 2 retries |
| `provider_calls` | nobody waits for what no process will answer; a quarantine outlives everything but a start already under way; every call ends | 2 calls and a dispose, 2 processes, 1 restart, 1 crash or violation; any timeouts, aborts and edits of sources |
| `provider_quarantine` | *violation*: a quarantine that is lifted | the same |

Why the bounds are enough to be interesting. *Lock:* a takeover needs a dead
owner and two contenders, a wrong election also a dead guard holder, and a
reuse of a released token two calls of one process: four calls in three
processes have them all. Three generations let a guard be passed over twice;
two tries let a loop go round once. `lock_misread` needs a dead owner, two
recoverers and a new owner, each in its own process. *Journal:* two sources
make "some but not all" possible, and a fault and a crash a crash in the
recovery from a failure; contents are only compared, so two of them and absence
suffice. With two crashes the properties hold as well (2.5 million states; too
long for the run), and the safety among them is proved for any number. *Node
socket:* sizes 1 and 3 fit, 5 exceeds a message (refused); a message of size 3
evicts two of size 1; a ping reply overflows the control queue of one; the
buffer fills with the first two frames; a chunk of two has a frame after the
one that ends the connection. *Runtime socket:* a ping can be pending while
the control queue is full; a window of one blocks the writer as soon as the
peer stops reading. *Session:* one wire under another is what there is to
restore; two instances are enough for one to be replayed while the other is
created or finished, and two slots for a slot to be reused or exhausted.
That an instance
is created or finished while the wire changes is seen with one of them; with
both, the wire changes between operations only. A third link is needed for two
archived tables at a time; the theorems of section 5 hold for any number.
*Queries:* the second query
meets every table full that the first has left, and pushes its number out of
the tables of one; a link that is replaced is the only way in which numbers
repeat. *Text editor:* one edit of
each origin lets an operation meet a document and a file that both changed
behind it, and makes the prompt reachable; with three epochs a message of an
earlier page meets the next one, which may be hidden too; with two retries the
loss of one echo is made good and the loss of two is not. *Provider:* a call
starts one process at most, so that two calls never need a third; one of them
starts while the process of the other terminates; the first crash restarts, the
second quarantines, and one of them may be a timeout, which needs no fault. An
orphaned process (section 4, *Providers*) takes three calls and is outside.

`MCProjectLock` and `MCRuntimeSocket` define `MCView`, which leaves out what no
step and no property of those runs reads any more: where a call that has ended
or died was, and what the counters, clocks and histories of closed queues hold.

Deadlock checking is off where the system rightly stops: calls of the lock end,
connections end, of the bounded queries each is asked once, an editor that was
closed rests, and so does a host whose calls have ended. It is on for
the journal, the Node socket and the session, whose processes always have
something to do.

### Fairness

*Lock:* `WF(Continue(t))` for each call: a started call is driven by its event
loop until its process dies. None for `Start` and `Crash`. *Journal:*
`WF(Recovery \/ Committing)` for the same reason, and `WF(Begin)`, which is an
assumption on the users: recovery happens in the next write request, so that a
journal goes away only as long as writers come. *Runtime socket:* the writer,
the reader's own steps (not the arrival of bytes), the continuation of an end
and of a graceful close; nothing for peers, senders, receipt or ticks. *Node
socket:* a call in progress goes on (`WF`), and the loop comes to each kind of
event that waits, however many chunks arrive in between, which needs `SF`
because another event may disable it for a moment; a peer that is alive reads.
*Queries:* the timer of a pending query goes off, frames that have arrived are
handled, the end of a link is noticed, the host calls `Pump` every frame, and
whatever stays in flight is too old in the end (`SF(SomeTimesOut)`, since the
pump is not always at that point). Nothing makes a handler answer. *Text
editor:* handlers go on and the user answers a dialog, states, messages and
timers arrive, and a panel in view loads its page. Nobody has to edit, save,
write or hide. *Provider:* `WF(Continue)`: the event loop comes to timers,
continuations and the end of what is waited for with a limit, as every
termination is. Nothing makes the provider answer or exit.

## 4. Findings

1. `lock_misread`: `isStaleOwnerFile` reads a lock and asks only after the
   await whether the process it names is alive
   (`projectTransaction.ts:714`, `:719`). A recoverer that holds the guard reads
   the token of an owner; the owner releases, another process links its own
   lock, the former owner's process exits; the answer is "stale", and the rename
   moves the live lock away. Two writers own the project, against
   `Doc/ProjectTransaction.md:74`, and no two calls of one process overlap.
2. `lock_concurrent`: with overlapping calls in one process, two writers own
   the project. A token becomes releasable before its file is unlinked; another
   call of the process takes the lock over in between, and the unlink by path
   then removes a lock that is no longer its own.
3. `queries_crossed`: numbers start at 1 on every connection and an answer
   carries nothing else, so that the answer to request 1 of one connection
   settles request 1 of the connection that replaced it, against the comment
   that gives this as the reason for refusing duplicates.
4. `provider_quarantine`: the end of an older termination records one crash too
   many while a newer start is under way; the start finds itself in quarantine,
   and its success makes the provider ready again
   (`projectProviderRuntime.ts:378`, `:614`), although
   `Doc/ProjectProvider.md:172` says that no single call lifts a quarantine.

Seen while modelling, and visible in the models, but without a run:

- *Lock.* `recoverStaleOwnerLock` returns success when the lock has merely
  gone, and the caller then claims the evidence of a crash that its comment
  says needs a takeover (`projectTransaction.ts:633`, `:649`). In effect only a
  needless orphan scan: `ScanSparesLiveStaging` holds. When creating a guard
  fails for another reason than `EEXIST`, the handler unlinks the guard by path,
  possibly another's (`:704`): two recoverers may then be elected. It counts as
  a slip.
- *Runtime socket.* The writer looks at the idle limit between writes
  (`VisualBridgeBridgeSocket.cs:307`): a peer that stops reading blocks the
  write and is not dropped, although Appendix A.11 promises 30 s; nor is one
  that says nothing while the writer finds a message whenever it looks, since
  `continue` passes the heartbeat by (`:302`, `:332`). `SilenceEnds` is what the
  code guarantees when the writer is neither blocked nor busy,
  `SilentPeerLeaves` what the Node side does. The
  flush flag is published before the queues stop accepting (`:141`); a message
  accepted in between is answered `true` and dropped. `FlushLosesNothing` is
  what holds: all that was accepted before the request, the error frame among
  it, is written.
- *Session.* `SendCreate` enters the slot into whatever wire is active once the
  frame is out. A description written to one wire while another is bound puts
  its slot into the table of the new one, whose client was not told, and the
  session's next look at the connection then begins a new session and reuses
  slots on that wire, against "never reused within a connection". `overlapped`
  marks these schedules, and `EventsUnderstood` is about
  the others. A wire
  that ends between its restoration and its subscription stays on the stack as
  a dead top (`missed`).
- *Last link.* When a link closes, the host asks whether another is left and
  detaches the session if not, under a lock that binding and attaching a link
  do not take (`VisualBridgeRuntimeBridgeHost.cs:288`, `:239`). A link that is
  bound and attached between question and answer is left with a detached
  session, against the comment that a transport with a live link must not
  detach (`:267`): its instances are gone from the snapshot until the next link
  or `debugSetEnabled`. `boundLate` marks these schedules, and
  `AttachedWhileLive` says that there are no others. The proof of
  `EventsUnderstood` showed what else follows: the detach begins the slots anew,
  while the archived table of a live wire further down still holds slots given
  out before; when that wire comes back, its table admits a slot for an instance
  its client knows under another. That takes three links, one more than the run
  has, and is why `overlapped` is set by such a detach too.
- *Queries.* With a limit of 8 requests in flight, 16 can be: `Enqueue` looks
  at both limits and `Dispatch` at none (`Bounded`). A request that the queue
  answers because its handler threw is not remembered, so that a handler that
  kept its handle can have a second answer sent (`HandlerFails`, `forgotten`).
  While the table of a session that was taken over still remembers them, the
  low numbers of the new link are refused as duplicates. `StartResult` settles
  the number before it claims the open message: whoever has another message
  open costs the caller its result.
- *Text editor.* If the document changes while the user is asked about the
  file, the operation is dropped without an answer
  (`moduleTextEditorSession.ts:429`), and a page that waits for one goes on
  waiting. An operation that has begun is bound to a version and not to its
  epoch: it may still write when its panel is hidden and shown again, and its
  answer goes to the new page. The baseline is compared by content, so that a
  file that changed and changed back is not noticed, nor need it be. A page
  that reloads in a panel that stays in view and ready has its echo refused and
  is sent a state only by the next change (`PageCatchesUp` is about pages that
  come and go with their panels). A dialog blocks the queue, `ready` included.
- *Providers.* A late end of a termination also turns `ready` into `stopped` or
  `backoff` over a live process (`projectProviderRuntime.ts:615`, `:765`). The
  next call then starts another beside it, and overwrites the host's only
  reference (`:345`): the older process is orphaned, answers nobody and is never
  terminated, by `dispose` neither. That takes three calls and three processes,
  and was seen in an instance larger than the run's. A start that is aborted by
  its own caller counts as a crash (`:390`), and a violation during
  it counts twice: once in the catch, which finds the state still `starting`,
  and once when the termination ends. `dispose` kills the process there was
  when it was called: one that is started while it waits is left running. A second look at
  the sources that comes after `dispose` turns `disposed` into `quarantined`
  (`:738`). An edit by the user while a request is under way quarantines the
  provider like one of its own.

## 5. Proofs

| Theorem | Says | Assumes |
| --- | --- | --- |
| `TypeCorrect` | `TypeOK` of the lock | the module's assumptions |
| `LockInvCorrect`, `OneWriter`, `OneRecovery`, `OwnerKeepsLock`, `ScanIsSafe` | the lock's inductive invariant, mutual exclusion, election, that a live owner keeps its lock, and that the orphan scan spares live staging, each until a recovery slips | `Serialised` |
| `RefusalJustifiedCorrect` | `RefusalJustified` for any calls, processes, crashes and failing file-system calls, the open of a guard included | the module's assumptions |
| `JournalTypeCorrect`, `JournalInvCorrect`, `NothingLeft` | types and inductive invariant of transaction and recovery; `NothingLeftBehind` for any sources, contents, crashes and failing calls | the module's assumptions |
| `ForeignKept` | `ForeignBytesKept` for any number of edits, crashes and failing calls | the same |
| `AllOrNothing` | `Spec` of the journal implements `AtomicStore`, racing editors included | the same |
| `QueueTypeCorrect`, `QueueOrdered`, `EveryMessageAccounted`, `DataBoundedCorrect` | the queues' types, inductive invariant, accounts (`Accounted`), limits and cached size (`DataBounded`) | the module's assumptions |
| `QueuesSendInOrder` | `QueueSpec` implements `OrderedSender` | the same |
| `SocketUsesQueues` | `SocketSpec` implements `QueueSpec` | the same |
| `SocketSendsInOrder`, `SocketAccounts` | hence the connection sends in order, keeps the limits and accounts for every message | the same |
| `SocketTypeCorrect`, `FlushComplete` | `SocketTypeOK` and `FlushLosesNothing` for any senders and messages | the same |
| `SilenceNoticed`, `PingInTime` | `SilenceEnds` and `SpeaksInTime` for any limits | the same |
| `QueryTypeCorrect`, `BoundedCorrect` | types of the queries in Unity, and what both limits amount to | the module's assumptions |
| `AnsweredOnceCorrect`, `CalledInTimeCorrect` | one answer while the number is kept; a handler is called once and before any answer | the same |
| `QueueImplemented` | `DebugSafety` implements `QuerySpec`, so that all of this holds of the composed system | the same |
| `SettledOnceCorrect` | the promise of a query is settled at most once, and both tables agree | the same |
| `LateIsKnownCorrect` | `LateIsKnown` for any links, requests and limits | the same |
| `SessionTypeCorrect` | types of links, transport and session | the module's assumptions |
| `TopServesCorrect`, `TablesAgreeCorrect`, `SlotKeptCorrect`, `EventsUnderstoodCorrect`, `AttachedWhileLiveCorrect` | the five properties of `session_links` for any links, instances and slots | the same |
| `NodeUsesQueues`, `NodeSendsInOrder`, `NodeAccounts` | `NodeSpec` implements `QueueSpec`, hence sends in order, keeps the limits and accounts for every message | the module's assumptions |
| `NodeTypeCorrect`, `NoLostWakeup`, `NodePingInTime` | types, `NothingStranded` and `NodeSpeaksInTime` for any messages and limits | the same |
| `EditorTypeCorrect` | types of the text editor | the module's assumptions |
| `NoLostUpdateCorrect`, `ExternalSeenCorrect`, `OnlyThisPageCorrect` | the three safety properties of `editor_pages` for any edits, epochs and retries | the same |
| `ProviderTypeCorrect`, `NothingAwaitedCorrect`, `QuarantineCorrect` | types, `NothingAwaited` and `QuarantineLasts` for any number of calls, processes, restarts and faults, starts beside terminations included | the module's assumptions |

*Lock.* Mutual exclusion is not inductive: two contenders that both judged a
lock stale may both be about to rename it. What saves it is that with
serialised calls, and as long as what is judged is still in the file, a stale
file stays stale: it belongs to a call that is gone,
and a gone call touches no file. So a lock judged stale can only be removed by
a guard holder; every guard below a live guard is itself left over, which makes
the holder unique; and whoever is about to rename has a lock in front of it
whose owner is gone. `LockInv` is the conjunction of these facts, and each is
proved to survive each action up to the first slip (`LockInvUnlessSlipped`);
a slip is never taken back, so that nothing is claimed after one. Findings 1
and 2 and the guard's error path (section 4, *Lock*) are why it can not be
claimed without. `RefusalJustified` needs neither `Serialised` nor `slipped`.
`AloneInv` says that a call nobody overlaps finds the files as it left them: the
lock it judged stale is still there and still stale, the generation it chose is
free, a lock it took over stays away. So three of the five places that refuse
cannot be reached, and in the other two the file met is a blank guard, or of a
call that has ended, in another process: of an ended call its own process knows
the token to be releasable (`Known`).

*Journal.* What a reader of the files must believe is split by phase.
`ControlInv` says which journal each place in the code works on and whether it
is committed, for each of the three roles of recovery. `BackupInv` says that a
rollback file belongs to an entry of the journal and goes before the journal
does. Under a prepared journal, `PreparedInv` leaves a source that nobody else
touched three states: unmoved, moved away, or installed with its backup beside
it. In each of them `Recoverable` gives the base, which is why no step between
the two publications of the journal changes the abstract store, and under a
committed journal it gives what the plan says, which makes the publication the
one step that does. `RestoredInv` and `StagedInv` carry this through the loops
of rollback and commit. The attempt showed that two cases of `RollbackOf`
overlapped as written (they are disjoint now) and that the second half of
`NothingLeftBehind`, that a stranded file is never a rollback file, needs no
condition.

*Queues.* `QueueInv` says that both queues are sorted, hold only messages
accepted and not yet written, share no number, and that a control message is
younger than its barrier. Under it the comparison of a barrier with the head of
the data queue picks the older message, which is the refinement's main step;
the eviction loop maps to what `AcceptData` gives up, a prefix of the pending
data. `DataBounded` is inductive once a sum over a queue can be reasoned about.
The sum is a recursive function (`BytesOfFirst`), and what is proved of it for
every length (`BytesDefined`, `BytesNat`, `BytesOfPart`) is proved by the least
length that fails, an element of a set of numbers, because the induction rules
of the library cannot be instantiated: the sums of a prefix and of a suffix add
up to the sum of the queue. The limits then follow from where the eviction loop
stops, with room for the message or with nothing left but an acceptable one.

*Socket.* Each step of a thread is one step of the queues or leaves them alone,
which gives `SocketUsesQueues`, and what was proved of the queues holds of the
connection. `FlushComplete` needs an invariant over the writer's position:
between its count of the control queue and its end, what is queued is younger
than the request. The two theorems on the heartbeat need that a writer that
waits has just looked at both clocks (`BeatInv`), and that meanwhile nobody else
empties a queue, so that a tick that skips a ping finds a message to write. A
tick beside a busy writer only happens when it has just written (`outAge` is 0),
so that the bound on its own silence (`SpeaksInTime`) stands, while nothing is
said of the peer's.

*Queries.* `AnsweredOnce` is not inductive, because an answer is held back only
by tables of numbers, while answers belong to requests. `QueryInv` ties the
two together. Until its handler is called a request is in one place, with its
reader, in the queue or with the pump, and has no answer (`Places`), which is
also what `CalledInTime` needs; afterwards, as long as its number is kept, the
number is in flight or remembered, and remembered as soon as there is an answer
or a message begun (`Numbering`). Each action moves numbers between the tables
in one of a few ways, each a lemma (`RememberFacts`, `ReleaseFacts`,
`NumberingKept`, `NumberingChanged`). `Bounded` has an invariant of its own:
queue, flight and pump share the room of both limits. `LateIsKnown` follows
from where an answer can be (`RecalledInv`): a request that was received has
been sent, and what the tracker has sent it has pending, retired or evicted;
its tables only pass numbers on in this order until the link ends.

*Session.* Two inductive invariants, the second on top of the first.
`LinksInv` needs no assumption on schedules. Its half about tables
(`TablesInv`, `ReplayInv`) is what `TablesAgree` says between operations,
extended into them: what a replay has still to send is what is registered and
not in the snapshot, or the replay knows that it has failed. `SlotKept` follows,
because a slot is only given out when free or as the one that was kept. Its
half about wires (`WireInv`) is a count. A thread that pushed a wire still owes
it a subscription, one that restored a wire owes another, and each thread in
`Bind` is about to let go of the wire it found; the threads may do these in any
order. `Balance` says that for each wire of the stack the subscriptions there
are and those owed outnumber the releases owed, by one more for the top: with
all threads at rest nothing is owed, and the top has a subscription left.
`EventsInv` says of schedules that are not `overlapped` that every table of an
open wire, live or archived, holds slots below the cursor only, and that its
client was told of whoever is registered under one of them (`EntriesKnown`);
`ToldInv` says the same of the slot that an operation in progress has sent and
not yet entered. The first attempt, with `overlapped` about the active wire
alone, failed at `Detach`; three links gave the counterexample (section 4, *Last
link*). `AttachedWhileLive` has a small invariant of its own, `AttachInv`: unless
a link was bound late, a `Detach` to come finds no live link, and a live link of
a detached session has the `Attach` of some handler still before it.

*Node socket.* `NodeInv` holds after every event. Of the two parts of
`NothingStranded`, `Woken` carries itself with `WaitInv`: a socket that is not
writable owes a drain event; `EndWritesFirst` needs `WireInv`, that whatever
was enqueued since the last write is still to be written, in a queue or in the
frames of the event.
`NodeSpeaksInTime` needs `BeatInv`: after the timer's turn the interval has not
passed, or something is to be written.

*Text editor.* None of the three is inductive. `WriteInv` ties what a handler
has read to the version it read it at: as long as the version has not moved the
snapshot is the text, and a document about to be replaced has no unsaved edits,
or edits given up; writes are refused on any other version. `SeenInv` adds that
the baseline and the text themselves have been seen. `PageInv` says that a
message which carries the token of the current epoch comes from the page in
view: tokens are at most the epoch in which a message was sent, so those that
were on their way when an epoch began carry older ones.

*Provider.* Whatever a late termination writes over the host's state, three
facts survive. Whoever removes the process rejects, in the same step, all that
is waited for, and a request enters only while there is a process
(`NothingAwaited`). A start that failed has no process until the termination it
waits for is over (`CatchInv`, with `HelloInv` on the request it waited for),
so that its catch cannot record a crash over a process of somebody else. And a
process that still runs in a quarantine is the one of a start under way, or has
used up its restarts without having been stable (`EndInv`), so that its own
crash confirms the quarantine. Hence only that start can leave it, which is
finding 4.

Only model-checked: every liveness property (out of this prover's reach, as is
`ENABLED`): `CallsEnd`, `JournalsGoAway`, both `EndCompletes`,
`GracefulCloseEnds`, `SilentPeerLeaves`, `EveryQueryEnds`, `NothingKept`,
`PageCatchesUp` and `EveryCallEnds`. Every invariant and every action property
of a passing run is stated by a theorem.

## 6. Not modelled, and why

- Process ids that the operating system reuses: a dead process stays dead, so a
  lock may in reality be kept longer than in the model, never lost.
- Loss of power: `Doc/VisualBridgeMcp.md` promises recovery of interrupted
  processes, not durability of directory entries.
- An editor that writes between the last hash check and the rename: the same
  document accepts the loss. It happens in the run, which shows that the other
  sources and all other moves are unharmed.
- Symbolic links, path normalisation, the parsing of journals and lock files,
  and forged files: validation without interleaving.
- `Dispose` and `Start` of the Unity socket, its switch for the heartbeat, byte
  and refusal counters, framing.
- Of the session: the encoding, filtering and sending of event messages, drop
  counters, the limit on instances, uninstalling the transport. Of the queries:
  payloads and validation of arguments, the age limit of retired numbers and
  their wrap at 2^32. Of the text editor: the mailbox of positions to reveal,
  reference picks, the clipboard, debug messages, how editors are opened.
- Of the providers: the contents of messages and the scope checks of the
  project host, the checks of the entry's path, that a process ignores being
  killed (the host waits no longer than its limit and then forces it).
- The components that `PROJECT.json` lists as `not_modelled`: the bridge
  sessions, the stores, recorders and panels behind the debug channel, the
  modules and source editors. They run on one event loop each, with awaits
  in between, and are next in the plan; compilers, document semantics, schemas,
  framing and discovery are sequential code without states to interleave.

## 7. Plan

In this order; each step comes with its runs.

1. `BridgeSession`: hello, session identity, lease, grace period and rotation;
   no state of an old session reaches a new one.
2. `DebugStore`: capacities and the order of eviction.
3. `ProjectTransaction`: lock and journal composed, so that evidence of a crash
   is computed and not chosen.

Proofs to come: which theorems of the queries survive without the limits on
remembered numbers; the safety facts behind the liveness properties (what is
waited for, and that it can still come); and the refinements of `BridgeSession` and
`ProjectTransaction` once those are written.
