-------------------------- MODULE TextEditorSession --------------------------
(***************************************************************************)
(* A custom text editor (ModuleTextEditorSession with its WebviewEpoch):   *)
(* a page in a webview that comes and goes with its panel, the session in  *)
(* the extension host, the document that VS Code and others edit, and the  *)
(* file that other processes write.  The session handles the messages of   *)
(* its page one after the other (`job'), but every await of a handler lets *)
(* everything else happen, and states are sent beside the queue.           *)
(*                                                                         *)
(* A text is the set of the edits it contains; equal texts stand for equal *)
(* hashes.  A token is the number of the epoch it was made for.            *)
(***************************************************************************)
EXTENDS Naturals, Sequences, FiniteSets

CONSTANTS
  PageEdit,    \* the edits that may come from the page as operations,
  HostEdit,    \*   from other editors of the document,
  FileEdit,    \*   and from other processes that write the file
  NoEdit,
  MaxEpoch,    \* bound: the panel is left as it is after so many epochs
  MaxMessages, \* bound: messages of the page under way or waiting
  MaxStates,   \* bound: with so many states under way nobody else goes on
  RetryLimit   \* READY_RETRY_LIMIT

Edit == PageEdit \cup HostEdit \cup FileEdit

ASSUME EditorAssumption ==
  /\ NoEdit \notin Edit
  /\ MaxEpoch \in Nat \ {0} /\ MaxMessages \in Nat \ {0}
  /\ MaxStates \in Nat \ {0} /\ RetryLimit \in Nat \ {0}

VARIABLES
  text, version, dirty,  \* the TextDocument
  disk,                  \* the file
  base,                  \* baseDiskTextHash
  didSave,               \* onDidSaveTextDocument is still to be called
  epoch, token, ready,   \* WebviewEpoch; ready is webviewReady too
  visible, disposed,     \* the panel
  retry,                 \* the timer readyRetry runs
  attempts, exhausted,   \* readyAttempts, readyExhausted
  page,                  \* the webview has a page, with
  pageToken, shown,      \*   the token it was sent, the version it shows and
  asked,                 \*   the operation it waits for an answer to
  up,                    \* messages on their way to the session
  queue,                 \* operationQueue, with the epoch of their receipt
  job,                   \* the message being handled
  states,                \* calls of sendState under way
  used,                  \* history: edits that have been made
  seen                   \* history: edits the document had, or the user gave up

documentVars == <<text, version, dirty, seen>>
fileVars     == <<disk, didSave>>
epochVars    == <<epoch, token, ready, visible, disposed>>
retryVars    == <<retry, attempts, exhausted>>
pageVars     == <<page, pageToken, shown, asked>>
vars == <<documentVars, fileVars, base, epochVars, retryVars, pageVars,
          up, queue, job, states, used>>

\* A message of the page, with the token it attaches, and the epoch in which it
\* is sent: an operation on version v, or `ready', first without a token.
Message(t, v, e, b) == [token |-> t, version |-> v, edit |-> e, born |-> b]

Idle == [pc |-> "idle", epoch |-> 0, token |-> 0, born |-> 0, version |-> 0, edit |-> NoEdit,
         disk |-> {}, snap |-> {}, chosen |-> FALSE, answer |-> FALSE,
         atVersion |-> 0, atEpoch |-> 0]

EpochCurrent(e) == ~disposed /\ e = epoch
OperationCurrent(v, e) == v = version /\ EpochCurrent(e)

\* Mutant of CanAcceptReady: any echo will do.
CanAcceptAny(t) == t # 0 /\ ~ready
CanAcceptReady(t) == t # 0 /\ t = token /\ ~ready

AcceptsMessage(t) == ready /\ t # 0 /\ t = token

(* open().  The page has not loaded yet, so that the first requestReady is *)
(* lost; the file was read just before.                                    *)
EditorInit ==
  /\ text = {} /\ version = 1 /\ dirty = FALSE /\ disk = {} /\ base = {} /\ didSave = FALSE
  /\ epoch = 1 /\ token = 1 /\ ready = FALSE /\ visible = TRUE /\ disposed = FALSE
  /\ retry = TRUE /\ attempts = 1 /\ exhausted = FALSE
  /\ page = FALSE /\ pageToken = 0 /\ shown = 0 /\ asked = NoEdit
  /\ up = <<>> /\ queue = <<>> /\ job = Idle /\ states = {}
  /\ used = {} /\ seen = {}

---------------------------------------------------------------------------
(* What is posted reaches the page if there is one to be seen.             *)
Posted == page /\ visible /\ ~disposed
Show(v) == shown' = IF Posted THEN v ELSE shown

\* operationCompleted or operationRejected: the page takes it for the answer
\* to whatever it is waiting for.
Answer == asked' = IF Posted THEN NoEdit ELSE asked

\* sendState has captured version v and epoch e and asked the controller.
\* Mutant of SendState: nobody looks again when the controller has answered.
SendAnyState(v, e) == Show(v)
SendState(v, e) == IF OperationCurrent(v, e) THEN Show(v) ELSE shown' = shown

\* A change of the document calls sendState, whoever made it.
Changed(new) ==
  /\ text' = new /\ version' = version + 1 /\ seen' = seen \cup new
  /\ states' = IF disposed THEN states ELSE states \cup {[version |-> version + 1, epoch |-> epoch]}

Room == Len(up) + Len(queue) < MaxMessages

\* requestWebviewReady, in a panel that is visible, with token t after n of
\* its attempts: the page echoes the token, or the timer tries again.
RequestReady(t, n, was) ==
  /\ pageToken' = IF page THEN t ELSE pageToken
  /\ up' = IF page THEN Append(up, Message(t, 0, NoEdit, t)) ELSE up
  /\ retry' = (~ready /\ n < RetryLimit)
  /\ attempts' = IF ~ready /\ n < RetryLimit THEN n + 1 ELSE n
  /\ exhausted' = (was \/ (~ready /\ n >= RetryLimit))

---------------------------------------------------------------------------
(* The panel.  Hidden, it may keep its page for a while or lose it.        *)
Hide ==
  /\ visible /\ ~disposed /\ epoch < MaxEpoch
  /\ visible' = FALSE /\ epoch' = epoch + 1 /\ token' = 0 /\ ready' = FALSE
  /\ UNCHANGED <<documentVars, fileVars, base, disposed, retryVars, pageVars,
                 up, queue, job, states, used>>

ShowPanel ==
  /\ ~visible /\ ~disposed /\ epoch < MaxEpoch /\ Room
  /\ visible' = TRUE /\ epoch' = epoch + 1 /\ token' = epoch + 1 /\ ready' = FALSE
  /\ RequestReady(epoch + 1, 0, FALSE)
  /\ UNCHANGED <<documentVars, fileVars, base, disposed, page, shown, asked,
                 queue, job, states, used>>

\* The timer; Hide leaves it running.
Retry ==
  /\ retry
  /\ IF visible THEN Room /\ RequestReady(token, attempts, exhausted)
     ELSE retry' = FALSE /\ UNCHANGED <<attempts, exhausted, pageToken, up>>
  /\ UNCHANGED <<documentVars, fileVars, base, epochVars, page, shown, asked,
                 queue, job, states, used>>

Dispose ==
  /\ ~disposed /\ epoch < MaxEpoch /\ disposed' = TRUE
  /\ epoch' = epoch + 1 /\ token' = 0 /\ ready' = FALSE /\ retry' = FALSE
  /\ page' = FALSE /\ pageToken' = 0 /\ shown' = 0 /\ asked' = NoEdit
  /\ up' = <<>>
  /\ UNCHANGED <<documentVars, fileVars, base, visible, attempts, exhausted,
                 queue, job, states, used>>

PageLoads ==
  /\ visible /\ ~disposed /\ ~page /\ Room
  /\ page' = TRUE /\ UNCHANGED <<pageToken, shown, asked>>
  /\ up' = Append(up, Message(0, 0, NoEdit, epoch))
  /\ UNCHANGED <<documentVars, fileVars, base, epochVars, retryVars, queue, job, states, used>>

PageGoes ==
  /\ page /\ ~visible
  /\ page' = FALSE /\ pageToken' = 0 /\ shown' = 0 /\ asked' = NoEdit
  /\ UNCHANGED <<documentVars, fileVars, base, epochVars, retryVars, up, queue, job, states, used>>

\* The user edits in the page, which waits for the answer before it asks again.
PageAsks(e) ==
  /\ page /\ visible /\ shown # 0 /\ asked = NoEdit /\ e \notin used /\ Room
  /\ asked' = e /\ used' = used \cup {e}
  /\ up' = Append(up, Message(pageToken, shown, e, epoch))
  /\ UNCHANGED <<documentVars, fileVars, base, epochVars, retryVars, page, pageToken, shown,
                 queue, job, states>>

\* onDidReceiveMessage.
Receive ==
  /\ up # <<>> /\ up' = Tail(up)
  /\ queue' = Append(queue, [message |-> Head(up), epoch |-> epoch])
  /\ UNCHANGED <<documentVars, fileVars, base, epochVars, retryVars, pageVars, job, states, used>>

---------------------------------------------------------------------------
(* handleMessage: what belongs to another epoch, or does not carry the     *)
(* token of this one, is dropped.                                          *)
First == Head(queue).message
Proposal == First.edit = NoEdit /\ First.token = 0
Echo == First.edit = NoEdit /\ First.token # 0
Operation == First.edit # NoEdit

Takes ==
  /\ job.pc = "idle" /\ queue # <<>> /\ queue' = Tail(queue)
  /\ UNCHANGED <<documentVars, fileVars, base, epochVars, page, shown, states, used>>

TakesCurrent == Takes /\ EpochCurrent(Head(queue).epoch)

Begin(pc) ==
  job' = [Idle EXCEPT !.pc = pc, !.epoch = epoch, !.token = First.token, !.born = First.born,
                      !.version = First.version, !.edit = First.edit,
                      !.atVersion = version, !.atEpoch = epoch]

Drop ==
  /\ Takes
  /\ \/ ~EpochCurrent(Head(queue).epoch)
     \/ (Proposal \/ Echo) /\ ~visible
     \/ Echo /\ ~CanAcceptReady(First.token)
     \/ Operation /\ ~AcceptsMessage(First.token)
  /\ UNCHANGED <<retryVars, pageToken, asked, up, job>>

TakeProposal ==
  /\ TakesCurrent /\ Proposal /\ visible
  /\ RequestReady(token, attempts, exhausted)
  /\ UNCHANGED <<asked, job>>

TakeEcho ==
  /\ TakesCurrent /\ Echo /\ visible /\ CanAcceptReady(First.token)
  /\ Begin("state")
  /\ UNCHANGED <<retryVars, pageToken, asked, up>>

\* An operation on an old version is answered once the page has the new one;
\* checkOperations refuses some at once.
TakeOperation ==
  /\ TakesCurrent /\ Operation /\ AcceptsMessage(First.token)
  /\ \/ /\ First.version # version
        /\ job' = [Idle EXCEPT !.pc = "refresh", !.answer = TRUE,
                               !.atVersion = version, !.atEpoch = epoch]
        /\ UNCHANGED asked
     \/ First.version = version /\ Begin("read") /\ UNCHANGED asked
     \/ First.version = version /\ Answer /\ UNCHANGED job
  /\ UNCHANGED <<retryVars, pageToken, up>>

---------------------------------------------------------------------------
(* handleReady: the page is ready once it has been sent a state after its  *)
(* echo.                                                                   *)
StateSent ==
  /\ job.pc = "state"
  /\ SendState(job.atVersion, job.atEpoch)
  /\ job' = IF OperationCurrent(job.atVersion, job.atEpoch) /\ Posted
            THEN [job EXCEPT !.pc = "mark"] ELSE Idle
  /\ UNCHANGED <<documentVars, fileVars, base, epochVars, retryVars, page, pageToken, asked,
                 up, queue, states, used>>

MarkReady ==
  /\ job.pc = "mark" /\ job' = Idle
  /\ IF EpochCurrent(job.epoch) /\ visible /\ CanAcceptReady(job.token)
     THEN ready' = TRUE /\ retry' = FALSE /\ attempts' = 0 /\ exhausted' = FALSE
     ELSE UNCHANGED <<ready, retryVars>>
  /\ UNCHANGED <<documentVars, fileVars, base, epoch, token, visible, disposed, pageVars,
                 up, queue, states, used>>

---------------------------------------------------------------------------
(* The handler of an operation.                                            *)
Unmoved == UNCHANGED <<epochVars, retryVars, page, pageToken, up, queue, used>>

\* It ends with an answer, or by an exception, which is reported only to the
\* page that is still there.
Reject == Answer /\ job' = Idle
Throw ==
  /\ IF EpochCurrent(job.epoch) /\ AcceptsMessage(job.token) THEN Answer ELSE UNCHANGED asked
  /\ job' = Idle

\* It ends with sendState, and with an answer after that if it still owes one.
Refresh(owes) ==
  job' = [Idle EXCEPT !.pc = "refresh", !.answer = owes, !.atVersion = version', !.atEpoch = epoch]

Refreshed ==
  /\ job.pc = "refresh" /\ job' = Idle
  /\ SendState(job.atVersion, job.atEpoch)
  /\ IF job.answer THEN Answer ELSE UNCHANGED asked
  /\ Unmoved /\ UNCHANGED <<documentVars, fileVars, base, states>>

(* confirmExternalChanges: the file is read, and compared later.           *)
ReadDisk ==
  /\ job.pc = "read"
  /\ \/ job' = [job EXCEPT !.pc = "compare", !.disk = disk] /\ UNCHANGED asked
     \/ Throw
  /\ Unmoved /\ UNCHANGED <<documentVars, fileVars, base, shown, states>>

\* The operation goes on if neither document nor epoch have changed, and is
\* dropped otherwise.
Confirmed(b) ==
  /\ base' = b
  /\ job' = IF OperationCurrent(job.version, job.epoch)
            THEN [job EXCEPT !.pc = "handle", !.snap = text] ELSE Idle

\* reloadDocumentFromDisk begins.
Reload(chosen) ==
  job' = [Idle EXCEPT !.pc = IF text = job.disk THEN "save" ELSE "replace",
                      !.disk = job.disk, !.chosen = chosen, !.atVersion = version]

Compare ==
  /\ job.pc = "compare"
  /\ \/ job.disk = base /\ Confirmed(base)
     \/ job.disk # base /\ job.disk = text /\ Confirmed(job.disk)
     \/ job.disk \notin {base, text} /\ ~dirty /\ Reload(FALSE) /\ UNCHANGED base
     \/ /\ job.disk \notin {base, text} /\ dirty
        /\ job' = [job EXCEPT !.pc = "prompt"] /\ UNCHANGED base
  /\ Unmoved /\ UNCHANGED <<documentVars, fileVars, asked, shown, states>>

Overwrite ==
  /\ job.pc = "prompt" /\ Confirmed(job.disk) /\ seen' = seen \cup job.disk
  /\ Unmoved /\ UNCHANGED <<text, version, dirty, fileVars, asked, shown, states>>

Discard ==
  /\ job.pc = "prompt" /\ Reload(TRUE)
  /\ Unmoved /\ UNCHANGED <<documentVars, fileVars, base, asked, shown, states>>

Cancel ==
  /\ job.pc = "prompt" /\ Reject
  /\ Unmoved /\ UNCHANGED <<documentVars, fileVars, base, shown, states>>

(* A WorkspaceEdit is refused when the document has changed since.         *)
Replace ==
  /\ job.pc = "replace"
  /\ \/ /\ version = job.atVersion
        /\ Changed(job.disk) /\ dirty' = TRUE
        /\ job' = [job EXCEPT !.pc = "save"] /\ UNCHANGED asked
     \/ Reject /\ UNCHANGED <<documentVars, states>>
  /\ Unmoved /\ UNCHANGED <<fileVars, base, shown>>

Written == disk' = text /\ dirty' = FALSE /\ didSave' = TRUE

\* reloadDocumentFromDisk ends, and its caller goes on.
EndReload ==
  IF text = job.disk /\ ~dirty
  THEN base' = job.disk /\ Refresh(TRUE) /\ UNCHANGED asked
  ELSE Reject /\ UNCHANGED base

SaveReloaded ==
  /\ job.pc = "save"
  /\ UNCHANGED <<text, version>>
  /\ \/ dirty /\ Written /\ job' = [job EXCEPT !.pc = "saved"] /\ UNCHANGED <<base, asked>>
     \/ dirty /\ Reject /\ UNCHANGED <<dirty, fileVars, base>>
     \/ ~dirty /\ EndReload /\ UNCHANGED <<dirty, fileVars>>
  /\ Unmoved /\ UNCHANGED <<seen, shown, states>>

Reloaded ==
  /\ job.pc = "saved" /\ UNCHANGED documentVars
  /\ EndReload
  /\ Unmoved /\ UNCHANGED <<fileVars, shown, states>>

(* The controller has looked at the text of the snapshot: it refuses, sees *)
(* nothing to change, or returns a new text, which is applied only to the  *)
(* version it was made from.                                               *)
\* Mutant of Handle: executeEffects does not compare the versions.
HandleUnchecked ==
  /\ job.pc = "handle" /\ UNCHANGED documentVars
  /\ \/ Reject
     \/ Throw
     \/ /\ ~disposed /\ UNCHANGED asked
        /\ job' = [job EXCEPT !.pc = "apply", !.atVersion = version]
  /\ Unmoved /\ UNCHANGED <<fileVars, base, shown, states>>

Handle ==
  /\ job.pc = "handle" /\ UNCHANGED documentVars
  /\ \/ Reject
     \/ ~disposed /\ version # job.version /\ Answer /\ Refresh(FALSE)
     \/ Throw
     \/ /\ ~disposed /\ version = job.version /\ UNCHANGED asked
        /\ job' = [job EXCEPT !.pc = "apply", !.atVersion = version]
  /\ Unmoved /\ UNCHANGED <<fileVars, base, shown, states>>

Apply ==
  /\ job.pc = "apply"
  /\ \/ /\ version = job.atVersion
        /\ Changed(job.snap \cup {job.edit}) /\ dirty' = TRUE
        /\ job' = [Idle EXCEPT !.pc = "applied"] /\ UNCHANGED asked
     \/ Throw /\ UNCHANGED <<documentVars, states>>
  /\ Unmoved /\ UNCHANGED <<fileVars, base, shown>>

\* operationCompleted, and a state for the page.
Complete ==
  /\ job.pc = "applied" /\ UNCHANGED documentVars
  /\ Answer /\ Refresh(FALSE)
  /\ Unmoved /\ UNCHANGED <<fileVars, base, shown, states>>

---------------------------------------------------------------------------
(* Everybody else.                                                         *)
Around ==
  /\ Cardinality(states) < MaxStates
  /\ UNCHANGED <<epochVars, retryVars, pageVars, up, queue, job>>

Type(e) ==
  /\ e \notin used /\ used' = used \cup {e}
  /\ Changed(text \cup {e}) /\ dirty' = TRUE
  /\ Around /\ UNCHANGED <<fileVars, base>>

WriteFile(e) ==
  /\ e \notin used /\ used' = used \cup {e} /\ disk' = disk \cup {e}
  /\ Around /\ UNCHANGED <<documentVars, didSave, base, states>>

\* VS Code follows the file as long as there is nothing to lose.
FollowFile ==
  /\ ~dirty /\ text # disk /\ Changed(disk)
  /\ Around /\ UNCHANGED <<dirty, fileVars, base, used>>

Save ==
  /\ dirty /\ Written
  /\ Around /\ UNCHANGED <<text, version, seen, base, states, used>>

\* Mutant of OnDidSave: the baseline is read from the file once more.
OnDidSaveReads ==
  /\ didSave /\ didSave' = FALSE
  /\ base' = IF disposed THEN base ELSE disk
  /\ states' = IF disposed THEN states ELSE states \cup {[version |-> version, epoch |-> epoch]}
  /\ Around /\ UNCHANGED <<documentVars, disk, used>>

OnDidSave ==
  /\ didSave /\ didSave' = FALSE
  /\ base' = IF disposed THEN base ELSE text
  /\ states' = IF disposed THEN states ELSE states \cup {[version |-> version, epoch |-> epoch]}
  /\ Around /\ UNCHANGED <<documentVars, disk, used>>

\* The end of a call of sendState.
StateArrives ==
  /\ \E s \in states : SendState(s.version, s.epoch) /\ states' = states \ {s}
  /\ UNCHANGED <<documentVars, fileVars, base, epochVars, retryVars, page, pageToken, asked,
                 up, queue, job, used>>

---------------------------------------------------------------------------
Panel == Hide \/ ShowPanel \/ Retry \/ Dispose
Page == PageLoads \/ PageGoes \/ \E e \in PageEdit : PageAsks(e)
Take == Drop \/ TakeProposal \/ TakeEcho \/ TakeOperation
Confirm ==
  \/ ReadDisk \/ Compare \/ Overwrite \/ Discard \/ Cancel
  \/ Replace \/ SaveReloaded \/ Reloaded
Continue == StateSent \/ MarkReady \/ Confirm \/ Handle \/ Apply \/ Complete \/ Refreshed
Others == FollowFile \/ Save \/ (\E e \in HostEdit : Type(e)) \/ \E e \in FileEdit : WriteFile(e)

EditorNext == Panel \/ Page \/ Receive \/ Take \/ Continue \/ Others \/ OnDidSave \/ StateArrives

(***************************************************************************)
(* Handlers go on, the user answers a dialog, timers and events come, and  *)
(* a panel in view loads its page.  Nobody has to edit, save or hide.      *)
(***************************************************************************)
EditorFairness ==
  /\ WF_vars(Take \/ Continue) /\ WF_vars(StateArrives)
  /\ WF_vars(Receive) /\ WF_vars(Retry) /\ WF_vars(PageLoads)

EditorSafety == EditorInit /\ [][EditorNext]_vars
EditorSpec == EditorSafety /\ EditorFairness

---------------------------------------------------------------------------
Text == SUBSET Edit
Messages == [token : Nat, version : Nat, edit : Edit \cup {NoEdit}, born : Nat]
Jobs ==
  [pc : {"idle", "state", "mark", "read", "compare", "prompt", "replace", "save", "saved",
         "handle", "apply", "applied", "refresh"},
   epoch : Nat, token : Nat, born : Nat, version : Nat, edit : Edit \cup {NoEdit},
   disk : Text, snap : Text, chosen : BOOLEAN, answer : BOOLEAN, atVersion : Nat, atEpoch : Nat]

EditorTypeOK ==
  /\ text \in Text /\ disk \in Text /\ base \in Text /\ used \in Text /\ seen \in Text
  /\ version \in Nat \ {0} /\ epoch \in Nat \ {0} /\ token \in Nat
  /\ dirty \in BOOLEAN /\ didSave \in BOOLEAN /\ ready \in BOOLEAN /\ visible \in BOOLEAN
  /\ disposed \in BOOLEAN /\ retry \in BOOLEAN /\ exhausted \in BOOLEAN /\ page \in BOOLEAN
  /\ attempts \in 0..RetryLimit
  /\ pageToken \in Nat /\ shown \in Nat /\ asked \in Edit \cup {NoEdit}
  /\ up \in Seq(Messages) /\ queue \in Seq([message : Messages, epoch : Nat])
  /\ job \in Jobs
  /\ states \subseteq [version : Nat, epoch : Nat]

(***************************************************************************)
(* No update is lost: whatever the session writes into the document holds  *)
(* every edit that was there, except that a file which changed outside may *)
(* replace a document without unsaved edits, or one that the user gave up  *)
(* (executeEffects, applyText, reloadDocumentFromDisk).                    *)
(***************************************************************************)
NoLostUpdate ==
  [][\/ text \subseteq text'
     \/ text' \in {disk, job.disk} /\ (~dirty \/ job.chosen)]_vars

(***************************************************************************)
(* An external change is noticed: an operation goes ahead only when all    *)
(* that the file held at its confirmation had been in the document, or the *)
(* user had agreed to overwrite it (confirmExternalChanges, and whatever   *)
(* else sets baseDiskTextHash).                                            *)
(***************************************************************************)
ExternalSeen == job.pc \in {"handle", "apply"} => job.disk \subseteq seen

(***************************************************************************)
(* "A queued ready, operation or ACK of an old epoch may not change the    *)
(* new lifecycle" (VisualBridgeArchitectureAuthoring.md): what is handled  *)
(* was sent in the epoch in which it is taken up.  And a ready page has    *)
(* echoed the token of its epoch and been shown a state.                   *)
(***************************************************************************)
OnlyThisPage ==
  /\ job.pc \in {"state", "read"} => job.born = job.epoch
  /\ ready /\ page => pageToken = token /\ shown # 0

(***************************************************************************)
(* The page catches up: in a panel that stays in view it becomes ready and *)
(* shows the last version, although a state that was overtaken is dropped, *)
(* unless requestReady has been sent as often as it may (sendState,        *)
(* handleReady, requestWebviewReady).                                      *)
(***************************************************************************)
PageCatchesUp == <>[](visible /\ ~disposed => exhausted \/ (ready /\ shown = version))
=============================================================================
