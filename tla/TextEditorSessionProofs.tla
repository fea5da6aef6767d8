----------------------- MODULE TextEditorSessionProofs -----------------------
(***************************************************************************)
(* Theorems about TextEditorSession, for any edits, epochs and limits.     *)
(***************************************************************************)
EXTENDS TextEditorSession, SequenceTheorems, TLAPS

(* An operation in hand has an edit.                                        *)
EditKnown == job.pc \in {"read", "compare", "prompt", "handle", "apply"} => job.edit \in Edit

(* What the session knows of the document when it is about to write: until *)
(* the version moves on, its snapshot is the text, and a document that the *)
(* user has not given up has no unsaved edits.                             *)
WriteInv ==
  /\ job.pc = "handle" => job.version <= version /\ (version = job.version => job.snap = text)
  /\ job.pc = "apply" => job.atVersion <= version /\ (version = job.atVersion => job.snap = text)
  /\ job.pc = "replace" =>
       job.atVersion <= version /\ (version = job.atVersion => ~dirty \/ job.chosen)

(* What the file held at a confirmation, and the baseline, have been seen.  *)
SeenInv ==
  /\ base \subseteq seen /\ text \subseteq seen
  /\ ExternalSeen

(* Messages come from their past: the token of a message is at most the     *)
(* epoch it was sent in.  One with the token of the current epoch comes     *)
(* from the page in view.                                                   *)
FromPage(m) ==
  /\ m.token <= m.born /\ m.born <= epoch
  /\ m.token = epoch => visible /\ page /\ pageToken = epoch

EpochInv ==
  /\ token = (IF visible /\ ~disposed THEN epoch ELSE 0)
  /\ pageToken <= epoch
  /\ page => ~disposed
  /\ ready => visible /\ ~disposed /\ page /\ pageToken = token /\ shown # 0

MailInv ==
  /\ \A k \in DOMAIN up : FromPage(up[k])
  /\ \A k \in DOMAIN queue : FromPage(queue[k].message)

JobInv ==
  /\ job.pc \in {"state", "read"} => job.born = job.epoch
  /\ job.pc \in {"state", "mark"} =>
       /\ job.token <= job.epoch /\ job.epoch <= epoch
       /\ job.token = epoch => visible /\ page /\ pageToken = epoch
  /\ job.pc \in {"state", "refresh"} => job.atVersion # 0
  /\ job.pc = "mark" /\ job.token = epoch => shown # 0
  /\ \A s \in states : s.version # 0

PageInv == EpochInv /\ MailInv /\ JobInv

---------------------------------------------------------------------------
(* Types, by groups of variables.                                          *)
DocumentTypes ==
  /\ text \in Text /\ disk \in Text /\ base \in Text /\ used \in Text /\ seen \in Text
  /\ version \in Nat \ {0} /\ states \subseteq [version : Nat, epoch : Nat]
PageTypes ==
  /\ epoch \in Nat \ {0} /\ token \in Nat /\ attempts \in 0..RetryLimit
  /\ pageToken \in Nat /\ shown \in Nat /\ asked \in Edit \cup {NoEdit}
FlagTypes ==
  /\ dirty \in BOOLEAN /\ didSave \in BOOLEAN /\ ready \in BOOLEAN /\ visible \in BOOLEAN
  /\ disposed \in BOOLEAN /\ retry \in BOOLEAN /\ exhausted \in BOOLEAN /\ page \in BOOLEAN
MessageTypes ==
  up \in Seq(Messages) /\ queue \in Seq([message : Messages, epoch : Nat])

LEMMA MessageType ==
  ASSUME NEW t \in Nat, NEW v \in Nat, NEW e \in Edit \cup {NoEdit}, NEW b \in Nat
  PROVE  /\ Message(t, v, e, b) \in Messages
         /\ Message(t, v, e, b).token = t /\ Message(t, v, e, b).born = b
BY DEF Message, Messages

LEMMA IdleType == Idle \in Jobs /\ Idle.pc = "idle"
BY DEF Idle, Jobs, Text

LEMMA HeadFacts ==
  ASSUME NEW S, NEW q \in Seq(S), q # <<>>
  PROVE  /\ 1 \in DOMAIN q /\ Head(q) = q[1] /\ Head(q) \in S /\ Tail(q) \in Seq(S)
         /\ \A k \in DOMAIN Tail(q) : k + 1 \in DOMAIN q /\ Tail(q)[k] = q[k + 1]
BY HeadTailProperties

(* The message taken has its type.                                          *)
LEMMA FirstType ==
  ASSUME EditorTypeOK, queue # <<>>
  PROVE  /\ First \in Messages /\ Head(queue) \in [message : Messages, epoch : Nat]
         /\ Tail(queue) \in Seq([message : Messages, epoch : Nat])
<1>1. queue \in Seq([message : Messages, epoch : Nat])
  BY DEF EditorTypeOK
<1>2. /\ Head(queue) \in [message : Messages, epoch : Nat]
      /\ Tail(queue) \in Seq([message : Messages, epoch : Nat])
  BY <1>1, HeadFacts
<1> QED BY <1>2 DEF First

LEMMA PostType ==
  ASSUME EditorTypeOK, NEW t \in Nat, NEW n \in 0..RetryLimit, NEW was \in BOOLEAN,
         RequestReady(t, n, was)
  PROVE  /\ pageToken' \in Nat /\ up' \in Seq(Messages) /\ attempts' \in 0..RetryLimit
         /\ retry' \in BOOLEAN /\ exhausted' \in BOOLEAN
<1>1. Message(t, 0, NoEdit, t) \in Messages
  BY MessageType
<1>2. pageToken' \in Nat /\ up' \in Seq(Messages)
  BY <1>1 DEF RequestReady, EditorTypeOK
<1>3. attempts' \in 0..RetryLimit
  BY EditorAssumption DEF RequestReady
<1>4. retry' \in BOOLEAN /\ exhausted' \in BOOLEAN
  BY DEF RequestReady
<1> QED BY <1>2, <1>3, <1>4

LEMMA SendType ==
  ASSUME EditorTypeOK, NEW v \in Nat, NEW e \in Nat, SendState(v, e)
  PROVE  shown' \in Nat
BY DEF SendState, Show, EditorTypeOK

LEMMA AnswerType ==
  ASSUME EditorTypeOK, Answer PROVE asked' \in Edit \cup {NoEdit}
BY DEF Answer, EditorTypeOK

LEMMA ChangedType ==
  ASSUME EditorTypeOK, NEW new \in Text, Changed(new)
  PROVE  /\ text' \in Text /\ seen' \in Text /\ version' = version + 1 /\ version' \in Nat \ {0}
         /\ states' \subseteq [version : Nat, epoch : Nat]
BY DEF Changed, EditorTypeOK, Text

LEMMA PanelTypes ==
  ASSUME EditorTypeOK, Panel \/ Page \/ Receive PROVE EditorTypeOK'
<1>1. CASE Hide
  <2>1. DocumentTypes' /\ MessageTypes' /\ job' \in Jobs
    BY <1>1 DEF Hide, EditorTypeOK, DocumentTypes, MessageTypes, documentVars, fileVars, retryVars, pageVars
  <2>2. PageTypes'
    BY <1>1 DEF Hide, EditorTypeOK, PageTypes, documentVars, fileVars, retryVars, pageVars
  <2>3. FlagTypes'
    BY <1>1 DEF Hide, EditorTypeOK, FlagTypes, documentVars, fileVars, retryVars, pageVars
  <2> QED
    BY <2>1, <2>2, <2>3 DEF EditorTypeOK, DocumentTypes, PageTypes, FlagTypes, MessageTypes
<1>2. CASE ShowPanel
  <2>1. epoch + 1 \in Nat \ {0} /\ 0 \in 0..RetryLimit
    BY EditorAssumption DEF EditorTypeOK
  <2>0. RequestReady(epoch + 1, 0, FALSE)
    BY <1>2 DEF ShowPanel
  <2>2. /\ pageToken' \in Nat /\ up' \in Seq(Messages) /\ attempts' \in 0..RetryLimit
        /\ retry' \in BOOLEAN /\ exhausted' \in BOOLEAN
    BY <2>0, <2>1, PostType
  <2>3. DocumentTypes' /\ MessageTypes' /\ job' \in Jobs
    BY <1>2, <2>1, <2>2 DEF ShowPanel, EditorTypeOK, DocumentTypes, MessageTypes, documentVars, fileVars
  <2>4. PageTypes'
    BY <1>2, <2>1, <2>2 DEF ShowPanel, EditorTypeOK, PageTypes, documentVars, fileVars
  <2>5. FlagTypes'
    BY <1>2, <2>1, <2>2 DEF ShowPanel, EditorTypeOK, FlagTypes, documentVars, fileVars
  <2> QED
    BY <2>3, <2>4, <2>5 DEF EditorTypeOK, DocumentTypes, PageTypes, FlagTypes, MessageTypes
<1>3. CASE Retry
  <2>1. RequestReady(token, attempts, exhausted) =>
          /\ pageToken' \in Nat /\ up' \in Seq(Messages) /\ attempts' \in 0..RetryLimit
          /\ retry' \in BOOLEAN /\ exhausted' \in BOOLEAN
    BY PostType DEF EditorTypeOK
  <2> QED BY <1>3, <2>1 DEF Retry, EditorTypeOK, documentVars, fileVars, epochVars
<1>4. CASE Dispose
  <2>1. DocumentTypes' /\ MessageTypes' /\ job' \in Jobs
    BY <1>4 DEF Dispose, EditorTypeOK, DocumentTypes, MessageTypes, documentVars, fileVars
  <2>2. PageTypes'
    BY <1>4 DEF Dispose, EditorTypeOK, PageTypes, documentVars, fileVars
  <2>3. FlagTypes'
    BY <1>4 DEF Dispose, EditorTypeOK, FlagTypes, documentVars, fileVars
  <2> QED
    BY <2>1, <2>2, <2>3 DEF EditorTypeOK, DocumentTypes, PageTypes, FlagTypes, MessageTypes
<1>5. CASE PageLoads
  <2>1. Message(0, 0, NoEdit, epoch) \in Messages
    BY MessageType DEF EditorTypeOK
  <2> QED BY <1>5, <2>1 DEF PageLoads, EditorTypeOK, documentVars, fileVars, epochVars, retryVars
<1>6. CASE PageGoes
  BY <1>6 DEF PageGoes, EditorTypeOK, documentVars, fileVars, epochVars, retryVars
<1>7. ASSUME NEW e \in PageEdit, PageAsks(e) PROVE EditorTypeOK'
  <2>1. Message(pageToken, shown, e, epoch) \in Messages
    BY <1>7, MessageType DEF EditorTypeOK, Edit
  <2> QED BY <1>7, <2>1 DEF PageAsks, EditorTypeOK, Text, Edit, documentVars, fileVars, epochVars, retryVars
<1>8. CASE Receive
  <2>1. /\ Tail(up) \in Seq(Messages)
        /\ [message |-> Head(up), epoch |-> epoch] \in [message : Messages, epoch : Nat]
    BY <1>8 DEF Receive, EditorTypeOK
  <2> QED BY <1>8, <2>1 DEF Receive, EditorTypeOK, documentVars, fileVars, epochVars, retryVars, pageVars
<1> QED BY <1>1, <1>2, <1>3, <1>4, <1>5, <1>6, <1>7, <1>8 DEF Panel, Page

LEMMA OthersTypes ==
  ASSUME EditorTypeOK, Others \/ OnDidSave \/ StateArrives PROVE EditorTypeOK'
<1>1. ASSUME NEW e \in HostEdit, Type(e) PROVE EditorTypeOK'
  <2>1. text \cup {e} \in Text /\ used \cup {e} \in Text
    BY DEF EditorTypeOK, Text, Edit
  <2>2. /\ text' \in Text /\ seen' \in Text /\ version' \in Nat \ {0}
        /\ states' \subseteq [version : Nat, epoch : Nat]
    BY <1>1, <2>1, ChangedType DEF Type
  <2> QED BY <1>1, <2>1, <2>2 DEF Type, Around, EditorTypeOK, fileVars, epochVars, retryVars, pageVars
<1>2. ASSUME NEW e \in FileEdit, WriteFile(e) PROVE EditorTypeOK'
  BY <1>2 DEF WriteFile, Around, EditorTypeOK, Text, Edit, documentVars, epochVars, retryVars, pageVars
<1>3. CASE FollowFile
  <2>1. /\ text' \in Text /\ seen' \in Text /\ version' \in Nat \ {0}
        /\ states' \subseteq [version : Nat, epoch : Nat]
    BY <1>3, ChangedType DEF FollowFile, EditorTypeOK
  <2> QED BY <1>3, <2>1 DEF FollowFile, Around, EditorTypeOK, fileVars, epochVars, retryVars, pageVars
<1>4. CASE Save
  BY <1>4 DEF Save, Written, Around, EditorTypeOK, epochVars, retryVars, pageVars
<1>5. CASE OnDidSave
  <2>1. DocumentTypes' /\ MessageTypes' /\ job' \in Jobs
    BY <1>5 DEF OnDidSave, Around, EditorTypeOK, DocumentTypes, MessageTypes, documentVars, epochVars, retryVars, pageVars
  <2>2. PageTypes'
    BY <1>5 DEF OnDidSave, Around, EditorTypeOK, PageTypes, documentVars, epochVars, retryVars, pageVars
  <2>3. FlagTypes'
    BY <1>5 DEF OnDidSave, Around, EditorTypeOK, FlagTypes, documentVars, epochVars, retryVars, pageVars
  <2> QED
    BY <2>1, <2>2, <2>3 DEF EditorTypeOK, DocumentTypes, PageTypes, FlagTypes, MessageTypes
<1>6. CASE StateArrives
  <2>1. PICK s \in states : SendState(s.version, s.epoch) /\ states' = states \ {s}
    BY <1>6 DEF StateArrives
  <2>2. s.version \in Nat /\ s.epoch \in Nat
    BY DEF EditorTypeOK
  <2>3. shown' \in Nat
    BY <2>1, <2>2, SendType
  <2> QED BY <1>6, <2>1, <2>3 DEF StateArrives, EditorTypeOK, documentVars, fileVars, epochVars, retryVars
<1> QED BY <1>1, <1>2, <1>3, <1>4, <1>5, <1>6 DEF Others

---------------------------------------------------------------------------
(* What a handler does to the job and to what it answers and sends.        *)
LEMMA RefreshType ==
  ASSUME NEW owes \in BOOLEAN, version' \in Nat, epoch \in Nat, Refresh(owes)
  PROVE  job' \in Jobs /\ job'.pc = "refresh" /\ job'.atVersion = version'
<1>1. /\ job' = [Idle EXCEPT !.pc = "refresh", !.answer = owes,
                            !.atVersion = version', !.atEpoch = epoch]
      /\ version' \in Nat /\ epoch \in Nat
  BY DEF Refresh
<1> QED BY <1>1, IdleType DEF Jobs

LEMMA EndsType ==
  ASSUME EditorTypeOK, Reject \/ Throw
  PROVE  asked' \in Edit \cup {NoEdit} /\ job' = Idle /\ job' \in Jobs
BY AnswerType, IdleType DEF Reject, Throw, EditorTypeOK

LEMMA ReloadType ==
  ASSUME EditorTypeOK, NEW chosen \in BOOLEAN, Reload(chosen)
  PROVE  /\ job' \in Jobs /\ job'.pc \in {"save", "replace"} /\ job'.atVersion = version
         /\ job'.chosen = chosen /\ job'.disk = job.disk
<1>1. version \in Nat /\ job.disk \in Text
  BY DEF EditorTypeOK, Jobs
<1>2. PICK pc \in {"save", "replace"} :
        job' = [Idle EXCEPT !.pc = pc, !.disk = job.disk, !.chosen = chosen, !.atVersion = version]
  BY DEF Reload
<1> QED BY <1>1, <1>2, IdleType DEF Jobs

LEMMA ConfirmedType ==
  ASSUME EditorTypeOK, NEW b, Confirmed(b)
  PROVE  /\ job' \in Jobs /\ base' = b
         /\ \/ job' = Idle
            \/ /\ job'.pc = "handle" /\ job'.snap = text /\ job'.disk = job.disk
               /\ job'.version = job.version /\ version = job.version
               /\ job'.edit = job.edit
<1>1. job \in Jobs /\ text \in Text
  BY DEF EditorTypeOK
<1> QED BY <1>1, IdleType DEF Confirmed, OperationCurrent, Jobs

LEMMA BeginType ==
  ASSUME EditorTypeOK, queue # <<>>, NEW pc \in {"state", "read"}, Begin(pc)
  PROVE  /\ job' \in Jobs /\ job'.pc = pc /\ job'.epoch = epoch /\ job'.token = First.token
         /\ job'.born = First.born /\ job'.atVersion = version /\ job'.edit = First.edit
<1>1. First \in Messages /\ epoch \in Nat /\ version \in Nat
  BY FirstType DEF EditorTypeOK
<1> QED BY <1>1, IdleType DEF Begin, Jobs, Messages

LEMMA TakeTypes ==
  ASSUME EditorTypeOK, Take PROVE EditorTypeOK'
<1>0. queue # <<>> /\ Takes
  BY DEF Take, Drop, TakeProposal, TakeEcho, TakeOperation, TakesCurrent, Takes
<1>1. queue' \in Seq([message : Messages, epoch : Nat])
  BY <1>0, FirstType DEF Takes
<1>2. CASE Drop
  BY <1>0, <1>1, <1>2
  DEF Drop, Takes, EditorTypeOK, documentVars, fileVars, epochVars, retryVars
<1>3. CASE TakeProposal
  <2>1. RequestReady(token, attempts, exhausted)
    BY <1>3 DEF TakeProposal
  <2>2. /\ pageToken' \in Nat /\ up' \in Seq(Messages) /\ attempts' \in 0..RetryLimit
        /\ retry' \in BOOLEAN /\ exhausted' \in BOOLEAN
    BY <2>1, PostType DEF EditorTypeOK
  <2> QED BY <1>0, <1>1, <1>3, <2>2
      DEF TakeProposal, Takes, EditorTypeOK, documentVars, fileVars, epochVars
<1>4. CASE TakeEcho
  <2>1. job' \in Jobs
    BY <1>0, <1>4, BeginType DEF TakeEcho
  <2> QED BY <1>0, <1>1, <1>4, <2>1
      DEF TakeEcho, Takes, EditorTypeOK, documentVars, fileVars, epochVars, retryVars
<1>5. CASE TakeOperation
  <2>1. job' \in Jobs /\ asked' \in Edit \cup {NoEdit}
    <3>1. CASE /\ job' = [Idle EXCEPT !.pc = "refresh", !.answer = TRUE,
                                     !.atVersion = version, !.atEpoch = epoch]
               /\ UNCHANGED asked
      <4>1. version \in Nat /\ epoch \in Nat /\ asked' \in Edit \cup {NoEdit}
        BY <3>1 DEF EditorTypeOK
      <4> QED BY <3>1, <4>1, IdleType DEF Jobs
    <3>2. CASE Begin("read") /\ UNCHANGED asked
      BY <1>0, <3>2, BeginType DEF EditorTypeOK
    <3>3. CASE Answer /\ UNCHANGED job
      BY <3>3, AnswerType DEF EditorTypeOK
    <3> QED BY <1>5, <3>1, <3>2, <3>3 DEF TakeOperation
  <2> QED BY <1>0, <1>1, <1>5, <2>1
      DEF TakeOperation, Takes, EditorTypeOK, documentVars, fileVars, epochVars, retryVars
<1> QED BY <1>2, <1>3, <1>4, <1>5 DEF Take

LEMMA ContinueTypes ==
  ASSUME EditorTypeOK, EditKnown, Continue PROVE EditorTypeOK'
<1>0. /\ job \in Jobs /\ version \in Nat \ {0} /\ epoch \in Nat \ {0} /\ text \in Text
      /\ job.disk \in Text /\ job.atVersion \in Nat /\ job.atEpoch \in Nat
      /\ job.snap \in Text /\ job.edit \in Edit \cup {NoEdit} /\ job.answer \in BOOLEAN
      /\ asked \in Edit \cup {NoEdit} /\ disk \in Text
  BY DEF EditorTypeOK, Jobs
<1>1. CASE StateSent
  <2>1. shown' \in Nat
    BY <1>0, <1>1, SendType DEF StateSent
  <2>2. job' \in Jobs
    BY <1>0, <1>1, IdleType DEF StateSent, Jobs
  <2> QED BY <1>1, <2>1, <2>2
      DEF StateSent, EditorTypeOK, documentVars, fileVars, epochVars, retryVars
<1>2. CASE MarkReady
  <2>1. job' \in Jobs
    BY <1>2, IdleType DEF MarkReady
  <2>2. attempts' \in 0..RetryLimit
    BY <1>2, EditorAssumption DEF MarkReady, retryVars, EditorTypeOK
  <2> QED BY <1>2, <2>1, <2>2
      DEF MarkReady, EditorTypeOK, documentVars, fileVars, retryVars, pageVars
<1>3. CASE ReadDisk
  <2>1. job' \in Jobs /\ asked' \in Edit \cup {NoEdit}
    BY <1>0, <1>3, EndsType DEF ReadDisk, Jobs
  <2> QED BY <1>3, <2>1
      DEF ReadDisk, Unmoved, EditorTypeOK, documentVars, fileVars, epochVars, retryVars
<1>4. CASE Compare
  <2>1. job' \in Jobs /\ base' \in Text
    <3>1. CASE Confirmed(base) \/ Confirmed(job.disk)
      BY <1>0, <3>1, ConfirmedType DEF EditorTypeOK
    <3>2. CASE Reload(FALSE) /\ UNCHANGED base
      BY <3>2, ReloadType DEF EditorTypeOK
    <3>3. CASE job' = [job EXCEPT !.pc = "prompt"] /\ UNCHANGED base
      BY <1>0, <3>3 DEF Jobs, EditorTypeOK
    <3> QED BY <1>4, <3>1, <3>2, <3>3 DEF Compare
  <2> QED BY <1>4, <2>1 DEF Compare, Unmoved, EditorTypeOK, documentVars, fileVars, epochVars, retryVars
<1>5. CASE Overwrite
  <2>1. job' \in Jobs /\ base' \in Text
    BY <1>0, <1>5, ConfirmedType DEF Overwrite
  <2>2. seen' \in Text
    BY <1>0, <1>5 DEF Overwrite, Text, EditorTypeOK
  <2> QED BY <1>5, <2>1, <2>2
      DEF Overwrite, Unmoved, EditorTypeOK, fileVars, epochVars, retryVars
<1>6. CASE Discard
  <2>1. job' \in Jobs
    BY <1>6, ReloadType DEF Discard
  <2> QED BY <1>6, <2>1 DEF Discard, Unmoved, EditorTypeOK, documentVars, fileVars, epochVars, retryVars
<1>7. CASE Cancel
  <2>1. job' \in Jobs /\ asked' \in Edit \cup {NoEdit}
    BY <1>7, EndsType DEF Cancel
  <2> QED BY <1>7, <2>1 DEF Cancel, Unmoved, EditorTypeOK, documentVars, fileVars, epochVars, retryVars
<1>8. CASE Replace
  <2>1. CASE Reject /\ UNCHANGED <<documentVars, states>>
    BY <1>8, <2>1, EndsType
    DEF Replace, Unmoved, EditorTypeOK, documentVars, fileVars, epochVars, retryVars
  <2>2. CASE Changed(job.disk) /\ dirty' = TRUE /\ job' = [job EXCEPT !.pc = "save"] /\ UNCHANGED asked
    <3>1. /\ text' \in Text /\ seen' \in Text /\ version' \in Nat \ {0}
          /\ states' \subseteq [version : Nat, epoch : Nat]
      BY <1>0, <2>2, ChangedType
    <3>2. job' \in Jobs
      BY <1>0, <2>2 DEF Jobs
    <3> QED BY <1>8, <2>2, <3>1, <3>2 DEF Replace, Unmoved, EditorTypeOK, fileVars, epochVars, retryVars
  <2> QED BY <1>8, <2>1, <2>2 DEF Replace
<1>9. ASSUME EndReload, UNCHANGED <<version, epoch>>
      PROVE  job' \in Jobs /\ base' \in Text /\ asked' \in Edit \cup {NoEdit}
  <2>1. Refresh(TRUE) => job' \in Jobs
    BY <1>0, <1>9, RefreshType
  <2> QED BY <1>0, <1>9, <2>1, EndsType DEF EndReload, EditorTypeOK
<1>10. CASE SaveReloaded
  <2>0. UNCHANGED <<version, epoch>>
    BY <1>10 DEF SaveReloaded, Unmoved, epochVars
  <2>1. /\ job' \in Jobs /\ base' \in Text /\ asked' \in Edit \cup {NoEdit}
    <3>1. CASE job' = [job EXCEPT !.pc = "saved"] /\ UNCHANGED <<base, asked>>
      BY <1>0, <3>1 DEF Jobs, EditorTypeOK
    <3>2. CASE Reject /\ UNCHANGED base
      BY <3>2, EndsType DEF EditorTypeOK
    <3> QED BY <1>9, <1>10, <2>0, <3>1, <3>2 DEF SaveReloaded
  <2>2. disk' \in Text /\ dirty' \in BOOLEAN /\ didSave' \in BOOLEAN
    BY <1>10 DEF SaveReloaded, Written, EditorTypeOK, fileVars
  <2> QED BY <1>10, <2>1, <2>2 DEF SaveReloaded, Unmoved, EditorTypeOK, epochVars, retryVars
<1>11. CASE Reloaded
  <2>1. UNCHANGED <<version, epoch>>
    BY <1>11 DEF Reloaded, Unmoved, epochVars, documentVars
  <2> QED BY <1>9, <1>11, <2>1
      DEF Reloaded, Unmoved, EditorTypeOK, documentVars, fileVars, epochVars, retryVars
<1>12. CASE Handle
  <2>1. job' \in Jobs /\ asked' \in Edit \cup {NoEdit}
    <3>1. CASE Reject \/ Throw
      BY <3>1, EndsType
    <3>2. CASE Answer /\ Refresh(FALSE)
      <4>1. version' \in Nat
        BY <1>0, <1>12 DEF Handle, documentVars
      <4> QED BY <1>0, <3>2, <4>1, AnswerType, RefreshType
    <3>3. CASE job' = [job EXCEPT !.pc = "apply", !.atVersion = version] /\ UNCHANGED asked
      BY <1>0, <3>3 DEF Jobs
    <3> QED BY <1>12, <3>1, <3>2, <3>3 DEF Handle
  <2> QED BY <1>12, <2>1
      DEF Handle, Unmoved, EditorTypeOK, documentVars, fileVars, epochVars, retryVars
<1>13. CASE Apply
  <2>1. CASE Throw /\ UNCHANGED <<documentVars, states>>
    BY <1>13, <2>1, EndsType
    DEF Apply, Unmoved, EditorTypeOK, documentVars, fileVars, epochVars, retryVars
  <2>2. CASE /\ Changed(job.snap \cup {job.edit}) /\ dirty' = TRUE
             /\ job' = [Idle EXCEPT !.pc = "applied"] /\ UNCHANGED asked
    <3>1. job.snap \cup {job.edit} \in Text
      BY <1>0, <1>13 DEF Apply, EditKnown, Text
    <3>2. /\ text' \in Text /\ seen' \in Text /\ version' \in Nat \ {0}
          /\ states' \subseteq [version : Nat, epoch : Nat]
      BY <2>2, <3>1, ChangedType
    <3>3. job' \in Jobs
      BY <2>2, IdleType DEF Jobs
    <3> QED BY <1>13, <2>2, <3>2, <3>3 DEF Apply, Unmoved, EditorTypeOK, fileVars, epochVars, retryVars
  <2> QED BY <1>13, <2>1, <2>2 DEF Apply
<1>14. CASE Complete
  <2>1. version' \in Nat
    BY <1>0, <1>14 DEF Complete, documentVars
  <2>2. job' \in Jobs /\ asked' \in Edit \cup {NoEdit}
    BY <1>0, <1>14, <2>1, AnswerType, RefreshType DEF Complete
  <2> QED BY <1>14, <2>2
      DEF Complete, Unmoved, EditorTypeOK, documentVars, fileVars, epochVars, retryVars
<1>15. CASE Refreshed
  <2>1. shown' \in Nat
    BY <1>0, <1>15, SendType DEF Refreshed
  <2>2. asked' \in Edit \cup {NoEdit}
    BY <1>0, <1>15, AnswerType DEF Refreshed
  <2> QED BY <1>15, <2>1, <2>2, IdleType
      DEF Refreshed, Unmoved, EditorTypeOK, documentVars, fileVars, epochVars, retryVars
<1> QED BY <1>1, <1>2, <1>3, <1>4, <1>5, <1>6, <1>7, <1>8, <1>10, <1>11, <1>12, <1>13, <1>14, <1>15
    DEF Continue, Confirm

(* What surrounds the handler does not touch its job.                      *)
LEMMA JobKept ==
  ASSUME Panel \/ Page \/ Receive \/ Others \/ OnDidSave \/ StateArrives \/ Drop \/ TakeProposal
  PROVE  job' = job
BY DEF Panel, Hide, ShowPanel, Retry, Dispose, Page, PageLoads, PageGoes, PageAsks, Receive,
  Others, Type, WriteFile, FollowFile, Save, OnDidSave, Around, StateArrives, Drop, TakeProposal

LEMMA EditKnownKept ==
  ASSUME EditorTypeOK, EditKnown, [EditorNext]_vars PROVE EditKnown'
<1>0. job \in Jobs
  BY DEF EditorTypeOK
<1>1. CASE job' = job
  BY <1>1 DEF EditKnown
<1>2. CASE Panel \/ Page \/ Receive \/ Others \/ OnDidSave \/ StateArrives \/ Drop \/ TakeProposal
  BY <1>1, <1>2, JobKept
<1>3. CASE job'.pc \in {"idle", "state", "mark", "save", "replace", "saved", "applied", "refresh"}
  BY <1>3 DEF EditKnown
<1>4. CASE TakeEcho \/ TakeOperation
  <2>1. queue # <<>>
    BY <1>4 DEF TakeEcho, TakeOperation, TakesCurrent, Takes
  <2>2. CASE Begin("state")
    BY <1>3, <2>1, <2>2, BeginType
  <2>3. CASE Operation /\ Begin("read")
    <3>1. job'.edit = First.edit /\ First.edit \in Edit \cup {NoEdit}
      BY <2>1, <2>3, BeginType, FirstType DEF Messages
    <3> QED BY <2>3, <3>1 DEF EditKnown, Operation
  <2>4. CASE job' = [Idle EXCEPT !.pc = "refresh", !.answer = TRUE,
                               !.atVersion = version, !.atEpoch = epoch]
    BY <1>3, <2>4, IdleType DEF Jobs
  <2> QED BY <1>1, <1>4, <2>2, <2>3, <2>4 DEF TakeEcho, TakeOperation
<1>5. CASE Continue
  <2>1. CASE job' = Idle \/ Reject \/ Throw
    BY <1>3, <2>1, IdleType DEF Reject, Throw
  <2>2. ASSUME NEW chosen \in BOOLEAN, Reload(chosen) PROVE EditKnown'
    BY <1>3, <2>2, ReloadType
  <2>3. ASSUME NEW b, Confirmed(b), job.pc \in {"compare", "prompt"} PROVE EditKnown'
    BY <1>3, <2>3, ConfirmedType, IdleType DEF EditKnown
  <2>4. ASSUME NEW owes \in BOOLEAN, Refresh(owes) PROVE EditKnown'
    BY <1>3, <2>4, IdleType DEF Refresh, Jobs
  <2>5. CASE StateSent \/ MarkReady \/ Refreshed
    BY <1>0, <1>3, <2>1, <2>5 DEF StateSent, MarkReady, Refreshed, Jobs
  <2>6. CASE ReadDisk
    BY <1>0, <2>1, <2>6 DEF ReadDisk, EditKnown, Jobs
  <2>7. CASE Compare
    BY <1>0, <2>2, <2>3, <2>7 DEF Compare, EditKnown, Jobs
  <2>8. CASE Overwrite \/ Discard \/ Cancel
    BY <2>1, <2>2, <2>3, <2>8 DEF Overwrite, Discard, Cancel
  <2>9. CASE Replace \/ SaveReloaded \/ Reloaded
    BY <1>0, <1>3, <2>1, <2>4, <2>9 DEF Replace, SaveReloaded, Reloaded, EndReload, Jobs
  <2>10. CASE Handle
    BY <1>0, <2>1, <2>4, <2>10 DEF Handle, EditKnown, Jobs
  <2>11. CASE Apply \/ Complete
    BY <1>3, <2>1, <2>4, <2>11, IdleType DEF Apply, Complete, Jobs
  <2> QED BY <1>5, <2>5, <2>6, <2>7, <2>8, <2>9, <2>10, <2>11 DEF Continue, Confirm
<1> QED BY <1>1, <1>2, <1>4, <1>5 DEF EditorNext, Take, vars

TypeInv == EditorTypeOK /\ EditKnown

LEMMA TypeInvInitial == ASSUME EditorInit PROVE TypeInv
<1>1. DocumentTypes
  BY DEF EditorInit, DocumentTypes, Text
<1>2. FlagTypes
  BY DEF EditorInit, FlagTypes
<1>3. PageTypes
  BY EditorAssumption DEF EditorInit, PageTypes
<1>4. MessageTypes /\ job \in Jobs /\ EditKnown
  BY IdleType DEF EditorInit, MessageTypes, EditKnown
<1> QED BY <1>1, <1>2, <1>3, <1>4
    DEF TypeInv, EditorTypeOK, DocumentTypes, PageTypes, FlagTypes, MessageTypes

LEMMA TypeInvInductive ==
  ASSUME TypeInv, [EditorNext]_vars PROVE TypeInv'
<1>1. CASE UNCHANGED vars
  BY <1>1 DEF TypeInv, EditorTypeOK, EditKnown, vars, documentVars, fileVars, epochVars,
    retryVars, pageVars
<1>2. CASE EditorNext
  BY <1>2, PanelTypes, OthersTypes, TakeTypes, ContinueTypes, EditKnownKept DEF EditorNext, TypeInv
<1> QED BY <1>1, <1>2

(* The variables have their types, for any edits, epochs and limits; what   *)
(* applyText writes is made of edits.                                       *)
THEOREM EditorTypeCorrect == EditorSpec => []EditorTypeOK
<1>1. EditorSpec => []TypeInv
  BY TypeInvInitial, TypeInvInductive, PTL DEF EditorSpec, EditorSafety
<1>2. TypeInv => EditorTypeOK
  BY DEF TypeInv
<1> QED BY <1>1, <1>2, PTL

---------------------------------------------------------------------------
(* What surrounds the handler and leaves the document alone.               *)
LEMMA DocumentKept ==
  ASSUME \/ Panel \/ Page \/ Receive \/ OnDidSave \/ StateArrives \/ Take
         \/ \E e \in FileEdit : WriteFile(e)
  PROVE  UNCHANGED documentVars
BY DEF Panel, Hide, ShowPanel, Retry, Dispose, Page, PageLoads, PageGoes, PageAsks, Receive,
  WriteFile, OnDidSave, Around, StateArrives, Take, Drop, TakeProposal, TakeEcho, TakeOperation,
  TakesCurrent, Takes, documentVars

(* What Take leaves in hand is not about to write.                         *)
LEMMA TakeBegins ==
  ASSUME TypeInv, Take
  PROVE  \/ job' = job
         \/ /\ TakeEcho \/ TakeOperation
            /\ job'.pc \in {"state", "read"} /\ Begin(job'.pc) /\ queue # <<>>
            /\ job'.pc = "state" => TakeEcho
         \/ job'.pc = "refresh" /\ job'.atVersion = version
<1>1. CASE Drop \/ TakeProposal
  BY <1>1, JobKept
<1>2. CASE TakeEcho
  BY <1>2, BeginType DEF TakeEcho, TakesCurrent, Takes, TypeInv
<1>3. CASE TakeOperation
  <2>1. CASE job' = [Idle EXCEPT !.pc = "refresh", !.answer = TRUE,
                               !.atVersion = version, !.atEpoch = epoch]
    BY <2>1, IdleType DEF Jobs
  <2>2. CASE Begin("read")
    BY <1>3, <2>2, BeginType DEF TakeOperation, TakesCurrent, Takes, TypeInv
  <2> QED BY <1>3, <2>1, <2>2 DEF TakeOperation
<1> QED BY <1>1, <1>2, <1>3 DEF Take

LEMMA WriteInvInductive ==
  ASSUME TypeInv, WriteInv, [EditorNext]_vars PROVE WriteInv'
<1>0. /\ job \in Jobs /\ version \in Nat /\ job.version \in Nat /\ job.atVersion \in Nat
  BY DEF TypeInv, EditorTypeOK, Jobs
<1>1. CASE job' = job /\ UNCHANGED documentVars
  BY <1>1 DEF WriteInv, documentVars
<1>2. CASE job'.pc \notin {"handle", "apply", "replace"}
  BY <1>2 DEF WriteInv
<1>3. CASE Panel \/ Page \/ Receive \/ OnDidSave \/ StateArrives
  BY <1>1, <1>3, JobKept, DocumentKept
<1>4. CASE Others
  <2>1. job' = job
    BY <1>4, JobKept
  <2>2. ASSUME NEW e, Type(e) PROVE WriteInv'
    BY <1>0, <2>1, <2>2 DEF Type, Changed, WriteInv
  <2>3. CASE FollowFile
    BY <1>0, <2>1, <2>3 DEF FollowFile, Changed, WriteInv
  <2>4. CASE Save
    BY <2>1, <2>4 DEF Save, Written, WriteInv
  <2> QED BY <1>1, <1>4, <2>1, <2>2, <2>3, <2>4, DocumentKept DEF Others
<1>5. CASE Take
  BY <1>1, <1>2, <1>5, TakeBegins, DocumentKept
<1>6. CASE Continue
  <2>1. CASE job' = Idle \/ Reject \/ Throw
    BY <1>2, <2>1, IdleType DEF Reject, Throw
  <2>2. ASSUME NEW chosen \in BOOLEAN, Reload(chosen), UNCHANGED documentVars, chosen \/ ~dirty
        PROVE  WriteInv'
    <3>1. /\ job'.pc \in {"save", "replace"} /\ job'.atVersion = version /\ job'.chosen = chosen
      BY <2>2, ReloadType DEF TypeInv
    <3> QED BY <1>0, <2>2, <3>1 DEF WriteInv, documentVars
  <2>3. ASSUME NEW b, Confirmed(b), UNCHANGED <<text, version, dirty>> PROVE WriteInv'
    BY <1>0, <2>3, ConfirmedType, IdleType DEF TypeInv, WriteInv
  <2>4. ASSUME NEW owes \in BOOLEAN, Refresh(owes) PROVE WriteInv'
    BY <1>2, <2>4, IdleType DEF Refresh, Jobs
  <2>5. CASE StateSent \/ MarkReady \/ Refreshed
    BY <1>0, <1>2, <2>1, <2>5 DEF StateSent, MarkReady, Refreshed, Jobs
  <2>6. CASE ReadDisk
    BY <1>0, <1>2, <2>1, <2>6 DEF ReadDisk, Jobs
  <2>7. CASE Compare
    <3>1. UNCHANGED documentVars
      BY <2>7 DEF Compare
    <3>2. CASE job' = [job EXCEPT !.pc = "prompt"]
      BY <1>0, <1>2, <3>2 DEF Jobs
    <3> QED BY <2>2, <2>3, <2>7, <3>1, <3>2 DEF Compare, documentVars
  <2>8. CASE Overwrite \/ Discard \/ Cancel
    BY <2>1, <2>2, <2>3, <2>8 DEF Overwrite, Discard, Cancel
  <2>9. CASE Replace \/ SaveReloaded \/ Reloaded
    BY <1>0, <1>2, <2>1, <2>4, <2>9 DEF Replace, SaveReloaded, Reloaded, EndReload, Jobs
  <2>10. CASE Handle
    <3>1. CASE /\ version = job.version /\ UNCHANGED documentVars
               /\ job' = [job EXCEPT !.pc = "apply", !.atVersion = version] /\ job.pc = "handle"
      <4>1. job'.pc = "apply" /\ job'.atVersion = version /\ job'.snap = job.snap
        BY <1>0, <3>1 DEF Jobs
      <4> QED BY <1>0, <3>1, <4>1 DEF WriteInv, documentVars
    <3> QED BY <2>1, <2>4, <2>10, <3>1 DEF Handle
  <2>11. CASE Apply \/ Complete
    BY <1>2, <2>1, <2>4, <2>11, IdleType DEF Apply, Complete, Jobs
  <2> QED BY <1>6, <2>5, <2>6, <2>7, <2>8, <2>9, <2>10, <2>11 DEF Continue, Confirm
<1>7. CASE UNCHANGED vars
  BY <1>1, <1>7 DEF vars
<1> QED BY <1>3, <1>4, <1>5, <1>6, <1>7 DEF EditorNext

LEMMA NothingLost ==
  ASSUME TypeInv, WriteInv, [EditorNext]_vars
  PROVE  \/ text \subseteq text'
         \/ text' \in {disk, job.disk} /\ (~dirty \/ job.chosen)
<1>1. CASE UNCHANGED text
  BY <1>1
<1>2. CASE Panel \/ Page \/ Receive \/ OnDidSave \/ StateArrives \/ Take
  BY <1>1, <1>2, DocumentKept DEF documentVars
<1>3. CASE Others
  BY <1>1, <1>3 DEF Others, Type, WriteFile, FollowFile, Save, Changed, documentVars
<1>4. CASE Replace
  BY <1>1, <1>4 DEF Replace, Changed, WriteInv, documentVars
<1>5. CASE Apply
  BY <1>1, <1>5 DEF Apply, Changed, WriteInv, documentVars
<1>6. CASE Continue
  BY <1>1, <1>4, <1>5, <1>6
  DEF Continue, StateSent, MarkReady, Confirm, ReadDisk, Compare, Overwrite, Discard, Cancel,
      SaveReloaded, Reloaded, Handle, Complete, Refreshed, documentVars
<1> QED BY <1>1, <1>2, <1>3, <1>6 DEF EditorNext, vars, documentVars

(* Whatever the session writes holds every edit that was there, unless a    *)
(* file that changed outside replaces a document without unsaved edits, or  *)
(* with edits the user gave up.                                             *)
THEOREM NoLostUpdateCorrect == EditorSpec => NoLostUpdate
<1>1. EditorInit => WriteInv
  BY IdleType DEF EditorInit, WriteInv
<1>2. TypeInv /\ WriteInv /\ [EditorNext]_vars => WriteInv'
  BY WriteInvInductive
<1>3. TypeInv /\ WriteInv /\ [EditorNext]_vars =>
        [\/ text \subseteq text'
         \/ text' \in {disk, job.disk} /\ (~dirty \/ job.chosen)]_vars
  BY NothingLost
<1>4. EditorSpec => []TypeInv /\ EditorInit /\ [][EditorNext]_vars
  BY TypeInvInitial, TypeInvInductive, PTL DEF EditorSpec, EditorSafety
<1> QED BY <1>1, <1>2, <1>3, <1>4, PTL DEF NoLostUpdate

---------------------------------------------------------------------------
LEMMA SeenInvInductive ==
  ASSUME TypeInv, SeenInv, [EditorNext]_vars PROVE SeenInv'
<1>0. job \in Jobs
  BY DEF TypeInv, EditorTypeOK
<1>1. CASE job' = job /\ seen \subseteq seen' /\ base' \subseteq seen' /\ text' \subseteq seen'
  BY <1>1 DEF SeenInv, ExternalSeen
<1>2. CASE /\ job'.pc \notin {"handle", "apply"}
           /\ base' \subseteq seen' /\ text' \subseteq seen'
  BY <1>2 DEF SeenInv, ExternalSeen
<1>3. CASE Panel \/ Page \/ Receive \/ StateArrives
  <2>1. UNCHANGED base
    BY <1>3 DEF Panel, Hide, ShowPanel, Retry, Dispose, Page, PageLoads, PageGoes, PageAsks,
      Receive, StateArrives
  <2> QED BY <1>1, <1>3, <2>1, JobKept, DocumentKept DEF SeenInv, documentVars
<1>4. CASE Others \/ OnDidSave
  <2>1. job' = job
    BY <1>4, JobKept
  <2>2. CASE OnDidSave
    BY <1>1, <2>1, <2>2 DEF OnDidSave, SeenInv, documentVars
  <2>3. CASE Others
    BY <1>1, <2>1, <2>3
    DEF Others, Type, WriteFile, FollowFile, Save, Changed, SeenInv, documentVars
  <2> QED BY <1>4, <2>2, <2>3
<1>5. CASE Take
  <2>1. UNCHANGED base
    BY <1>5 DEF Take, Drop, TakeProposal, TakeEcho, TakeOperation, TakesCurrent, Takes
  <2> QED BY <1>1, <1>2, <1>5, <2>1, TakeBegins, DocumentKept DEF SeenInv, documentVars
<1>6. CASE Continue
  <2>0. CASE /\ base' \subseteq seen' /\ text' \subseteq seen'
             /\ job' = Idle \/ Reject \/ Throw
    BY <1>2, <2>0, IdleType DEF Reject, Throw
  <2>1. base \subseteq seen /\ text \subseteq seen
    BY DEF SeenInv
  <2>2. ASSUME NEW chosen \in BOOLEAN, Reload(chosen), UNCHANGED <<documentVars, base>>
        PROVE  SeenInv'
    BY <1>2, <2>1, <2>2, ReloadType DEF TypeInv, documentVars
  <2>3. ASSUME NEW b, Confirmed(b), UNCHANGED text, seen \subseteq seen',
               b \subseteq seen', job.disk \subseteq seen'
        PROVE  SeenInv'
    BY <2>1, <2>3, ConfirmedType, IdleType DEF TypeInv, SeenInv, ExternalSeen
  <2>4. ASSUME NEW owes \in BOOLEAN, Refresh(owes), base' \subseteq seen', text' \subseteq seen'
        PROVE  SeenInv'
    BY <1>2, <2>4, IdleType DEF Refresh, Jobs
  <2>5. CASE StateSent \/ MarkReady \/ Refreshed
    <3>1. UNCHANGED <<documentVars, base>>
      BY <2>5 DEF StateSent, MarkReady, Refreshed
    <3>2. job' = Idle \/ job' = [job EXCEPT !.pc = "mark"]
      BY <2>5 DEF StateSent, MarkReady, Refreshed
    <3> QED BY <1>0, <1>2, <2>0, <2>1, <3>1, <3>2 DEF Jobs, documentVars
  <2>6. CASE ReadDisk
    <3>1. UNCHANGED <<documentVars, base>>
      BY <2>6 DEF ReadDisk
    <3>2. job' = [job EXCEPT !.pc = "compare", !.disk = disk] \/ Throw
      BY <2>6 DEF ReadDisk
    <3> QED BY <1>0, <1>2, <2>0, <2>1, <3>1, <3>2 DEF Jobs, documentVars
  <2>7. CASE Compare
    <3>1. UNCHANGED documentVars
      BY <2>7 DEF Compare
    <3>2. CASE job' = [job EXCEPT !.pc = "prompt"] /\ UNCHANGED base
      BY <1>0, <1>2, <2>1, <3>1, <3>2 DEF Jobs, documentVars
    <3> QED BY <2>1, <2>2, <2>3, <2>7, <3>1, <3>2 DEF Compare, documentVars
  <2>8. CASE Overwrite
    BY <2>1, <2>3, <2>8 DEF Overwrite
  <2>9. CASE Discard \/ Cancel
    BY <2>0, <2>1, <2>2, <2>9 DEF Discard, Cancel, documentVars
  <2>10. CASE Replace
    <3>1. base' = base /\ base' \subseteq seen' /\ text' \subseteq seen'
      BY <2>1, <2>10 DEF Replace, Changed, documentVars
    <3>2. Reject \/ job' = [job EXCEPT !.pc = "save"]
      BY <2>10 DEF Replace
    <3> QED BY <1>0, <1>2, <2>0, <3>1, <3>2 DEF Jobs
  <2>11. CASE SaveReloaded \/ Reloaded
    <3>1. UNCHANGED <<text, seen>>
      BY <2>11 DEF SaveReloaded, Reloaded, documentVars
    <3>2. CASE EndReload
      BY <2>0, <2>1, <2>4, <3>1, <3>2 DEF EndReload
    <3>3. CASE (Reject \/ job' = [job EXCEPT !.pc = "saved"]) /\ UNCHANGED base
      BY <1>0, <1>2, <2>0, <2>1, <3>1, <3>3 DEF Jobs
    <3> QED BY <2>11, <3>2, <3>3 DEF SaveReloaded, Reloaded
  <2>12. CASE Handle
    <3>1. UNCHANGED <<documentVars, base>> /\ job.pc = "handle"
      BY <2>12 DEF Handle
    <3>2. CASE job' = [job EXCEPT !.pc = "apply", !.atVersion = version]
      BY <1>0, <2>1, <3>1, <3>2 DEF SeenInv, ExternalSeen, Jobs, documentVars
    <3> QED BY <2>0, <2>1, <2>4, <2>12, <3>1, <3>2 DEF Handle, documentVars
  <2>13. CASE Apply
    <3>1. base' = base /\ base' \subseteq seen' /\ text' \subseteq seen'
      BY <2>1, <2>13 DEF Apply, Changed, documentVars
    <3>2. Throw \/ job' = [Idle EXCEPT !.pc = "applied"]
      BY <2>13 DEF Apply
    <3> QED BY <1>2, <2>0, <3>1, <3>2, IdleType DEF Jobs
  <2>14. CASE Complete
    BY <2>1, <2>4, <2>14 DEF Complete, documentVars
  <2> QED BY <1>6, <2>5, <2>6, <2>7, <2>8, <2>9, <2>10, <2>11, <2>12, <2>13, <2>14
      DEF Continue, Confirm
<1>7. CASE UNCHANGED vars
  BY <1>1, <1>7 DEF vars, SeenInv, documentVars
<1> QED BY <1>3, <1>4, <1>5, <1>6, <1>7 DEF EditorNext

(* An operation goes ahead only on a file whose content was in the document *)
(* or was given up by the user.                                             *)
THEOREM ExternalSeenCorrect == EditorSpec => []ExternalSeen
<1>1. EditorInit => SeenInv
  BY IdleType DEF EditorInit, SeenInv, ExternalSeen
<1>2. TypeInv /\ SeenInv /\ [EditorNext]_vars => SeenInv'
  BY SeenInvInductive
<1>3. SeenInv => ExternalSeen
  BY DEF SeenInv
<1>4. EditorSpec => []TypeInv /\ EditorInit /\ [][EditorNext]_vars
  BY TypeInvInitial, TypeInvInductive, PTL DEF EditorSpec, EditorSafety
<1> QED BY <1>1, <1>2, <1>3, <1>4, PTL

---------------------------------------------------------------------------
(* While epoch and page stay and what is shown is not taken back, messages  *)
(* and job in hand remain what they are.                                    *)
LEMMA PageInvKept ==
  ASSUME PageInv, UNCHANGED <<epoch, token, visible, disposed, page, pageToken, up, queue>>,
         shown # 0 => shown' # 0, ready' => ready,
         \/ job' = job
         \/ /\ job'.pc \notin {"state", "read", "mark"}
            /\ job'.pc = "refresh" => job'.atVersion # 0,
         \A s \in states' : s.version # 0
  PROVE  PageInv'
<1>1. EpochInv'
  BY DEF PageInv, EpochInv
<1>2. MailInv'
  BY DEF PageInv, MailInv, FromPage
<1>3. JobInv'
  BY DEF PageInv, JobInv
<1> QED BY <1>1, <1>2, <1>3 DEF PageInv

(* A new epoch: whatever is under way has the token of an earlier one.      *)
LEMMA NewEpoch ==
  ASSUME TypeInv, PageInv, epoch' = epoch + 1
  PROVE  /\ \A k \in DOMAIN up : /\ up[k].token <= up[k].born /\ up[k].born <= epoch'
                                /\ up[k].token # epoch'
         /\ \A k \in DOMAIN queue :
              /\ queue[k].message.token <= queue[k].message.born
              /\ queue[k].message.born <= epoch' /\ queue[k].message.token # epoch'
         /\ job.pc \in {"state", "mark"} =>
              job.token <= job.epoch /\ job.epoch <= epoch' /\ job.token # epoch'
<1>1. epoch \in Nat /\ job.token \in Nat /\ job.epoch \in Nat
  BY DEF TypeInv, EditorTypeOK, Jobs
<1>2. ASSUME NEW m \in Messages, FromPage(m)
      PROVE  m.token <= m.born /\ m.born <= epoch' /\ m.token # epoch'
  BY <1>1, <1>2 DEF FromPage, Messages
<1>3. /\ \A k \in DOMAIN up : up[k] \in Messages
      /\ \A k \in DOMAIN queue : queue[k].message \in Messages
  <2>1. ASSUME NEW S, NEW q \in Seq(S) PROVE \A k \in DOMAIN q : q[k] \in S
    OBVIOUS
  <2>2. up \in Seq(Messages) /\ queue \in Seq([message : Messages, epoch : Nat])
    BY DEF TypeInv, EditorTypeOK
  <2>3. \A k \in DOMAIN up : up[k] \in Messages
    BY <2>1, <2>2
  <2>4. \A k \in DOMAIN queue : queue[k] \in [message : Messages, epoch : Nat]
    BY <2>1, <2>2
  <2> QED BY <2>3, <2>4
<1>4. /\ \A k \in DOMAIN up : FromPage(up[k])
      /\ \A k \in DOMAIN queue : FromPage(queue[k].message)
  BY DEF PageInv, MailInv
<1>5. job.pc \in {"state", "mark"} =>
        job.token <= job.epoch /\ job.epoch <= epoch' /\ job.token # epoch'
  BY <1>1 DEF PageInv, JobInv
<1> QED BY <1>2, <1>3, <1>4, <1>5

LEMMA AppendFacts ==
  ASSUME NEW S, NEW q \in Seq(S), NEW m \in S
  PROVE  \A k \in DOMAIN Append(q, m) :
           (k \in DOMAIN q /\ Append(q, m)[k] = q[k]) \/ Append(q, m)[k] = m
BY AppendProperties

(* The page echoes the token of the current epoch.                          *)
LEMMA EchoSent ==
  ASSUME TypeInv, NEW t \in Nat, NEW n, NEW was, RequestReady(t, n, was)
  PROVE  \A k \in DOMAIN up' :
           \/ k \in DOMAIN up /\ up'[k] = up[k]
           \/ page /\ up'[k].token = t /\ up'[k].born = t
<1>1. /\ Message(t, 0, NoEdit, t) \in Messages
      /\ Message(t, 0, NoEdit, t).token = t /\ Message(t, 0, NoEdit, t).born = t
  BY MessageType
<1>2. up \in Seq(Messages)
  BY DEF TypeInv, EditorTypeOK
<1>3. page => up' = Append(up, Message(t, 0, NoEdit, t))
  BY DEF RequestReady
<1>4. ~page => up' = up
  BY DEF RequestReady
<1> QED BY <1>1, <1>2, <1>3, <1>4, AppendFacts

(* requestReady in the current epoch.                                       *)
LEMMA RequestPage ==
  ASSUME TypeInv, PageInv, visible, RequestReady(token, attempts, exhausted),
         UNCHANGED <<epoch, token, visible, disposed, ready, page, shown, job, states>>,
         \A k \in DOMAIN queue' : \E l \in DOMAIN queue : queue'[k] = queue[l]
  PROVE  PageInv'
<1>0. epoch \in Nat \ {0} /\ token \in Nat /\ pageToken \in Nat
  BY DEF TypeInv, EditorTypeOK
<1>1. page => token = epoch
  BY DEF PageInv, EpochInv
<1>2. pageToken' = IF page THEN token ELSE pageToken
  BY DEF RequestReady
<1>3. EpochInv'
  BY <1>0, <1>1, <1>2 DEF PageInv, EpochInv
<1>4. \A k \in DOMAIN up' :
        \/ k \in DOMAIN up /\ up'[k] = up[k]
        \/ page /\ up'[k].token = token /\ up'[k].born = token
  BY <1>0, EchoSent
<1>5. ASSUME NEW m, FromPage(m)
      PROVE  /\ m.token <= m.born /\ m.born <= epoch'
             /\ m.token = epoch' => visible' /\ page' /\ pageToken' = epoch'
  BY <1>1, <1>2, <1>5 DEF FromPage
<1>6. ASSUME NEW k \in DOMAIN up' PROVE FromPage(up[k])'
  <2>1. CASE k \in DOMAIN up /\ up'[k] = up[k]
    BY <1>5, <2>1 DEF PageInv, MailInv, FromPage
  <2>2. CASE page /\ up'[k].token = token /\ up'[k].born = token
    BY <1>0, <1>1, <1>2, <2>2 DEF FromPage
  <2> QED BY <1>4, <2>1, <2>2
<1>7. ASSUME NEW k \in DOMAIN queue' PROVE FromPage(queue[k].message)'
  <2>1. PICK l \in DOMAIN queue : queue'[k] = queue[l]
    OBVIOUS
  <2>2. FromPage(queue[l].message)
    BY DEF PageInv, MailInv
  <2> QED BY <1>5, <2>1, <2>2 DEF FromPage
<1>8. MailInv'
  BY <1>6, <1>7 DEF MailInv
<1>9. JobInv'
  BY <1>1, <1>2 DEF PageInv, JobInv
<1> QED BY <1>3, <1>8, <1>9 DEF PageInv

LEMMA PanelPage ==
  ASSUME TypeInv, PageInv, Panel \/ Page \/ Receive PROVE PageInv'
<1>0. /\ epoch \in Nat \ {0} /\ pageToken \in Nat /\ job' = job
      /\ up \in Seq(Messages) /\ queue \in Seq([message : Messages, epoch : Nat])
  BY JobKept DEF TypeInv, EditorTypeOK
<1>1. CASE Hide \/ Dispose
  <2>1. /\ epoch' = epoch + 1 /\ token' = 0 /\ ~ready' /\ queue' = queue /\ states' = states
        /\ up' \in {up, <<>>} /\ (page' => page) /\ pageToken' \in {pageToken, 0}
        /\ disposed' => disposed \/ ~page'
        /\ ~visible' \/ disposed'
    BY <1>1 DEF Hide, Dispose, pageVars
  <2>2. EpochInv'
    BY <1>0, <2>1 DEF PageInv, EpochInv
  <2>3. MailInv'
    BY <2>1, NewEpoch DEF MailInv, FromPage
  <2>4. JobInv'
    BY <1>0, <2>1, NewEpoch DEF PageInv, JobInv
  <2> QED BY <2>2, <2>3, <2>4 DEF PageInv
<1>2. CASE ShowPanel
  <2>1. /\ epoch' = epoch + 1 /\ token' = epoch + 1 /\ ~ready' /\ queue' = queue
        /\ states' = states /\ visible' /\ ~disposed /\ disposed' = disposed /\ page' = page
        /\ RequestReady(epoch + 1, 0, FALSE)
    BY <1>2 DEF ShowPanel
  <2>2. pageToken' = IF page THEN epoch' ELSE pageToken
    BY <2>1 DEF RequestReady
  <2>3. EpochInv'
    BY <1>0, <2>1, <2>2 DEF PageInv, EpochInv
  <2>4. \A k \in DOMAIN up' :
           \/ k \in DOMAIN up /\ up'[k] = up[k]
           \/ page /\ up'[k].token = epoch' /\ up'[k].born = epoch'
    <3>1. epoch + 1 \in Nat
      BY <1>0
    <3> QED BY <2>1, <3>1, EchoSent
  <2>5. MailInv'
    <3>1. ASSUME NEW k \in DOMAIN up' PROVE FromPage(up[k])'
      <4>1. CASE k \in DOMAIN up /\ up'[k] = up[k]
        BY <2>1, <4>1, NewEpoch DEF FromPage
      <4>2. CASE page /\ up'[k].token = epoch' /\ up'[k].born = epoch'
        BY <1>0, <2>1, <2>2, <4>2 DEF FromPage
      <4> QED BY <2>4, <4>1, <4>2
    <3>2. \A k \in DOMAIN queue' : FromPage(queue[k].message)'
      BY <2>1, NewEpoch DEF FromPage
    <3> QED BY <3>1, <3>2 DEF MailInv
  <2>6. JobInv'
    BY <1>0, <2>1, NewEpoch DEF PageInv, JobInv
  <2> QED BY <2>3, <2>5, <2>6 DEF PageInv
<1>3. CASE Retry
  <2>1. /\ UNCHANGED <<epoch, token, visible, disposed, ready, page, shown, queue, states>>
    BY <1>3 DEF Retry, epochVars
  <2>2. CASE UNCHANGED <<pageToken, up>>
    BY <1>0, <2>1, <2>2, PageInvKept DEF PageInv, JobInv
  <2>3. CASE visible /\ RequestReady(token, attempts, exhausted)
    BY <1>0, <2>1, <2>3, RequestPage DEF PageInv
  <2> QED BY <1>3, <2>2, <2>3 DEF Retry
<1>4. CASE PageLoads
  <2>1. /\ UNCHANGED <<epoch, token, visible, disposed, ready, pageToken, shown, queue, states>>
        /\ page' /\ ~page /\ ~disposed
        /\ up' = Append(up, Message(0, 0, NoEdit, epoch))
    BY <1>4 DEF PageLoads, epochVars
  <2>2. EpochInv'
    BY <1>0, <2>1 DEF PageInv, EpochInv
  <2>3. MailInv'
    <3>1. /\ Message(0, 0, NoEdit, epoch) \in Messages
          /\ Message(0, 0, NoEdit, epoch).token = 0 /\ Message(0, 0, NoEdit, epoch).born = epoch
      <4>1. epoch \in Nat /\ 0 \in Nat /\ NoEdit \in Edit \cup {NoEdit}
        BY <1>0
      <4> QED BY <4>1, MessageType
    <3>2. \A k \in DOMAIN up' :
            (k \in DOMAIN up /\ up'[k] = up[k]) \/ (up'[k].token = 0 /\ up'[k].born = epoch)
      BY <1>0, <2>1, <3>1, AppendFacts
    <3> QED BY <1>0, <2>1, <3>2 DEF PageInv, MailInv, FromPage
  <2>4. JobInv'
    BY <1>0, <2>1 DEF PageInv, JobInv
  <2> QED BY <2>2, <2>3, <2>4 DEF PageInv
<1>5. CASE PageGoes
  <2>1. /\ UNCHANGED <<epoch, token, visible, disposed, ready, up, queue, states>>
        /\ ~visible /\ pageToken' = 0 /\ ~page'
    BY <1>5 DEF PageGoes, epochVars
  <2>2. EpochInv'
    BY <1>0, <2>1 DEF PageInv, EpochInv
  <2>3. MailInv'
    BY <2>1 DEF PageInv, MailInv, FromPage
  <2>4. JobInv'
    BY <1>0, <2>1 DEF PageInv, JobInv
  <2> QED BY <2>2, <2>3, <2>4 DEF PageInv
<1>6. ASSUME NEW e \in PageEdit, PageAsks(e) PROVE PageInv'
  <2>1. /\ UNCHANGED <<epoch, token, visible, disposed, ready, page, pageToken, shown, queue, states>>
        /\ visible /\ page
        /\ up' = Append(up, Message(pageToken, shown, e, epoch))
    BY <1>6 DEF PageAsks, epochVars
  <2>2. EpochInv'
    BY <1>0, <2>1 DEF PageInv, EpochInv
  <2>3. MailInv'
    <3>1. /\ Message(pageToken, shown, e, epoch) \in Messages
          /\ Message(pageToken, shown, e, epoch).token = pageToken
          /\ Message(pageToken, shown, e, epoch).born = epoch
      <4>1. pageToken \in Nat /\ shown \in Nat /\ epoch \in Nat
        BY <1>0 DEF TypeInv, EditorTypeOK
      <4>2. e \in Edit \cup {NoEdit}
        BY DEF Edit
      <4> QED BY <4>1, <4>2, MessageType
    <3>2. \A k \in DOMAIN up' : \/ k \in DOMAIN up /\ up'[k] = up[k]
                                \/ up'[k].token = pageToken /\ up'[k].born = epoch
      BY <1>0, <2>1, <3>1, AppendFacts
    <3>3. pageToken <= epoch
      BY DEF PageInv, EpochInv
    <3> QED BY <1>0, <2>1, <3>2, <3>3 DEF PageInv, MailInv, FromPage
  <2>4. JobInv'
    BY <1>0, <2>1 DEF PageInv, JobInv
  <2> QED BY <2>2, <2>3, <2>4 DEF PageInv
<1>7. CASE Receive
  <2>1. /\ UNCHANGED <<epoch, token, visible, disposed, ready, page, pageToken, shown, states>>
        /\ up # <<>> /\ up' = Tail(up)
        /\ queue' = Append(queue, [message |-> Head(up), epoch |-> epoch])
    BY <1>7 DEF Receive, epochVars, pageVars
  <2>2. EpochInv'
    BY <2>1 DEF PageInv, EpochInv
  <2>3. MailInv'
    <3>1. /\ Head(up) \in Messages /\ 1 \in DOMAIN up /\ Head(up) = up[1]
          /\ \A k \in DOMAIN up' : k + 1 \in DOMAIN up /\ up'[k] = up[k + 1]
      BY <1>0, <2>1, HeadFacts
    <3>2. \A k \in DOMAIN queue' :
            (k \in DOMAIN queue /\ queue'[k] = queue[k]) \/ queue'[k].message = up[1]
      <4>1. [message |-> Head(up), epoch |-> epoch] \in [message : Messages, epoch : Nat]
        BY <1>0, <3>1
      <4> QED BY <1>0, <2>1, <3>1, <4>1, AppendFacts
    <3>3. FromPage(up[1])
      BY <3>1 DEF PageInv, MailInv
    <3> QED BY <2>1, <3>1, <3>2, <3>3 DEF PageInv, MailInv, FromPage
  <2>4. JobInv'
    BY <1>0, <2>1 DEF PageInv, JobInv
  <2> QED BY <2>2, <2>3, <2>4 DEF PageInv
<1> QED BY <1>1, <1>2, <1>3, <1>4, <1>5, <1>6, <1>7 DEF Panel, Page

(* A handler takes up only what the page of this epoch has sent.            *)
LEMMA TakePage ==
  ASSUME TypeInv, PageInv, Take PROVE PageInv'
<1>0. /\ queue # <<>> /\ queue' = Tail(queue) /\ Takes
      /\ UNCHANGED <<epoch, token, visible, disposed, ready, page, shown, states>>
  BY DEF Take, Drop, TakeProposal, TakeEcho, TakeOperation, TakesCurrent, Takes, epochVars
<1>1. /\ epoch \in Nat \ {0} /\ version \in Nat \ {0} /\ First \in Messages
      /\ queue \in Seq([message : Messages, epoch : Nat])
  BY <1>0, FirstType DEF TypeInv, EditorTypeOK
<1>2. /\ 1 \in DOMAIN queue /\ First = queue[1].message
      /\ \A k \in DOMAIN queue' : k + 1 \in DOMAIN queue /\ queue'[k] = queue[k + 1]
  BY <1>0, <1>1, HeadFacts DEF First
<1>3. FromPage(First)
  BY <1>2 DEF PageInv, MailInv
<1>4. CASE TakeProposal
  BY <1>0, <1>2, <1>4, RequestPage DEF TakeProposal
<1>5. CASE Drop \/ TakeEcho \/ TakeOperation
  <2>1. UNCHANGED <<pageToken, up>>
    BY <1>5 DEF Drop, TakeEcho, TakeOperation
  <2>2. EpochInv'
    BY <1>0, <2>1 DEF PageInv, EpochInv
  <2>3. MailInv'
    BY <1>0, <1>2, <2>1 DEF PageInv, MailInv, FromPage
  <2>4. JobInv'
    <3>1. CASE job' = job
      BY <1>0, <2>1, <3>1 DEF PageInv, JobInv
    <3>2. CASE job'.pc = "refresh" /\ job'.atVersion = version
      BY <1>0, <1>1, <2>1, <3>2 DEF PageInv, JobInv
    <3>3. ASSUME TakeEcho \/ TakeOperation, job'.pc \in {"state", "read"}, Begin(job'.pc)
          PROVE  JobInv'
      <4>1. /\ job'.epoch = epoch /\ job'.token = First.token /\ job'.born = First.born
            /\ job'.atVersion = version
        BY <1>0, <3>3, BeginType DEF TypeInv
      <4>2. CASE TakeEcho
        <5>1. First.token = epoch /\ visible
          BY <4>2 DEF TakeEcho, CanAcceptReady, PageInv, EpochInv
        <5>2. First.born = epoch /\ page /\ pageToken = epoch
          BY <1>1, <1>3, <5>1 DEF FromPage, Messages
        <5> QED BY <1>0, <1>1, <2>1, <3>3, <4>1, <5>1, <5>2 DEF PageInv, JobInv
      <4>3. CASE TakeOperation
        <5>1. First.token = epoch /\ visible
          BY <4>3 DEF TakeOperation, AcceptsMessage, PageInv, EpochInv
        <5>2. First.born = epoch /\ page /\ pageToken = epoch
          BY <1>1, <1>3, <5>1 DEF FromPage, Messages
        <5> QED BY <1>0, <1>1, <2>1, <3>3, <4>1, <5>1, <5>2 DEF PageInv, JobInv
      <4> QED BY <3>3, <4>2, <4>3
    <3> QED BY <3>1, <3>2, <3>3, TakeBegins
  <2> QED BY <2>2, <2>3, <2>4 DEF PageInv
<1> QED BY <1>4, <1>5 DEF Take

LEMMA StateShown ==
  ASSUME NEW v \in Nat \ {0}, NEW e, SendState(v, e)
  PROVE  /\ shown # 0 => shown' # 0
         /\ OperationCurrent(v, e) /\ Posted => shown' # 0
BY DEF SendState, Show

LEMMA ContinuePage ==
  ASSUME TypeInv, PageInv, Continue PROVE PageInv'
<1>0. /\ job \in Jobs /\ version \in Nat \ {0} /\ epoch \in Nat \ {0}
      /\ \A s \in states : s.version \in Nat \ {0}
  BY DEF TypeInv, EditorTypeOK, PageInv, JobInv
<1>1. CASE StateSent
  <2>1. /\ UNCHANGED <<epoch, token, visible, disposed, ready, page, pageToken, up, queue, states>>
        /\ SendState(job.atVersion, job.atEpoch) /\ job.pc = "state"
    BY <1>1 DEF StateSent, epochVars
  <2>2. job.atVersion \in Nat \ {0}
    BY <1>0, <2>1 DEF PageInv, JobInv, Jobs
  <2>3. shown # 0 => shown' # 0
    BY <2>1, <2>2, StateShown
  <2>4. CASE job' = Idle
    BY <1>0, <2>1, <2>3, <2>4, IdleType, PageInvKept
  <2>5. CASE OperationCurrent(job.atVersion, job.atEpoch) /\ Posted /\ job' = [job EXCEPT !.pc = "mark"]
    <3>1. shown' # 0
      BY <2>1, <2>2, <2>5, StateShown
    <3>2. job'.pc = "mark" /\ job'.token = job.token /\ job'.epoch = job.epoch
      BY <1>0, <2>5 DEF Jobs
    <3>3. EpochInv' /\ MailInv'
      BY <2>1, <2>3 DEF PageInv, EpochInv, MailInv, FromPage
    <3>4. JobInv'
      BY <2>1, <3>1, <3>2 DEF PageInv, JobInv
    <3> QED BY <3>3, <3>4 DEF PageInv
  <2> QED BY <1>1, <2>4, <2>5 DEF StateSent
<1>2. CASE MarkReady
  <2>1. /\ UNCHANGED <<epoch, token, visible, disposed, page, pageToken, shown, up, queue, states>>
        /\ job' = Idle /\ job.pc = "mark"
    BY <1>2 DEF MarkReady, pageVars
  <2>2. CASE UNCHANGED ready
    BY <1>0, <2>1, <2>2, IdleType, PageInvKept
  <2>3. CASE EpochCurrent(job.epoch) /\ visible /\ CanAcceptReady(job.token)
    <3>1. job.token = epoch /\ token = epoch /\ visible /\ ~disposed /\ page /\ pageToken = token
          /\ shown # 0
      BY <2>1, <2>3 DEF PageInv, EpochInv, JobInv, EpochCurrent, CanAcceptReady
    <3>2. EpochInv'
      BY <2>1, <3>1 DEF PageInv, EpochInv
    <3>3. MailInv' /\ JobInv'
      BY <2>1, IdleType DEF PageInv, MailInv, FromPage, JobInv
    <3> QED BY <3>2, <3>3 DEF PageInv
  <2> QED BY <1>2, <2>2, <2>3 DEF MarkReady
<1>3. CASE Refreshed
  <2>1. /\ UNCHANGED <<epoch, token, visible, disposed, ready, page, pageToken, up, queue, states>>
        /\ SendState(job.atVersion, job.atEpoch) /\ job.pc = "refresh" /\ job' = Idle
    BY <1>3 DEF Refreshed, Unmoved, epochVars
  <2>2. job.atVersion \in Nat \ {0}
    BY <1>0, <2>1 DEF PageInv, JobInv, Jobs
  <2>3. shown # 0 => shown' # 0
    BY <2>1, <2>2, StateShown
  <2> QED BY <1>0, <2>1, <2>3, IdleType, PageInvKept
<1>4. CASE Confirm \/ Handle \/ Apply \/ Complete
  <2>1. UNCHANGED <<epoch, token, visible, disposed, ready, page, pageToken, shown, up, queue>>
    BY <1>4 DEF Confirm, ReadDisk, Compare, Overwrite, Discard, Cancel, Replace, SaveReloaded,
      Reloaded, Handle, Apply, Complete, Unmoved, epochVars
  <2>2. version' \in Nat \ {0} /\ \A s \in states' : s.version # 0
    <3>1. CASE Replace \/ Apply
      BY <1>0, <3>1 DEF Replace, Apply, Changed, documentVars
    <3>2. CASE UNCHANGED <<version, states>>
      BY <1>0, <3>2
    <3> QED BY <1>4, <3>1, <3>2 DEF Confirm, ReadDisk, Compare, Overwrite, Discard, Cancel,
          SaveReloaded, Reloaded, Handle, Complete, documentVars
  <2>3. ASSUME job'.pc \notin {"state", "read", "mark", "refresh"} PROVE PageInv'
    BY <2>1, <2>2, <2>3, PageInvKept
  <2>4. CASE job' = Idle \/ Reject \/ Throw
    BY <2>3, <2>4, IdleType DEF Reject, Throw
  <2>5. ASSUME NEW chosen \in BOOLEAN, Reload(chosen) PROVE PageInv'
    BY <2>3, <2>5, ReloadType DEF TypeInv
  <2>6. ASSUME NEW b, Confirmed(b) PROVE PageInv'
    BY <2>3, <2>6, ConfirmedType, IdleType DEF TypeInv
  <2>7. ASSUME NEW owes \in BOOLEAN, Refresh(owes) PROVE PageInv'
    <3>1. job'.pc = "refresh" /\ job'.atVersion = version'
      BY <1>0, <2>2, <2>7, RefreshType
    <3> QED BY <2>1, <2>2, <3>1, PageInvKept
  <2>8. CASE ReadDisk
    BY <1>0, <2>3, <2>4, <2>8 DEF ReadDisk, Jobs
  <2>9. CASE Compare
    BY <1>0, <2>3, <2>5, <2>6, <2>9 DEF Compare, Jobs
  <2>10. CASE Overwrite \/ Discard \/ Cancel
    BY <2>4, <2>5, <2>6, <2>10 DEF Overwrite, Discard, Cancel
  <2>11. CASE Replace \/ SaveReloaded \/ Reloaded
    BY <1>0, <2>3, <2>4, <2>7, <2>11 DEF Replace, SaveReloaded, Reloaded, EndReload, Jobs
  <2>12. CASE Handle
    BY <1>0, <2>3, <2>4, <2>7, <2>12 DEF Handle, Jobs
  <2>13. CASE Apply \/ Complete
    BY <2>3, <2>4, <2>7, <2>13, IdleType DEF Apply, Complete, Jobs
  <2> QED BY <1>4, <2>8, <2>9, <2>10, <2>11, <2>12, <2>13 DEF Confirm
<1> QED BY <1>1, <1>2, <1>3, <1>4 DEF Continue

LEMMA OthersPage ==
  ASSUME TypeInv, PageInv, Others \/ OnDidSave \/ StateArrives PROVE PageInv'
<1>0. /\ version \in Nat \ {0} /\ job' = job
      /\ \A s \in states : s.version \in Nat \ {0}
  BY JobKept DEF TypeInv, EditorTypeOK, PageInv, JobInv
<1>1. CASE Others \/ OnDidSave
  <2>1. UNCHANGED <<epoch, token, visible, disposed, ready, page, pageToken, shown, up, queue>>
    BY <1>1 DEF Others, Type, WriteFile, FollowFile, Save, OnDidSave, Around, epochVars, pageVars
  <2>2. \A s \in states' : s.version # 0
    BY <1>0, <1>1 DEF Others, Type, WriteFile, FollowFile, Save, OnDidSave, Changed
  <2> QED BY <1>0, <2>1, <2>2, PageInvKept
<1>2. CASE StateArrives
  <2>1. PICK s \in states : SendState(s.version, s.epoch) /\ states' = states \ {s}
    BY <1>2 DEF StateArrives
  <2>2. shown # 0 => shown' # 0
    BY <1>0, <2>1, StateShown
  <2>3. UNCHANGED <<epoch, token, visible, disposed, ready, page, pageToken, up, queue>>
    BY <1>2 DEF StateArrives, epochVars
  <2> QED BY <1>0, <2>1, <2>2, <2>3, PageInvKept
<1> QED BY <1>1, <1>2

(* What is handled was sent in the epoch in which it is taken up, and a     *)
(* page that is ready has echoed the token of its epoch and shown a state.  *)
THEOREM OnlyThisPageCorrect == EditorSpec => []OnlyThisPage
<1>1. EditorInit => PageInv
  BY EditorAssumption, IdleType DEF EditorInit, PageInv, EpochInv, MailInv, JobInv
<1>2. ASSUME TypeInv, PageInv, [EditorNext]_vars PROVE PageInv'
  <2>1. CASE UNCHANGED vars
    BY <1>2, <2>1 DEF vars, epochVars, pageVars, PageInv, EpochInv, MailInv, FromPage, JobInv
  <2> QED BY <1>2, <2>1, PanelPage, TakePage, ContinuePage, OthersPage DEF EditorNext
<1>3. PageInv => OnlyThisPage
  BY DEF PageInv, EpochInv, JobInv, OnlyThisPage
<1>4. EditorSpec => []TypeInv /\ EditorInit /\ [][EditorNext]_vars
  BY TypeInvInitial, TypeInvInductive, PTL DEF EditorSpec, EditorSafety
<1> QED BY <1>1, <1>2, <1>3, <1>4, PTL
=============================================================================
