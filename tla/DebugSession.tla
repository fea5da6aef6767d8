---------------------------- MODULE DebugSession ----------------------------
(***************************************************************************)
(* The debug session of a Unity process (VisualBridgeDebugSession) over    *)
(* the wires of WireStack: which instances are reported under which slots, *)
(* what is sent to the client of the active wire, and what of it survives  *)
(* the loss of the last link and is replayed on the next one.  Session     *)
(* operations hold the lock Gate; Bind and OnWireClosed do not, so what    *)
(* they do can fall between any two sends of one operation.  `job' is the  *)
(* operation that holds Gate, with what it still has to send.              *)
(***************************************************************************)
EXTENDS WireStack, FiniteSets

CONSTANTS
  NoOne,      \* by: the application, which waits for nobody
  LightLoad   \* bound: instances in a behaviour that uses the switch, or in
              \* which the active wire changes inside an operation

ASSUME SessionAssumption == NoOne \notin Link /\ LightLoad \in Nat

VARIABLES
  installed, reporting,  \* s_transport # null, VisualBridgeDebugReporting
  attachDue,             \* ApplyDebugSetEnabled still has to Attach
  attached,              \* s_attached
  connected,             \* s_snapshot.Connected, always ~s_disconnectApplied
  sessionGen,            \* s_sessionGeneration
  snap,                  \* s_snapshot: the slot of each instance, 0 if none
  reg,                   \* s_registrations: the same of what is alive
  pending,               \* s_pendingCreates: the slot in the description
  nextSlot,              \* s_nextSlot
  replayPending,         \* s_replayPending
  job,
  cast,                  \* bound: the instances this behaviour is about
  known,                 \* known[l]: what the client of l was told of slots
  finished,              \* history: instances that were never created, or finished
  overlapped,            \* history: the active wire changed inside an operation,
                         \* or the session was detached over a live link
  boundLate              \* history: the last link to be bound was so after the host
                         \* had found no other, and before it detached

flagVars    == <<installed, reporting, attachDue, attached>>
tableVars   == <<snap, reg, pending, nextSlot, replayPending>>
sessionVars == <<connected, sessionGen, tableVars>>
historyVars == <<cast, finished, overlapped, boundLate>>
allVars == <<linkVars, wireVars, flagVars, sessionVars, job, known, historyVars>>

Light   == Cardinality(cast) <= LightLoad
Nowhere == [i \in Instance |-> 0]
Idle    == [op |-> "none", who |-> NoInstance, by |-> NoOne, pc |-> "idle",
            todo |-> {}, all |-> TRUE, again |-> FALSE, at |-> NoInstance]
Job(op, who, by) == [Idle EXCEPT !.op = op, !.who = who, !.by = by]
GateFree == job = Idle

SessionInit ==
  /\ WireInit
  /\ installed = FALSE /\ reporting = TRUE /\ attachDue = FALSE /\ attached = FALSE
  /\ connected = FALSE /\ sessionGen = NoLink
  /\ snap = Nowhere /\ reg = Nowhere /\ pending = Nowhere
  /\ nextSlot = 1 /\ replayPending = FALSE /\ job = Idle
  /\ known = [l \in Link |-> NoSlots] /\ cast \in SUBSET Instance \ {{}}
  /\ finished = Instance /\ overlapped = FALSE /\ boundLate = FALSE

---------------------------------------------------------------------------
(* Where the next slot comes from (TryReserveSlotLocked).                  *)
Free(s) == \A i \in Instance : snap[i] # s
Least(S) == CHOOSE s \in S : \A t \in S : s <= t
FreshSlots == {s \in Slot : s >= nextSlot /\ Free(s)}
Preferred(s) == s \in Slot /\ Free(s)

ReservedSlot(s) ==
  IF Preferred(s) THEN s ELSE IF FreshSlots = {} THEN 0 ELSE Least(FreshSlots)

NextAfter(s) ==
  IF ReservedSlot(s) = 0 THEN MaxSlot + 1
  ELSE IF ReservedSlot(s) < nextSlot THEN nextSlot ELSE ReservedSlot(s) + 1

Taken(f, i) == [f EXCEPT ![i] = 0]

\* Mutant of AboveAll: the cursor starts again.
FromOne == 1

\* The cursor after a reset that keeps the registrations: above all of them.
AboveAll == Least({n \in 1..MaxSlot + 1 : \A i \in Instance : reg[i] < n})

\* ResetSessionLocked, apart from `connected', which its callers set.
Wipe ==
  /\ snap' = Nowhere /\ pending' = Nowhere /\ reg' = Nowhere
  /\ nextSlot' = 1 /\ replayPending' = FALSE
WipeKeeping ==
  /\ snap' = Nowhere /\ pending' = Nowhere /\ reg' = reg
  /\ nextSlot' = AboveAll /\ replayPending' = TRUE

(* A description written on the active wire: the switch is on and the wire *)
(* open.  A full control queue closes the link, as if it had ended before. *)
Sends == reporting /\ ActiveOpen
Tell(i, s) == known' = IF overlapped THEN known ELSE [known EXCEPT ![Active][s] = i]
Forget(i) ==
  known' = IF overlapped THEN known ELSE [known EXCEPT ![Active] =
              [s \in Slot |-> IF @[s] = i THEN NoInstance ELSE @[s]]]

---------------------------------------------------------------------------
\* The first half of a round of sends, the descriptions pending in p; there
\* is no round if nothing is pending and no replay is due.  An Attach ends
\* after its rounds, another operation goes on to its body.
AfterRounds(j) == IF j.op = "attach" THEN Idle ELSE [j EXCEPT !.pc = "body", !.all = TRUE]
FlushRound(j, p, due, again) ==
  IF p = Nowhere /\ ~due THEN AfterRounds(j)
  ELSE [j EXCEPT !.pc = "flush", !.again = again, !.all = TRUE,
                 !.todo = {i \in Instance : p[i] # 0}]

\* Attach returns to the handler of the link that called it.
Returns(j) ==
  stage' = IF j.by # NoOne /\ job' = Idle THEN [stage EXCEPT ![j.by] = "attached"] ELSE stage

(* RefreshConnectionLocked, which every operation begins with once it has  *)
(* Gate: a lost connection, or another one than the session knows, ends    *)
(* the session; a new one begins with what is pending or registered.       *)
SameSession == connected /\ owner = sessionGen

Refresh(j, up) ==
  /\ IF connected /\ ~(up /\ SameSession) THEN Wipe ELSE UNCHANGED tableVars
  /\ connected' = up
  /\ sessionGen' = IF up THEN owner ELSE NoLink
  /\ job' = IF up /\ ~SameSession THEN FlushRound(j, pending', replayPending', j.op = "attach")
            ELSE IF j.op = "attach" THEN FlushRound(j, pending', replayPending', FALSE)
            ELSE [j EXCEPT !.pc = "body"]
  /\ Returns(j)

Begin(op, who, by, on) ==
  /\ GateFree /\ attached' = on
  /\ Refresh(Job(op, who, by), on /\ IsConnected)

Create(i) ==
  /\ installed /\ i \in cast /\ Begin("create", i, NoOne, attached)
  /\ UNCHANGED <<quietVars, wireVars, installed, reporting, attachDue, known, historyVars>>

Finish(i) ==
  /\ installed /\ i \in cast /\ Begin("finish", i, NoOne, attached)
  /\ UNCHANGED <<quietVars, wireVars, installed, reporting, attachDue, known, historyVars>>

\* Attach, by the handler of link l; AttachAgain, as the switch is turned on.
Attach(l) ==
  /\ stage[l] = "bound" /\ installed
  /\ Begin("attach", NoInstance, l, TRUE)
  /\ UNCHANGED <<quietVars, wireVars, installed, reporting, attachDue, known, historyVars>>

AttachIdle(l) ==
  /\ stage[l] = "bound" /\ GateFree /\ ~installed
  /\ stage' = [stage EXCEPT ![l] = "attached"]
  /\ UNCHANGED <<quietVars, wireVars, flagVars, sessionVars,
                 job, known, historyVars>>

SetEnabled(on) ==
  /\ ~attachDue /\ reporting # on /\ Light
  /\ reporting' = on /\ attachDue' = (on /\ installed)
  /\ UNCHANGED <<linkVars, wireVars, installed, attached, sessionVars, job, known, historyVars>>

AttachAgain ==
  /\ attachDue /\ attachDue' = FALSE
  /\ Begin("attach", NoInstance, NoOne, TRUE)
  /\ UNCHANGED <<quietVars, wireVars, installed, reporting, known, historyVars>>

\* SetTransport: a new session; nothing is pending that it could send.
Install ==
  /\ ~installed /\ GateFree
  /\ installed' = TRUE /\ attached' = TRUE /\ Wipe
  /\ connected' = IsConnected /\ sessionGen' = IF IsConnected THEN owner ELSE NoLink
  /\ UNCHANGED <<linkVars, wireVars, reporting, attachDue, job, known, historyVars>>

\* OnDebugLinkClosed found no link and now detaches, still under its lock.
Detach(l) ==
  /\ closing[l] = "detach" /\ GateFree
  /\ closing' = [closing EXCEPT ![l] = "gone"]
  /\ attached' = FALSE /\ connected' = FALSE /\ sessionGen' = NoLink /\ WipeKeeping
  /\ overlapped' = (overlapped \/ IsConnected)
  /\ known' = IF overlapped' THEN [m \in Link |-> NoSlots] ELSE known
  /\ UNCHANGED <<open, stage, previous, restored, wireVars, installed,
                 reporting, attachDue, job, cast, finished, boundLate>>

---------------------------------------------------------------------------
(* FlushPendingLocked: what cannot be sent stays pending.  After a write   *)
(* the slot is entered in the table of the wire that is active by then.    *)
FlushOne(i) ==
  /\ job.pc = "flush" /\ i \in job.todo /\ job.at = NoInstance
  /\ IF Sends
     THEN /\ Tell(i, pending[i]) /\ pending' = Taken(pending, i)
          /\ job' = [job EXCEPT !.todo = @ \ {i}, !.at = i]
     ELSE /\ job' = [job EXCEPT !.todo = @ \ {i}]
          /\ UNCHANGED <<known, pending>>
  /\ UNCHANGED <<linkVars, wireVars, flagVars, connected, sessionGen, snap, reg,
                 nextSlot, replayPending, historyVars>>

\* The second half of SendCreate.
EnterSlot ==
  /\ job.pc \in {"flush", "replay", "sent"} /\ job.at # NoInstance
  /\ slots' = [slots EXCEPT ![snap[job.at]] = job.at]
  /\ job' = IF job.pc = "sent" THEN Idle ELSE [job EXCEPT !.at = NoInstance]
  /\ UNCHANGED <<linkVars, stack, sub, archive, owner, missed, flagVars, sessionVars, known, historyVars>>

(* ReplayRegistrationsLocked: after a Detach, what is alive and not in the *)
(* snapshot is described again, under the slot it had.  Nothing is         *)
(* consumed while there is no connection.                                  *)
RoundDone(due) == IF job.again THEN FlushRound(job, pending, due, FALSE) ELSE AfterRounds(job)
Unsent == {i \in Instance : reg[i] # 0 /\ snap[i] = 0}

StartReplay ==
  /\ job.pc = "flush" /\ job.todo = {} /\ job.at = NoInstance
  /\ IF replayPending /\ IsConnected
     THEN job' = [job EXCEPT !.pc = "replay", !.todo = Unsent]
     ELSE job' = RoundDone(replayPending)
  /\ Returns(job)
  /\ UNCHANGED <<quietVars, wireVars, flagVars, sessionVars, known, historyVars>>

ReplayOne(i) ==
  /\ job.pc = "replay" /\ i \in job.todo /\ job.at = NoInstance
  /\ LET s == ReservedSlot(reg[i])
     IN IF s # 0 /\ Sends
        THEN /\ reg' = [reg EXCEPT ![i] = s] /\ snap' = [snap EXCEPT ![i] = s]
             /\ nextSlot' = NextAfter(reg[i]) /\ Tell(i, s)
             /\ job' = [job EXCEPT !.todo = @ \ {i}, !.at = i]
        ELSE /\ reg' = IF s = 0 THEN reg ELSE [reg EXCEPT ![i] = s]
             /\ nextSlot' = IF s = 0 THEN NextAfter(reg[i]) ELSE nextSlot
             /\ job' = [job EXCEPT !.todo = @ \ {i}, !.all = FALSE]
             /\ UNCHANGED <<snap, known>>
  /\ UNCHANGED <<linkVars, wireVars, flagVars, connected, sessionGen, pending,
                 replayPending, historyVars>>

\* Whether the replay stays due.
StillPending == ~job.all

EndReplay ==
  /\ job.pc = "replay" /\ job.todo = {} /\ job.at = NoInstance
  /\ replayPending' = StillPending
  /\ job' = RoundDone(StillPending) /\ Returns(job)
  /\ UNCHANGED <<quietVars, wireVars, flagVars, connected, sessionGen, snap, reg,
                 pending, nextSlot, known, historyVars>>

---------------------------------------------------------------------------
(* Create, after the refresh: published and sent, or kept for the next     *)
(* connection; a description that cannot be sent takes everything back.    *)
CreateAgain(i) == snap[i] # 0 /\ job' = Idle /\ UNCHANGED <<tableVars, known>>

CreateNoSlot(i) ==
  /\ snap[i] = 0 /\ ReservedSlot(reg[i]) = 0
  /\ nextSlot' = NextAfter(reg[i]) /\ job' = Idle
  /\ UNCHANGED <<snap, reg, pending, replayPending, known>>

Publish(i, s) ==
  /\ snap' = [snap EXCEPT ![i] = s] /\ reg' = [reg EXCEPT ![i] = s]
  /\ nextSlot' = NextAfter(reg[i])

CreateSent(i, s) ==
  /\ connected /\ Sends
  /\ Publish(i, s) /\ Tell(i, s)
  /\ job' = [job EXCEPT !.pc = "sent", !.at = i]
  /\ UNCHANGED <<pending, replayPending>>

CreateUnsent(i, s) ==
  /\ connected /\ ~Sends
  /\ reg' = IF reg[i] = 0 THEN reg ELSE [reg EXCEPT ![i] = s]
  /\ job' = Idle
  /\ UNCHANGED <<snap, pending, nextSlot, replayPending, known>>

CreateKept(i, s) ==
  /\ ~connected
  /\ Publish(i, s) /\ pending' = [pending EXCEPT ![i] = s]
  /\ job' = Idle
  /\ UNCHANGED <<replayPending, known>>

CreateBody(i) ==
  /\ job.op = "create" /\ job.pc = "body" /\ job.who = i
  /\ finished' = finished \ {i}
  /\ \/ CreateAgain(i)
     \/ CreateNoSlot(i)
     \/ LET s == ReservedSlot(reg[i])
        IN /\ snap[i] = 0 /\ s # 0
           /\ CreateSent(i, s) \/ CreateUnsent(i, s) \/ CreateKept(i, s)
  /\ UNCHANGED <<linkVars, wireVars, flagVars, connected, sessionGen, cast, overlapped,
                 boundLate>>

---------------------------------------------------------------------------
\* Mutant of Dropped: only what the snapshot knows is unregistered.
DroppedKnown(i) ==
  /\ snap' = Taken(snap, i) /\ pending' = Taken(pending, i)
  /\ reg' = IF snap[i] = 0 THEN reg ELSE Taken(reg, i)
  /\ finished' = finished \cup {i}

(* Finish.  The registration goes when the finish takes effect, which it   *)
(* also does for an instance the snapshot has already lost.                *)
Dropped(i) ==
  /\ snap' = Taken(snap, i) /\ reg' = Taken(reg, i) /\ pending' = Taken(pending, i)
  /\ finished' = finished \cup {i}

FinishLocally(i) ==
  /\ snap[i] = 0 \/ pending[i] # 0 \/ ~connected
  /\ Dropped(i) /\ job' = Idle
  /\ UNCHANGED <<wireVars, known>>

\* SendFinish: the slot is taken out of the table, then the frame is sent.
FinishBegins(i) ==
  /\ snap[i] # 0 /\ pending[i] = 0 /\ connected
  /\ IF reporting
     THEN /\ slots' = [slots EXCEPT ![snap[i]] = NoInstance]
          /\ job' = [job EXCEPT !.pc = "finish", !.at = slots[snap[i]]]
     ELSE job' = Idle /\ slots' = slots
  /\ UNCHANGED <<snap, reg, pending, finished, stack, sub, archive, owner, missed, known>>

FinishBody(i) ==
  /\ job.op = "finish" /\ job.pc = "body" /\ job.who = i
  /\ FinishLocally(i) \/ FinishBegins(i)
  /\ UNCHANGED <<linkVars, flagVars, connected, sessionGen, nextSlot, replayPending, cast,
                 overlapped, boundLate>>

FinishSent(i) ==
  /\ job.pc = "finish" /\ job.who = i
  /\ IF Sends
     THEN Dropped(i) /\ Forget(i) /\ job' = Idle
     ELSE /\ job' = IF job.at = NoInstance THEN Idle ELSE [job EXCEPT !.pc = "unsent"]
          /\ UNCHANGED <<snap, reg, pending, finished, known>>
  /\ UNCHANGED <<linkVars, wireVars, flagVars, connected, sessionGen, nextSlot,
                 replayPending, cast, overlapped, boundLate>>

\* The frame did not go out: the slot is put back, the snapshot as it was.
FinishUnsent ==
  /\ job.pc = "unsent"
  /\ slots' = IF slots[snap[job.who]] # NoInstance THEN slots
              ELSE [slots EXCEPT ![snap[job.who]] = job.at]
  /\ job' = Idle
  /\ UNCHANGED <<linkVars, stack, sub, archive, owner, missed, flagVars, sessionVars, known, historyVars>>

---------------------------------------------------------------------------
Operation(i) ==
  \/ Create(i) \/ Finish(i) \/ FlushOne(i) \/ ReplayOne(i)
  \/ CreateBody(i) \/ FinishBody(i) \/ FinishSent(i)

Settling == EnterSlot \/ StartReplay \/ EndReplay \/ FinishUnsent

Gone(m) == stage[m] # "new" /\ ~Stacked(m)

\* The client of a wire that has left the stack is told nothing more.
Wires(l) ==
  \/ /\ TableStep(l) /\ (GateFree \/ Light)
     /\ overlapped' = (~GateFree \/ (overlapped /\ stack' # <<>>))
     /\ known' = [m \in Link |-> IF overlapped' \/ Gone(m)' THEN NoSlots ELSE known[m]]
     /\ boundLate' = IF stage' = stage THEN boundLate ELSE \E m \in Link : closing[m] = "detach"
     /\ UNCHANGED <<flagVars, sessionVars, job, cast, finished>>
  \/ WireStep(l) /\ UNCHANGED <<flagVars, sessionVars, job, known, historyVars>>

SessionNext ==
  \/ \E i \in Instance : Operation(i)
  \/ Settling
  \/ \E l \in Link : Wires(l) \/ Attach(l) \/ AttachIdle(l) \/ Detach(l)
  \/ Install \/ AttachAgain \/ \E on \in BOOLEAN : SetEnabled(on)

SessionSpec == SessionInit /\ [][SessionNext]_allVars

---------------------------------------------------------------------------
Slots == [Instance -> 0..MaxSlot]

SessionTypeOK ==
  /\ WireTypeOK
  /\ {installed, reporting, attachDue, attached, connected, replayPending, overlapped,
      boundLate} \subseteq BOOLEAN
  /\ sessionGen \in Link \cup {NoLink}
  /\ snap \in Slots /\ reg \in Slots /\ pending \in Slots /\ nextSlot \in 1..MaxSlot + 1
  /\ job \in [op : {"none", "create", "finish", "attach"}, who : Instance \cup {NoInstance},
              by : Link \cup {NoOne}, todo : SUBSET Instance, all : BOOLEAN, again : BOOLEAN,
              pc : {"idle", "flush", "replay", "body", "sent", "finish", "unsent"},
              at : Instance \cup {NoInstance}]
  /\ known \in [Link -> [Slot -> Instance \cup {NoInstance}]] /\ finished \subseteq Instance /\ cast \subseteq Instance

(***************************************************************************)
(* The snapshot and the registrations agree: an instance of the session is *)
(* registered under the same slot, no two have one slot, every slot in use *)
(* is below the cursor, a session that owes no replay has all that is      *)
(* registered, and what has been finished is in no table until it is       *)
(* created again (Create, Finish, ReplayRegistrationsLocked).              *)
(***************************************************************************)
TablesAgree ==
  /\ \A i \in Instance : snap[i] # 0 => reg[i] = snap[i]
  /\ \A i \in Instance : pending[i] # 0 => snap[i] = pending[i]
  /\ \A i, j \in Instance : i # j /\ reg[i] # 0 => reg[i] # reg[j]
  /\ \A i \in Instance : reg[i] < nextSlot
  /\ GateFree /\ connected /\ ~replayPending =>
       \A i \in Instance : reg[i] # 0 => snap[i] # 0
  /\ \A i \in finished : snap[i] = 0 /\ reg[i] = 0 /\ pending[i] = 0

(***************************************************************************)
(* A live instance keeps its slot, over the loss of every link and the     *)
(* replay on the next one (TryReserveSlotLocked, ResetSessionLocked).      *)
(***************************************************************************)
SlotKept ==
  [][\A i \in Instance : reg[i] # 0 /\ reg'[i] # 0 => reg'[i] = reg[i]]_allVars

(***************************************************************************)
(* An event is understood: when the table of the active wire admits the    *)
(* slot of an instance, the client of that wire was told of this instance  *)
(* under this slot, unless the active wire has changed while an operation  *)
(* was between its steps, or the session was detached over a live link and *)
(* gives slots away again that a table below still holds (SendCreate,      *)
(* SendFinish, Bind, OnWireClosed, ResetSessionLocked).                    *)
(***************************************************************************)
Admitted(i) == connected /\ snap[i] # 0 /\ slots[snap[i]] # NoInstance
EventsUnderstood ==
  ActiveOpen /\ ~overlapped =>
    \A i \in Instance : Admitted(i) => known[Active][snap[i]] = i

(***************************************************************************)
(* "As long as the transport has a live connection left, it must not       *)
(* Detach" (the comment of OnDebugLinkClosed): with every thread at rest,  *)
(* the session of a process that has a live link is attached, however the  *)
(* installation, the links and the switch interleave, unless a link was    *)
(* bound between the question of the host and its Detach.                  *)
(***************************************************************************)
Deserted == LinksAtRest /\ GateFree /\ installed /\ IsConnected /\ ~attached
AttachedWhileLive == Deserted => boundLate
=============================================================================
