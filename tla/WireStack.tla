----------------------------- MODULE WireStack -----------------------------
(***************************************************************************)
(* The debug links of a Unity process and the stack of wires that          *)
(* VisualBridgeDebugTransport keeps of them: a new link is pushed and      *)
(* takes over, a closed one is popped and the last one still open comes    *)
(* back with the slot table it had.  Per link there are two threads, the   *)
(* reader that runs the DebugLinkOpened handler of the host and the        *)
(* connection thread that runs NotifyClosed, and nothing orders them: the  *)
(* steps are the parts of both that lie between two acquisitions of the    *)
(* transport's lock.  What the session does with the wires is DebugSession.*)
(***************************************************************************)
EXTENDS Naturals, SequencesExt

CONSTANTS
  Link,        \* the links of one play session, each opened once
  Instance,    \* the debugged instances
  MaxSlot,     \* VisualBridgeDebugSession.MaxInstanceSlot
  NoLink, NoInstance

ASSUME WireAssumption ==
  /\ NoLink \notin Link /\ NoInstance \notin Instance
  /\ MaxSlot \in Nat \ {0}

VARIABLES
  open,        \* open[l]: IsOpen of the socket under l
  stage,       \* how far the DebugLinkOpened handler of l has come
  closing,     \* how far the connection thread of l has come after the end
  previous,    \* local of Bind: the wire to unsubscribe
  restored,    \* local of OnWireClosed: the wire to subscribe again
  stack,       \* wireStack
  sub,         \* how often the transport is subscribed to the events of l
  slots,       \* the slot table of the active wire
  archive,     \* WireBinding.Slots of the wires below
  owner,       \* ownerGeneration: the link that began this session
  missed       \* history: links whose end the transport did not hear of

linkVars == <<open, stage, closing, previous, restored>>
quietVars == <<open, closing, previous, restored>>
wireVars == <<stack, sub, slots, archive, owner, missed>>

Slot     == 1..MaxSlot
NoSlots  == [s \in Slot |-> NoInstance]
Active   == IF stack = <<>> THEN NoLink ELSE stack[Len(stack)]
Stacked(l) == \E k \in 1..Len(stack) : stack[k] = l

\* IsConnected: some wire of the stack is open, not only the active one.
IsConnected == \E k \in 1..Len(stack) : open[stack[k]]

\* What a write on the active wire needs.
ActiveOpen  == stack # <<>> /\ open[Active]

WireInit ==
  /\ open = [l \in Link |-> TRUE] /\ stage = [l \in Link |-> "new"]
  /\ closing = [l \in Link |-> "no"]
  /\ previous = [l \in Link |-> NoLink] /\ restored = [l \in Link |-> NoLink]
  /\ stack = <<>> /\ sub = [l \in Link |-> 0]
  /\ slots = NoSlots /\ archive = [l \in Link |-> NoSlots] /\ owner = NoLink
  /\ missed = {}

---------------------------------------------------------------------------
(* The reader thread of a link: Bind, under the lock and after it.         *)
BindPush(l) ==
  /\ stage[l] = "new"
  /\ stage' = [stage EXCEPT ![l] = "pushed"]
  /\ previous' = [previous EXCEPT ![l] = Active]
  /\ archive' = IF stack = <<>> THEN archive
                ELSE [archive EXCEPT ![Active] = slots]
  /\ stack' = Append(stack, l)
  /\ slots' = NoSlots
  /\ owner' = IF stack = <<>> THEN l ELSE owner
  /\ UNCHANGED <<open, closing, restored, sub, missed>>

\* Mutant of Subscribed: the wire that comes back is not subscribed to.
NotSubscribed(l) == sub

\* Events of a wire the transport has let go of (disposed) reach nobody.
Subscribed(l)   == IF Stacked(l) THEN [sub EXCEPT ![l] = @ + 1] ELSE sub
Unsubscribed(l) == IF l = NoLink \/ sub[l] = 0 THEN sub ELSE [sub EXCEPT ![l] = @ - 1]

BindSubscribe(l) ==
  /\ stage[l] = "pushed"
  /\ stage' = [stage EXCEPT ![l] = "bound"]
  /\ previous' = [previous EXCEPT ![l] = NoLink]
  /\ sub' = LET left == Unsubscribed(previous[l])
            IN IF Stacked(l) THEN [left EXCEPT ![l] = @ + 1] ELSE left
  /\ UNCHANGED <<open, closing, restored, stack, slots, archive, owner, missed>>

\* link.Closed += OnDebugLinkClosed, once Attach has returned.
Watch(l) ==
  /\ stage[l] = "attached"
  /\ stage' = [stage EXCEPT ![l] = "watched"]
  /\ UNCHANGED <<quietVars, wireVars>>

---------------------------------------------------------------------------
(* The end of a link: the socket stops, and later the connection thread    *)
(* tells whoever had subscribed by then.                                   *)
SocketStops(l) ==
  /\ open[l]
  /\ open' = [open EXCEPT ![l] = FALSE]
  /\ UNCHANGED <<stage, closing, previous, restored, wireVars>>

\* The host detaches for a link only if it had come to watch it.
AfterPop(l) == IF stage[l] = "watched" THEN "check" ELSE "gone"

\* Depth of the last open wire below the top, 0 if there is none.
OpenDepth ==
  LET alive == {k \in 1..Len(stack) - 1 : open[stack[k]]}
  IN IF alive = {} THEN 0 ELSE CHOOSE k \in alive : \A j \in alive : j <= k

\* Mutant of RestoredSlots: the popped wire's table stays.
KeptSlots(n) == IF n = 0 THEN NoSlots ELSE slots

\* The table the restored wire goes on with.
RestoredSlots(n) == IF n = 0 THEN NoSlots ELSE archive[stack[n]]

(* OnWireClosed.  The wires that leave the stack are disposed of; the one  *)
(* that comes back is subscribed to after the lock has been released.      *)
Left(n) == [m \in Link |-> IF \E k \in 1..n - 1 : stack[k] = m THEN archive[m] ELSE NoSlots]

PopActive(l) ==
  LET n == OpenDepth
  IN /\ stack' = SubSeq(stack, 1, n)
     /\ archive' = Left(n)
     /\ slots' = RestoredSlots(n)
     /\ owner' = IF n = 0 THEN NoLink ELSE owner
     /\ sub' = [m \in Link |-> IF \E k \in n + 1..Len(stack) : stack[k] = m THEN 0 ELSE sub[m]]
     /\ restored' = [restored EXCEPT ![l] = IF n = 0 THEN NoLink ELSE stack[n]]

RemoveBuried(l) ==
  /\ \E k \in 1..Len(stack) : stack[k] = l /\ stack' = RemoveAt(stack, k)
  /\ sub' = [sub EXCEPT ![l] = 0]
  /\ archive' = [archive EXCEPT ![l] = NoSlots]
  /\ UNCHANGED <<slots, owner, restored>>

\* NotifyClosed calls the handlers it finds, the one of the transport first.
Notify(l) ==
  /\ ~open[l] /\ closing[l] = "no"
  /\ closing' = [closing EXCEPT ![l] = AfterPop(l)]

OnWireClosed(l) ==
  /\ Notify(l) /\ sub[l] > 0
  /\ IF Active = l THEN PopActive(l) ELSE RemoveBuried(l)
  /\ UNCHANGED <<open, stage, previous, missed>>

\* With nobody of the transport to hear it: right for a wire that is buried,
\* whose end is seen when it would come back.
ClosedUnheard(l) ==
  /\ Notify(l) /\ sub[l] = 0
  /\ missed' = IF stage[l] = "new" \/ Active = l THEN missed \cup {l} ELSE missed
  /\ UNCHANGED <<open, stage, previous, restored, stack, sub, slots, archive, owner>>

SubscribeRestored(l) ==
  /\ restored[l] # NoLink
  /\ sub' = Subscribed(restored[l])
  /\ restored' = [restored EXCEPT ![l] = NoLink]
  /\ UNCHANGED <<open, stage, closing, previous, stack, slots, archive, owner, missed>>

\* Mutant of CheckLastLink: whatever link ends, the session is detached.
CheckNothing(l) ==
  /\ closing[l] = "check" /\ restored[l] = NoLink
  /\ \A m \in Link : closing[m] # "detach"
  /\ closing' = [closing EXCEPT ![l] = "detach"]
  /\ UNCHANGED <<open, stage, previous, restored, wireVars>>

(* OnDebugLinkClosed: the handlers of the host take turns at the lock      *)
(* debugTransportGate, which Bind and Attach do not take.                  *)
CheckLastLink(l) ==
  /\ closing[l] = "check" /\ restored[l] = NoLink
  /\ \A m \in Link : closing[m] # "detach"
  /\ closing' = [closing EXCEPT ![l] = IF ~IsConnected THEN "detach" ELSE "gone"]
  /\ UNCHANGED <<open, stage, previous, restored, wireVars>>

WireStep(l) ==
  \/ BindSubscribe(l) \/ Watch(l) \/ SocketStops(l)
  \/ ClosedUnheard(l) \/ SubscribeRestored(l) \/ CheckLastLink(l)

\* The steps that change the active wire, and its table with it.
TableStep(l) == BindPush(l) \/ OnWireClosed(l)

---------------------------------------------------------------------------
WireTypeOK ==
  /\ open \in [Link -> BOOLEAN]
  /\ stage \in [Link -> {"new", "pushed", "bound", "attached", "watched"}]
  /\ closing \in [Link -> {"no", "check", "detach", "gone"}]
  /\ previous \in [Link -> Link \cup {NoLink}]
  /\ restored \in [Link -> Link \cup {NoLink}]
  /\ stack \in Seq(Link) /\ sub \in [Link -> Nat]
  /\ slots \in [Slot -> Instance \cup {NoInstance}]
  /\ archive \in [Link -> [Slot -> Instance \cup {NoInstance}]]
  /\ owner \in Link \cup {NoLink} /\ missed \subseteq Link

\* No thread of a link is inside Bind, OnWireClosed or the host's handlers.
LinksAtRest ==
  \A l \in Link : /\ stage[l] \in {"new", "watched"}
                  /\ closing[l] = (IF open[l] THEN "no" ELSE "gone")
                  /\ restored[l] = NoLink

(***************************************************************************)
(* The top serves: once the threads are at rest, no ended wire buries an   *)
(* open one and the transport hears the frames and the end of the one on   *)
(* top, unless that ended before it was subscribed to, on its way up or    *)
(* back; and the owner of the session is a link as long as there is one    *)
(* (Bind, OnWireClosed, ConnectionGeneration).                             *)
(***************************************************************************)
TopServes ==
  /\ LinksAtRest /\ stack # <<>> => Active \in missed \/ (ActiveOpen /\ sub[Active] > 0)
  /\ (owner = NoLink) <=> (stack = <<>>)
=============================================================================
