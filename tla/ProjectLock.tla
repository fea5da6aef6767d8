---------------------------- MODULE ProjectLock ----------------------------
(***************************************************************************)
(* The project lock of Tools/NodeHost/src/projectTransaction.ts: how the   *)
(* transactions of several host processes (VS Code windows, MCP servers)   *)
(* become owner of .visualbridge-transaction.lock, how the lock of an      *)
(* owner that died is taken over under a recovery guard, and how a lock is *)
(* given back.  Every await in the code is a boundary between two actions: *)
(* what one file-system call does is atomic, what two of them do is not.   *)
(*                                                                         *)
(* A transaction is used once.  It makes at most one owner token that      *)
(* matters and at most one guard token (a stale lock is only recovered on  *)
(* the first attempt), so a token is the transaction that made it.         *)
(***************************************************************************)
EXTENDS Naturals

CONSTANTS
  Txn,            \* the calls of withProjectTransaction
  Proc,           \* host processes; a restarted host is another process
  Host,           \* the process each call runs in
  NoTxn,          \* "no file" and "no owner"
  MaxGeneration,  \* last guard generation (999999999999 in the code)
  MaxTries,       \* rounds of acquireRecoveryGuard (4 in the code)
  Serialised,     \* TRUE: a process runs one call at a time
  Faulty          \* the file-system calls that may fail

ASSUME HostAssumption == Host \in [Txn -> Proc]
ASSUME NoTxnAssumption == NoTxn \notin Txn
ASSUME BoundAssumption == MaxGeneration \in Nat \ {0} /\ MaxTries \in Nat \ {0}
ASSUME FlagAssumption == Serialised \in BOOLEAN

VARIABLES
  pc,               \* the next file-system call of each transaction
  lock,             \* whose token the lock file holds
  guards,           \* whose token each generation's guard file holds
  gen,              \* the guard generation read, then chosen, by each call
  tries,            \* rounds of acquireRecoveryGuard that met EEXIST
  outcome,          \* what recoverStaleOwnerLock answered
  ownerReleasable,  \* releasableOwnerTokens, of all processes
  guardReleasable,  \* releasableRecoveryTokens, of all processes
  temps,            \* calls with staged temporaries and no journal
  dead,             \* processes that have died
  read,             \* the token each pending isStaleOwnerFile has read, if any
  overlapped,       \* history: calls that ran while another one was running
  slipped           \* history: a recovery has slipped, see Slip

vars == <<pc, lock, guards, gen, tries, outcome, ownerReleasable,
          guardReleasable, temps, dead, read, overlapped, slipped>>
verdictVars == <<read, slipped>>

Generation == 1..MaxGeneration

GuardPhases == {"exists", "recheck", "rejudge", "steal", "mark", "unguard"}
OwnerPhases == {"recover", "action", "staged", "closing", "readOwn", "unlock"}
EndPhases   == {"done", "refused", "failed"}
Phases == {"idle", "link", "inspect", "judgeLock", "list", "readGuard", "judge",
           "open", "write"} \cup GuardPhases \cup OwnerPhases \cup EndPhases

Alive(t)   == Host[t] \notin dead
Running(t) == pc[t] \notin {"idle"} \cup EndPhases
Live(t)    == Alive(t) /\ Running(t)

(* Between a successful link and the release: the calls of the action may  *)
(* read and replace project sources.                                       *)
InSection(t) == Live(t) /\ pc[t] \in {"recover", "action", "staged"}
Guarding(t)  == Live(t) /\ pc[t] \in GuardPhases

Goto(t, phase) == pc' = [pc EXCEPT ![t] = phase]

(* Mutants of StaleFor: process.kill(pid, 0) refused with EPERM taken for a  *)
(* dead process; the releasable tokens forgotten.                          *)
StaleForEperm(t, u, releasable) == Host[u] \in dead \/ Host[u] # Host[t]
StaleForPidOnly(t, u, releasable) == Host[u] \in dead

(* isStaleOwnerFile reads a file, and once the read is over judges the     *)
(* token it got: its process is gone, or this very process has recorded    *)
(* the token as released.  The file may hold another token by then.        *)
StaleFor(t, u, releasable) ==
  Host[u] \in dead \/ (u \in releasable /\ Host[u] = Host[t])

TokenOf(file) == IF file = NoTxn THEN {} ELSE {file}
Reads(t, token) == read' = [read EXCEPT ![t] = token]
Judged(t) == Reads(t, {})
StaleRead(t, releasable) == \E u \in read[t] : StaleFor(t, u, releasable)

(* A guard file is opened before it is written.  Until then it does not    *)
(* parse and its age decides, asked for after the read: it is stale only   *)
(* at five minutes, which takes a writer that died in between; the clock   *)
(* is a nondeterministic choice.                                           *)
Blank(g) == guards[g] # NoTxn /\ pc[guards[g]] = "write"
(* Mutant of TooOld: a guard that does not parse is stale at once.         *)
TooOldAtOnce(g) == Blank(g)
TooOld(g) == Blank(g) /\ Host[guards[g]] \in dead
MayJudgeStale(t, g) ==
  StaleRead(t, guardReleasable) \/ (read[t] = {} /\ TooOld(g))
MayJudgeOwned(t, g) == ~StaleRead(t, guardReleasable)

(* A recovery slips when a call takes a file for left over by a token that *)
(* is no longer in it, or unlinks the guard of another.                    *)
Slip(t, file) == slipped' = (slipped \/ \E u \in read[t] : file # u)

IsLatest(g) ==
  /\ g # 0 => guards[g] # NoTxn
  /\ \A h \in Generation : guards[h] # NoTxn => h <= g

(* No recovery of this call has ended yet.                                 *)
FirstAttempt(t) ==
  \/ pc[t] \in {"idle", "inspect", "judgeLock", "list", "readGuard", "judge", "open"}
  \/ pc[t] = "link" /\ outcome[t] # "retry"

(* acquireProjectLock passes recoveredStale = true on its second attempt.  *)
RecoveredStale(t) == outcome[t] = "retry"

---------------------------------------------------------------------------
Init ==
  /\ pc = [t \in Txn |-> "idle"]
  /\ lock = NoTxn
  /\ guards = [g \in Generation |-> NoTxn]
  /\ gen = [t \in Txn |-> 0]
  /\ tries = [t \in Txn |-> 0]
  /\ outcome = [t \in Txn |-> "none"]
  /\ ownerReleasable = {}
  /\ guardReleasable = {}
  /\ temps = {}
  /\ dead = {}
  /\ read = [t \in Txn |-> {}]
  /\ overlapped = {} /\ slipped = FALSE

(* withProjectTransaction is called; the owner token is written to a       *)
(* temporary file of its own.                                              *)
Start(t) ==
  LET others == {s \in Txn \ {t} : Live(s)} IN
  /\ Alive(t) /\ pc[t] = "idle"
  /\ Serialised => \A s \in others : Host[s] # Host[t]
  /\ Goto(t, "link")
  /\ overlapped' = IF others = {} THEN overlapped
                                  ELSE overlapped \cup others \cup {t}
  /\ UNCHANGED <<lock, guards, gen, tries, outcome, ownerReleasable,
                 guardReleasable, temps, dead, verdictVars>>

(* Mutant of Link: the second attempt is repeated until the lock is free.  *)
LinkRepeating(t) ==
  /\ Alive(t) /\ pc[t] = "link"
  /\ IF lock = NoTxn
       THEN lock' = t /\ Goto(t, "recover")
       ELSE lock' = lock /\ Goto(t, IF RecoveredStale(t) THEN "link" ELSE "inspect")
  /\ UNCHANGED <<guards, gen, tries, outcome, ownerReleasable,
                 guardReleasable, temps, dead, overlapped, verdictVars>>

(* link(temporaryPath, lockPath): EEXIST starts a recovery on the first    *)
(* attempt and refuses on the second; another error fails the call.        *)
Link(t) ==
  /\ Alive(t) /\ pc[t] = "link"
  /\ \/ /\ lock = NoTxn
        /\ lock' = t
        /\ Goto(t, "recover")
     \/ /\ lock # NoTxn
        /\ lock' = lock
        /\ Goto(t, IF RecoveredStale(t) THEN "refused" ELSE "inspect")
     \/ /\ "link" \in Faulty
        /\ lock' = lock
        /\ Goto(t, "failed")
  /\ UNCHANGED <<guards, gen, tries, outcome, ownerReleasable,
                 guardReleasable, temps, dead, overlapped, verdictVars>>

(* First isStaleOwnerFile of recoverStaleOwnerLock: the lock is read ...   *)
Inspect(t) ==
  /\ Alive(t) /\ pc[t] = "inspect"
  /\ Reads(t, TokenOf(lock))
  /\ Goto(t, "judgeLock")
  /\ UNCHANGED <<lock, guards, gen, tries, outcome, ownerReleasable,
                 guardReleasable, temps, dead, overlapped, slipped>>

(* ... and judged; a lock that vanished since the failed link is not old   *)
(* enough for anybody, and the call is refused.                            *)
JudgeLock(t) ==
  /\ Alive(t) /\ pc[t] = "judgeLock"
  /\ Judged(t)
  /\ Goto(t, IF StaleRead(t, ownerReleasable) THEN "list" ELSE "refused")
  /\ UNCHANGED <<lock, guards, gen, tries, outcome, ownerReleasable,
                 guardReleasable, temps, dead, overlapped, slipped>>

(* readdir of the guard directory: the latest generation, 0 when empty.    *)
ListGuards(t) ==
  /\ Alive(t) /\ pc[t] = "list"
  /\ \E g \in {0} \cup Generation :
       /\ IsLatest(g)
       /\ gen' = [gen EXCEPT ![t] = g]
       /\ Goto(t, IF g = 0 THEN "judge" ELSE "readGuard")
  /\ UNCHANGED <<lock, guards, tries, outcome, ownerReleasable,
                 guardReleasable, temps, dead, overlapped, verdictVars>>

(* The latest guard is read ...                                            *)
ReadGuard(t) ==
  /\ Alive(t) /\ pc[t] = "readGuard"
  /\ Reads(t, IF Blank(gen[t]) THEN {} ELSE TokenOf(guards[gen[t]]))
  /\ Goto(t, "judge")
  /\ UNCHANGED <<lock, guards, gen, tries, outcome, ownerReleasable,
                 guardReleasable, temps, dead, overlapped, slipped>>

(* ... and judged: owned (or gone) refuses, stale selects the next         *)
(* generation.                                                             *)
JudgeGuard(t) ==
  /\ Alive(t) /\ pc[t] = "judge"
  /\ \/ /\ gen[t] # 0
        /\ MayJudgeOwned(t, gen[t])
        /\ Goto(t, "refused")
        /\ gen' = gen /\ slipped' = slipped
     \/ /\ gen[t] # 0 => MayJudgeStale(t, gen[t]) /\ Slip(t, guards[gen[t]])
        /\ gen[t] = 0 => slipped' = slipped
        /\ gen[t] < MaxGeneration
        /\ Goto(t, "open")
        /\ gen' = [gen EXCEPT ![t] = @ + 1]
     \/ /\ gen[t] = MaxGeneration
        /\ MayJudgeStale(t, gen[t])
        /\ Goto(t, "failed")
        /\ gen' = gen /\ slipped' = slipped
  /\ Judged(t)
  /\ UNCHANGED <<lock, guards, tries, outcome, ownerReleasable,
                 guardReleasable, temps, dead, overlapped>>

(* open(guardPath, "wx"): EEXIST lists again, at most MaxTries times.  Any *)
(* other error unlinks guardPath, whoever's file that is, and rethrows.    *)
OpenGuard(t) ==
  /\ Alive(t) /\ pc[t] = "open"
  /\ \/ /\ guards[gen[t]] = NoTxn
        /\ guards' = [guards EXCEPT ![gen[t]] = t]
        /\ tries' = tries /\ slipped' = slipped
        /\ Goto(t, "write")
     \/ /\ guards[gen[t]] # NoTxn
        /\ guards' = guards
        /\ tries' = [tries EXCEPT ![t] = @ + 1] /\ slipped' = slipped
        /\ Goto(t, IF tries[t] + 1 < MaxTries THEN "list" ELSE "refused")
     \/ /\ "openGuard" \in Faulty
        /\ guards' = [guards EXCEPT ![gen[t]] = NoTxn]
        /\ slipped' = (slipped \/ guards[gen[t]] # NoTxn)
        /\ tries' = tries
        /\ Goto(t, "failed")
  /\ UNCHANGED <<lock, gen, outcome, ownerReleasable, guardReleasable,
                 temps, dead, read, overlapped>>

(* The guard's token is written and synced; a failure unlinks the file.    *)
WriteGuard(t) ==
  /\ Alive(t) /\ pc[t] = "write"
  /\ \/ /\ guards' = guards
        /\ Goto(t, "exists")
     \/ /\ "writeGuard" \in Faulty
        /\ guards' = [guards EXCEPT ![gen[t]] = NoTxn]
        /\ Goto(t, "failed")
  /\ UNCHANGED <<lock, gen, tries, outcome, ownerReleasable,
                 guardReleasable, temps, dead, overlapped, verdictVars>>

(* fileExists(lockPath) under the guard: an absent lock counts as taken    *)
(* over.                                                                   *)
CheckExists(t) ==
  /\ Alive(t) /\ pc[t] = "exists"
  /\ IF lock = NoTxn
       THEN Goto(t, "mark") /\ outcome' = [outcome EXCEPT ![t] = "retry"]
       ELSE Goto(t, "recheck") /\ outcome' = outcome
  /\ UNCHANGED <<lock, guards, gen, tries, ownerReleasable,
                 guardReleasable, temps, dead, overlapped, verdictVars>>

(* Second isStaleOwnerFile, under the guard: the lock is read again ...    *)
Recheck(t) ==
  /\ Alive(t) /\ pc[t] = "recheck"
  /\ Reads(t, TokenOf(lock))
  /\ Goto(t, "rejudge")
  /\ UNCHANGED <<lock, guards, gen, tries, outcome, ownerReleasable,
                 guardReleasable, temps, dead, overlapped, slipped>>

(* Mutant of Rejudge: the verdict reached before the guard is trusted.     *)
RejudgeTrusting(t) ==
  /\ Alive(t) /\ pc[t] = "rejudge"
  /\ Judged(t) /\ Goto(t, "steal")
  /\ UNCHANGED <<lock, guards, gen, tries, outcome, ownerReleasable,
                 guardReleasable, temps, dead, overlapped, slipped>>

(* ... and judged again.                                                   *)
Rejudge(t) ==
  /\ Alive(t) /\ pc[t] = "rejudge"
  /\ IF StaleRead(t, ownerReleasable)
       THEN Goto(t, "steal") /\ outcome' = outcome /\ Slip(t, lock)
       ELSE /\ Goto(t, "mark") /\ outcome' = [outcome EXCEPT ![t] = "refused"]
            /\ slipped' = slipped
  /\ Judged(t)
  /\ UNCHANGED <<lock, guards, gen, tries, ownerReleasable,
                 guardReleasable, temps, dead, overlapped>>

(* rename(lockPath, stalePath) moves whatever lock file is there; ENOENT   *)
(* and other errors propagate.                                             *)
Steal(t) ==
  /\ Alive(t) /\ pc[t] = "steal"
  /\ \/ /\ lock # NoTxn
        /\ lock' = NoTxn
        /\ outcome' = [outcome EXCEPT ![t] = "retry"]
     \/ /\ lock = NoTxn \/ "rename" \in Faulty
        /\ lock' = lock
        /\ outcome' = [outcome EXCEPT ![t] = "failed"]
  /\ Goto(t, "mark")
  /\ UNCHANGED <<guards, gen, tries, ownerReleasable, guardReleasable,
                 temps, dead, overlapped, verdictVars>>

(* finally: the guard's token becomes releasable before its file goes.     *)
MarkGuard(t) ==
  /\ Alive(t) /\ pc[t] = "mark"
  /\ guardReleasable' = guardReleasable \cup {t}
  /\ Goto(t, "unguard")
  /\ UNCHANGED <<lock, guards, gen, tries, outcome, ownerReleasable,
                 temps, dead, overlapped, verdictVars>>

(* unlink(guard.path); a failure leaves the file and the releasable token. *)
Unguard(t) ==
  /\ Alive(t) /\ pc[t] = "unguard"
  /\ \/ /\ guards' = [guards EXCEPT ![gen[t]] = NoTxn]
        /\ guardReleasable' = guardReleasable \ {t}
     \/ /\ "unlinkGuard" \in Faulty
        /\ UNCHANGED <<guards, guardReleasable>>
  /\ Goto(t, IF outcome[t] = "retry" THEN "link" ELSE outcome[t])
  /\ UNCHANGED <<lock, gen, tries, outcome, ownerReleasable, temps, dead,
                 overlapped, verdictVars>>

(* recoverInterruptedTransaction as far as staged temporaries go: without  *)
(* a journal they are dropped only on the evidence of a recovered lock.    *)
Recover(t) ==
  /\ Alive(t) /\ pc[t] = "recover"
  /\ \/ /\ temps' = IF RecoveredStale(t) THEN {} ELSE temps
        /\ Goto(t, "action")
     \/ /\ "recover" \in Faulty
        /\ temps' = temps
        /\ Goto(t, "closing")
  /\ UNCHANGED <<lock, guards, gen, tries, outcome, ownerReleasable,
                 guardReleasable, dead, overlapped, verdictVars>>

(* commitMutations writes its temporaries ...                              *)
Stage(t) ==
  /\ Alive(t) /\ pc[t] = "action"
  /\ temps' = temps \cup {t}
  /\ Goto(t, "staged")
  /\ UNCHANGED <<lock, guards, gen, tries, outcome, ownerReleasable,
                 guardReleasable, dead, overlapped, verdictVars>>

(* ... which the journal accounts for once it is published, or which are   *)
(* unlinked when the commit fails before that.                             *)
Unstage(t) ==
  /\ Alive(t) /\ pc[t] = "staged"
  /\ \/ temps' = temps \ {t}
     \/ "unlinkTemp" \in Faulty /\ temps' = temps
  /\ Goto(t, "closing")
  /\ UNCHANGED <<lock, guards, gen, tries, outcome, ownerReleasable,
                 guardReleasable, dead, overlapped, verdictVars>>

(* The action returns without a commit.                                    *)
Return(t) ==
  /\ Alive(t) /\ pc[t] = "action"
  /\ Goto(t, "closing")
  /\ UNCHANGED <<lock, guards, gen, tries, outcome, ownerReleasable,
                 guardReleasable, temps, dead, overlapped, verdictVars>>

(* finally: the owner's token becomes releasable, then releaseOwnedLock    *)
(* reads the lock file ...                                                 *)
Close(t) ==
  /\ Alive(t) /\ pc[t] = "closing"
  /\ ownerReleasable' = ownerReleasable \cup {t}
  /\ Goto(t, "readOwn")
  /\ UNCHANGED <<lock, guards, gen, tries, outcome, guardReleasable, temps,
                 dead, overlapped, verdictVars>>

ReadOwn(t) ==
  /\ Alive(t) /\ pc[t] = "readOwn"
  /\ IF lock = t
       THEN Goto(t, "unlock") /\ UNCHANGED ownerReleasable
       ELSE Goto(t, "done") /\ ownerReleasable' = ownerReleasable \ {t}
  /\ UNCHANGED <<lock, guards, gen, tries, outcome, guardReleasable, temps,
                 dead, overlapped, verdictVars>>

(* ... and unlinks whatever lock file is there by then.                    *)
Unlock(t) ==
  /\ Alive(t) /\ pc[t] = "unlock"
  /\ \/ /\ lock' = NoTxn
        /\ ownerReleasable' = ownerReleasable \ {t}
     \/ /\ "unlock" \in Faulty
        /\ UNCHANGED <<lock, ownerReleasable>>
  /\ Goto(t, "done")
  /\ UNCHANGED <<guards, gen, tries, outcome, guardReleasable, temps, dead,
                 overlapped, verdictVars>>

(* A process dies between any two file-system calls.                       *)
Crash(p) ==
  /\ p \notin dead
  /\ dead' = dead \cup {p}
  /\ UNCHANGED <<pc, lock, guards, gen, tries, outcome, ownerReleasable,
                 guardReleasable, temps, overlapped, verdictVars>>

Continue(t) ==
  \/ Link(t) \/ Inspect(t) \/ JudgeLock(t)
  \/ ListGuards(t) \/ ReadGuard(t) \/ JudgeGuard(t) \/ OpenGuard(t) \/ WriteGuard(t)
  \/ CheckExists(t) \/ Recheck(t) \/ Rejudge(t) \/ Steal(t) \/ MarkGuard(t) \/ Unguard(t)
  \/ Recover(t) \/ Stage(t) \/ Unstage(t) \/ Return(t)
  \/ Close(t) \/ ReadOwn(t) \/ Unlock(t)

Next ==
  \/ \E t \in Txn : Start(t) \/ Continue(t)
  \/ \E p \in Proc : Crash(p)

Spec == Init /\ [][Next]_vars

(* A started call is driven by its event loop until its process dies; no   *)
(* fairness for Start (nobody has to call) nor for Crash.                  *)
FairSpec == Spec /\ \A t \in Txn : WF_vars(Continue(t))

---------------------------------------------------------------------------
TypeOK ==
  /\ pc \in [Txn -> Phases]
  /\ lock \in Txn \cup {NoTxn}
  /\ guards \in [Generation -> Txn \cup {NoTxn}]
  /\ gen \in [Txn -> {0} \cup Generation]
  /\ \A t \in Txn : pc[t] \in {"readGuard", "open", "write"} \cup GuardPhases => gen[t] # 0
  /\ tries \in [Txn -> 0..MaxTries]
  /\ outcome \in [Txn -> {"none", "retry", "refused", "failed"}]
  /\ \A t \in Txn : pc[t] \in {"mark", "unguard"} => outcome[t] # "none"
  /\ \A t \in Txn : FirstAttempt(t) => outcome[t] = "none" /\ tries[t] < MaxTries
  /\ ownerReleasable \subseteq Txn
  /\ guardReleasable \subseteq Txn
  /\ temps \subseteq Txn
  /\ dead \subseteq Proc
  /\ read \in [Txn -> SUBSET Txn] /\ slipped \in BOOLEAN
  /\ overlapped \subseteq Txn

(* Two live transactions are never both between the success of their link  *)
(* and the end of their action: a project has one writer at a time.        *)
MutualExclusion ==
  \A s, t \in Txn : InSection(s) /\ InSection(t) => s = t

(* The recovery guard elects one recoverer: two live transactions are      *)
(* never both inside the guarded part of recoverStaleOwnerLock, where the  *)
(* lock is rechecked and renamed away.                                     *)
OneRecoverer ==
  \A s, t \in Txn : Guarding(s) /\ Guarding(t) => s = t

(* Calls that a process runs one at a time have one writer and one         *)
(* recoverer, whoever dies whenever, as long as no recovery slips: nothing *)
(* else can make two, neither stale listings nor guards that are passed    *)
(* over, left blank or left behind, nor a takeover that races a release.   *)
OneWriterUnlessSlipped    == ~slipped => MutualExclusion
OneRecovererUnlessSlipped == ~slipped => OneRecoverer

(* The inductive strengthening of the two.  A call is gone once it ended   *)
(* or its process died: it will not touch a file any more.  A lock or a    *)
(* guard that a serialised process judges stale is one of a call that is   *)
(* gone, hence it stays until a guard holder renames it away (the lock) or *)
(* for ever (a guard): the generations below a guard are all left over.    *)
Gone(t) == ~Alive(t) \/ pc[t] \in EndPhases
Opening == {"open", "write"} \cup GuardPhases
LeftOver(g) == guards[g] # NoTxn /\ Gone(guards[g])
OneCallPerProcess ==
  \A s, t \in Txn : Live(s) /\ Live(t) /\ Host[s] = Host[t] => s = t
OwnerHasLock ==
  \A t \in Txn : Live(t) /\ pc[t] \in OwnerPhases => lock = t
LockHasOwner ==
  \A t \in Txn : lock = t => pc[t] \in OwnerPhases \cup {"done"}
StealsLeftOver ==
  \A t \in Txn : Live(t) /\ pc[t] = "steal" => lock # NoTxn /\ Gone(lock)
GuardHasFile ==
  \A t \in Txn : Live(t) /\ pc[t] \in Opening \ {"open"} => guards[gen[t]] = t
FileHadGuard ==
  \A t \in Txn, g \in Generation : guards[g] = t => ~FirstAttempt(t)
LeftOverBelowOpening ==
  \A t \in Txn, g \in Generation :
    Live(t) /\ pc[t] \in Opening /\ g < gen[t] => LeftOver(g)
LeftOverBelowGuard ==
  \A g, h \in Generation : guards[h] # NoTxn /\ g < h => LeftOver(g)
LockInv ==
  /\ OneCallPerProcess /\ OwnerHasLock /\ LockHasOwner /\ StealsLeftOver
  /\ GuardHasFile /\ FileHadGuard
  /\ LeftOverBelowOpening /\ LeftOverBelowGuard
LockInvUnlessSlipped == ~slipped => LockInv

(* A live owner keeps its lock until its own unlink, as long as no         *)
(* recovery slips: no takeover renames it away, and no other transaction's *)
(* release removes it, whatever was read before.                           *)
LiveLockKept ==
  [][\A t \in Txn :
       ~slipped /\ lock = t /\ Live(t) /\ lock' # t => pc[t] = "unlock" /\ pc'[t] = "done"
    ]_vars

(* The orphan scan never drops the temporaries of a transaction that is    *)
(* still staging, as long as no recovery slips: what disappears in another *)
(* call's step belongs to a dead process or to a call that has ended.      *)
ScanSparesLiveStaging ==
  [][\A t \in Txn :
       ~slipped /\ t \in temps /\ t \notin temps' /\ Live(t) => pc[t] = "staged" /\ pc'[t] = "closing"
    ]_vars

(* A call that no other call overlapped is refused with writeInProgress    *)
(* only because of a file that a live foreign process left behind (a       *)
(* failed unlink) or of a guard file whose writer died before writing it   *)
(* and which is not five minutes old: a crash alone never locks out.       *)
Residue(t) ==
  \/ lock # NoTxn /\ Alive(lock) /\ Host[lock] # Host[t]
  \/ \E g \in Generation : Blank(g)
  \/ \E g \in Generation :
       guards[g] # NoTxn /\ Alive(guards[g]) /\ Host[guards[g]] # Host[t]
RefusalJustified ==
  [][\A t \in Txn :
       pc[t] # "refused" /\ pc'[t] = "refused" => t \in overlapped \/ Residue(t)
    ]_vars

(* Every call that starts ends (committed, refused or failed) unless its   *)
(* process dies: the retries of the lock and of the guard are bounded, and *)
(* nobody waits for anybody.                                               *)
CallsEnd == []<>(\A t \in Txn : ~Live(t))
=============================================================================
