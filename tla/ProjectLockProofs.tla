------------------------- MODULE ProjectLockProofs -------------------------
(***************************************************************************)
(* Theorems about ProjectLock, for every set of calls and processes.       *)
(*                                                                         *)
(* Type correctness holds of every behaviour, and so does that refusals    *)
(* are justified.  Mutual exclusion and what goes with it need what the    *)
(* counterexamples of the model checker point to: a process runs one call  *)
(* at a time, and no recovery has slipped.                                 *)
(***************************************************************************)
EXTENDS ProjectLock, TLAPS

USE HostAssumption, NoTxnAssumption, BoundAssumption, FlagAssumption

(* The variables have their types in every reachable state; with it, a     *)
(* guard generation is chosen before it is used and the rounds of          *)
(* acquireRecoveryGuard are bounded.                                       *)
THEOREM TypeCorrect == Spec => []TypeOK
<1> USE DEF TypeOK, Phases, GuardPhases, OwnerPhases, EndPhases, Generation,
           FirstAttempt, verdictVars
<1>1. Init => TypeOK
  <2>1. Init => read \in [Txn -> SUBSET Txn]
    BY DEF Init
  <2>2. Init => guards \in [Generation -> Txn \cup {NoTxn}]
    BY DEF Init
  <2>3. Init => tries \in [Txn -> 0..MaxTries] /\ \A t \in Txn : tries[t] < MaxTries
    BY DEF Init
  <2>4. Init => gen \in [Txn -> {0} \cup Generation] /\ pc \in [Txn -> Phases]
    BY DEF Init
  <2>5. Init => outcome \in [Txn -> {"none", "retry", "refused", "failed"}]
    BY DEF Init
  <2>6. Init => lock \in Txn \cup {NoTxn} /\ slipped \in BOOLEAN
    BY DEF Init
  <2> QED BY <2>1, <2>2, <2>3, <2>4, <2>5, <2>6 DEF Init
<1>2. ASSUME TypeOK, [Next]_vars PROVE TypeOK'
  <2>1. ASSUME NEW t \in Txn, Start(t) PROVE TypeOK'
    BY <1>2, <2>1 DEF Start, Goto
  <2>2. ASSUME NEW t \in Txn, Link(t) PROVE TypeOK'
    <3>1. PICK ph \in {"recover", "refused", "inspect", "failed"} :
            /\ pc' = [pc EXCEPT ![t] = ph]
            /\ ph = "inspect" => ~RecoveredStale(t)
      BY <2>2 DEF Link, Goto
    <3>2. lock' \in {lock, t}
      BY <2>2 DEF Link
    <3>3. QED
      BY <1>2, <2>2, <3>1, <3>2 DEF Link, RecoveredStale
  <2>3. ASSUME NEW t \in Txn, Inspect(t) \/ JudgeLock(t) PROVE TypeOK'
    <3>1. PICK ph \in {"judgeLock", "list", "refused"}, T \in SUBSET Txn :
            pc' = [pc EXCEPT ![t] = ph] /\ read' = [read EXCEPT ![t] = T]
      BY <1>2, <2>3 DEF Inspect, JudgeLock, Judged, Reads, TokenOf, Goto
    <3>2. QED
      BY <1>2, <2>3, <3>1 DEF Inspect, JudgeLock
  <2>4. ASSUME NEW t \in Txn, ListGuards(t) PROVE TypeOK'
    <3>1. PICK ph \in {"judge", "readGuard"}, g \in {0} \cup Generation :
            /\ pc' = [pc EXCEPT ![t] = ph] /\ gen' = [gen EXCEPT ![t] = g]
            /\ ph = "readGuard" => g # 0
      BY <2>4 DEF ListGuards, Goto
    <3>2. QED
      BY <1>2, <2>4, <3>1 DEF ListGuards
  <2>23. ASSUME NEW t \in Txn, ReadGuard(t) PROVE TypeOK'
    <3>1. PICK T \in SUBSET Txn : read' = [read EXCEPT ![t] = T]
      <4>1. gen[t] \in {0} \cup Generation
        BY <1>2
      <4>2. CASE Blank(gen[t])
        BY <2>23, <4>2 DEF ReadGuard, Reads
      <4>3. CASE ~Blank(gen[t]) /\ gen[t] \in Generation
        <5>1. TokenOf(guards[gen[t]]) \in SUBSET Txn
          BY <1>2, <4>3 DEF TokenOf
        <5> QED BY <2>23, <4>3, <5>1 DEF ReadGuard, Reads
      <4>4. gen[t] # 0
        BY <1>2, <2>23 DEF ReadGuard
      <4> QED BY <4>1, <4>2, <4>3, <4>4
    <3>2. QED
      BY <1>2, <2>23, <3>1 DEF ReadGuard, Goto
  <2>5. ASSUME NEW t \in Txn, JudgeGuard(t) PROVE TypeOK'
    <3> /\ read' = [read EXCEPT ![t] = {}]
        /\ slipped' \in BOOLEAN
      BY <1>2, <2>5 DEF JudgeGuard, Judged, Reads, Slip
    <3>1. CASE pc' = [pc EXCEPT ![t] = "refused"] /\ gen' = gen
      BY <1>2, <2>5, <3>1 DEF JudgeGuard
    <3>2. CASE /\ gen[t] < MaxGeneration
               /\ pc' = [pc EXCEPT ![t] = "open"]
               /\ gen' = [gen EXCEPT ![t] = @ + 1]
      <4>1. gen[t] + 1 \in Generation
        <5>1. gen[t] \in 0..MaxGeneration
          BY <1>2
        <5>2. QED
          BY <3>2, <5>1
      <4>2. QED
        BY <1>2, <2>5, <3>2, <4>1 DEF JudgeGuard
    <3>3. CASE pc' = [pc EXCEPT ![t] = "failed"] /\ gen' = gen
      BY <1>2, <2>5, <3>3 DEF JudgeGuard
    <3>4. QED
      BY <2>5, <3>1, <3>2, <3>3 DEF JudgeGuard, Goto
  <2>6. ASSUME NEW t \in Txn, OpenGuard(t) PROVE TypeOK'
    <3>1. gen[t] \in Generation /\ tries[t] + 1 \in 0..MaxTries
      BY <1>2, <2>6 DEF OpenGuard
    <3> slipped' \in BOOLEAN
      BY <1>2, <2>6 DEF OpenGuard
    <3>2. CASE guards' = [guards EXCEPT ![gen[t]] = t] /\ tries' = tries
               /\ pc' = [pc EXCEPT ![t] = "write"]
      BY <1>2, <2>6, <3>1, <3>2 DEF OpenGuard
    <3>3. CASE guards' = guards /\ tries' = [tries EXCEPT ![t] = @ + 1]
               /\ pc' = [pc EXCEPT ![t] = IF tries[t] + 1 < MaxTries
                                           THEN "list" ELSE "refused"]
      BY <1>2, <2>6, <3>1, <3>3 DEF OpenGuard
    <3>4. CASE guards' = [guards EXCEPT ![gen[t]] = NoTxn] /\ tries' = tries
               /\ pc' = [pc EXCEPT ![t] = "failed"]
      BY <1>2, <2>6, <3>1, <3>4 DEF OpenGuard
    <3>5. QED
      BY <2>6, <3>2, <3>3, <3>4 DEF OpenGuard, Goto
  <2>7. ASSUME NEW t \in Txn, WriteGuard(t) PROVE TypeOK'
    BY <1>2, <2>7 DEF WriteGuard, Goto
  <2>8. ASSUME NEW t \in Txn, CheckExists(t) PROVE TypeOK'
    BY <1>2, <2>8 DEF CheckExists, Goto
  <2>9. ASSUME NEW t \in Txn, Recheck(t) \/ Rejudge(t) PROVE TypeOK'
    <3>1. PICK ph \in {"rejudge", "steal", "mark"}, T \in SUBSET Txn :
            pc' = [pc EXCEPT ![t] = ph] /\ read' = [read EXCEPT ![t] = T]
      BY <1>2, <2>9 DEF Recheck, Rejudge, Judged, Reads, TokenOf, Goto
    <3>2. slipped' \in BOOLEAN /\ (pc'[t] = "mark" => outcome' = [outcome EXCEPT ![t] = "refused"])
      BY <1>2, <2>9 DEF Recheck, Rejudge, Slip, Goto
    <3>3. outcome' = outcome \/ outcome' = [outcome EXCEPT ![t] = "refused"]
      BY <2>9 DEF Recheck, Rejudge
    <3>4. QED
      BY <1>2, <2>9, <3>1, <3>2, <3>3 DEF Recheck, Rejudge
  <2>10. ASSUME NEW t \in Txn, Steal(t) PROVE TypeOK'
    BY <1>2, <2>10 DEF Steal, Goto
  <2>11. ASSUME NEW t \in Txn, MarkGuard(t) PROVE TypeOK'
    BY <1>2, <2>11 DEF MarkGuard, Goto
  <2>12. ASSUME NEW t \in Txn, Unguard(t) PROVE TypeOK'
    BY <1>2, <2>12 DEF Unguard, Goto
  <2>13. ASSUME NEW t \in Txn, Recover(t) PROVE TypeOK'
    <3>1. PICK ph \in {"action", "closing"} : pc' = [pc EXCEPT ![t] = ph]
      BY <2>13 DEF Recover, Goto
    <3>2. temps' \subseteq Txn
      BY <1>2, <2>13 DEF Recover
    <3>3. QED
      BY <1>2, <2>13, <3>1, <3>2 DEF Recover
  <2>14. ASSUME NEW t \in Txn, Stage(t) PROVE TypeOK'
    BY <1>2, <2>14 DEF Stage, Goto
  <2>15. ASSUME NEW t \in Txn, Unstage(t) PROVE TypeOK'
    BY <1>2, <2>15 DEF Unstage, Goto
  <2>16. ASSUME NEW t \in Txn, Return(t) PROVE TypeOK'
    BY <1>2, <2>16 DEF Return, Goto
  <2>17. ASSUME NEW t \in Txn, Close(t) PROVE TypeOK'
    BY <1>2, <2>17 DEF Close, Goto
  <2>18. ASSUME NEW t \in Txn, ReadOwn(t) PROVE TypeOK'
    BY <1>2, <2>18 DEF ReadOwn, Goto
  <2>19. ASSUME NEW t \in Txn, Unlock(t) PROVE TypeOK'
    BY <1>2, <2>19 DEF Unlock, Goto
  <2>20. ASSUME NEW p \in Proc, Crash(p) PROVE TypeOK'
    BY <1>2, <2>20 DEF Crash
  <2>21. CASE UNCHANGED vars
    BY <1>2, <2>21 DEF vars
  <2>22. QED
    BY <1>2, <2>1, <2>2, <2>3, <2>4, <2>5, <2>6, <2>7, <2>8, <2>9, <2>10,
       <2>11, <2>12, <2>13, <2>14, <2>15, <2>16, <2>17, <2>18, <2>19, <2>20,
       <2>21, <2>23 DEF Next, Continue
<1>3. QED
  BY <1>1, <1>2, PTL DEF Spec

(* What one file-system call of a running call can do, told by the phases  *)
(* it leaves and enters instead of by the action it belongs to.  When it   *)
(* does not slip, what it judged stale is what is in the file.             *)
OnlyMoves(t) ==
  /\ Live(t) /\ dead' = dead
  /\ \A u \in Txn \ {t} : pc'[u] = pc[u] /\ gen'[u] = gen[u] /\ outcome'[u] = outcome[u]
LockStep(t) ==
  \/ /\ lock' = lock
     /\ pc'[t] \in OwnerPhases => pc[t] \in OwnerPhases
     /\ pc[t] \in OwnerPhases => pc'[t] \in OwnerPhases \cup {"done"}
  \/ lock = NoTxn /\ lock' = t /\ pc'[t] = "recover"
  \/ lock' = NoTxn /\ pc[t] = "steal" /\ pc'[t] = "mark"
  \/ lock' = NoTxn /\ pc[t] = "unlock" /\ pc'[t] = "done"
StaleLock(t) == lock # NoTxn /\ StaleFor(t, lock, ownerReleasable)
StealStep(t) ==
  pc'[t] = "steal" => pc[t] = "rejudge" /\ StaleLock(t) /\ lock' = lock
StaleGuard(t, g) ==
  guards[g] # NoTxn /\ (TooOld(g) \/ StaleFor(t, guards[g], guardReleasable))
GuardStep(t) ==
  \/ /\ guards' = guards
     /\ pc'[t] \in Opening => \/ /\ pc[t] \in Opening \ {"open"}
                                 /\ pc'[t] \in Opening \ {"open"}
                                 /\ gen'[t] = gen[t]
                              \/ /\ pc[t] = "judge" /\ pc'[t] = "open"
                                 /\ gen'[t] = gen[t] + 1
                                 /\ gen[t] # 0 => StaleGuard(t, gen[t])
  \/ /\ pc[t] = "open" /\ pc'[t] = "write" /\ gen'[t] = gen[t]
     /\ guards[gen[t]] = NoTxn
     /\ guards' = [guards EXCEPT ![gen[t]] = t]
  \/ /\ pc[t] \in {"write", "unguard"} /\ pc'[t] \notin Opening
     /\ guards' = [guards EXCEPT ![gen[t]] = NoTxn]
AttemptStep(t) == ~FirstAttempt(t) => ~FirstAttempt(t)'

LEMMA StepShape ==
  ASSUME TypeOK, NEW t \in Txn, Continue(t), ~slipped'
  PROVE  OnlyMoves(t) /\ LockStep(t) /\ StealStep(t) /\ GuardStep(t) /\ AttemptStep(t)
<1> USE DEF OnlyMoves, LockStep, StealStep, GuardStep, AttemptStep, TypeOK, Goto,
            Live, Running, FirstAttempt, RecoveredStale, Opening,
            Phases, GuardPhases, OwnerPhases, EndPhases
<1>1. CASE Link(t)
  BY <1>1 DEF Link
<1>2. CASE Inspect(t)
  BY <1>2 DEF Inspect
<1>3. CASE ListGuards(t)
  BY <1>3 DEF ListGuards
<1>4. CASE JudgeGuard(t)
  <2>1. ASSUME pc'[t] = "open", gen[t] # 0 PROVE StaleGuard(t, gen[t])
    <3>1. MayJudgeStale(t, gen[t]) /\ Slip(t, guards[gen[t]])
      BY <1>4, <2>1 DEF JudgeGuard
    <3>2. \A u \in read[t] : guards[gen[t]] = u
      BY <3>1 DEF Slip
    <3> QED BY <3>1, <3>2 DEF MayJudgeStale, StaleRead, StaleGuard, TooOld, Blank
  <2> QED BY <1>4, <2>1 DEF JudgeGuard
<1>5. CASE OpenGuard(t)
  <2>1. \/ guards' = [guards EXCEPT ![gen[t]] = t] /\ guards[gen[t]] = NoTxn
           /\ pc' = [pc EXCEPT ![t] = "write"]
        \/ guards' = guards /\ pc'[t] \notin Opening
    <3>1. CASE guards' = [guards EXCEPT ![gen[t]] = NoTxn] /\ pc'[t] = "failed"
      <4>1. guards[gen[t]] = NoTxn \/ slipped'
        BY <1>5, <3>1 DEF OpenGuard
      <4> QED BY <1>5, <3>1, <4>1
    <3> QED BY <1>5, <3>1 DEF OpenGuard
  <2> QED BY <1>5, <2>1 DEF OpenGuard
<1>6. CASE WriteGuard(t)
  BY <1>6 DEF WriteGuard
<1>7. CASE CheckExists(t)
  BY <1>7 DEF CheckExists
<1>8. CASE Recheck(t)
  BY <1>8 DEF Recheck
<1>9. CASE Steal(t)
  BY <1>9 DEF Steal
<1>10. CASE MarkGuard(t)
  BY <1>10 DEF MarkGuard
<1>11. CASE Unguard(t)
  BY <1>11 DEF Unguard
<1>12. CASE Recover(t)
  BY <1>12 DEF Recover
<1>13. CASE Stage(t)
  BY <1>13 DEF Stage
<1>14. CASE Unstage(t)
  BY <1>14 DEF Unstage
<1>15. CASE Return(t)
  BY <1>15 DEF Return
<1>16. CASE Close(t)
  BY <1>16 DEF Close
<1>17. CASE ReadOwn(t)
  BY <1>17 DEF ReadOwn
<1>18. CASE Unlock(t)
  BY <1>18 DEF Unlock
<1>19. CASE JudgeLock(t) \/ ReadGuard(t)
  BY <1>19 DEF JudgeLock, ReadGuard
<1>20. CASE Rejudge(t)
  <2>1. ASSUME pc'[t] = "steal" PROVE StaleLock(t)
    <3>1. StaleRead(t, ownerReleasable) /\ Slip(t, lock)
      BY <1>20, <2>1 DEF Rejudge
    <3> QED BY <3>1 DEF Slip, StaleRead, StaleLock
  <2> QED BY <1>20, <2>1 DEF Rejudge
<1>21. QED
  BY <1>1, <1>2, <1>3, <1>4, <1>5, <1>6, <1>7, <1>8, <1>9, <1>10, <1>11, <1>12, <1>13,
     <1>14, <1>15, <1>16, <1>17, <1>18, <1>19, <1>20 DEF Continue

(* A slip is remembered.                                                   *)
LEMMA SlipStays ==
  ASSUME TypeOK, [Next]_vars, slipped
  PROVE  slipped'
<1>1. ASSUME NEW t \in Txn, Continue(t) PROVE slipped'
  BY <1>1 DEF Continue, Link, Inspect, JudgeLock, ListGuards, ReadGuard, JudgeGuard, OpenGuard,
     WriteGuard, CheckExists, Recheck, Rejudge, Steal, MarkGuard, Unguard, Recover, Stage,
     Unstage, Return, Close, ReadOwn, Unlock, Slip, verdictVars
<1> QED BY <1>1 DEF Next, Start, Crash, vars, verdictVars

(* What removes a lock, whether or not a recovery slips.                   *)
LEMMA LockStepShape ==
  ASSUME TypeOK, NEW t \in Txn, Continue(t), lock # NoTxn, lock' # lock
  PROVE  OnlyMoves(t) /\ (pc[t] = "steal" \/ (pc[t] = "unlock" /\ pc'[t] = "done"))
BY DEF OnlyMoves, Live, Running, EndPhases, TypeOK, Goto, Continue, Link, Inspect, JudgeLock,
   ListGuards, ReadGuard, JudgeGuard, OpenGuard, WriteGuard, CheckExists, Recheck, Rejudge,
   Steal, MarkGuard, Unguard, Recover, Stage, Unstage, Return, Close, ReadOwn, Unlock

(* A call that is gone stays gone, and only a call that is not can move.   *)
LEMMA GoneStays ==
  ASSUME NEW t \in Txn, OnlyMoves(t), NEW u \in Txn
  PROVE  (Gone(u) => Gone(u)' /\ u # t) /\ (Live(u)' => Live(u))
BY DEF OnlyMoves, Gone, Live, Alive, Running, EndPhases

(* Two guard holders own the files of their generations; were these        *)
(* different, the lower one would be left over by a call that is gone.     *)
LEMMA OneGuard ==
  ASSUME TypeOK, LockInv, NEW s \in Txn, NEW t \in Txn,
         Live(s), pc[s] \in Opening \ {"open"},
         Live(t), pc[t] \in Opening \ {"open"}
  PROVE  s = t
<1>1. /\ guards[gen[s]] = s /\ guards[gen[t]] = t
      /\ gen[s] \in Generation /\ gen[t] \in Generation
  BY DEF LockInv, GuardHasFile, TypeOK, Opening, GuardPhases, Generation
<1>2. ~Gone(s) /\ ~Gone(t)
  BY DEF Gone, Live, Running, EndPhases
<1>3. ~(gen[s] < gen[t]) /\ ~(gen[t] < gen[s])
  BY <1>1, <1>2 DEF LockInv, LeftOverBelowGuard, LeftOver
<1>4. gen[s] = gen[t]
  BY <1>1, <1>3 DEF Generation
<1>5. QED
  BY <1>1, <1>4

(* What a serialised process judges stale is of a call that is gone: the   *)
(* process is dead, or it runs the judging call and so no other.           *)
LEMMA StaleIsGone ==
  ASSUME LockInv, NEW t \in Txn, NEW u \in Txn, Live(t), u # t,
         pc[u] # "idle", NEW releasable, StaleFor(t, u, releasable)
  PROVE  Gone(u)
BY DEF LockInv, OneCallPerProcess, StaleFor, Gone, Live, Alive, Running

(* The file of a call that is gone is never removed nor replaced.          *)
LEMMA LeftOverStays ==
  ASSUME TypeOK, LockInv, NEW t \in Txn, OnlyMoves(t), GuardStep(t),
         NEW g \in Generation, LeftOver(g)
  PROVE  LeftOver(g)' /\ guards'[g] = guards[g]
<1>1. guards[g] \in Txn /\ Gone(guards[g]) /\ guards[g] # t
  BY GoneStays DEF LeftOver, TypeOK
<1>2. guards'[g] = guards[g]
  BY <1>1 DEF GuardStep, LockInv, GuardHasFile, OnlyMoves, TypeOK, Opening, GuardPhases
<1>3. QED
  BY <1>1, <1>2, GoneStays DEF LeftOver

LEMMA ContinueKeepsLockInv ==
  ASSUME TypeOK, LockInv, NEW t \in Txn, Continue(t), ~slipped'
  PROVE  LockInv'
<1>0. OnlyMoves(t) /\ LockStep(t) /\ StealStep(t) /\ GuardStep(t) /\ AttemptStep(t)
  BY StepShape
<1>1. OneCallPerProcess'
  BY <1>0, GoneStays DEF LockInv, OneCallPerProcess
<1>2. OwnerHasLock'
  <2>. SUFFICES ASSUME NEW u \in Txn, Live(u)', pc'[u] \in OwnerPhases
                PROVE  lock' = u
    BY DEF OwnerHasLock
  <2>1. Live(u) /\ ~Gone(u)
    BY <1>0, GoneStays DEF Gone, Live, Running
  <2>2. u # t => pc[u] \in OwnerPhases
    BY <1>0 DEF OnlyMoves
  <2>3. pc[u] \in OwnerPhases => lock = u
    BY <2>1 DEF LockInv, OwnerHasLock
  <2>4. QED
    BY <1>0, <2>1, <2>2, <2>3
    DEF LockStep, OnlyMoves, LockInv, OwnerHasLock, StealsLeftOver, OwnerPhases
<1>3. LockHasOwner'
  <2>. SUFFICES ASSUME NEW u \in Txn, lock' = u
                PROVE  pc'[u] \in OwnerPhases \cup {"done"}
    BY DEF LockHasOwner
  <2>1. CASE lock = u
    <3>1. pc[u] \in OwnerPhases \cup {"done"}
      BY <2>1 DEF LockInv, LockHasOwner
    <3>2. CASE u = t
      BY <1>0, <2>1, <3>1, <3>2 DEF LockStep, OnlyMoves, Live, Running, EndPhases, OwnerPhases
    <3>3. CASE u # t
      BY <1>0, <3>1, <3>3 DEF OnlyMoves
    <3>4. QED
      BY <3>2, <3>3
  <2>2. CASE lock # u
    BY <1>0, <2>2 DEF LockStep, OwnerPhases
  <2>3. QED
    BY <2>1, <2>2
<1>4. StealsLeftOver'
  <2>. SUFFICES ASSUME NEW u \in Txn, Live(u)', pc'[u] = "steal"
                PROVE  lock' # NoTxn /\ Gone(lock)'
    BY DEF StealsLeftOver
  <2>1. CASE u = t
    <3>1. pc[t] = "rejudge" /\ StaleLock(t) /\ lock' = lock
      BY <1>0, <2>1 DEF StealStep
    <3>2. lock \in Txn /\ pc[lock] \in OwnerPhases \cup {"done"}
      BY <3>1 DEF StaleLock, LockInv, LockHasOwner, TypeOK
    <3>3. lock # t /\ pc[lock] # "idle"
      BY <3>1, <3>2 DEF OwnerPhases
    <3>4. Gone(lock)
      BY <1>0, <3>1, <3>2, <3>3, StaleIsGone DEF StaleLock, OnlyMoves
    <3>5. QED
      BY <1>0, <3>1, <3>2, <3>4, GoneStays DEF Gone, Alive
  <2>2. CASE u # t
    <3>1. Live(u) /\ pc[u] = "steal"
      BY <1>0, <2>2, GoneStays DEF OnlyMoves
    <3>2. lock \in Txn /\ Gone(lock) /\ lock # t
      BY <1>0, <3>1, GoneStays DEF LockInv, StealsLeftOver, TypeOK
    <3>3. pc[t] # "steal"
      BY <1>0, <2>2, <3>1, OneGuard DEF OnlyMoves, Opening, GuardPhases
    <3>4. pc[t] # "unlock"
      BY <1>0, <3>2 DEF LockInv, OwnerHasLock, OnlyMoves, OwnerPhases
    <3>5. lock' = lock
      BY <1>0, <3>2, <3>3, <3>4 DEF LockStep
    <3>6. QED
      BY <1>0, <3>2, <3>5, GoneStays DEF Gone, Alive
  <2>3. QED
    BY <2>1, <2>2
<1>5. GuardHasFile'
  <2>. SUFFICES ASSUME NEW u \in Txn, Live(u)', pc'[u] \in Opening \ {"open"}
                PROVE  guards'[gen'[u]] = u
    BY DEF GuardHasFile
  <2>1. CASE u = t
    BY <1>0, <2>1 DEF GuardStep, OnlyMoves, LockInv, GuardHasFile, TypeOK, Opening, GuardPhases, Generation
  <2>2. CASE u # t
    <3>1. Live(u) /\ pc[u] \in Opening \ {"open"} /\ gen'[u] = gen[u]
      BY <1>0, <2>2, GoneStays DEF OnlyMoves
    <3>2. guards[gen[u]] = u /\ gen[u] \in Generation
      BY <3>1 DEF LockInv, GuardHasFile, TypeOK, Opening, GuardPhases, Generation
    <3>3. pc[t] \notin Opening \ {"open"}
      BY <1>0, <2>2, <3>1, OneGuard DEF OnlyMoves
    <3>4. QED
      BY <1>0, <3>1, <3>2, <3>3 DEF GuardStep, TypeOK, Opening, GuardPhases
  <2>3. QED
    BY <2>1, <2>2
<1>6. FileHadGuard'
  <2>. SUFFICES ASSUME NEW u \in Txn, NEW g \in Generation, guards'[g] = u
                PROVE  ~FirstAttempt(u)'
    BY DEF FileHadGuard
  <2>1. CASE guards[g] = u
    <3>1. ~FirstAttempt(u)
      BY <2>1 DEF LockInv, FileHadGuard
    <3>2. QED
      BY <1>0, <3>1 DEF AttemptStep, OnlyMoves, FirstAttempt
  <2>2. CASE guards[g] # u
    <3>1. u = t /\ pc'[t] = "write"
      BY <1>0, <2>2 DEF GuardStep, TypeOK
    <3>2. QED
      BY <3>1 DEF FirstAttempt
  <2>3. QED
    BY <2>1, <2>2
<1>7. LeftOverBelowOpening'
  <2>. SUFFICES ASSUME NEW u \in Txn, NEW g \in Generation,
                       Live(u)', pc'[u] \in Opening, g < gen'[u]
                PROVE  LeftOver(g)'
    BY DEF LeftOverBelowOpening
  <2>1. SUFFICES LeftOver(g)
    BY <1>0, LeftOverStays
  <2>2. CASE u # t
    BY <1>0, <2>2, GoneStays DEF OnlyMoves, LockInv, LeftOverBelowOpening
  <2>3. CASE u = t /\ pc[t] \in Opening
    BY <1>0, <2>3 DEF GuardStep, OnlyMoves, LockInv, LeftOverBelowOpening, Opening, GuardPhases
  <2>4. CASE u = t /\ pc[t] \notin Opening
    <3>1. /\ pc[t] = "judge" /\ gen'[t] = gen[t] + 1
          /\ gen[t] # 0 => StaleGuard(t, gen[t])
      BY <1>0, <2>4 DEF GuardStep, Opening, GuardPhases
    <3>2. gen[t] \in Generation /\ (g = gen[t] \/ g < gen[t])
      BY <3>1, <2>4 DEF TypeOK, Generation
    <3>3. guards[gen[t]] \in Txn /\ StaleGuard(t, gen[t])
      BY <3>1, <3>2 DEF StaleGuard, TypeOK, Generation
    <3>4. guards[gen[t]] # t /\ pc[guards[gen[t]]] # "idle"
      BY <3>1, <3>2, <3>3 DEF LockInv, FileHadGuard, FirstAttempt
    <3>5. Gone(guards[gen[t]])
      <4>1. CASE TooOld(gen[t])
        BY <4>1 DEF TooOld, Gone, Alive
      <4>2. CASE StaleFor(t, guards[gen[t]], guardReleasable)
        BY <1>0, <3>3, <3>4, <4>2, StaleIsGone DEF OnlyMoves
      <4>3. QED
        BY <3>3, <4>1, <4>2 DEF StaleGuard
    <3>6. QED
      BY <3>2, <3>3, <3>5 DEF LeftOver, LockInv, LeftOverBelowGuard
  <2>5. QED
    BY <2>2, <2>3, <2>4
<1>8. LeftOverBelowGuard'
  <2>. SUFFICES ASSUME NEW g \in Generation, NEW h \in Generation,
                       guards'[h] # NoTxn, g < h
                PROVE  LeftOver(g)
    BY <1>0, LeftOverStays DEF LeftOverBelowGuard
  <2>1. CASE guards[h] # NoTxn
    BY <2>1 DEF LockInv, LeftOverBelowGuard
  <2>2. CASE guards[h] = NoTxn
    <3>1. pc[t] = "open" /\ gen[t] = h
      BY <1>0, <2>2 DEF GuardStep, TypeOK
    <3>2. QED
      BY <1>0, <3>1 DEF LockInv, LeftOverBelowOpening, OnlyMoves, Opening
  <2>3. QED
    BY <2>1, <2>2
<1>9. QED
  BY <1>1, <1>2, <1>3, <1>4, <1>5, <1>6, <1>7, <1>8 DEF LockInv

LEMMA LockInvInductive ==
  ASSUME Serialised, TypeOK, LockInv, [Next]_vars, ~slipped'
  PROVE  LockInv'
<1> USE DEF LockInv, OneCallPerProcess, OwnerHasLock, LockHasOwner, StealsLeftOver,
            GuardHasFile, FileHadGuard, LeftOverBelowOpening, LeftOverBelowGuard,
            Alive, Live, Running, Gone, LeftOver, Opening, FirstAttempt
<1>1. ASSUME NEW t \in Txn, Start(t) PROVE LockInv'
  BY <1>1 DEF Start, Goto, TypeOK, Generation, Phases, GuardPhases, OwnerPhases, EndPhases
<1>2. ASSUME NEW t \in Txn, Continue(t) PROVE LockInv'
  BY <1>2, ContinueKeepsLockInv
<1>3. ASSUME NEW p \in Proc, Crash(p) PROVE LockInv'
  BY <1>3 DEF Crash, TypeOK
<1>4. CASE UNCHANGED vars
  BY <1>4 DEF vars
<1>5. QED
  BY <1>1, <1>2, <1>3, <1>4 DEF Next

(* When processes serialise their calls, then as long as no recovery has   *)
(* slipped a lock or guard that is judged stale is left over: LockInv holds *)
(* of every state before the first slip, whatever else goes wrong.         *)
THEOREM LockInvCorrect ==
  ASSUME Serialised
  PROVE  Spec => []LockInvUnlessSlipped
<1>1. Init => LockInvUnlessSlipped
  BY DEF Init, LockInvUnlessSlipped, LockInv, OneCallPerProcess, OwnerHasLock, LockHasOwner,
         StealsLeftOver, GuardHasFile, FileHadGuard, LeftOverBelowOpening, LeftOverBelowGuard,
         Live, Running
<1>2. TypeOK /\ LockInvUnlessSlipped /\ [Next]_vars => LockInvUnlessSlipped'
  BY SlipStays, LockInvInductive DEF LockInvUnlessSlipped
<1>3. QED
  BY <1>1, <1>2, TypeCorrect, PTL DEF Spec

(* OneWriterUnlessSlipped: with serialised calls a project has one writer  *)
(* in every state before the first slip.                                   *)
THEOREM OneWriter ==
  ASSUME Serialised
  PROVE  Spec => []OneWriterUnlessSlipped
<1>1. LockInvUnlessSlipped => OneWriterUnlessSlipped
  BY DEF LockInvUnlessSlipped, OneWriterUnlessSlipped, LockInv, OwnerHasLock, MutualExclusion,
         InSection, OwnerPhases
<1>2. QED
  BY <1>1, LockInvCorrect, PTL

(* OneRecovererUnlessSlipped: the guard generations elect one recovery at  *)
(* a time in every state before the first slip.                            *)
THEOREM OneRecovery ==
  ASSUME Serialised
  PROVE  Spec => []OneRecovererUnlessSlipped
<1>1. TypeOK /\ LockInvUnlessSlipped => OneRecovererUnlessSlipped
  BY OneGuard DEF LockInvUnlessSlipped, OneRecovererUnlessSlipped, OneRecoverer, Guarding,
                  Opening, GuardPhases
<1>2. QED
  BY <1>1, TypeCorrect, LockInvCorrect, PTL

(* LiveLockKept with serialised calls: between its link and its own        *)
(* unlink, nobody removes or replaces the lock of a live owner.  The step  *)
(* in which a rename follows a slip is the only one that could.            *)
THEOREM OwnerKeepsLock ==
  ASSUME Serialised
  PROVE  Spec => LiveLockKept
<1>1. ASSUME TypeOK, LockInvUnlessSlipped, [Next]_vars,
             NEW u \in Txn, ~slipped, lock = u, Live(u), lock' # u
      PROVE  pc[u] = "unlock" /\ pc'[u] = "done"
  <2>0. LockInv
    BY <1>1 DEF LockInvUnlessSlipped
  <2>1. CASE \E t \in Txn : Continue(t)
    <3>1. PICK t \in Txn : Continue(t)
      BY <2>1
    <3>2. OnlyMoves(t) /\ (pc[t] = "steal" \/ (pc[t] = "unlock" /\ pc'[t] = "done"))
      <4>1. lock # NoTxn /\ lock' # lock
        BY <1>1
      <4> QED BY <1>1, <3>1, <4>1, LockStepShape
    <3>3. pc[t] = "steal" => Gone(lock)
      BY <2>0, <3>2 DEF LockInv, StealsLeftOver, OnlyMoves
    <3>4. pc[t] = "unlock" => lock = t
      BY <2>0, <3>2 DEF LockInv, OwnerHasLock, OnlyMoves, OwnerPhases
    <3>5. QED
      BY <1>1, <3>2, <3>3, <3>4 DEF Gone, Live, Running
  <2>2. CASE ~\E t \in Txn : Continue(t)
    BY <1>1, <2>2 DEF Next, Start, Crash, vars
  <2>3. QED
    BY <2>1, <2>2
<1>2. TypeOK /\ LockInvUnlessSlipped /\ [Next]_vars
        => [\A t \in Txn : ~slipped /\ lock = t /\ Live(t) /\ lock' # t
                             => pc[t] = "unlock" /\ pc'[t] = "done"]_vars
  BY <1>1
<1>3. QED
  BY <1>2, TypeCorrect, LockInvCorrect, PTL DEF Spec, LiveLockKept

(* Temporaries belong to calls that have staged them, and as long as such  *)
(* a call lives it owns the lock.                                          *)
Staged == {"staged", "closing", "readOwn", "unlock", "done"}
StagedInv == \A t \in temps : pc[t] \in Staged

LEMMA StagedInvInductive ==
  ASSUME TypeOK, StagedInv, [Next]_vars
  PROVE  StagedInv'
<1>1. ASSUME NEW t \in Txn, Continue(t)
      PROVE  StagedInv'
  <2>1. temps' \subseteq temps \cup {t} /\ \A u \in Txn \ {t} : pc'[u] = pc[u]
    BY <1>1 DEF Continue, Link, Inspect, JudgeLock, ListGuards, ReadGuard, JudgeGuard,
         OpenGuard, WriteGuard, CheckExists, Recheck, Rejudge, Steal, MarkGuard, Unguard, Recover, Stage, Unstage, Return,
         Close, ReadOwn, Unlock, Goto, TypeOK
  <2>2. pc[t] \in Staged => pc'[t] \in Staged
    BY <1>1 DEF Continue, Link, Inspect, JudgeLock, ListGuards, ReadGuard, JudgeGuard,
         OpenGuard, WriteGuard, CheckExists, Recheck, Rejudge, Steal, MarkGuard, Unguard, Recover, Stage, Unstage, Return,
         Close, ReadOwn, Unlock, Goto, TypeOK, Staged
  <2>3. t \in temps' /\ t \notin temps => pc'[t] \in Staged
    BY <1>1 DEF Continue, Link, Inspect, JudgeLock, ListGuards, ReadGuard, JudgeGuard,
         OpenGuard, WriteGuard, CheckExists, Recheck, Rejudge, Steal, MarkGuard, Unguard, Recover, Stage, Unstage, Return,
         Close, ReadOwn, Unlock, Goto, TypeOK, Staged
  <2>4. QED
    BY <2>1, <2>2, <2>3 DEF StagedInv, TypeOK
<1>2. ASSUME NEW t \in Txn, Start(t)
      PROVE  StagedInv'
  BY <1>2 DEF Start, Goto, TypeOK, StagedInv, Staged
<1>3. ASSUME NEW p \in Proc, Crash(p)
      PROVE  StagedInv'
  BY <1>3 DEF Crash, StagedInv
<1>4. CASE UNCHANGED vars
  BY <1>4 DEF StagedInv, vars
<1>5. QED
  BY <1>1, <1>2, <1>3, <1>4 DEF Next

(* ScanSparesLiveStaging with serialised calls: before the first slip, the *)
(* scan for orphaned temporaries meets none of a live call.                *)
THEOREM ScanIsSafe ==
  ASSUME Serialised
  PROVE  Spec => ScanSparesLiveStaging
<1>1. Init => StagedInv
  BY DEF Init, StagedInv
<1>2. TypeOK /\ StagedInv /\ [Next]_vars => StagedInv'
  BY StagedInvInductive
<1>3. ASSUME TypeOK, LockInvUnlessSlipped, StagedInv, [Next]_vars,
             NEW u \in Txn, ~slipped, u \in temps, u \notin temps', Live(u)
      PROVE  pc[u] = "staged" /\ pc'[u] = "closing"
  <2>0. LockInv
    BY <1>3 DEF LockInvUnlessSlipped
  <2>1. PICK t \in Txn : Recover(t) \/ Unstage(t)
    BY <1>3 DEF Next, vars, Start, Crash, Continue, Link, Inspect, JudgeLock, ListGuards,
         ReadGuard, JudgeGuard, OpenGuard, WriteGuard, CheckExists, Recheck, Rejudge, Steal,
         MarkGuard, Unguard, Stage, Return, Close, ReadOwn, Unlock
  <2>2. lock = u /\ pc[u] \in Staged
    BY <1>3, <2>0 DEF LockInv, OwnerHasLock, StagedInv, Staged, OwnerPhases, Live, Running,
         EndPhases
  <2>3. CASE Recover(t)
    <3>1. lock = t
      BY <1>3, <2>0, <2>3 DEF Recover, LockInv, OwnerHasLock, OwnerPhases, Live, Running, EndPhases
    <3>2. QED
      BY <2>2, <2>3, <3>1 DEF Recover, Staged
  <2>4. CASE Unstage(t)
    BY <1>3, <2>4 DEF Unstage, Goto, TypeOK
  <2>5. QED
    BY <2>1, <2>3, <2>4
<1>4. TypeOK /\ LockInvUnlessSlipped /\ StagedInv /\ [Next]_vars
        => [\A t \in Txn : ~slipped /\ t \in temps /\ t \notin temps' /\ Live(t)
                             => pc[t] = "staged" /\ pc'[t] = "closing"]_vars
  BY <1>3
<1>5. QED
  BY <1>1, <1>2, <1>4, TypeCorrect, LockInvCorrect, PTL DEF Spec, ScanSparesLiveStaging

---------------------------------------------------------------------------
(* What an ended call has left behind is known as such in its own process:  *)
(* the token of a lock or of a guard file that could not be unlinked is     *)
(* releasable.                                                             *)
LocksKnown ==
  /\ LockHasOwner
  /\ \A t \in Txn : pc[t] \in {"readOwn", "unlock"} => t \in ownerReleasable
  /\ \A t \in Txn : lock = t /\ pc[t] = "done" => t \in ownerReleasable
GuardsKnown ==
  /\ FileHadGuard
  /\ \A t \in Txn : pc[t] = "unguard" => t \in guardReleasable
  /\ \A t \in Txn, g \in Generation :
       guards[g] = t => /\ gen[t] = g
                        /\ pc[t] \in {"write"} \cup GuardPhases \/ t \in guardReleasable
Known == LocksKnown /\ GuardsKnown

(* A call that no other overlaps finds the files as it left them.          *)
Recovering == {"list", "readGuard", "judge", "open", "write", "exists", "recheck", "rejudge",
               "steal"}
GuardRead(t) ==
  gen[t] # 0 => IF Blank(gen[t]) THEN read[t] = {} ELSE read[t] = {guards[gen[t]]}
Undisturbed(t) ==
  /\ \A s \in Txn : s # t => ~Live(s)
  /\ pc[t] = "inspect" => lock # NoTxn
  /\ pc[t] \in Recovering => StaleLock(t)
  /\ pc[t] \in {"judgeLock", "rejudge"} => lock # NoTxn /\ read[t] = {lock}
  /\ pc[t] \in {"readGuard", "judge"} => IsLatest(gen[t])
  /\ pc[t] = "readGuard" => gen[t] # 0
  /\ pc[t] = "judge" => GuardRead(t)
  /\ pc[t] = "open" => guards[gen[t]] = NoTxn
  /\ pc[t] \in {"mark", "unguard"} => outcome[t] # "refused"
  /\ pc[t] \in {"mark", "unguard", "link"} /\ outcome[t] = "retry" => lock = NoTxn
Alone(t) == Live(t) /\ t \notin overlapped
AloneInv == \A t \in Txn : Alone(t) => Undisturbed(t)

(* StepShape without its hypothesis, as far as that goes.                  *)
LEMMA StepIsOfOne ==
  ASSUME TypeOK, NEW t \in Txn, Continue(t)
  PROVE  OnlyMoves(t) /\ overlapped' = overlapped
BY DEF OnlyMoves, Live, Running, EndPhases, TypeOK, Goto, Continue, Link, Inspect,
     JudgeLock, ListGuards, ReadGuard, JudgeGuard, OpenGuard, WriteGuard, CheckExists, Recheck,
     Rejudge, Steal, MarkGuard, Unguard, Recover, Stage, Unstage, Return, Close, ReadOwn, Unlock

LEMMA LocksKnownStep ==
  ASSUME TypeOK, LocksKnown, NEW t \in Txn, Continue(t)
  PROVE  LocksKnown'
<1> USE DEF LocksKnown, LockHasOwner, TypeOK, Goto, Phases, GuardPhases, OwnerPhases, EndPhases
<1>1. CASE Link(t)
  BY <1>1 DEF Link
<1>2. CASE Steal(t)
  BY <1>2 DEF Steal
<1>3. CASE Close(t)
  BY <1>3 DEF Close
<1>4. CASE ReadOwn(t)
  BY <1>4 DEF ReadOwn
<1>5. CASE Unlock(t)
  BY <1>5 DEF Unlock
<1>6. CASE Unguard(t)
  BY <1>6 DEF Unguard
<1>7. CASE Inspect(t) \/ JudgeLock(t)
  BY <1>7 DEF Inspect, JudgeLock
<1>8. CASE ListGuards(t) \/ ReadGuard(t)
  BY <1>8 DEF ListGuards, ReadGuard
<1>9. CASE JudgeGuard(t)
  BY <1>9 DEF JudgeGuard
<1>10. CASE OpenGuard(t)
  BY <1>10 DEF OpenGuard
<1>11. CASE WriteGuard(t)
  BY <1>11 DEF WriteGuard
<1>12. CASE CheckExists(t) \/ Recheck(t) \/ Rejudge(t) \/ MarkGuard(t)
  BY <1>12 DEF CheckExists, Recheck, Rejudge, MarkGuard
<1>13. CASE Recover(t) \/ Stage(t) \/ Unstage(t) \/ Return(t)
  BY <1>13 DEF Recover, Stage, Unstage, Return
<1> QED BY <1>1, <1>2, <1>3, <1>4, <1>5, <1>6, <1>7, <1>8, <1>9, <1>10, <1>11,
           <1>12, <1>13 DEF Continue

(* What a step does to the guard files and to the token of its call.       *)
GuardKept(t) ==
  /\ guardReleasable \ {t} \subseteq guardReleasable'
  /\ pc'[t] = "unguard" => t \in guardReleasable'
  /\ \A g \in Generation :
       \/ guards'[g] = guards[g]
       \/ guards'[g] = NoTxn
       \/ guards'[g] = t /\ gen'[t] = g /\ pc'[t] = "write"
  /\ ~FirstAttempt(t) => gen'[t] = gen[t] /\ ~FirstAttempt(t)'
  /\ \/ guards'[gen[t]] = NoTxn
     \/ /\ t \in guardReleasable => t \in guardReleasable'
        /\ pc[t] \in {"write"} \cup GuardPhases =>
             pc'[t] \in {"write"} \cup GuardPhases \/ t \in guardReleasable'

LEMMA GuardShape ==
  ASSUME TypeOK, GuardsKnown, NEW t \in Txn, Continue(t)
  PROVE  GuardKept(t)
<1> USE DEF GuardKept, FirstAttempt, TypeOK, Goto, Phases, GuardPhases,
            OwnerPhases, EndPhases, Generation
<1>0. pc[t] = "unguard" => t \in guardReleasable
  BY DEF GuardsKnown
<1>1. CASE Link(t)
  BY <1>1 DEF Link, RecoveredStale
<1>2. CASE Inspect(t) \/ JudgeLock(t)
  BY <1>2 DEF Inspect, JudgeLock
<1>3. CASE ListGuards(t) \/ ReadGuard(t)
  BY <1>3 DEF ListGuards, ReadGuard
<1>4. CASE JudgeGuard(t)
  BY <1>4 DEF JudgeGuard
<1>5. CASE OpenGuard(t)
  BY <1>5 DEF OpenGuard
<1>6. CASE WriteGuard(t)
  BY <1>6 DEF WriteGuard
<1>7. CASE CheckExists(t)
  BY <1>7 DEF CheckExists
<1>8. CASE Recheck(t) \/ Rejudge(t)
  BY <1>8 DEF Recheck, Rejudge
<1>9. CASE Steal(t)
  BY <1>9 DEF Steal
<1>10. CASE MarkGuard(t)
  BY <1>10 DEF MarkGuard
<1>11. CASE Unguard(t)
  <2>1. /\ gen[t] \in Generation /\ gen' = gen /\ outcome' = outcome
        /\ pc' = [pc EXCEPT ![t] = IF outcome[t] = "retry" THEN "link" ELSE outcome[t]]
        /\ outcome[t] \in {"retry", "refused", "failed"} /\ t \in guardReleasable
    BY <1>0, <1>11 DEF Unguard
  <2>2. pc'[t] \in {"link", "refused", "failed"} /\ ~FirstAttempt(t)'
    BY <2>1
  <2>3. CASE /\ guards' = [guards EXCEPT ![gen[t]] = NoTxn]
             /\ guardReleasable' = guardReleasable \ {t}
    BY <2>1, <2>2, <2>3
  <2>4. CASE UNCHANGED <<guards, guardReleasable>>
    BY <2>1, <2>2, <2>4
  <2> QED BY <1>11, <2>3, <2>4 DEF Unguard
<1>12. CASE Recover(t) \/ Stage(t) \/ Unstage(t) \/ Return(t)
  BY <1>12 DEF Recover, Stage, Unstage, Return
<1>13. CASE Close(t) \/ ReadOwn(t) \/ Unlock(t)
  BY <1>13 DEF Close, ReadOwn, Unlock
<1> QED BY <1>1, <1>2, <1>3, <1>4, <1>5, <1>6, <1>7, <1>8, <1>9, <1>10, <1>11,
           <1>12, <1>13 DEF Continue

LEMMA GuardsKnownStep ==
  ASSUME TypeOK, GuardsKnown, NEW t \in Txn, Continue(t)
  PROVE  GuardsKnown'
<1>0. OnlyMoves(t) /\ GuardKept(t)
  BY StepIsOfOne, GuardShape
<1>1. \A u \in Txn : pc'[u] = "unguard" => u \in guardReleasable'
  BY <1>0 DEF OnlyMoves, GuardKept, GuardsKnown
<1>2. ASSUME NEW u \in Txn, NEW g \in Generation, guards'[g] = u
      PROVE  /\ ~FirstAttempt(u)' /\ gen'[u] = g
             /\ pc'[u] \in {"write"} \cup GuardPhases \/ u \in guardReleasable'
  <2>1. CASE guards[g] # u
    BY <1>0, <1>2, <2>1 DEF GuardKept, FirstAttempt
  <2>2. CASE guards[g] = u
    <3>1. /\ ~FirstAttempt(u) /\ gen[u] = g
          /\ pc[u] \in {"write"} \cup GuardPhases \/ u \in guardReleasable
      BY <2>2 DEF GuardsKnown, FileHadGuard
    <3>2. CASE u = t
      <4>1. guards'[gen[t]] # NoTxn
        BY <1>2, <3>1, <3>2
      <4> QED BY <1>0, <3>1, <3>2, <4>1 DEF GuardKept
    <3>3. CASE u # t
      BY <1>0, <3>1, <3>3 DEF GuardKept, OnlyMoves, FirstAttempt
    <3> QED BY <3>2, <3>3
  <2> QED BY <2>1, <2>2
<1> QED BY <1>1, <1>2 DEF GuardsKnown, FileHadGuard

LEMMA KnownInductive ==
  ASSUME TypeOK, Known, [Next]_vars
  PROVE  Known'
<1>1. ASSUME NEW t \in Txn, Continue(t)
      PROVE  Known'
  BY <1>1, LocksKnownStep, GuardsKnownStep DEF Known
<1>2. ASSUME NEW t \in Txn, Start(t)
      PROVE  Known'
  BY <1>2 DEF Start, Goto, TypeOK, Known, LocksKnown, GuardsKnown, LockHasOwner,
     FileHadGuard, FirstAttempt, OwnerPhases, GuardPhases, EndPhases
<1>3. CASE UNCHANGED <<pc, lock, guards, gen, outcome, ownerReleasable, guardReleasable>>
  BY <1>3 DEF Known, LocksKnown, GuardsKnown, LockHasOwner, FileHadGuard, FirstAttempt
<1>4. CASE \E p \in Proc : Crash(p)
  BY <1>3, <1>4 DEF Crash
<1>5. CASE UNCHANGED vars
  BY <1>3, <1>5 DEF vars
<1> QED BY <1>1, <1>2, <1>4, <1>5 DEF Next

(* The files stay as the call left them, step by step: the lock it saw is  *)
(* the one it takes over, the guard generation it chose is free.           *)
LEMMA UndisturbedStep ==
  ASSUME TypeOK, NEW t \in Txn, Continue(t), Undisturbed(t)
  PROVE  Undisturbed(t)'
<1>0. OnlyMoves(t)
  BY StepIsOfOne
<1>1. \A s \in Txn : s # t => ~Live(s)'
  BY <1>0, GoneStays DEF Undisturbed
<1> DEFINE Rest ==
      /\ pc[t] = "inspect" => lock # NoTxn
      /\ pc[t] \in Recovering => StaleLock(t)
      /\ pc[t] \in {"judgeLock", "rejudge"} => lock # NoTxn /\ read[t] = {lock}
      /\ pc[t] \in {"readGuard", "judge"} => IsLatest(gen[t])
      /\ pc[t] = "readGuard" => gen[t] # 0
      /\ pc[t] = "judge" => GuardRead(t)
      /\ pc[t] = "open" => guards[gen[t]] = NoTxn
      /\ pc[t] \in {"mark", "unguard"} => outcome[t] # "refused"
      /\ pc[t] \in {"mark", "unguard", "link"} /\ outcome[t] = "retry" => lock = NoTxn
<1> SUFFICES Rest'
  BY <1>1 DEF Undisturbed
<1> USE DEF TypeOK, Goto, Recovering, Phases, GuardPhases, OwnerPhases, EndPhases
<1>2. Rest
  BY DEF Undisturbed
<1>3. CASE Link(t)
  BY <1>2, <1>3 DEF Link, RecoveredStale
<1>4. CASE Inspect(t) \/ JudgeLock(t)
  BY <1>2, <1>4 DEF Inspect, JudgeLock, Reads, TokenOf, StaleRead, StaleLock, StaleFor
<1>5. CASE ListGuards(t)
  BY <1>2, <1>5 DEF ListGuards, StaleLock, StaleFor, IsLatest, GuardRead
<1>16. CASE ReadGuard(t)
  <2>1. /\ UNCHANGED <<lock, guards, gen, outcome, ownerReleasable>> /\ dead' = dead
        /\ pc[t] = "readGuard" /\ pc' = [pc EXCEPT ![t] = "judge"]
        /\ read'[t] = IF Blank(gen[t]) THEN {} ELSE TokenOf(guards[gen[t]])
    BY <1>16 DEF ReadGuard, Reads
  <2>2. gen[t] \in Generation /\ guards[gen[t]] # NoTxn
    BY <1>2, <2>1 DEF IsLatest
  <2>3. Blank(gen[t])' <=> Blank(gen[t])
    BY <2>1, <2>2 DEF Blank
  <2>4. GuardRead(t)'
    BY <2>1, <2>2, <2>3 DEF GuardRead, TokenOf
  <2>5. IsLatest(gen[t])' /\ StaleLock(t)'
    BY <1>2, <2>1 DEF IsLatest, StaleLock, StaleFor
  <2> QED BY <2>1, <2>4, <2>5
<1>6. CASE JudgeGuard(t)
  <2>1. StaleLock(t)' /\ pc'[t] \in {"refused", "open", "failed"}
    BY <1>2, <1>6 DEF JudgeGuard, StaleLock, StaleFor
  <2>2. ASSUME pc'[t] = "open" PROVE guards'[gen'[t]] = NoTxn
    <3>1. /\ gen[t] \in 0..MaxGeneration /\ gen[t] < MaxGeneration
          /\ gen'[t] = gen[t] + 1 /\ guards' = guards
      BY <1>6, <2>2 DEF JudgeGuard, Generation
    <3>2. gen[t] + 1 \in Generation /\ ~(gen[t] + 1 <= gen[t])
      BY <3>1 DEF Generation
    <3>3. IsLatest(gen[t])
      BY <1>2, <1>6 DEF JudgeGuard
    <3> QED BY <3>1, <3>2, <3>3 DEF IsLatest
  <2> QED BY <2>1, <2>2
<1>7. CASE OpenGuard(t)
  BY <1>2, <1>7 DEF OpenGuard, StaleLock, StaleFor
<1>8. CASE WriteGuard(t)
  BY <1>2, <1>8 DEF WriteGuard, StaleLock, StaleFor
<1>9. CASE CheckExists(t)
  BY <1>2, <1>9 DEF CheckExists, StaleLock, StaleFor
<1>10. CASE Recheck(t) \/ Rejudge(t)
  BY <1>2, <1>10 DEF Recheck, Rejudge, Reads, TokenOf, StaleRead, StaleLock, StaleFor
<1>11. CASE Steal(t)
  BY <1>2, <1>11 DEF Steal
<1>12. CASE MarkGuard(t)
  BY <1>2, <1>12 DEF MarkGuard
<1>13. CASE Unguard(t)
  BY <1>2, <1>13 DEF Unguard
<1>14. CASE Recover(t) \/ Stage(t) \/ Unstage(t) \/ Return(t)
  BY <1>14 DEF Recover, Stage, Unstage, Return
<1>15. CASE Close(t) \/ ReadOwn(t) \/ Unlock(t)
  BY <1>15 DEF Close, ReadOwn, Unlock
<1> QED BY <1>3, <1>4, <1>5, <1>6, <1>7, <1>8, <1>9, <1>10, <1>11, <1>12, <1>13,
           <1>14, <1>15, <1>16 DEF Continue

(* Nobody moves beside a call that is not overlapped, and a crash only     *)
(* makes more files stale.                                                 *)
LEMMA AloneInductive ==
  ASSUME TypeOK, AloneInv, [Next]_vars
  PROVE  AloneInv'
<1> SUFFICES ASSUME NEW u \in Txn, Alone(u)'
             PROVE  Undisturbed(u)'
  BY DEF AloneInv
<1>1. ASSUME NEW t \in Txn, Continue(t)
      PROVE  Undisturbed(u)'
  <2>1. OnlyMoves(t) /\ overlapped' = overlapped
    BY <1>1, StepIsOfOne
  <2>2. Alone(u) /\ Undisturbed(u)
    BY <2>1, GoneStays DEF Alone, AloneInv
  <2>3. t = u
    BY <2>1, <2>2 DEF Undisturbed, OnlyMoves
  <2> QED BY <1>1, <2>2, <2>3, UndisturbedStep
<1>2. ASSUME NEW t \in Txn, Start(t)
      PROVE  Undisturbed(u)'
  <2> DEFINE others == {s \in Txn \ {t} : Live(s)}
  <2>1. /\ pc' = [pc EXCEPT ![t] = "link"] /\ dead' = dead /\ outcome' = outcome
        /\ overlapped' = IF others = {} THEN overlapped ELSE overlapped \cup others \cup {t}
        /\ pc[t] = "idle"
    BY <1>2 DEF Start, Goto
  <2>2. \A s \in Txn : s # t => (Live(s)' <=> Live(s))
    BY <2>1 DEF Live, Alive, Running, TypeOK
  <2>3. u = t
    BY <2>1, <2>2 DEF Alone
  <2>4. others = {}
    BY <2>1, <2>3 DEF Alone
  <2>5. pc'[u] = "link" /\ outcome'[u] = "none"
    BY <2>1, <2>3 DEF TypeOK, FirstAttempt
  <2>6. \A s \in Txn : s # u => ~Live(s)'
    BY <2>2, <2>3, <2>4
  <2> QED BY <2>5, <2>6 DEF Undisturbed, Recovering
<1>3. ASSUME NEW p \in Proc, Crash(p)
      PROVE  Undisturbed(u)'
  <2>1. /\ UNCHANGED <<pc, lock, guards, gen, outcome, ownerReleasable, read, overlapped>>
        /\ dead \subseteq dead'
    BY <1>3 DEF Crash, verdictVars
  <2>2. \A s \in Txn : Live(s)' => Live(s)
    BY <2>1 DEF Live, Alive, Running
  <2>3. Undisturbed(u)
    BY <2>1, <2>2 DEF Alone, AloneInv
  <2>4. StaleLock(u) => StaleLock(u)'
    BY <2>1 DEF StaleLock, StaleFor
  <2> QED BY <2>1, <2>2, <2>3, <2>4 DEF Undisturbed, IsLatest, GuardRead, Blank
<1>4. CASE UNCHANGED vars
  <2>1. Alone(u) /\ Undisturbed(u)
    BY <1>4 DEF vars, Alone, Live, Alive, Running, AloneInv
  <2> QED BY <1>4, <2>1 DEF vars, Undisturbed, Live, Alive, Running, StaleLock, StaleFor,
             IsLatest, GuardRead, Blank
<1> QED BY <1>1, <1>2, <1>3, <1>4 DEF Next

(* A call that has the files for itself is refused for a residue: on its   *)
(* way to the guard it meets a lock or a guard file that is not stale, and  *)
(* neither its own process nor a dead one left that.                       *)
LEMMA RefusedForResidue ==
  ASSUME TypeOK, Known, NEW t \in Txn, Live(t), Undisturbed(t), Continue(t),
         pc[t] # "refused", pc'[t] = "refused"
  PROVE  Residue(t)
<1> USE DEF TypeOK, Goto, Phases, GuardPhases, OwnerPhases, EndPhases
<1>1. CASE Link(t)
  BY <1>1 DEF Link, RecoveredStale, Undisturbed
<1>2. CASE JudgeLock(t)
  <2>1. lock # NoTxn /\ ~StaleLock(t) /\ pc[t] = "judgeLock"
    BY <1>2 DEF JudgeLock, Undisturbed, StaleRead, StaleLock
  <2>2. lock \in Txn /\ lock # t /\ pc[lock] \in OwnerPhases \cup {"done"}
    BY <2>1 DEF Known, LocksKnown, LockHasOwner
  <2>3. Alive(lock)
    BY <2>1, <2>2 DEF StaleLock, StaleFor, Alive
  <2>4. pc[lock] = "done" /\ lock \in ownerReleasable
    BY <2>2, <2>3 DEF Undisturbed, Live, Running, Known, LocksKnown
  <2>5. Host[lock] # Host[t]
    BY <2>1, <2>4 DEF StaleLock, StaleFor
  <2> QED BY <2>1, <2>3, <2>5 DEF Residue
<1>3. CASE JudgeGuard(t)
  <2> DEFINE g == gen[t]
  <2>1. g \in Generation /\ MayJudgeOwned(t, g) /\ pc[t] = "judge"
    BY <1>3 DEF JudgeGuard, Generation
  <2>2. guards[g] # NoTxn
    BY <2>1 DEF Undisturbed, IsLatest, Generation
  <2>3. CASE Blank(g)
    BY <2>1, <2>3 DEF Residue
  <2>4. CASE ~Blank(g)
    <3>1. ~StaleFor(t, guards[g], guardReleasable) /\ guards[g] \in Txn
      BY <2>1, <2>2, <2>4 DEF MayJudgeOwned, StaleRead, Undisturbed, GuardRead, Generation
    <3>2. Alive(guards[g])
      BY <3>1 DEF StaleFor, Alive
    <3>3. guards[g] # t /\ pc[guards[g]] # "idle"
      BY <2>1, <3>1 DEF Known, GuardsKnown, FileHadGuard, FirstAttempt
    <3>4. pc[guards[g]] \in EndPhases
      BY <3>1, <3>2, <3>3 DEF Undisturbed, Live, Running
    <3>5. guards[g] \in guardReleasable
      BY <2>1, <3>1, <3>4 DEF Known, GuardsKnown
    <3>6. Host[guards[g]] # Host[t]
      BY <3>1, <3>5 DEF StaleFor
    <3> QED BY <2>1, <2>2, <3>2, <3>6 DEF Residue
  <2> QED BY <2>3, <2>4
<1>4. CASE OpenGuard(t)
  BY <1>4 DEF OpenGuard, Undisturbed
<1>5. CASE Unguard(t)
  BY <1>5 DEF Unguard, Undisturbed
<1>6. CASE ~(Link(t) \/ JudgeLock(t) \/ JudgeGuard(t) \/ OpenGuard(t) \/ Unguard(t))
  BY <1>6 DEF Continue, Inspect, ListGuards, ReadGuard, WriteGuard, CheckExists, Recheck,
     Rejudge, Steal, MarkGuard,
     Recover, Stage, Unstage, Return, Close, ReadOwn, Unlock
<1> QED BY <1>1, <1>2, <1>3, <1>4, <1>5, <1>6

(* RefusalJustified needs neither hypothesis, and no file-system call need  *)
(* succeed: a call that nobody overlaps is never refused on account of a   *)
(* crash, of its own process's past, or of what it did itself.             *)
THEOREM RefusalJustifiedCorrect == Spec => RefusalJustified
<1> DEFINE A == \A t \in Txn :
      pc[t] # "refused" /\ pc'[t] = "refused" => t \in overlapped \/ Residue(t)
<1>1. Init => Known /\ AloneInv
  BY DEF Init, Known, LocksKnown, GuardsKnown, LockHasOwner, FileHadGuard, FirstAttempt,
     AloneInv, Alone, Live, Running
<1>2. TypeOK /\ Known /\ AloneInv /\ [Next]_vars => Known' /\ AloneInv'
  BY KnownInductive, AloneInductive
<1>3. ASSUME TypeOK, Known, AloneInv, [Next]_vars, NEW u \in Txn,
             pc[u] # "refused", pc'[u] = "refused", u \notin overlapped
      PROVE  Residue(u)
  <2>1. PICK t \in Txn : Continue(t)
    BY <1>3 DEF Next, Start, Goto, Crash, vars, TypeOK
  <2>2. OnlyMoves(t)
    BY <1>3, <2>1, StepIsOfOne
  <2>3. t = u
    BY <1>3, <2>2 DEF OnlyMoves
  <2>4. Live(u) /\ Undisturbed(u)
    BY <1>3, <2>2, <2>3 DEF OnlyMoves, AloneInv, Alone
  <2> QED BY <1>3, <2>1, <2>3, <2>4, RefusedForResidue
<1>4. TypeOK /\ Known /\ AloneInv /\ [Next]_vars => [A]_vars
  BY <1>3
<1> QED BY <1>1, <1>2, <1>4, TypeCorrect, PTL DEF Spec, RefusalJustified
=============================================================================
