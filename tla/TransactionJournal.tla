------------------------- MODULE TransactionJournal -------------------------
(***************************************************************************)
(* The journal of Tools/NodeHost/src/projectTransaction.ts: a transaction  *)
(* that holds the project lock stages its after states, publishes a        *)
(* prepared journal, replaces its sources one by one, publishes the        *)
(* committed journal and cleans up; a later transaction recovers what a    *)
(* crash left.  Meanwhile an editor outside of the protocol writes the     *)
(* sources, file-system calls fail, and the process dies between any two   *)
(* of them.  The lock is ProjectLock's: here one writer runs at a time.    *)
(*                                                                         *)
(* Paths are numbers: their order is the order of the logical paths in     *)
(* which entries are staged and replaced.  Bytes stand for contents and    *)
(* for their hashes.                                                       *)
(***************************************************************************)
EXTENDS Naturals, FiniteSets

CONSTANTS
  Path,          \* the sources
  Bytes,         \* contents of a source
  Missing,       \* no such file
  MaxEdits,      \* edits from outside, in a whole behaviour
  MaxCrashes,    \* deaths of the writing process
  MaxFaults      \* file-system calls that fail

ASSUME PathAssumption == Path \subseteq Nat /\ IsFiniteSet(Path)
ASSUME MissingAssumption == Missing \notin Bytes
ASSUME LimitAssumption ==
  MaxEdits \in Nat /\ MaxCrashes \in Nat /\ MaxFaults \in Nat

VARIABLES
  target, tmp, backup,  \* the sources, their .tmp and their .rollback files
  litter,               \* .tmp and .rollback files that no journal lists
  journal,              \* .visualbridge-transaction.json
  stale,                \* a dead owner's lock file is there
  pc, todo, ret,        \* the writer: next call, entries left, continuation
  recovered,            \* its lock was taken over from a dead owner
  failures,             \* its recovery has recorded a failure
  seen, plan,           \* what it read before the lock, and its mutations
  result,               \* what it answered
  committed, touched,   \* history: of the current transaction
  late,                 \* history: the source in its Window was written there
  edits, crashes, faults

files   == <<target, tmp, backup, litter>>
writer  == <<recovered, seen, plan>>
history == <<touched, late, edits, crashes>>
vars == <<files, journal, stale, pc, todo, ret, failures, writer, result,
          committed, history, faults>>

File == Bytes \cup {Missing}
NoFiles == [p \in Path |-> Missing]
NoJournal == [phase |-> "none", base |-> <<>>, after |-> <<>>]
NoPlan == [base |-> NoFiles, after |-> <<>>]

Entries == DOMAIN journal.base
Mutated == DOMAIN plan.after
First(p) == p \in todo /\ \A q \in todo : p <= q
Last(p)  == p \in todo /\ \A q \in todo : q <= p

(* Every call either works or, while the budget lasts, fails.              *)
Works == faults' = faults
Fails == faults < MaxFaults /\ faults' = faults + 1

Goto(l) == pc' = l
Step(from, to) == pc = from /\ Goto(to)

(* Between the hash check of a source and the call that relies on it the   *)
(* file system offers no protection; late says that the source was written *)
(* then.  Every such call ends its Window.                                 *)
Window(p) == \/ pc \in {"save", "install"} /\ First(p)
             \/ pc \in {"unlink", "restore"} /\ Last(p)
Close == late' = FALSE /\ UNCHANGED <<touched, edits, crashes>>

---------------------------------------------------------------------------
Init ==
  /\ target \in [Path -> File]
  /\ tmp = NoFiles /\ backup = NoFiles /\ litter = {}
  /\ journal = NoJournal
  /\ stale = FALSE
  /\ pc = "idle" /\ todo = {} /\ ret = "open"
  /\ recovered = FALSE /\ failures = FALSE
  /\ seen = NoFiles /\ plan = NoPlan
  /\ result = "none"
  /\ committed = FALSE /\ touched = {} /\ late = FALSE
  /\ edits = 0 /\ crashes = 0 /\ faults = 0

(* A caller reads the sources and asks for the lock.  Evidence of a crash  *)
(* reaches the new owner only if it took the dead owner's lock over itself *)
(* (see ProjectLock).                                                      *)
Begin ==
  /\ Step("idle", "journal")
  /\ ret' = "open"
  /\ seen' = target
  /\ recovered' \in {FALSE, stale}
  /\ stale' = FALSE
  /\ plan' = NoPlan /\ result' = "none" /\ committed' = FALSE
  /\ touched' = IF journal = NoJournal THEN {} ELSE touched
  /\ UNCHANGED <<files, journal, todo, failures, late, edits, crashes, faults>>

---------------------------------------------------------------------------
(* recoverInterruptedTransaction, on opening, after a failed clean-up      *)
(* ("finalize") and after a failed commit ("abort").                       *)

(* How the caller of a recovery goes on when it succeeds ...               *)
RecoveryDone ==
  /\ Goto(IF ret = "open" THEN "act" ELSE "finally")
  /\ result' = CASE ret = "open" -> result
                 [] ret = "abort" -> "failed"
                 [] OTHER -> "ok"

(* ... and when it throws.                                                 *)
RecoveryFailed ==
  /\ Goto(IF ret = "finalize" THEN "match" ELSE "idle")
  /\ result' = CASE ret = "open" -> "failed"
                 [] ret = "abort" -> "unknown"
                 [] OTHER -> result

(* Without a journal there is nothing to undo; temporaries are orphans,    *)
(* dropped only by a transaction that took over a stale lock.              *)
Leftover == {"tmp"} \X {p \in Path : tmp[p] # Missing}
              \cup {"rollback"} \X {p \in Path : backup[p] # Missing}
NoJournalFound ==
  /\ pc = "journal" /\ journal = NoJournal /\ Works
  /\ LET kept == litter \cup Leftover IN
       litter' = IF recovered /\ ret = "open"
                   THEN {f \in kept : f[1] # "tmp"} ELSE kept
  /\ tmp' = NoFiles /\ backup' = NoFiles
  /\ RecoveryDone
  /\ recovered' = FALSE
  /\ UNCHANGED <<target, journal, stale, todo, ret, failures, seen, plan,
                 committed, history>>

JournalFound ==
  /\ pc = "journal" /\ journal # NoJournal /\ Works
  /\ todo' = Entries
  /\ failures' = FALSE
  /\ Goto(IF journal.phase = "committed" THEN "compare" ELSE "rollback")
  /\ recovered' = FALSE
  /\ UNCHANGED <<files, journal, stale, ret, seen, plan, result, committed, history>>

JournalUnreadable ==
  /\ pc = "journal" /\ Fails /\ RecoveryFailed
  /\ UNCHANGED <<files, journal, stale, todo, ret, failures, writer,
                 committed, history>>

(* A committed journal is only cleaned up while every target still is      *)
(* what was committed.                                                     *)
Compare(p) ==
  /\ pc = "compare" /\ First(p) /\ Works
  /\ todo' = todo \ {p}
  /\ failures' = (failures \/ target[p] # journal.after[p])
  /\ UNCHANGED <<files, journal, stale, pc, ret, writer, result, committed, history>>

Compared ==
  /\ pc = "compare" /\ todo = {} /\ Works
  /\ IF failures
       THEN RecoveryFailed /\ todo' = {}
       ELSE Goto("cleanTmp") /\ todo' = Entries /\ result' = result
  /\ UNCHANGED <<files, journal, stale, ret, failures, writer, committed, history>>

(* cleanupCommitted, called by commitMutations (ret = "commit") and by the *)
(* recovery: ENOENT is no error, any other error throws.                   *)
CleanTmp(p) ==
  /\ Step("cleanTmp", "cleanBackup") /\ First(p) /\ Works
  /\ tmp' = [tmp EXCEPT ![p] = Missing]
  /\ UNCHANGED <<target, backup, litter, journal, stale, todo, ret, failures,
                 writer, result, committed, history>>

CleanBackup(p) ==
  /\ Step("cleanBackup", "cleanTmp") /\ First(p) /\ Works
  /\ backup' = [backup EXCEPT ![p] = Missing]
  /\ todo' = todo \ {p}
  /\ UNCHANGED <<target, tmp, litter, journal, stale, ret, failures, writer,
                 result, committed, history>>

CleanJournal ==
  /\ pc = "cleanTmp" /\ todo = {} /\ Works
  /\ journal' = NoJournal
  /\ IF ret = "commit" THEN Goto("finally") /\ result' = "ok"
                       ELSE RecoveryDone
  /\ UNCHANGED <<files, stale, todo, ret, failures, writer, committed, history>>

CleanFails ==
  /\ pc \in {"cleanTmp", "cleanBackup"} /\ Fails
  /\ IF ret = "commit"
       THEN Goto("journal") /\ ret' = "finalize" /\ result' = result
       ELSE RecoveryFailed /\ ret' = ret
  /\ UNCHANGED <<files, journal, stale, todo, failures, writer, committed, history>>

(* Mutants of RollbackOf: a source missing between the two renames is      *)
(* taken for restored; it is taken for an external deletion.               *)
RollbackOfMissingSkipped(p) ==
  LET base == journal.base[p]
      after == journal.after[p] IN
  CASE target[p] \in {base, Missing}                      -> "skip"
    [] target[p] = after /\ after \notin {base, Missing} -> "unlink"
    [] OTHER                                            -> "fail"
RollbackOfMissingFails(p) ==
  LET base == journal.base[p]
      after == journal.after[p] IN
  CASE target[p] = base                                 -> "skip"
    [] target[p] = after /\ after \notin {base, Missing} -> "unlink"
    [] OTHER                                            -> "fail"

(* rollbackPreparedEntry: what the hashes of target and backup call for.   *)
RollbackOf(p) ==
  LET base == journal.base[p]
      after == journal.after[p]
      saved == base # Missing /\ backup[p] = base IN
  CASE base # Missing /\ backup[p] = Missing /\ target[p] = base         -> "skip"
    [] backup[p] = base /\ target[p] = after /\ after # Missing          -> "unlink"
    [] base = Missing /\ backup[p] = Missing /\ target[p] = Missing      -> "verify"
    [] saved /\ target[p] = Missing                                      -> "restore"
    [] saved /\ target[p] = base /\ base # after                         -> "drop"
    [] OTHER                                                             -> "fail"

(* The entry is done: its temporary goes, and a failure of that does not   *)
(* count.                                                                  *)
EntryDone(p) ==
  /\ Goto("rollback")
  /\ todo' = todo \ {p}
  /\ \/ Works /\ tmp' = [tmp EXCEPT ![p] = Missing]
     \/ Fails /\ tmp' = tmp
  /\ failures' = failures

EntryFailed(p) ==
  /\ Goto("rollback")
  /\ todo' = todo \ {p}
  /\ tmp' = tmp
  /\ failures' = TRUE

RollbackEntry(p) ==
  /\ pc = "rollback" /\ Last(p)
  /\ \/ RollbackOf(p) = "skip" /\ EntryDone(p)
     \/ RollbackOf(p) = "fail" /\ EntryFailed(p) /\ Works
     \/ Fails /\ EntryFailed(p)
     \/ /\ RollbackOf(p) \in {"verify", "unlink", "restore", "drop"}
        /\ Goto(RollbackOf(p)) /\ Works
        /\ UNCHANGED <<todo, tmp, failures>>
  /\ UNCHANGED <<target, backup, litter, journal, stale, ret, writer, result,
                 committed, history>>

RollbackUnlink(p) ==
  /\ pc = "unlink" /\ Last(p)
  /\ \/ /\ target[p] # Missing /\ Works
        /\ target' = [target EXCEPT ![p] = Missing]
        /\ Goto(IF journal.base[p] = Missing THEN "verify" ELSE "restore")
        /\ UNCHANGED <<todo, tmp, failures>>
     \/ /\ target[p] = Missing /\ Works
        /\ EntryFailed(p) /\ UNCHANGED target
     \/ Fails /\ EntryFailed(p) /\ UNCHANGED target
  /\ Close
  /\ UNCHANGED <<backup, litter, journal, stale, ret, writer, result, committed>>

RollbackRestore(p) ==
  /\ pc = "restore" /\ Last(p)
  /\ \/ /\ Goto("verify") /\ Works
        /\ target' = [target EXCEPT ![p] = backup[p]]
        /\ backup' = [backup EXCEPT ![p] = Missing]
        /\ UNCHANGED <<todo, tmp, failures>>
     \/ Fails /\ EntryFailed(p) /\ UNCHANGED <<target, backup>>
  /\ Close
  /\ UNCHANGED <<litter, journal, stale, ret, writer, result, committed>>

RollbackDrop(p) ==
  /\ pc = "drop" /\ Last(p)
  /\ \/ /\ Goto("verify") /\ Works
        /\ backup' = [backup EXCEPT ![p] = Missing]
        /\ UNCHANGED <<todo, tmp, failures>>
     \/ Fails /\ EntryFailed(p) /\ UNCHANGED backup
  /\ UNCHANGED <<target, litter, journal, stale, ret, writer, result, committed, history>>

RollbackVerify(p) ==
  /\ pc = "verify" /\ Last(p)
  /\ \/ target[p] = journal.base[p] /\ EntryDone(p)
     \/ target[p] # journal.base[p] /\ EntryFailed(p) /\ Works
     \/ Fails /\ EntryFailed(p)
  /\ UNCHANGED <<target, backup, litter, journal, stale, ret, writer, result,
                 committed, history>>

RolledBack ==
  /\ pc = "rollback" /\ todo = {}
  /\ \/ ~failures /\ Works /\ journal' = NoJournal /\ RecoveryDone
     \/ failures /\ Works /\ journal' = journal /\ RecoveryFailed
     \/ ~failures /\ Fails /\ journal' = journal /\ RecoveryFailed
  /\ UNCHANGED <<files, stale, todo, ret, failures, writer, committed, history>>

Recovery ==
  \/ NoJournalFound \/ JournalFound \/ JournalUnreadable
  \/ \E p \in Path : Compare(p) \/ CleanTmp(p) \/ CleanBackup(p)
  \/ Compared \/ CleanJournal \/ CleanFails
  \/ \E p \in Path : \/ RollbackEntry(p) \/ RollbackUnlink(p)
                     \/ RollbackRestore(p) \/ RollbackDrop(p)
                     \/ RollbackVerify(p)
  \/ RolledBack

---------------------------------------------------------------------------
(* commitMutations.                                                        *)

(* Before the journal is published a failure only unlinks the temporaries; *)
(* afterwards it rolls back.                                               *)
GiveUp == Goto("finally") /\ result' = "failed" /\ UNCHANGED ret
Abort  == Goto("journal") /\ ret' = "abort" /\ UNCHANGED result

(* The preconditions pin every source that is read and not mutated.        *)
DependenciesHold == \A p \in Path \ Mutated : target[p] = plan.base[p]

(* The action builds its mutations from what it read under the lock (MCP)  *)
(* or before it (the editors).  emptyMutation and duplicateTarget are      *)
(* refused before anything happens, and are left out.  What it read is not *)
(* used again.                                                             *)
Plan ==
  /\ Step("act", "dependencies")
  /\ \E base \in {seen, target}, S \in (SUBSET Path) \ {{}} :
       \E after \in [S -> File] :
         /\ \A p \in S : base[p] # Missing \/ after[p] # Missing
         /\ plan' = [base |-> base, after |-> after]
  /\ seen' = NoFiles
  /\ recovered' = FALSE
  /\ UNCHANGED <<files, journal, stale, todo, ret, failures, result, committed,
                 history, faults>>

CheckDependencies ==
  /\ pc = "dependencies"
  /\ \/ /\ DependenciesHold /\ Works
        /\ Goto("stage") /\ todo' = Mutated /\ UNCHANGED <<ret, result>>
     \/ /\ (~DependenciesHold /\ Works) \/ Fails
        /\ GiveUp /\ todo' = {}
  /\ UNCHANGED <<files, journal, stale, failures, writer, committed, history>>

(* One entry: compare with the base, write and sync the temporary.         *)
Stage(p) ==
  /\ pc = "stage" /\ First(p)
  /\ \/ /\ target[p] = plan.base[p] /\ Works
        /\ tmp' = [tmp EXCEPT ![p] = plan.after[p]]
        /\ todo' = todo \ {p}
        /\ UNCHANGED <<pc, ret, result>>
     \/ /\ (target[p] # plan.base[p] /\ Works) \/ Fails
        /\ GiveUp /\ UNCHANGED <<tmp, todo>>
  /\ UNCHANGED <<target, backup, litter, journal, stale, failures, writer,
                 committed, history>>

JournalFor(phase) ==
  [phase |-> phase, base |-> [p \in Mutated |-> plan.base[p]], after |-> plan.after]

Prepare ==
  /\ pc = "stage" /\ todo = {}
  /\ \/ /\ journal' = JournalFor("prepared") /\ Works
        /\ Goto("recheck") /\ UNCHANGED <<ret, result>>
     \/ Fails /\ GiveUp /\ UNCHANGED journal
  /\ UNCHANGED <<files, stale, todo, failures, writer, committed, history>>

RecheckDependencies ==
  /\ pc = "recheck"
  /\ \/ /\ DependenciesHold /\ Works
        /\ Goto("check") /\ todo' = Mutated /\ UNCHANGED <<ret, result>>
     \/ /\ (~DependenciesHold /\ Works) \/ Fails
        /\ Abort /\ todo' = {}
  /\ UNCHANGED <<files, journal, stale, failures, writer, committed, history>>

(* Mutant of Check: the base was compared on staging, that has to do.      *)
CheckNothing(p) ==
  /\ pc = "check" /\ First(p) /\ Works
  /\ Goto(IF plan.base[p] = Missing THEN "install" ELSE "save")
  /\ UNCHANGED <<files, journal, stale, todo, ret, failures, writer, result,
                 committed, history>>

Check(p) ==
  /\ pc = "check" /\ First(p)
  /\ \/ /\ target[p] = plan.base[p] /\ Works
        /\ Goto(IF plan.base[p] = Missing THEN "install" ELSE "save")
        /\ UNCHANGED <<ret, result>>
     \/ /\ (target[p] # plan.base[p] /\ Works) \/ Fails
        /\ Abort
  /\ UNCHANGED <<files, journal, stale, todo, failures, writer, committed, history>>

Save(p) ==
  /\ pc = "save" /\ First(p)
  /\ \/ /\ target[p] # Missing /\ Works
        /\ backup' = [backup EXCEPT ![p] = target[p]]
        /\ target' = [target EXCEPT ![p] = Missing]
        /\ Goto("install") /\ UNCHANGED <<ret, result>>
     \/ /\ (target[p] = Missing /\ Works) \/ Fails
        /\ Abort /\ UNCHANGED <<target, backup>>
  /\ Close
  /\ UNCHANGED <<tmp, litter, journal, stale, todo, failures, writer, committed>>

Install(p) ==
  /\ pc = "install" /\ First(p)
  /\ \/ /\ plan.after[p] # Missing /\ Works
        /\ target' = [target EXCEPT ![p] = tmp[p]]
        /\ tmp' = [tmp EXCEPT ![p] = Missing]
        /\ Goto("check") /\ todo' = todo \ {p} /\ UNCHANGED <<ret, result>>
     \/ /\ plan.after[p] = Missing /\ Works
        /\ Goto("check") /\ todo' = todo \ {p}
        /\ UNCHANGED <<target, tmp, ret, result>>
     \/ /\ plan.after[p] # Missing /\ Fails
        /\ Abort /\ UNCHANGED <<target, tmp, todo>>
  /\ Close
  /\ UNCHANGED <<backup, litter, journal, stale, failures, writer, committed>>

Replaced ==
  /\ Step("check", "confirm") /\ todo = {}
  /\ todo' = Mutated
  /\ UNCHANGED <<files, journal, stale, ret, failures, writer, result,
                 committed, history, faults>>

Confirm(p) ==
  /\ pc = "confirm" /\ First(p)
  /\ \/ /\ target[p] = plan.after[p] /\ Works
        /\ todo' = todo \ {p} /\ UNCHANGED <<pc, ret, result>>
     \/ /\ (target[p] # plan.after[p] /\ Works) \/ Fails
        /\ Abort /\ UNCHANGED todo
  /\ UNCHANGED <<files, journal, stale, failures, writer, committed, history>>

Commit ==
  /\ pc = "confirm" /\ todo = {}
  /\ \/ /\ journal' = JournalFor("committed") /\ committed' = TRUE /\ Works
        /\ Goto("cleanTmp") /\ todo' = Mutated
        /\ ret' = "commit" /\ UNCHANGED result
     \/ /\ Fails /\ Abort
        /\ UNCHANGED <<journal, committed, todo>>
  /\ UNCHANGED <<files, stale, failures, writer, history>>

(* committedTargetsMatch after a clean-up and a recovery that both failed: *)
(* finalizationPending or finalizationFailed.                              *)
Match ==
  /\ pc = "match"
  /\ \/ /\ \A p \in Mutated : target[p] = plan.after[p]
        /\ Works /\ Goto("finally") /\ result' = "ok"
     \/ /\ \/ Works /\ \E p \in Mutated : target[p] # plan.after[p]
           \/ Fails
        /\ Goto("idle") /\ result' = "unknown"
  /\ UNCHANGED <<files, journal, stale, todo, ret, failures, writer, committed, history>>

(* Mutant of Finally: the clean-up is left to the journal.                 *)
FinallyNothing ==
  /\ Step("finally", "idle") /\ Works
  /\ todo' = {} /\ ret' = "open" /\ failures' = FALSE /\ plan' = NoPlan
  /\ UNCHANGED <<files, journal, stale, recovered, seen, result, committed,
                 history>>

(* finally: the temporaries and backups of the entries staged so far are   *)
(* unlinked; that may fail silently.  What the call kept in memory is gone *)
(* with it.                                                                *)
Finally ==
  /\ Step("finally", "idle")
  /\ \/ Works /\ tmp' = NoFiles /\ backup' = NoFiles
     \/ Fails /\ UNCHANGED <<tmp, backup>>
  /\ todo' = {} /\ ret' = "open" /\ failures' = FALSE /\ plan' = NoPlan
  /\ UNCHANGED <<target, litter, journal, stale, recovered, seen, result,
                 committed, history>>

Committing ==
  \/ Plan \/ CheckDependencies \/ Prepare \/ RecheckDependencies
  \/ \E p \in Path : Stage(p) \/ Check(p) \/ Save(p) \/ Install(p) \/ Confirm(p)
  \/ Replaced \/ Commit \/ Match \/ Finally

---------------------------------------------------------------------------
(* The process dies, with all it had in memory; its lock file stays.       *)
Crash ==
  /\ crashes < MaxCrashes /\ crashes' = crashes + 1
  /\ pc # "idle" /\ Goto("idle")
  /\ stale' = TRUE
  /\ result' = "none"
  /\ todo' = {} /\ ret' = "open" /\ failures' = FALSE /\ committed' = FALSE
  /\ recovered' = FALSE /\ seen' = NoFiles /\ plan' = NoPlan
  /\ late' = FALSE
  /\ UNCHANGED <<files, journal, touched, edits, faults>>

(* Another program writes or deletes a source.                             *)
Edit(p, bytes) ==
  /\ edits < MaxEdits /\ edits' = edits + 1
  /\ bytes # target[p]
  /\ target' = [target EXCEPT ![p] = bytes]
  /\ touched' = touched \cup {p}
  /\ late' = (late \/ Window(p))
  /\ UNCHANGED <<tmp, backup, litter, journal, stale, pc, todo, ret, failures,
                 writer, result, committed, crashes, faults>>

Next ==
  \/ Begin \/ Recovery \/ Committing
  \/ Crash
  \/ \E p \in Path, bytes \in File : Edit(p, bytes)

Spec == Init /\ [][Next]_vars

(* A started transaction runs on, and writers keep coming.                 *)
FairSpec == Spec /\ WF_vars(Begin) /\ WF_vars(Recovery \/ Committing)

---------------------------------------------------------------------------
TypeOK ==
  /\ target \in [Path -> File] /\ tmp \in [Path -> File] /\ backup \in [Path -> File]
  /\ litter \subseteq {"tmp", "rollback"} \X Path
  /\ journal.phase \in {"none", "prepared", "committed"}
  /\ Entries \subseteq Path /\ DOMAIN journal.after = Entries
  /\ journal.phase = "none" <=> Entries = {}
  /\ stale \in BOOLEAN /\ recovered \in BOOLEAN /\ failures \in BOOLEAN
  /\ todo \subseteq Path
  /\ ret \in {"open", "abort", "finalize", "commit"}
  /\ seen \in [Path -> File] /\ plan.base \in [Path -> File] /\ Mutated \subseteq Path
  /\ result \in {"none", "ok", "failed", "unknown"}
  /\ committed \in BOOLEAN /\ touched \subseteq Path /\ late \in BOOLEAN

(* What the next recovery makes of a source.                               *)
Recoverable(p) ==
  IF journal.phase # "prepared" \/ p \notin Entries THEN target[p]
  ELSE LET base == journal.base[p]
           after == journal.after[p] IN
       CASE base = Missing /\ target[p] = after -> Missing
         [] base # Missing /\ backup[p] = base
              /\ target[p] \in {Missing, after} -> base
         [] OTHER -> target[p]

Store == INSTANCE AtomicStore WITH
  store  <- [p \in Path |-> Recoverable(p)],
  intent <- IF pc = "idle" THEN <<>> ELSE plan.after,
  phase  <- IF pc = "idle" THEN "idle" ELSE IF committed THEN "committed" ELSE "running",
  result <- IF pc = "idle" THEN result ELSE "none"

(* All or nothing: seen through the recovery that will come, the sources   *)
(* nobody else touched change in one step, the publication of the          *)
(* committed journal, and only there, in spite of crashes, failed calls    *)
(* and edits; "ok" is answered only after that step and "failed" only      *)
(* without it.                                                             *)
Implements == Store!Spec

(* Bytes that the editor put into a source and that a hash check can see   *)
(* are never replaced or removed: a commit or a recovery only moves a      *)
(* source whose bytes are those the journal (or the plan) knows, unless it *)
(* was written in the very Window the move comes from.                     *)
ForeignBytesKept ==
  [][\A p \in Path :
       target'[p] # target[p] /\ edits' = edits /\ ~late
         => target[p] = Missing \/ target[p] \in {journal.base[p], journal.after[p]}
    ]_vars

(* A transaction that returns to its caller with a promise and was spared  *)
(* by crashes and failing calls leaves nothing behind; and whatever fails, *)
(* only temporaries are stranded, never a rollback file, the only copy of  *)
(* the bytes before.                                                       *)
NothingLeftBehind ==
  /\ pc = "idle" /\ result \in {"ok", "failed"} /\ journal = NoJournal
       /\ crashes = 0 /\ faults = 0
     => tmp = NoFiles /\ backup = NoFiles /\ litter = {}
  /\ \A f \in litter : f[1] = "tmp"

(* No crash and no failing call wedges the project: as long as writers     *)
(* come, journals go away, unless an outside edit stands in the way for    *)
(* good: a source of a committed journal differs from its after state, or  *)
(* one of a prepared journal holds unknown bytes, or its rollback file     *)
(* does, or its bytes from before are nowhere any more.                    *)
Foreign ==
  \E p \in Entries :
    IF journal.phase = "committed"
    THEN target[p] # journal.after[p]
    ELSE \/ target[p] \notin {journal.base[p], journal.after[p]}
         \/ backup[p] \notin {Missing, journal.base[p]}
         \/ journal.base[p] \notin {target[p], backup[p]}
JournalsGoAway == []<>(journal = NoJournal) \/ <>[]Foreign
=============================================================================
