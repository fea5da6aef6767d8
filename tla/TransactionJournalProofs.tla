---------------------- MODULE TransactionJournalProofs ----------------------
(***************************************************************************)
(* Theorems about TransactionJournal, for any number of sources, contents, *)
(* crashes, failing calls and edits: a transaction is atomic (it           *)
(* implements AtomicStore), foreign bytes are kept, nothing is left        *)
(* behind.                                                                 *)
(***************************************************************************)
EXTENDS TransactionJournal, TLAPS

(* The places of the program, by what the journal is there.                *)
Finishing   == {"compare", "cleanTmp", "cleanBackup"}
Cleaning    == {"cleanTmp", "cleanBackup"}
RollingBack == {"rollback", "unlink", "restore", "drop", "verify"}
Preparing   == {"act", "dependencies", "stage"}
Replacing   == {"recheck", "check", "save", "install", "confirm"}
Places == {"idle", "journal", "match", "finally"}
            \cup Finishing \cup RollingBack \cup Preparing \cup Replacing

(* Types, with those of the records' fields, and what a journal and a plan *)
(* say of a source: it is there before or after.                           *)
Mutation(base, after) == base # Missing \/ after # Missing

JournalTyped ==
  /\ journal.phase \in {"none", "prepared", "committed"}
  /\ journal.phase = "none" <=> journal = NoJournal
  /\ Entries \subseteq Path /\ DOMAIN journal.after = Entries
  /\ Entries = {} <=> journal.phase = "none"
  /\ \A p \in Entries :
       /\ journal.base[p] \in File /\ journal.after[p] \in File
       /\ Mutation(journal.base[p], journal.after[p])

PlanTyped ==
  /\ plan.base \in [Path -> File] /\ Mutated \subseteq Path
  /\ \A p \in Mutated : /\ plan.after[p] \in File
                        /\ Mutation(plan.base[p], plan.after[p])
FilesTyped ==
  /\ target \in [Path -> File] /\ tmp \in [Path -> File]
  /\ backup \in [Path -> File] /\ seen \in [Path -> File]
  /\ litter \subseteq {"tmp", "rollback"} \X Path

StepTyped ==
  /\ pc \in Places /\ todo \subseteq Path /\ touched \subseteq Path
  /\ ret \in {"open", "abort", "finalize", "commit"}
  /\ result \in {"none", "ok", "failed", "unknown"}

FlagsTyped ==
  /\ stale \in BOOLEAN /\ recovered \in BOOLEAN /\ failures \in BOOLEAN
  /\ committed \in BOOLEAN /\ late \in BOOLEAN

BudgetTyped == faults \in Nat /\ crashes \in Nat /\ edits \in Nat

Typed == /\ FilesTyped /\ StepTyped /\ FlagsTyped /\ BudgetTyped
         /\ JournalTyped /\ PlanTyped

(* Which journal each place works on, and whether it is past the commit.   *)
ControlInv ==
  /\ pc \in Finishing => journal.phase = "committed"
  /\ pc \in RollingBack => journal.phase = "prepared"
  /\ pc \in Preparing => journal = NoJournal /\ ~committed
  /\ pc \in Replacing => journal = JournalFor("prepared") /\ ~committed
  /\ pc = "match" => journal.phase = "committed" /\ committed
  /\ pc = "finally" => /\ journal.phase # "prepared"
                       /\ result = "ok" => committed
                       /\ result = "failed" => ~committed
  /\ pc = "act" => plan = NoPlan
  /\ pc \in {"dependencies", "stage"} \cup Replacing => Mutated # {}
  /\ pc \in {"stage", "check", "save", "install", "confirm"} => todo \subseteq Mutated
  /\ pc \in Finishing \cup RollingBack => todo \subseteq Entries
  /\ pc \in {"journal"} \cup Finishing \cup RollingBack =>
       /\ ret = "open" => plan = NoPlan /\ ~committed
       /\ ret = "abort" => journal.phase = "prepared" /\ ~committed
       /\ ret \in {"finalize", "commit"} => journal.phase = "committed" /\ committed
       /\ ret = "commit" => pc \in Cleaning

(* A rollback file belongs to an entry of the journal, and goes before the *)
(* journal does.                                                           *)
BackupInv ==
  /\ \A p \in Path \ Entries : backup[p] = Missing
  /\ pc \in Cleaning => \A p \in Entries \ todo : backup[p] = Missing
  /\ pc \in RollingBack /\ ~failures => \A p \in Entries \ todo : backup[p] = Missing
  /\ pc \in RollingBack \ {"rollback", "drop"} => \A p \in Entries : Last(p) =>
       backup[p] = IF pc = "verify" THEN Missing ELSE journal.base[p]
  /\ pc = "restore" => \A p \in Entries : Last(p) => journal.base[p] # Missing

(* A source nobody touched, between the publications of the journal: not   *)
(* yet moved, moved away, or replaced.                                     *)
Unmoved(p)  == target[p] = journal.base[p] /\ backup[p] = Missing
MovedAway(p) == target[p] = Missing /\ backup[p] = journal.base[p]
Installed(p) == target[p] = journal.after[p] /\ backup[p] = journal.base[p]

PreparedInv ==
  journal.phase = "prepared" =>
    \A p \in Entries \ touched : Unmoved(p) \/ MovedAway(p) \/ Installed(p)

(* What a rollback has restored, and what it is about to drop.             *)
RestoredInv ==
  /\ pc \in RollingBack /\ ~failures =>
       \A p \in Entries \ (todo \cup touched) : target[p] = journal.base[p]
  /\ pc = "drop" => \A p \in Entries \ touched : Last(p) => target[p] = journal.base[p]

(* What a commit has staged, found unchanged, and replaced.                *)
StagedInv ==
  /\ pc = "stage" => \A p \in Mutated \ todo :
       tmp[p] = plan.after[p] /\ (p \notin touched => target[p] = plan.base[p])
  /\ pc = "recheck" => \A p \in Mutated :
       tmp[p] = plan.after[p] /\ (p \notin touched => target[p] = plan.base[p])
  /\ pc \in {"check", "save", "install"} => \A p \in todo :
       /\ tmp[p] = plan.after[p]
       /\ p \notin touched =>
            IF pc = "install" /\ First(p) THEN MovedAway(p) ELSE target[p] = plan.base[p]
  /\ pc = "confirm" => \A p \in Mutated \ (todo \cup touched) : target[p] = plan.after[p]

JournalInv ==
  /\ ControlInv /\ BackupInv /\ PreparedInv /\ RestoredInv /\ StagedInv

(* Without crashes and failing calls a temporary belongs to an entry of    *)
(* the journal, or to an entry staged so far.                              *)
Spared == crashes = 0 /\ faults = 0

LeftoverInv ==
  /\ \A f \in litter : f[1] = "tmp"
  /\ Spared =>
       /\ litter = {}
       /\ \A p \in Path : tmp[p] # Missing =>
            \/ p \in Entries /\ (pc \in Cleaning => p \in todo)
                             /\ (pc = "cleanBackup" => ~First(p))
                             /\ (pc \in RollingBack /\ ~failures => p \in todo)
            \/ pc = "stage" /\ p \in Mutated \ todo
            \/ pc = "finally"

(* Unless it was written after its check, the next source to be moved is   *)
(* still what the check saw.                                               *)
WindowInv ==
  ~late =>
    /\ pc = "save" => \A p \in todo : First(p) => target[p] = plan.base[p]
    /\ pc = "install" => \A p \in todo : First(p) => target[p] = Missing
    /\ pc = "unlink" => \A p \in todo : Last(p) => target[p] = journal.after[p]
    /\ pc = "restore" => \A p \in todo : Last(p) => target[p] = Missing

---------------------------------------------------------------------------
(* Helpers: one first and one last entry, and what a rollback has seen.    *)
LEMMA OneFirst ==
  ASSUME NEW p \in Path, NEW q \in Path, First(p), First(q)
  PROVE  p = q
BY PathAssumption DEF First

LEMMA OneLast ==
  ASSUME NEW p \in Path, NEW q \in Path, Last(p), Last(q)
  PROVE  p = q
BY PathAssumption DEF Last

(* What each verdict of a rollback has seen.                               *)
LEMMA Verdicts ==
  ASSUME Typed, NEW p \in Entries
  PROVE  LET base == journal.base[p]
             after == journal.after[p] IN
         /\ RollbackOf(p) = "skip" => target[p] = base /\ backup[p] = Missing
         /\ RollbackOf(p) = "verify" => backup[p] = Missing
         /\ RollbackOf(p) = "unlink" =>
              target[p] = after /\ after # Missing /\ backup[p] = base
         /\ RollbackOf(p) = "restore" =>
              target[p] = Missing /\ backup[p] = base /\ base # Missing
         /\ RollbackOf(p) = "drop" => target[p] = base
         /\ RollbackOf(p) \in {"skip", "fail", "verify", "unlink", "restore", "drop"}
BY ZenonT(60) DEF RollbackOf

(* Types, step by step.                                                    *)
LEMMA FilesTypedInductive ==
  ASSUME Typed, ControlInv, [Next]_vars
  PROVE  FilesTyped'
<1> USE DEF files, writer, history, Close, Goto, Works, Typed, FilesTyped,
            StepTyped, PlanTyped, JournalTyped, ControlInv, File, NoFiles,
            Entries, Mutated, Replacing, Preparing, Finishing, RollingBack
<1>1. CASE NoJournalFound
  BY <1>1 DEF NoJournalFound, RecoveryDone, Leftover
<1>2. ASSUME NEW p \in Path, CleanTmp(p)
      PROVE  FilesTyped'
  BY <1>2 DEF CleanTmp, Step
<1>3. ASSUME NEW p \in Path, CleanBackup(p)
      PROVE  FilesTyped'
  BY <1>3 DEF CleanBackup, Step
<1>4. ASSUME NEW p \in Path, RollbackEntry(p)
      PROVE  FilesTyped'
  BY <1>4 DEF RollbackEntry, EntryDone, EntryFailed, Fails
<1>5. ASSUME NEW p \in Path, RollbackUnlink(p)
      PROVE  FilesTyped'
  BY <1>5 DEF RollbackUnlink, EntryFailed, Fails
<1>6. ASSUME NEW p \in Path, RollbackRestore(p)
      PROVE  FilesTyped'
  BY <1>6 DEF RollbackRestore, EntryFailed, Fails
<1>7. ASSUME NEW p \in Path, RollbackDrop(p)
      PROVE  FilesTyped'
  BY <1>7 DEF RollbackDrop, EntryFailed, Fails
<1>8. ASSUME NEW p \in Path, RollbackVerify(p)
      PROVE  FilesTyped'
  BY <1>8 DEF RollbackVerify, EntryDone, EntryFailed, Fails
<1>9. CASE Plan
  BY <1>9 DEF Plan, Step
<1>10. ASSUME NEW p \in Path, Stage(p)
      PROVE  FilesTyped'
  BY <1>10 DEF Stage, GiveUp, Fails, First
<1>11. ASSUME NEW p \in Path, Save(p)
      PROVE  FilesTyped'
  BY <1>11 DEF Save, Abort, Fails
<1>12. ASSUME NEW p \in Path, Install(p)
      PROVE  FilesTyped'
  BY <1>12 DEF Install, Abort, Fails, First
<1>13. CASE Finally
  BY <1>13 DEF Finally, Fails, Step
<1>14. CASE Begin
  BY <1>14 DEF Begin, Step
<1>15. CASE Crash
  BY <1>15 DEF Crash
<1>16. ASSUME NEW p \in Path, NEW bytes \in File, Edit(p, bytes)
      PROVE  FilesTyped'
  BY <1>16 DEF Edit
<1>17. CASE UNCHANGED vars
  BY <1>17 DEF vars
<1>18. CASE \/ JournalFound \/ JournalUnreadable \/ Compared \/ CleanJournal
          \/ CleanFails \/ RolledBack \/ CheckDependencies \/ Prepare
          \/ RecheckDependencies \/ Replaced \/ Commit \/ Match
          \/ \E p \in Path :
               \/ Compare(p) \/ Check(p) \/ Confirm(p)
  BY <1>18 DEF JournalFound, JournalUnreadable, RecoveryFailed, Fails,
     Compare, Compared, CleanJournal, RecoveryDone, CleanFails, RolledBack,
     CheckDependencies, GiveUp, Prepare, JournalFor, RecheckDependencies,
     Abort, Check, Confirm, Replaced, Step, Commit, Match
<1> QED
  BY <1>1, <1>2, <1>3, <1>4, <1>5, <1>6, <1>7, <1>8, <1>9, <1>10, <1>11,
     <1>12, <1>13, <1>14, <1>15, <1>16, <1>17, <1>18 DEF Next, Recovery,
     Committing

LEMMA StepTypedInductive ==
  ASSUME Typed, [Next]_vars
  PROVE  StepTyped'
<1> USE DEF files, writer, history, Close, Goto, Works, Typed, StepTyped, Places,
            Finishing, RollingBack, Preparing, Replacing, Entries, Mutated,
            JournalTyped, PlanTyped
<1>1. CASE NoJournalFound
  BY <1>1 DEF NoJournalFound, RecoveryDone, Leftover
<1>2. CASE JournalFound
  BY <1>2 DEF JournalFound
<1>3. CASE JournalUnreadable
  BY <1>3 DEF JournalUnreadable, RecoveryFailed, Fails
<1>4. ASSUME NEW p \in Path, Compare(p)
      PROVE  StepTyped'
  BY <1>4 DEF Compare
<1>5. ASSUME NEW p \in Path, CleanTmp(p)
      PROVE  StepTyped'
  BY <1>5 DEF CleanTmp, Step
<1>6. ASSUME NEW p \in Path, CleanBackup(p)
      PROVE  StepTyped'
  BY <1>6 DEF CleanBackup, Step
<1>7. CASE Compared
  BY <1>7 DEF Compared, RecoveryFailed
<1>8. CASE CleanJournal
  BY <1>8 DEF CleanJournal, RecoveryDone
<1>9. CASE CleanFails
  BY <1>9 DEF CleanFails, RecoveryFailed, Fails
<1>10. ASSUME NEW p \in Path, RollbackEntry(p)
      PROVE  StepTyped'
  BY <1>10 DEF RollbackEntry, EntryDone, EntryFailed, Fails
<1>11. ASSUME NEW p \in Path, RollbackUnlink(p)
      PROVE  StepTyped'
  BY <1>11 DEF RollbackUnlink, EntryFailed, Fails
<1>12. ASSUME NEW p \in Path, RollbackRestore(p)
      PROVE  StepTyped'
  BY <1>12 DEF RollbackRestore, EntryFailed, Fails
<1>13. ASSUME NEW p \in Path, RollbackDrop(p)
      PROVE  StepTyped'
  BY <1>13 DEF RollbackDrop, EntryFailed, Fails
<1>14. ASSUME NEW p \in Path, RollbackVerify(p)
      PROVE  StepTyped'
  BY <1>14 DEF RollbackVerify, EntryDone, EntryFailed, Fails
<1>15. CASE RolledBack
  BY <1>15 DEF RolledBack, RecoveryDone, RecoveryFailed, Fails
<1>16. CASE Plan
  BY <1>16 DEF Plan, Step
<1>17. CASE CheckDependencies
  BY <1>17 DEF CheckDependencies, GiveUp, Fails
<1>18. CASE Prepare
  BY <1>18 DEF Prepare, GiveUp, Fails, JournalFor
<1>19. CASE RecheckDependencies
  BY <1>19 DEF RecheckDependencies, Abort, Fails
<1>20. ASSUME NEW p \in Path, Stage(p)
      PROVE  StepTyped'
  BY <1>20 DEF Stage, GiveUp, Fails
<1>21. ASSUME NEW p \in Path, Check(p)
      PROVE  StepTyped'
  BY <1>21 DEF Check, Abort, Fails
<1>22. ASSUME NEW p \in Path, Save(p)
      PROVE  StepTyped'
  BY <1>22 DEF Save, Abort, Fails
<1>23. ASSUME NEW p \in Path, Install(p)
      PROVE  StepTyped'
  BY <1>23 DEF Install, Abort, Fails
<1>24. ASSUME NEW p \in Path, Confirm(p)
      PROVE  StepTyped'
  BY <1>24 DEF Confirm, Abort, Fails
<1>25. CASE Replaced
  BY <1>25 DEF Replaced, Step
<1>26. CASE Commit
  BY <1>26 DEF Commit, Abort, Fails, JournalFor
<1>27. CASE Match
  BY <1>27 DEF Match, Fails
<1>28. CASE Finally
  BY <1>28 DEF Finally, Fails, Step
<1>29. CASE Begin
  BY <1>29 DEF Begin, Step
<1>30. CASE Crash
  BY <1>30 DEF Crash
<1>31. ASSUME NEW p \in Path, NEW bytes \in File, Edit(p, bytes)
      PROVE  StepTyped'
  BY <1>31 DEF Edit
<1>32. CASE UNCHANGED vars
  BY <1>32 DEF vars
<1> QED
  BY <1>1, <1>2, <1>3, <1>4, <1>5, <1>6, <1>7, <1>8, <1>9, <1>10, <1>11,
     <1>12, <1>13, <1>14, <1>15, <1>16, <1>17, <1>18, <1>19, <1>20, <1>21,
     <1>22, <1>23, <1>24, <1>25, <1>26, <1>27, <1>28, <1>29, <1>30, <1>31,
     <1>32 DEF Next, Recovery, Committing

LEMMA FlagsTypedInductive ==
  ASSUME Typed, [Next]_vars
  PROVE  FlagsTyped'
<1> USE DEF files, writer, history, Close, Goto, Works, Typed, FlagsTyped
<1>1. CASE JournalFound
  BY <1>1 DEF JournalFound
<1>2. ASSUME NEW p \in Path, Compare(p)
      PROVE  FlagsTyped'
  BY <1>2 DEF Compare
<1>3. ASSUME NEW p \in Path, RollbackEntry(p)
      PROVE  FlagsTyped'
  BY <1>3 DEF RollbackEntry, EntryDone, EntryFailed, Fails
<1>4. ASSUME NEW p \in Path, RollbackUnlink(p)
      PROVE  FlagsTyped'
  BY <1>4 DEF RollbackUnlink, EntryFailed, Fails
<1>5. ASSUME NEW p \in Path, RollbackRestore(p)
      PROVE  FlagsTyped'
  BY <1>5 DEF RollbackRestore, EntryFailed, Fails
<1>6. ASSUME NEW p \in Path, RollbackDrop(p)
      PROVE  FlagsTyped'
  BY <1>6 DEF RollbackDrop, EntryFailed, Fails
<1>7. ASSUME NEW p \in Path, RollbackVerify(p)
      PROVE  FlagsTyped'
  BY <1>7 DEF RollbackVerify, EntryDone, EntryFailed, Fails
<1>8. CASE Plan
  BY <1>8 DEF Plan, Step
<1>9. CASE Commit
  BY <1>9 DEF Commit, Abort, Fails, JournalFor
<1>10. CASE Begin
  BY <1>10 DEF Begin, Step
<1>11. CASE Crash
  BY <1>11 DEF Crash
<1>12. ASSUME NEW p \in Path, NEW bytes \in File, Edit(p, bytes)
      PROVE  FlagsTyped'
  BY <1>12 DEF Edit
<1>13. CASE UNCHANGED vars
  BY <1>13 DEF vars
<1>14. CASE NoJournalFound
  BY <1>14 DEF NoJournalFound
<1>15. CASE Finally
  BY <1>15 DEF Finally, Step, Fails
<1>16. CASE \/ JournalUnreadable \/ Compared \/ CleanJournal \/ CleanFails
          \/ RolledBack \/ \E p \in Path : CleanTmp(p) \/ CleanBackup(p)
  BY <1>16 DEF JournalUnreadable, RecoveryFailed, Fails, CleanTmp, Step,
     CleanBackup, Compared, CleanJournal, CleanFails, RolledBack
<1>17. CASE \/ CheckDependencies \/ Prepare \/ RecheckDependencies
          \/ Replaced \/ Match
          \/ \E p \in Path : Stage(p) \/ Check(p) \/ Confirm(p)
  BY <1>17 DEF Fails, Step, CheckDependencies, GiveUp, Prepare, Abort,
     RecheckDependencies, Stage, Check, Confirm, Replaced, Match
<1>18. ASSUME NEW p \in Path, Save(p) \/ Install(p)
      PROVE  FlagsTyped'
  BY <1>18 DEF Save, Install, Abort, Fails
<1> QED
  BY <1>1, <1>2, <1>3, <1>4, <1>5, <1>6, <1>7, <1>8, <1>9, <1>10, <1>11,
     <1>12, <1>13, <1>14, <1>15, <1>16, <1>17, <1>18 DEF Next, Recovery,
     Committing

LEMMA BudgetTypedInductive ==
  ASSUME Typed, [Next]_vars
  PROVE  BudgetTyped'
<1> USE DEF files, writer, history, Close, Goto, Works, Typed, BudgetTyped
<1>1. CASE Plan
  BY <1>1 DEF Plan, Step
<1>2. CASE Replaced
  BY <1>2 DEF Replaced, Step
<1>3. CASE Begin
  BY <1>3 DEF Begin, Step
<1>4. CASE Crash
  BY <1>4 DEF Crash
<1>5. ASSUME NEW p \in Path, NEW bytes \in File, Edit(p, bytes)
      PROVE  BudgetTyped'
  BY <1>5 DEF Edit
<1>6. CASE UNCHANGED vars
  BY <1>6 DEF vars
<1>7. CASE \/ NoJournalFound \/ JournalFound \/ JournalUnreadable \/ Compared
          \/ CleanJournal \/ CleanFails \/ RolledBack \/ CheckDependencies
          \/ Prepare \/ RecheckDependencies \/ Commit \/ Match
          \/ Finally
          \/ \E p \in Path :
               \/ Compare(p) \/ CleanTmp(p) \/ CleanBackup(p)
               \/ RollbackEntry(p) \/ RollbackUnlink(p) \/ RollbackRestore(p)
               \/ RollbackDrop(p) \/ RollbackVerify(p) \/ Stage(p)
               \/ Check(p) \/ Save(p) \/ Install(p)
               \/ Confirm(p)
  BY <1>7 DEF NoJournalFound, RecoveryDone, Leftover, JournalFound,
     JournalUnreadable, RecoveryFailed, Fails, Compare, CleanTmp, Step,
     CleanBackup, Compared, CleanJournal, CleanFails, RollbackEntry,
     EntryDone, EntryFailed, RollbackUnlink, RollbackRestore, RollbackDrop,
     RollbackVerify, RolledBack, CheckDependencies, GiveUp, Prepare,
     JournalFor, RecheckDependencies, Abort, Stage, Check, Save, Install,
     Confirm, Commit, Match, Finally
<1> QED
  BY <1>1, <1>2, <1>3, <1>4, <1>5, <1>6, <1>7 DEF Next, Recovery, Committing

LEMMA JournalTypedInductive ==
  ASSUME Typed, ControlInv, [Next]_vars
  PROVE  JournalTyped'
<1> USE DEF files, writer, history, Close, Goto, Works, Typed, JournalTyped,
            PlanTyped, ControlInv, Entries, Mutated, Mutation, NoJournal,
            File, Preparing, Replacing
<1>1. CASE CleanJournal
  BY <1>1 DEF CleanJournal, RecoveryDone
<1>2. CASE RolledBack
  BY <1>2 DEF RolledBack, RecoveryDone, RecoveryFailed, Fails
<1>3. CASE Prepare
  BY <1>3 DEF Prepare, GiveUp, Fails, JournalFor
<1>4. CASE Commit
  BY <1>4 DEF Commit, Abort, Fails, JournalFor
<1>5. ASSUME NEW p \in Path, NEW bytes \in File, Edit(p, bytes)
      PROVE  JournalTyped'
  BY <1>5 DEF Edit
<1>6. CASE UNCHANGED vars
  BY <1>6 DEF vars
<1>7. CASE \/ NoJournalFound \/ JournalFound \/ JournalUnreadable \/ Compared
          \/ CleanFails \/ Plan \/ CheckDependencies \/ RecheckDependencies
          \/ Replaced \/ Match \/ Finally \/ Begin
          \/ Crash
          \/ \E p \in Path :
               \/ Compare(p) \/ CleanTmp(p) \/ CleanBackup(p)
               \/ RollbackEntry(p) \/ RollbackUnlink(p) \/ RollbackRestore(p)
               \/ RollbackDrop(p) \/ RollbackVerify(p) \/ Stage(p)
               \/ Check(p) \/ Save(p) \/ Install(p)
               \/ Confirm(p)
  BY <1>7 DEF NoJournalFound, RecoveryDone, Leftover, JournalFound,
     JournalUnreadable, RecoveryFailed, Fails, Compare, CleanTmp, Step,
     CleanBackup, Compared, CleanFails, RollbackEntry, EntryDone,
     EntryFailed, RollbackUnlink, RollbackRestore, RollbackDrop,
     RollbackVerify, Plan, CheckDependencies, GiveUp, RecheckDependencies,
     Abort, Stage, Check, Save, Install, Confirm, Replaced, Match, Finally,
     Begin, Crash
<1> QED
  BY <1>1, <1>2, <1>3, <1>4, <1>5, <1>6, <1>7 DEF Next, Recovery, Committing

LEMMA PlanTypedInductive ==
  ASSUME Typed, [Next]_vars
  PROVE  PlanTyped'
<1> USE DEF files, writer, history, Close, Goto, Works, Typed, FilesTyped,
            PlanTyped, Mutated, Mutation, NoPlan, NoFiles, File
<1>1. CASE Plan
  BY <1>1 DEF Plan, Step
<1>2. CASE Begin
  BY <1>2 DEF Begin, Step
<1>3. CASE Crash
  BY <1>3 DEF Crash
<1>4. ASSUME NEW p \in Path, NEW bytes \in File, Edit(p, bytes)
      PROVE  PlanTyped'
  BY <1>4 DEF Edit
<1>5. CASE UNCHANGED vars
  BY <1>5 DEF vars
<1>6. CASE \/ NoJournalFound \/ JournalFound \/ JournalUnreadable \/ Compared
          \/ CleanJournal \/ CleanFails \/ RolledBack \/ CheckDependencies
          \/ Prepare \/ RecheckDependencies \/ Replaced \/ Commit
          \/ Match \/ Finally
          \/ \E p \in Path :
               \/ Compare(p) \/ CleanTmp(p) \/ CleanBackup(p)
               \/ RollbackEntry(p) \/ RollbackUnlink(p) \/ RollbackRestore(p)
               \/ RollbackDrop(p) \/ RollbackVerify(p) \/ Stage(p)
               \/ Check(p) \/ Save(p) \/ Install(p)
               \/ Confirm(p)
  BY <1>6 DEF NoJournalFound, RecoveryDone, Leftover, JournalFound,
     JournalUnreadable, RecoveryFailed, Fails, Compare, CleanTmp, Step,
     CleanBackup, Compared, CleanJournal, CleanFails, RollbackEntry,
     EntryDone, EntryFailed, RollbackUnlink, RollbackRestore, RollbackDrop,
     RollbackVerify, RolledBack, CheckDependencies, GiveUp, Prepare,
     JournalFor, RecheckDependencies, Abort, Stage, Check, Save, Install,
     Confirm, Replaced, Commit, Match, Finally
<1> QED
  BY <1>1, <1>2, <1>3, <1>4, <1>5, <1>6 DEF Next, Recovery, Committing

LEMMA TypedInductive ==
  ASSUME Typed, ControlInv, [Next]_vars
  PROVE  Typed'
BY FilesTypedInductive, StepTypedInductive, FlagsTypedInductive, BudgetTypedInductive,
   JournalTypedInductive, PlanTypedInductive
DEF Typed

(* Each place keeps the journal it works on.                               *)
LEMMA ControlInductive ==
  ASSUME Typed, ControlInv, [Next]_vars
  PROVE  ControlInv'
<1> USE DEF files, writer, history, Close, Goto, Works, Typed, StepTyped,
            JournalTyped, PlanTyped, Places, Finishing, Cleaning,
            RollingBack, Preparing, Replacing, Entries, Mutated, NoJournal,
            NoPlan, ControlInv, JournalFor
<1>1. CASE NoJournalFound
  BY <1>1 DEF NoJournalFound, RecoveryDone, Leftover
<1>2. CASE JournalFound
  BY <1>2 DEF JournalFound
<1>3. CASE JournalUnreadable
  BY <1>3 DEF JournalUnreadable, RecoveryFailed, Fails
<1>4. ASSUME NEW p \in Path, Compare(p)
      PROVE  ControlInv'
  BY <1>4 DEF Compare
<1>5. ASSUME NEW p \in Path, CleanTmp(p)
      PROVE  ControlInv'
  BY <1>5 DEF CleanTmp, Step
<1>6. ASSUME NEW p \in Path, CleanBackup(p)
      PROVE  ControlInv'
  BY <1>6 DEF CleanBackup, Step
<1>7. CASE Compared
  BY <1>7 DEF Compared, RecoveryFailed
<1>8. CASE CleanJournal
  BY <1>8 DEF CleanJournal, RecoveryDone
<1>9. CASE CleanFails
  BY <1>9 DEF CleanFails, RecoveryFailed, Fails
<1>10. ASSUME NEW p \in Path, RollbackEntry(p)
      PROVE  ControlInv'
  BY <1>10 DEF RollbackEntry, EntryDone, EntryFailed, Fails
<1>11. ASSUME NEW p \in Path, RollbackUnlink(p)
      PROVE  ControlInv'
  BY <1>11 DEF RollbackUnlink, EntryFailed, Fails
<1>12. ASSUME NEW p \in Path, RollbackRestore(p)
      PROVE  ControlInv'
  BY <1>12 DEF RollbackRestore, EntryFailed, Fails
<1>13. ASSUME NEW p \in Path, RollbackDrop(p)
      PROVE  ControlInv'
  BY <1>13 DEF RollbackDrop, EntryFailed, Fails
<1>14. ASSUME NEW p \in Path, RollbackVerify(p)
      PROVE  ControlInv'
  BY <1>14 DEF RollbackVerify, EntryDone, EntryFailed, Fails
<1>15. CASE RolledBack
  BY <1>15 DEF RolledBack, RecoveryDone, RecoveryFailed, Fails
<1>16. CASE Plan
  BY <1>16 DEF Plan, Step
<1>17. CASE CheckDependencies
  BY <1>17 DEF CheckDependencies, GiveUp, Fails
<1>18. CASE Prepare
  BY <1>18 DEF Prepare, GiveUp, Fails
<1>19. CASE RecheckDependencies
  BY <1>19 DEF RecheckDependencies, Abort, Fails
<1>20. ASSUME NEW p \in Path, Stage(p)
      PROVE  ControlInv'
  BY <1>20 DEF Stage, GiveUp, Fails
<1>21. ASSUME NEW p \in Path, Check(p)
      PROVE  ControlInv'
  BY <1>21 DEF Check, Abort, Fails
<1>22. ASSUME NEW p \in Path, Save(p)
      PROVE  ControlInv'
  BY <1>22 DEF Save, Abort, Fails
<1>23. ASSUME NEW p \in Path, Install(p)
      PROVE  ControlInv'
  BY <1>23 DEF Install, Abort, Fails
<1>24. ASSUME NEW p \in Path, Confirm(p)
      PROVE  ControlInv'
  BY <1>24 DEF Confirm, Abort, Fails
<1>25. CASE Replaced
  BY <1>25 DEF Replaced, Step
<1>26. CASE Commit
  BY <1>26 DEF Commit, Abort, Fails
<1>27. CASE Match
  BY <1>27 DEF Match, Fails
<1>28. CASE Finally
  BY <1>28 DEF Finally, Fails, Step
<1>29. CASE Begin
  BY <1>29 DEF Begin, Step
<1>30. CASE Crash
  BY <1>30 DEF Crash
<1>31. ASSUME NEW p \in Path, NEW bytes \in File, Edit(p, bytes)
      PROVE  ControlInv'
  BY <1>31 DEF Edit
<1>32. CASE UNCHANGED vars
  BY <1>32 DEF vars
<1> QED
  BY <1>1, <1>2, <1>3, <1>4, <1>5, <1>6, <1>7, <1>8, <1>9, <1>10, <1>11,
     <1>12, <1>13, <1>14, <1>15, <1>16, <1>17, <1>18, <1>19, <1>20, <1>21,
     <1>22, <1>23, <1>24, <1>25, <1>26, <1>27, <1>28, <1>29, <1>30, <1>31,
     <1>32 DEF Next, Recovery, Committing

(* A rollback file goes before its journal.                                *)
LEMMA BackupInductive ==
  ASSUME Typed, ControlInv, BackupInv, PreparedInv, RestoredInv, StagedInv,
         [Next]_vars
  PROVE  BackupInv'
<1> USE DEF files, writer, history, Close, Goto, Works, Typed, FilesTyped,
            StepTyped, JournalTyped, PlanTyped, Places, Finishing, Cleaning,
            RollingBack, Preparing, Replacing, Entries, Mutated, Mutation,
            NoJournal, NoFiles, NoPlan, First, Last, ControlInv, JournalFor,
            BackupInv
<1>1. CASE NoJournalFound
  BY <1>1 DEF NoJournalFound, RecoveryDone, Leftover
<1>2. CASE JournalFound
  BY <1>2 DEF JournalFound
<1>3. ASSUME NEW p \in Path, CleanTmp(p)
      PROVE  BackupInv'
  BY <1>3 DEF CleanTmp, Step
<1>4. ASSUME NEW p \in Path, CleanBackup(p)
      PROVE  BackupInv'
  BY <1>4 DEF CleanBackup, Step
<1>5. CASE Compared
  BY <1>5 DEF Compared, RecoveryFailed
<1>6. CASE CleanJournal
  BY <1>6 DEF CleanJournal, RecoveryDone
<1>7. CASE CleanFails
  BY <1>7 DEF CleanFails, RecoveryFailed, Fails
<1>8. ASSUME NEW p \in Path, RollbackEntry(p)
      PROVE  BackupInv'
  <2>0. p \in Entries /\ Last(p) /\ pc = "rollback"
    BY <1>8 DEF RollbackEntry
  <2>1. \A q \in Entries : Last(q) => q = p
    BY <2>0, OneLast
  <2>2. CASE RollbackOf(p) = "skip" /\ EntryDone(p)
    BY <1>8, <2>0, <2>2, Verdicts DEF RollbackEntry, EntryDone, Fails
  <2>3. CASE EntryFailed(p)
    BY <1>8, <2>3 DEF RollbackEntry, EntryFailed
  <2>4. CASE Goto(RollbackOf(p)) /\ UNCHANGED <<todo, tmp, failures>>
             /\ RollbackOf(p) \in {"verify", "unlink", "restore", "drop"}
    BY <1>8, <2>0, <2>1, <2>4, Verdicts DEF RollbackEntry
  <2> QED
    BY <1>8, <2>2, <2>3, <2>4 DEF RollbackEntry
<1>9. ASSUME NEW p \in Path, RollbackUnlink(p)
      PROVE  BackupInv'
  <2>0. p \in Entries /\ Last(p) /\ \A q \in Entries : Last(q) => q = p
    BY <1>9, OneLast DEF RollbackUnlink
  <2>1. CASE EntryFailed(p)
    BY <1>9, <2>1 DEF RollbackUnlink, EntryFailed
  <2>2. CASE ~EntryFailed(p)
    BY <1>9, <2>0, <2>2 DEF RollbackUnlink
  <2> QED
    BY <2>1, <2>2
<1>10. ASSUME NEW p \in Path, RollbackRestore(p)
      PROVE  BackupInv'
  <2>0. p \in Entries /\ Last(p) /\ \A q \in Entries : Last(q) => q = p
    BY <1>10, OneLast DEF RollbackRestore
  <2>1. CASE EntryFailed(p)
    BY <1>10, <2>1 DEF RollbackRestore, EntryFailed
  <2>2. CASE ~EntryFailed(p)
    BY <1>10, <2>0, <2>2 DEF RollbackRestore
  <2> QED
    BY <2>1, <2>2
<1>11. ASSUME NEW p \in Path, RollbackDrop(p)
      PROVE  BackupInv'
  <2>0. p \in Entries /\ Last(p) /\ \A q \in Entries : Last(q) => q = p
    BY <1>11, OneLast DEF RollbackDrop
  <2>1. CASE EntryFailed(p)
    BY <1>11, <2>1 DEF RollbackDrop, EntryFailed
  <2>2. CASE ~EntryFailed(p)
    BY <1>11, <2>0, <2>2 DEF RollbackDrop
  <2> QED
    BY <2>1, <2>2
<1>12. ASSUME NEW p \in Path, RollbackVerify(p)
      PROVE  BackupInv'
  BY <1>12 DEF RollbackVerify, EntryDone, EntryFailed, Fails
<1>13. CASE RolledBack
  BY <1>13 DEF RolledBack, RecoveryDone, RecoveryFailed, Fails
<1>14. CASE Prepare
  BY <1>14 DEF Prepare, GiveUp, Fails
<1>15. ASSUME NEW p \in Path, Save(p)
      PROVE  BackupInv'
  BY <1>15 DEF Save, Abort, Fails
<1>16. CASE Commit
  BY <1>16 DEF Commit, Abort, Fails
<1>17. CASE Finally
  BY <1>17 DEF Finally, Fails, Step
<1>18. ASSUME NEW p \in Path, NEW bytes \in File, Edit(p, bytes)
      PROVE  BackupInv'
  BY <1>18 DEF Edit
<1>19. CASE UNCHANGED vars
  BY <1>19 DEF vars
<1>20. CASE \/ JournalUnreadable \/ Plan \/ CheckDependencies \/ RecheckDependencies
          \/ Replaced \/ Match \/ Begin \/ Crash
          \/ \E p \in Path :
               \/ Compare(p) \/ Stage(p) \/ Check(p)
               \/ Install(p) \/ Confirm(p)
  BY <1>20 DEF JournalUnreadable, RecoveryFailed, Fails, Compare, Plan,
     Step, CheckDependencies, GiveUp, RecheckDependencies, Abort, Stage,
     Check, Install, Confirm, Replaced, Match, Begin, Crash
<1> QED
  BY <1>1, <1>2, <1>3, <1>4, <1>5, <1>6, <1>7, <1>8, <1>9, <1>10, <1>11,
     <1>12, <1>13, <1>14, <1>15, <1>16, <1>17, <1>18, <1>19, <1>20 DEF Next,
     Recovery, Committing

(* Nobody but an editor moves a source out of what the journal expects.    *)
LEMMA PreparedInductive ==
  ASSUME Typed, ControlInv, BackupInv, PreparedInv, RestoredInv, StagedInv,
         [Next]_vars
  PROVE  PreparedInv'
<1> USE DEF files, writer, history, Close, Goto, Works, Typed, FilesTyped,
            StepTyped, JournalTyped, PlanTyped, Places, Finishing, Cleaning,
            RollingBack, Preparing, Replacing, Entries, Mutated, Mutation,
            NoJournal, NoFiles, NoPlan, First, Last, ControlInv, JournalFor,
            BackupInv, PreparedInv, RestoredInv, StagedInv, Unmoved,
            MovedAway, Installed
<1>1. CASE NoJournalFound
  BY <1>1 DEF NoJournalFound, RecoveryDone, Leftover
<1>2. ASSUME NEW p \in Path, CleanBackup(p)
      PROVE  PreparedInv'
  BY <1>2 DEF CleanBackup, Step
<1>3. CASE CleanJournal
  BY <1>3 DEF CleanJournal, RecoveryDone
<1>4. ASSUME NEW p \in Path, RollbackEntry(p)
      PROVE  PreparedInv'
  BY <1>4 DEF RollbackEntry, EntryDone, EntryFailed, Fails
<1>5. ASSUME NEW p \in Path, RollbackUnlink(p)
      PROVE  PreparedInv'
  BY <1>5 DEF RollbackUnlink, EntryFailed, Fails
<1>6. ASSUME NEW p \in Path, RollbackRestore(p)
      PROVE  PreparedInv'
  BY <1>6 DEF RollbackRestore, EntryFailed, Fails
<1>7. ASSUME NEW p \in Path, RollbackDrop(p)
      PROVE  PreparedInv'
  BY <1>7 DEF RollbackDrop, EntryFailed, Fails
<1>8. CASE RolledBack
  BY <1>8 DEF RolledBack, RecoveryDone, RecoveryFailed, Fails
<1>9. CASE Prepare
  BY <1>9 DEF Prepare, GiveUp, Fails
<1>10. ASSUME NEW p \in Path, Save(p)
      PROVE  PreparedInv'
  BY <1>10 DEF Save, Abort, Fails
<1>11. ASSUME NEW p \in Path, Install(p)
      PROVE  PreparedInv'
  BY <1>11 DEF Install, Abort, Fails
<1>12. CASE Commit
  BY <1>12 DEF Commit, Abort, Fails
<1>13. CASE Finally
  BY <1>13 DEF Finally, Fails, Step
<1>14. CASE Begin
  BY <1>14 DEF Begin, Step
<1>15. ASSUME NEW p \in Path, NEW bytes \in File, Edit(p, bytes)
      PROVE  PreparedInv'
  BY <1>15 DEF Edit
<1>16. CASE UNCHANGED vars
  BY <1>16 DEF vars
<1>17. CASE \/ JournalFound \/ JournalUnreadable \/ Compared \/ CleanFails
          \/ Plan \/ CheckDependencies \/ RecheckDependencies \/ Replaced
          \/ Match \/ Crash
          \/ \E p \in Path :
               \/ Compare(p) \/ CleanTmp(p) \/ RollbackVerify(p)
               \/ Stage(p) \/ Check(p) \/ Confirm(p)
  BY <1>17 DEF JournalFound, JournalUnreadable, RecoveryFailed, Fails,
     Compare, CleanTmp, Step, Compared, CleanFails, RollbackVerify,
     EntryDone, EntryFailed, Plan, CheckDependencies, GiveUp,
     RecheckDependencies, Abort, Stage, Check, Confirm, Replaced, Match,
     Crash
<1> QED
  BY <1>1, <1>2, <1>3, <1>4, <1>5, <1>6, <1>7, <1>8, <1>9, <1>10, <1>11,
     <1>12, <1>13, <1>14, <1>15, <1>16, <1>17 DEF Next, Recovery, Committing

(* A rollback restores, one entry after the other.                         *)
LEMMA RestoredInductive ==
  ASSUME Typed, ControlInv, BackupInv, PreparedInv, RestoredInv, StagedInv,
         [Next]_vars
  PROVE  RestoredInv'
<1> USE DEF files, writer, history, Close, Goto, Works, Typed, FilesTyped,
            StepTyped, JournalTyped, PlanTyped, Places, Finishing, Cleaning,
            RollingBack, Preparing, Replacing, Entries, Mutated, Mutation,
            NoJournal, NoFiles, NoPlan, First, Last, ControlInv, JournalFor,
            PreparedInv, RestoredInv, BackupInv, Unmoved, MovedAway,
            Installed
<1>1. CASE JournalFound
  BY <1>1 DEF JournalFound
<1>2. ASSUME NEW p \in Path, RollbackEntry(p)
      PROVE  RestoredInv'
  <2>0. p \in Entries /\ Last(p) /\ pc = "rollback"
    BY <1>2 DEF RollbackEntry
  <2>1. \A q \in Entries : Last(q) => q = p
    BY <2>0, OneLast
  <2>2. CASE RollbackOf(p) = "skip" /\ EntryDone(p)
    BY <1>2, <2>0, <2>2, Verdicts DEF RollbackEntry, EntryDone, Fails
  <2>3. CASE EntryFailed(p)
    BY <1>2, <2>3 DEF RollbackEntry, EntryFailed
  <2>4. CASE Goto(RollbackOf(p)) /\ UNCHANGED <<todo, tmp, failures>>
             /\ RollbackOf(p) \in {"verify", "unlink", "restore", "drop"}
    BY <1>2, <2>0, <2>1, <2>4, Verdicts DEF RollbackEntry
  <2> QED
    BY <1>2, <2>2, <2>3, <2>4 DEF RollbackEntry
<1>3. ASSUME NEW p \in Path, RollbackUnlink(p)
      PROVE  RestoredInv'
  BY <1>3 DEF RollbackUnlink, EntryFailed, Fails
<1>4. ASSUME NEW p \in Path, RollbackRestore(p)
      PROVE  RestoredInv'
  BY <1>4 DEF RollbackRestore, EntryFailed, Fails
<1>5. ASSUME NEW p \in Path, RollbackDrop(p)
      PROVE  RestoredInv'
  BY <1>5 DEF RollbackDrop, EntryFailed, Fails
<1>6. ASSUME NEW p \in Path, RollbackVerify(p)
      PROVE  RestoredInv'
  BY <1>6 DEF RollbackVerify, EntryDone, EntryFailed, Fails
<1>7. CASE RolledBack
  BY <1>7 DEF RolledBack, RecoveryDone, RecoveryFailed, Fails
<1>8. ASSUME NEW p \in Path, NEW bytes \in File, Edit(p, bytes)
      PROVE  RestoredInv'
  BY <1>8 DEF Edit
<1>9. CASE UNCHANGED vars
  BY <1>9 DEF vars
<1>10. CASE \/ NoJournalFound \/ JournalUnreadable \/ Compared \/ CleanJournal
          \/ CleanFails \/ Plan \/ CheckDependencies \/ Prepare
          \/ RecheckDependencies \/ Replaced \/ Commit \/ Match
          \/ Finally \/ Begin \/ Crash
          \/ \E p \in Path :
               \/ Compare(p) \/ CleanTmp(p) \/ CleanBackup(p)
               \/ Stage(p) \/ Check(p) \/ Save(p)
               \/ Install(p) \/ Confirm(p)
  BY <1>10 DEF NoJournalFound, RecoveryDone, Leftover, JournalUnreadable,
     RecoveryFailed, Fails, Compare, CleanTmp, Step, CleanBackup, Compared,
     CleanJournal, CleanFails, Plan, CheckDependencies, GiveUp, Prepare,
     RecheckDependencies, Abort, Stage, Check, Save, Install, Confirm,
     Replaced, Commit, Match, Finally, Begin, Crash
<1> QED
  BY <1>1, <1>2, <1>3, <1>4, <1>5, <1>6, <1>7, <1>8, <1>9, <1>10 DEF Next,
     Recovery, Committing

(* A commit replaces what it has staged and found unchanged.               *)
LEMMA StagedInductive ==
  ASSUME Typed, ControlInv, BackupInv, PreparedInv, RestoredInv, StagedInv,
         [Next]_vars
  PROVE  StagedInv'
<1> USE DEF files, writer, history, Close, Goto, Works, Typed, FilesTyped,
            StepTyped, JournalTyped, PlanTyped, Places, Finishing, Cleaning,
            RollingBack, Preparing, Replacing, Entries, Mutated, Mutation,
            NoJournal, NoFiles, NoPlan, First, Last, ControlInv, JournalFor,
            PreparedInv, StagedInv, MovedAway, Unmoved, Installed, BackupInv
<1>1. CASE CheckDependencies
  BY <1>1 DEF CheckDependencies, GiveUp, Fails
<1>2. CASE Prepare
  BY <1>2 DEF Prepare, GiveUp, Fails
<1>3. CASE RecheckDependencies
  BY <1>3 DEF RecheckDependencies, Abort, Fails
<1>4. ASSUME NEW p \in Path, Stage(p)
      PROVE  StagedInv'
  BY <1>4 DEF Stage, GiveUp, Fails
<1>5. ASSUME NEW p \in Path, Check(p)
      PROVE  StagedInv'
  <2>0. p \in todo /\ First(p) /\ \A q \in todo : First(q) => q = p
    BY <1>5, OneFirst DEF Check
  <2>1. CASE Abort
    BY <1>5, <2>1 DEF Check, Abort
  <2>2. CASE ~Abort
    BY <1>5, <2>0, <2>2 DEF Check
  <2> QED
    BY <2>1, <2>2
<1>6. ASSUME NEW p \in Path, Save(p)
      PROVE  StagedInv'
  <2>0. p \in todo /\ First(p) /\ \A q \in todo : First(q) => q = p
    BY <1>6, OneFirst DEF Save
  <2>1. CASE Abort
    BY <1>6, <2>1 DEF Save, Abort
  <2>2. CASE ~Abort
    BY <1>6, <2>0, <2>2 DEF Save
  <2> QED
    BY <2>1, <2>2
<1>7. ASSUME NEW p \in Path, Install(p)
      PROVE  StagedInv'
  <2>0. p \in todo /\ First(p) /\ \A q \in todo : First(q) => q = p
    BY <1>7, OneFirst DEF Install
  <2>1. CASE Abort
    BY <1>7, <2>1 DEF Install, Abort
  <2>2. CASE ~Abort
    BY <1>7, <2>0, <2>2 DEF Install
  <2> QED
    BY <2>1, <2>2
<1>8. ASSUME NEW p \in Path, Confirm(p)
      PROVE  StagedInv'
  BY <1>8 DEF Confirm, Abort, Fails
<1>9. CASE Replaced
  BY <1>9 DEF Replaced, Step
<1>10. ASSUME NEW p \in Path, NEW bytes \in File, Edit(p, bytes)
      PROVE  StagedInv'
  BY <1>10 DEF Edit
<1>11. CASE UNCHANGED vars
  BY <1>11 DEF vars
<1>12. CASE \/ NoJournalFound \/ JournalFound \/ JournalUnreadable \/ Compared
          \/ CleanJournal \/ CleanFails \/ RolledBack \/ Plan
          \/ Commit \/ Match \/ Finally \/ Begin
          \/ Crash
          \/ \E p \in Path :
               \/ Compare(p) \/ CleanTmp(p) \/ CleanBackup(p)
               \/ RollbackEntry(p) \/ RollbackUnlink(p) \/ RollbackRestore(p)
               \/ RollbackDrop(p) \/ RollbackVerify(p)
  BY <1>12 DEF NoJournalFound, RecoveryDone, Leftover, JournalFound,
     JournalUnreadable, RecoveryFailed, Fails, Compare, CleanTmp, Step,
     CleanBackup, Compared, CleanJournal, CleanFails, RollbackEntry,
     EntryDone, EntryFailed, RollbackUnlink, RollbackRestore, RollbackDrop,
     RollbackVerify, RolledBack, Plan, Commit, Abort, Match, Finally, Begin,
     Crash
<1> QED
  BY <1>1, <1>2, <1>3, <1>4, <1>5, <1>6, <1>7, <1>8, <1>9, <1>10, <1>11,
     <1>12 DEF Next, Recovery, Committing

LEMMA Initial == Init => Typed /\ JournalInv /\ LeftoverInv /\ WindowInv
<1> SUFFICES ASSUME Init
             PROVE  Typed /\ JournalInv /\ LeftoverInv /\ WindowInv
  OBVIOUS
<1>1. /\ NoFiles \in [Path -> File] /\ \A p \in Path : NoFiles[p] = Missing
      /\ Entries = {} /\ Mutated = {}
  BY DEF Init, NoFiles, File, NoJournal, NoPlan, Entries, Mutated
<1>2. FilesTyped /\ StepTyped /\ FlagsTyped /\ BudgetTyped
  BY <1>1 DEF Init, FilesTyped, StepTyped, FlagsTyped, BudgetTyped, Places
<1>3. JournalTyped /\ PlanTyped
  BY <1>1 DEF Init, JournalTyped, PlanTyped, Entries, Mutated, NoJournal, NoPlan
<1>4. ControlInv /\ BackupInv /\ PreparedInv /\ RestoredInv /\ StagedInv
  BY <1>1 DEF Init, ControlInv, BackupInv, PreparedInv, RestoredInv, StagedInv,
     NoJournal, Finishing, Cleaning, RollingBack, Preparing, Replacing
<1>5. LeftoverInv /\ WindowInv
  BY <1>1 DEF Init, LeftoverInv, WindowInv, Cleaning, RollingBack
<1> QED
  BY <1>2, <1>3, <1>4, <1>5 DEF Typed, JournalInv

LEMMA InvInductive ==
  ASSUME Typed, JournalInv, [Next]_vars
  PROVE  Typed' /\ JournalInv'
BY TypedInductive, ControlInductive, BackupInductive, PreparedInductive,
   RestoredInductive, StagedInductive
DEF JournalInv

(* The inductive invariant holds.                                          *)
THEOREM JournalInvCorrect == Spec => [](Typed /\ JournalInv)
<1>1. Typed /\ JournalInv /\ [Next]_vars => (Typed /\ JournalInv)'
  BY InvInductive
<1> QED
  BY <1>1, Initial, PTL DEF Spec

(* TypeOK, for any sources and budgets.                                    *)
THEOREM JournalTypeCorrect == Spec => []TypeOK
<1>1. Typed => TypeOK
  BY DEF Typed, FilesTyped, StepTyped, FlagsTyped, JournalTyped, PlanTyped, TypeOK
<1> QED
  BY <1>1, JournalInvCorrect, PTL

---------------------------------------------------------------------------
(* A budget that is still unspent has not been spent before.               *)
LEMMA SparedBefore ==
  ASSUME Typed, Spared', [Next]_vars
  PROVE  Spared
<1> USE DEF files, writer, history, Close, Goto, Works, Typed, BudgetTyped, Spared
<1>1. CASE Plan
  BY <1>1 DEF Plan, Step
<1>2. CASE Replaced
  BY <1>2 DEF Replaced, Step
<1>3. CASE Begin
  BY <1>3 DEF Begin, Step
<1>4. CASE Crash
  BY <1>4 DEF Crash
<1>5. ASSUME NEW p \in Path, NEW bytes \in File, Edit(p, bytes)
      PROVE  Spared
  BY <1>5 DEF Edit
<1>6. CASE UNCHANGED vars
  BY <1>6 DEF vars
<1>7. CASE \/ NoJournalFound \/ JournalFound \/ JournalUnreadable \/ Compared
          \/ CleanJournal \/ CleanFails \/ RolledBack \/ CheckDependencies
          \/ Prepare \/ RecheckDependencies \/ Commit \/ Match
          \/ Finally
          \/ \E p \in Path :
               \/ Compare(p) \/ CleanTmp(p) \/ CleanBackup(p)
               \/ RollbackEntry(p) \/ RollbackUnlink(p) \/ RollbackRestore(p)
               \/ RollbackDrop(p) \/ RollbackVerify(p) \/ Stage(p)
               \/ Check(p) \/ Save(p) \/ Install(p)
               \/ Confirm(p)
  BY <1>7 DEF NoJournalFound, RecoveryDone, Leftover, JournalFound,
     JournalUnreadable, RecoveryFailed, Fails, Compare, CleanTmp, Step,
     CleanBackup, Compared, CleanJournal, CleanFails, RollbackEntry,
     EntryDone, EntryFailed, RollbackUnlink, RollbackRestore, RollbackDrop,
     RollbackVerify, RolledBack, CheckDependencies, GiveUp, Prepare,
     JournalFor, RecheckDependencies, Abort, Stage, Check, Save, Install,
     Confirm, Commit, Match, Finally
<1> QED
  BY <1>1, <1>2, <1>3, <1>4, <1>5, <1>6, <1>7 DEF Next, Recovery, Committing

LEMMA FailureShows ==
  ASSUME Typed, Fails
  PROVE  ~Spared'
BY DEF Typed, BudgetTyped, Fails, Spared

(* A temporary goes before its journal, too, unless removing it fails.     *)
LEMMA LeftoverInductive ==
  ASSUME Typed, ControlInv, BackupInv, PreparedInv, RestoredInv, StagedInv,
         LeftoverInv, [Next]_vars
  PROVE  LeftoverInv'
<1> USE DEF files, writer, history, Close, Goto, Works, Typed, FilesTyped,
            StepTyped, JournalTyped, PlanTyped, Places, Finishing, Cleaning,
            RollingBack, Preparing, Replacing, Entries, Mutated, Mutation,
            NoJournal, NoFiles, NoPlan, First, Last, ControlInv, JournalFor,
            BackupInv, LeftoverInv
<1>1. CASE NoJournalFound
  BY <1>1, SparedBefore, FailureShows DEF NoJournalFound, RecoveryDone,
     Leftover
<1>2. CASE JournalFound
  BY <1>2, SparedBefore, FailureShows DEF JournalFound
<1>3. ASSUME NEW p \in Path, CleanTmp(p)
      PROVE  LeftoverInv'
  <2>1. /\ pc = "cleanTmp" /\ pc' = "cleanBackup" /\ p \in todo /\ First(p)
        /\ tmp' = [tmp EXCEPT ![p] = Missing]
        /\ UNCHANGED <<litter, journal, todo, failures, plan, crashes, faults>>
    BY <1>3 DEF CleanTmp, Step
  <2>2. \A q \in todo : First(q) => q = p
    BY <2>1, OneFirst
  <2> QED
    BY <2>1, <2>2 DEF Spared
<1>4. ASSUME NEW p \in Path, CleanBackup(p)
      PROVE  LeftoverInv'
  BY <1>4, SparedBefore, FailureShows DEF CleanBackup, Step
<1>5. CASE Compared
  BY <1>5, SparedBefore, FailureShows DEF Compared, RecoveryFailed
<1>6. CASE CleanJournal
  BY <1>6, SparedBefore, FailureShows DEF CleanJournal, RecoveryDone
<1>7. CASE CleanFails
  BY <1>7, SparedBefore, FailureShows DEF CleanFails, RecoveryFailed
<1>8. ASSUME NEW p \in Path, RollbackEntry(p)
      PROVE  LeftoverInv'
  BY <1>8, SparedBefore, FailureShows DEF RollbackEntry, EntryDone,
     EntryFailed
<1>9. ASSUME NEW p \in Path, RollbackUnlink(p)
      PROVE  LeftoverInv'
  BY <1>9, SparedBefore, FailureShows DEF RollbackUnlink, EntryFailed
<1>10. ASSUME NEW p \in Path, RollbackRestore(p)
      PROVE  LeftoverInv'
  BY <1>10, SparedBefore, FailureShows DEF RollbackRestore, EntryFailed
<1>11. ASSUME NEW p \in Path, RollbackDrop(p)
      PROVE  LeftoverInv'
  BY <1>11, SparedBefore, FailureShows DEF RollbackDrop, EntryFailed
<1>12. ASSUME NEW p \in Path, RollbackVerify(p)
      PROVE  LeftoverInv'
  BY <1>12, SparedBefore, FailureShows DEF RollbackVerify, EntryDone,
     EntryFailed
<1>13. CASE RolledBack
  BY <1>13, SparedBefore, FailureShows DEF RolledBack, RecoveryDone,
     RecoveryFailed
<1>14. CASE CheckDependencies
  BY <1>14, SparedBefore, FailureShows DEF CheckDependencies, GiveUp
<1>15. CASE Prepare
  BY <1>15, SparedBefore, FailureShows DEF Prepare, GiveUp
<1>16. ASSUME NEW p \in Path, Stage(p)
      PROVE  LeftoverInv'
  BY <1>16, SparedBefore, FailureShows DEF Stage, GiveUp
<1>17. ASSUME NEW p \in Path, Install(p)
      PROVE  LeftoverInv'
  BY <1>17, SparedBefore, FailureShows DEF Install, Abort
<1>18. CASE Commit
  BY <1>18, SparedBefore, FailureShows DEF Commit, Abort
<1>19. CASE Finally
  BY <1>19, SparedBefore, FailureShows DEF Finally, Step
<1>20. CASE Crash
  <2>1. ~Spared'
    BY <1>20 DEF Crash, Spared, BudgetTyped
  <2> QED
    BY <1>20, <2>1 DEF Crash
<1>21. ASSUME NEW p \in Path, NEW bytes \in File, Edit(p, bytes)
      PROVE  LeftoverInv'
  BY <1>21, SparedBefore, FailureShows DEF Edit
<1>22. CASE UNCHANGED vars
  BY <1>22 DEF vars, Spared
<1>23. CASE \/ JournalUnreadable \/ Plan \/ RecheckDependencies \/ Replaced
          \/ Match \/ Begin
          \/ \E p \in Path :
               \/ Compare(p) \/ Check(p) \/ Save(p)
               \/ Confirm(p)
  BY <1>23, SparedBefore, FailureShows DEF JournalUnreadable,
     RecoveryFailed, Compare, Plan, Step, RecheckDependencies, Abort, Check,
     Save, Confirm, Replaced, Match, Begin
<1> QED
  BY <1>1, <1>2, <1>3, <1>4, <1>5, <1>6, <1>7, <1>8, <1>9, <1>10, <1>11,
     <1>12, <1>13, <1>14, <1>15, <1>16, <1>17, <1>18, <1>19, <1>20, <1>21,
     <1>22, <1>23 DEF Next, Recovery, Committing

(* NothingLeftBehind, for any sources, crashes, failing calls and edits:   *)
(* no rollback file is ever stranded, and without crashes and failures     *)
(* nothing at all.                                                         *)
THEOREM NothingLeft == Spec => []NothingLeftBehind
<1>1. Typed /\ JournalInv /\ LeftoverInv /\ [Next]_vars => LeftoverInv'
  BY LeftoverInductive DEF JournalInv
<1>2. Typed /\ JournalInv /\ LeftoverInv => NothingLeftBehind
  <2> SUFFICES ASSUME Typed, JournalInv, LeftoverInv
               PROVE  NothingLeftBehind
    OBVIOUS
  <2>1. \A f \in litter : f[1] = "tmp"
    BY DEF LeftoverInv
  <2>2. ASSUME pc = "idle", journal = NoJournal, crashes = 0, faults = 0
        PROVE  tmp = NoFiles /\ backup = NoFiles /\ litter = {}
    <3>1. Entries = {} /\ litter = {}
      BY <2>2 DEF Entries, NoJournal, LeftoverInv, Spared
    <3>2. \A p \in Path : tmp[p] = Missing /\ backup[p] = Missing
      BY <2>2, <3>1 DEF LeftoverInv, Spared, JournalInv, BackupInv
    <3> QED
      BY <3>1, <3>2 DEF NoFiles, Typed, FilesTyped
  <2> QED
    BY <2>1, <2>2 DEF NothingLeftBehind
<1> QED
  BY <1>1, <1>2, Initial, JournalInvCorrect, PTL DEF Spec

---------------------------------------------------------------------------
(* Only an edit in a Window lets the next source differ from what the      *)
(* check saw.                                                              *)
LEMMA WindowInductive ==
  ASSUME Typed, ControlInv, WindowInv, [Next]_vars
  PROVE  WindowInv'
<1> USE DEF files, writer, history, Close, Goto, Works, Typed, FilesTyped,
            StepTyped, JournalTyped, PlanTyped, Places, Finishing, Cleaning,
            RollingBack, Preparing, Replacing, Entries, Mutated, Mutation,
            NoJournal, NoFiles, NoPlan, First, Last, ControlInv, JournalFor,
            WindowInv
<1>1. ASSUME NEW p \in Path, RollbackEntry(p)
      PROVE  WindowInv'
  <2>0. p \in Entries /\ Last(p) /\ pc = "rollback"
    BY <1>1 DEF RollbackEntry
  <2>1. \A q \in Entries : Last(q) => q = p
    BY <2>0, OneLast
  <2>2. CASE EntryDone(p)
    BY <1>1, <2>2 DEF EntryDone
  <2>3. CASE EntryFailed(p)
    BY <1>1, <2>3 DEF RollbackEntry, EntryFailed
  <2>4. CASE Goto(RollbackOf(p)) /\ UNCHANGED <<todo, tmp, failures>>
             /\ RollbackOf(p) \in {"verify", "unlink", "restore", "drop"}
    BY <1>1, <2>0, <2>1, <2>4, Verdicts DEF RollbackEntry
  <2> QED
    BY <1>1, <2>2, <2>3, <2>4 DEF RollbackEntry
<1>2. ASSUME NEW p \in Path, RollbackUnlink(p)
      PROVE  WindowInv'
  <2>0. p \in Entries /\ Last(p) /\ \A q \in Entries : Last(q) => q = p
    BY <1>2, OneLast DEF RollbackUnlink
  <2>1. CASE EntryFailed(p)
    BY <1>2, <2>1 DEF RollbackUnlink, EntryFailed
  <2>2. CASE ~EntryFailed(p)
    BY <1>2, <2>0, <2>2 DEF RollbackUnlink
  <2> QED
    BY <2>1, <2>2
<1>3. ASSUME NEW p \in Path, RollbackRestore(p)
      PROVE  WindowInv'
  BY <1>3 DEF RollbackRestore, EntryFailed, Fails
<1>4. ASSUME NEW p \in Path, RollbackDrop(p)
      PROVE  WindowInv'
  BY <1>4 DEF RollbackDrop, EntryFailed, Fails
<1>5. ASSUME NEW p \in Path, RollbackVerify(p)
      PROVE  WindowInv'
  BY <1>5 DEF RollbackVerify, EntryDone, EntryFailed, Fails
<1>6. ASSUME NEW p \in Path, Check(p)
      PROVE  WindowInv'
  <2>0. p \in todo /\ First(p) /\ \A q \in todo : First(q) => q = p
    BY <1>6, OneFirst DEF Check
  <2>1. CASE Abort
    BY <1>6, <2>1 DEF Check, Abort
  <2>2. CASE ~Abort
    BY <1>6, <2>0, <2>2 DEF Check
  <2> QED
    BY <2>1, <2>2
<1>7. ASSUME NEW p \in Path, Save(p)
      PROVE  WindowInv'
  <2>0. p \in todo /\ First(p) /\ \A q \in todo : First(q) => q = p
    BY <1>7, OneFirst DEF Save
  <2>1. CASE Abort
    BY <1>7, <2>1 DEF Save, Abort
  <2>2. CASE ~Abort
    BY <1>7, <2>0, <2>2 DEF Save
  <2> QED
    BY <2>1, <2>2
<1>8. ASSUME NEW p \in Path, Install(p)
      PROVE  WindowInv'
  BY <1>8 DEF Install, Abort, Fails
<1>9. CASE Begin
  BY <1>9 DEF Begin, Step
<1>10. CASE Crash
  BY <1>10 DEF Crash
<1>11. ASSUME NEW p \in Path, NEW bytes \in File, Edit(p, bytes)
      PROVE  WindowInv'
  BY <1>11 DEF Edit, Window
<1>12. CASE UNCHANGED vars
  BY <1>12 DEF vars
<1>13. CASE \/ NoJournalFound \/ JournalFound \/ JournalUnreadable \/ Compared
          \/ CleanJournal \/ CleanFails \/ RolledBack \/ Plan
          \/ CheckDependencies \/ Prepare \/ RecheckDependencies \/ Replaced
          \/ Commit \/ Match \/ Finally
          \/ \E p \in Path :
               \/ Compare(p) \/ CleanTmp(p) \/ CleanBackup(p)
               \/ Stage(p) \/ Confirm(p)
  BY <1>13 DEF NoJournalFound, RecoveryDone, Leftover, JournalFound,
     JournalUnreadable, RecoveryFailed, Fails, Compare, CleanTmp, Step,
     CleanBackup, Compared, CleanJournal, CleanFails, RolledBack, Plan,
     CheckDependencies, GiveUp, Prepare, RecheckDependencies, Abort, Stage,
     Confirm, Replaced, Commit, Match, Finally
<1> QED
  BY <1>1, <1>2, <1>3, <1>4, <1>5, <1>6, <1>7, <1>8, <1>9, <1>10, <1>11,
     <1>12, <1>13 DEF Next, Recovery, Committing

LEMMA ForeignBytesStep ==
  ASSUME Typed, ControlInv, WindowInv, NEW q \in Path, target'[q] #
         target[q], edits' = edits, ~late, [Next]_vars
  PROVE  target[q] \in {Missing, journal.base[q], journal.after[q]}
<1> USE DEF files, writer, history, Close, Goto, Works, Typed, FilesTyped,
            BudgetTyped, JournalTyped, PlanTyped, ControlInv, WindowInv,
            Entries, Mutated, Replacing, RollingBack, JournalFor, First,
            Last
<1>1. ASSUME NEW p \in Path, RollbackUnlink(p)
      PROVE  target[q] \in {Missing, journal.base[q], journal.after[q]}
  BY <1>1 DEF RollbackUnlink, EntryFailed, Fails
<1>2. ASSUME NEW p \in Path, RollbackRestore(p)
      PROVE  target[q] \in {Missing, journal.base[q], journal.after[q]}
  BY <1>2 DEF RollbackRestore, EntryFailed, Fails
<1>3. ASSUME NEW p \in Path, Save(p)
      PROVE  target[q] \in {Missing, journal.base[q], journal.after[q]}
  BY <1>3 DEF Save, Abort, Fails
<1>4. ASSUME NEW p \in Path, Install(p)
      PROVE  target[q] \in {Missing, journal.base[q], journal.after[q]}
  BY <1>4 DEF Install, Abort, Fails
<1>5. ASSUME NEW p \in Path, NEW bytes \in File, Edit(p, bytes)
      PROVE  target[q] \in {Missing, journal.base[q], journal.after[q]}
  BY <1>5 DEF Edit
<1>6. CASE UNCHANGED vars
  BY <1>6 DEF vars
<1>7. CASE \/ NoJournalFound \/ JournalFound \/ JournalUnreadable \/ Compared
          \/ CleanJournal \/ CleanFails \/ RolledBack \/ Plan
          \/ CheckDependencies \/ Prepare \/ RecheckDependencies \/ Replaced
          \/ Commit \/ Match \/ Finally \/ Begin
          \/ Crash
          \/ \E p \in Path :
               \/ Compare(p) \/ CleanTmp(p) \/ CleanBackup(p)
               \/ RollbackEntry(p) \/ RollbackDrop(p) \/ RollbackVerify(p)
               \/ Stage(p) \/ Check(p) \/ Confirm(p)
  BY <1>7 DEF NoJournalFound, RecoveryDone, Leftover, JournalFound,
     JournalUnreadable, RecoveryFailed, Fails, Compare, CleanTmp, Step,
     CleanBackup, Compared, CleanJournal, CleanFails, RollbackEntry,
     EntryDone, EntryFailed, RollbackDrop, RollbackVerify, RolledBack, Plan,
     CheckDependencies, GiveUp, Prepare, RecheckDependencies, Abort, Stage,
     Check, Confirm, Replaced, Commit, Match, Finally, Begin, Crash
<1> QED
  BY <1>1, <1>2, <1>3, <1>4, <1>5, <1>6, <1>7 DEF Next, Recovery, Committing

(* ForeignBytesKept for any sources, crashes, failing calls and edits: no  *)
(* step but an edit moves a source whose bytes the journal does not know,  *)
(* unless it was written between the very check and the rename or unlink.  *)
THEOREM ForeignKept == Spec => ForeignBytesKept
<1>1. Typed /\ JournalInv /\ WindowInv /\ [Next]_vars => WindowInv'
  BY WindowInductive DEF JournalInv
<1>2. Typed /\ JournalInv /\ WindowInv /\ [Next]_vars
        => [\A p \in Path :
              target'[p] # target[p] /\ edits' = edits /\ ~late
                => target[p] = Missing \/ target[p] \in {journal.base[p], journal.after[p]}]_vars
  BY ForeignBytesStep DEF JournalInv
<1> QED
  BY <1>1, <1>2, Initial, JournalInvCorrect, PTL DEF Spec, ForeignBytesKept

---------------------------------------------------------------------------
(* The refinement.  The abstract state is read off the journal: *)
Intent == IF pc = "idle" THEN <<>> ELSE plan.after
Phase  == IF pc = "idle" THEN "idle" ELSE IF committed THEN "committed" ELSE "running"
Answer == IF pc = "idle" THEN result ELSE "none"

(* A source nobody touched is what the journal promises to restore, if     *)
(* there is a prepared one that lists it, and what it is otherwise.        *)
Promised(p) ==
  IF journal.phase = "prepared" /\ p \in Entries THEN journal.base[p] ELSE target[p]

LEMMA RecoverableTyped == Typed => \A p \in Path : Recoverable(p) \in File
<1> SUFFICES ASSUME Typed, NEW p \in Path
             PROVE  Recoverable(p) \in File
  OBVIOUS
<1> DEFINE base == journal.base[p]
           after == journal.after[p]
<1>1. target[p] \in File
  BY DEF Typed, FilesTyped
<1>2. CASE journal.phase # "prepared" \/ p \notin Entries
  BY <1>1, <1>2 DEF Recoverable
<1>3. CASE journal.phase = "prepared" /\ p \in Entries
  <2>1. base \in File /\ Missing \in File
    BY <1>3 DEF Typed, JournalTyped, File
  <2>2. Recoverable(p) =
          IF base = Missing /\ target[p] = after THEN Missing
          ELSE IF base # Missing /\ backup[p] = base /\ target[p] \in {Missing, after}
               THEN base
               ELSE target[p]
    BY <1>3, Zenon DEF Recoverable
  <2> QED BY <1>1, <2>1, <2>2
<1> QED BY <1>2, <1>3

LEMMA RecoverableIs ==
  Typed /\ PreparedInv => \A p \in Path \ touched : Recoverable(p) = Promised(p)
<1> SUFFICES ASSUME Typed, PreparedInv, NEW p \in Path \ touched
             PROVE  Recoverable(p) = Promised(p)
  OBVIOUS
<1> DEFINE base == journal.base[p]
           after == journal.after[p]
<1>1. CASE journal.phase # "prepared" \/ p \notin Entries
  BY <1>1 DEF Recoverable, Promised
<1>2. CASE journal.phase = "prepared" /\ p \in Entries
  <2>1. Recoverable(p) =
          IF base = Missing /\ target[p] = after THEN Missing
          ELSE IF base # Missing /\ backup[p] = base /\ target[p] \in {Missing, after}
               THEN base
               ELSE target[p]
    BY <1>2, Zenon DEF Recoverable
  <2>2. Unmoved(p) \/ MovedAway(p) \/ Installed(p)
    BY <1>2 DEF PreparedInv
  <2> QED
    BY <1>2, <2>1, <2>2 DEF Promised, Unmoved, MovedAway, Installed
<1> QED BY <1>1, <1>2

(* No step but the commit changes a promise.                               *)
LEMMA PromiseKept ==
  ASSUME Typed, ControlInv, BackupInv, PreparedInv, RestoredInv, StagedInv,
         Typed', committed' => committed, NEW q \in Path \ touched',
         [Next]_vars
  PROVE  Promised(q)' = Promised(q)
<1> USE DEF files, writer, history, Close, Goto, Works, Typed, FilesTyped,
            StepTyped, JournalTyped, PlanTyped, Places, Finishing, Cleaning,
            RollingBack, Preparing, Replacing, Entries, Mutated, Mutation,
            NoJournal, NoFiles, NoPlan, First, Last, ControlInv, JournalFor,
            PreparedInv, RestoredInv, StagedInv, Promised
<1>1. CASE CleanJournal
  BY <1>1 DEF CleanJournal, RecoveryDone
<1>2. ASSUME NEW p \in Path, RollbackUnlink(p)
      PROVE  Promised(q)' = Promised(q)
  BY <1>2 DEF RollbackUnlink, EntryFailed, Fails
<1>3. ASSUME NEW p \in Path, RollbackRestore(p)
      PROVE  Promised(q)' = Promised(q)
  BY <1>3 DEF RollbackRestore, EntryFailed, Fails
<1>4. CASE RolledBack
  BY <1>4 DEF RolledBack, RecoveryDone, RecoveryFailed, Fails
<1>5. CASE Prepare
  BY <1>5 DEF Prepare, GiveUp, Fails
<1>6. ASSUME NEW p \in Path, Save(p)
      PROVE  Promised(q)' = Promised(q)
  BY <1>6 DEF Save, Abort, Fails
<1>7. ASSUME NEW p \in Path, Install(p)
      PROVE  Promised(q)' = Promised(q)
  BY <1>7 DEF Install, Abort, Fails
<1>8. CASE Commit
  BY <1>8 DEF Commit, Abort, Fails
<1>9. CASE Begin
  BY <1>9 DEF Begin, Step
<1>10. ASSUME NEW p \in Path, NEW bytes \in File, Edit(p, bytes)
      PROVE  Promised(q)' = Promised(q)
  BY <1>10 DEF Edit
<1>11. CASE UNCHANGED vars
  BY <1>11 DEF vars
<1>12. CASE \/ NoJournalFound \/ JournalFound \/ JournalUnreadable \/ Compared
          \/ CleanFails \/ Plan \/ CheckDependencies \/ RecheckDependencies
          \/ Replaced \/ Match \/ Finally \/ Crash
          \/ \E p \in Path :
               \/ Compare(p) \/ CleanTmp(p) \/ CleanBackup(p)
               \/ RollbackEntry(p) \/ RollbackDrop(p) \/ RollbackVerify(p)
               \/ Stage(p) \/ Check(p) \/ Confirm(p)
  BY <1>12 DEF NoJournalFound, RecoveryDone, Leftover, JournalFound,
     JournalUnreadable, RecoveryFailed, Fails, Compare, CleanTmp, Step,
     CleanBackup, Compared, CleanFails, RollbackEntry, EntryDone,
     EntryFailed, RollbackDrop, RollbackVerify, Plan, CheckDependencies,
     GiveUp, RecheckDependencies, Abort, Stage, Check, Confirm, Replaced,
     Match, Finally, Crash
<1> QED
  BY <1>1, <1>2, <1>3, <1>4, <1>5, <1>6, <1>7, <1>8, <1>9, <1>10, <1>11,
     <1>12 DEF Next, Recovery, Committing

(* Touched sources stay touched until a transaction begins, and only the   *)
(* commit commits.                                                         *)
HistoryKept ==
  /\ touched \subseteq touched' \/ Begin
  /\ committed' => committed \/ Commit

LEMMA History ==
  ASSUME Typed, [Next]_vars
  PROVE  HistoryKept
<1> USE DEF files, writer, history, Close, Goto, Works, HistoryKept
<1>1. CASE Commit
  BY <1>1 DEF Commit, Abort, Fails, JournalFor
<1>2. CASE Begin
  BY <1>2 DEF Begin, Step
<1>3. ASSUME NEW p \in Path, NEW bytes \in File, Edit(p, bytes)
      PROVE  HistoryKept
  BY <1>3 DEF Edit
<1>4. CASE UNCHANGED vars
  BY <1>4 DEF vars
<1>5. CASE \/ NoJournalFound \/ JournalFound \/ JournalUnreadable \/ Compared
          \/ CleanJournal \/ CleanFails \/ RolledBack \/ Plan
          \/ CheckDependencies \/ Prepare \/ RecheckDependencies \/ Replaced
          \/ Match \/ Finally \/ Crash
          \/ \E p \in Path :
               \/ Compare(p) \/ CleanTmp(p) \/ CleanBackup(p)
               \/ RollbackEntry(p) \/ RollbackUnlink(p) \/ RollbackRestore(p)
               \/ RollbackDrop(p) \/ RollbackVerify(p) \/ Stage(p)
               \/ Check(p) \/ Save(p) \/ Install(p)
               \/ Confirm(p)
  BY <1>5 DEF NoJournalFound, RecoveryDone, Leftover, JournalFound,
     JournalUnreadable, RecoveryFailed, Fails, Compare, CleanTmp, Step,
     CleanBackup, Compared, CleanJournal, CleanFails, RollbackEntry,
     EntryDone, EntryFailed, RollbackUnlink, RollbackRestore, RollbackDrop,
     RollbackVerify, RolledBack, Plan, CheckDependencies, GiveUp, Prepare,
     JournalFor, RecheckDependencies, Abort, Stage, Check, Save, Install,
     Confirm, Replaced, Match, Finally, Crash
<1> QED
  BY <1>1, <1>2, <1>3, <1>4, <1>5 DEF Next, Recovery, Committing

(* How a recovery that gives up answers its caller.                        *)
LEMMA RecoveryAnswers ==
  ASSUME RecoveryFailed
  PROVE  /\ pc' = IF ret = "finalize" THEN "match" ELSE "idle"
         /\ result' = IF ret = "open" THEN "failed"
                      ELSE IF ret = "abort" THEN "unknown" ELSE result
BY Zenon DEF RecoveryFailed, Goto

(* How a transaction ends, well or not.                                    *)
Ends ==
  /\ pc # "idle" /\ pc' = "idle" /\ touched' = touched
  /\ result' = "ok" => committed
  /\ result' = "failed" => ~committed

(* What of a step shows in the abstract state besides the store.           *)
Shown ==
  \/ UNCHANGED <<Intent, Phase, Answer>>
  \/ Begin \/ Plan \/ (Commit /\ committed') \/ Ends

LEMMA Outside ==
  ASSUME Typed, ControlInv, [Next]_vars
  PROVE  Shown
<1> USE DEF files, writer, history, Close, Goto, Works, Shown, Typed, StepTyped,
            ControlInv, Intent, Phase, Answer, Ends, Finishing, RollingBack,
            Preparing, Replacing, Cleaning
<1>1. CASE NoJournalFound
  BY <1>1 DEF NoJournalFound, RecoveryDone, Leftover
<1>2. CASE JournalFound
  BY <1>2 DEF JournalFound
<1>3. CASE JournalUnreadable
  BY <1>3, RecoveryAnswers DEF JournalUnreadable
<1>4. ASSUME NEW p \in Path, Compare(p)
      PROVE  Shown
  BY <1>4 DEF Compare
<1>5. ASSUME NEW p \in Path, CleanTmp(p)
      PROVE  Shown
  BY <1>5 DEF CleanTmp, Step
<1>6. ASSUME NEW p \in Path, CleanBackup(p)
      PROVE  Shown
  BY <1>6 DEF CleanBackup, Step
<1>7. CASE Compared
  BY <1>7, RecoveryAnswers DEF Compared
<1>8. CASE CleanJournal
  BY <1>8 DEF CleanJournal, RecoveryDone
<1>9. CASE CleanFails
  <2>1. CASE RecoveryFailed
    BY <1>9, <2>1, RecoveryAnswers DEF CleanFails
  <2>2. CASE ret = "commit"
    BY <1>9, <2>2 DEF CleanFails
  <2> QED BY <1>9, <2>1, <2>2 DEF CleanFails
<1>10. ASSUME NEW p \in Path, RollbackEntry(p)
      PROVE  Shown
  BY <1>10 DEF RollbackEntry, EntryDone, EntryFailed, Fails
<1>11. ASSUME NEW p \in Path, RollbackUnlink(p)
      PROVE  Shown
  BY <1>11 DEF RollbackUnlink, EntryFailed, Fails
<1>12. ASSUME NEW p \in Path, RollbackRestore(p)
      PROVE  Shown
  BY <1>12 DEF RollbackRestore, EntryFailed, Fails
<1>13. ASSUME NEW p \in Path, RollbackDrop(p)
      PROVE  Shown
  BY <1>13 DEF RollbackDrop, EntryFailed, Fails
<1>14. ASSUME NEW p \in Path, RollbackVerify(p)
      PROVE  Shown
  BY <1>14 DEF RollbackVerify, EntryDone, EntryFailed, Fails
<1>15. CASE RolledBack
  <2>1. CASE RecoveryFailed
    BY <1>15, <2>1, RecoveryAnswers DEF RolledBack
  <2>2. CASE RecoveryDone
    BY <1>15, <2>2 DEF RolledBack, RecoveryDone
  <2> QED BY <1>15, <2>1, <2>2 DEF RolledBack
<1>16. CASE Plan
  BY <1>16
<1>17. CASE CheckDependencies
  BY <1>17 DEF CheckDependencies, GiveUp, Fails
<1>18. CASE Prepare
  BY <1>18 DEF Prepare, GiveUp, Fails, JournalFor
<1>19. CASE RecheckDependencies
  BY <1>19 DEF RecheckDependencies, Abort, Fails
<1>20. ASSUME NEW p \in Path, Stage(p)
      PROVE  Shown
  BY <1>20 DEF Stage, GiveUp, Fails
<1>21. ASSUME NEW p \in Path, Check(p)
      PROVE  Shown
  BY <1>21 DEF Check, Abort, Fails
<1>22. ASSUME NEW p \in Path, Save(p)
      PROVE  Shown
  BY <1>22 DEF Save, Abort, Fails
<1>23. ASSUME NEW p \in Path, Install(p)
      PROVE  Shown
  BY <1>23 DEF Install, Abort, Fails
<1>24. ASSUME NEW p \in Path, Confirm(p)
      PROVE  Shown
  BY <1>24 DEF Confirm, Abort, Fails
<1>25. CASE Replaced
  BY <1>25 DEF Replaced, Step
<1>26. CASE Commit
  BY <1>26 DEF Commit, Abort, Fails, JournalFor
<1>27. CASE Match
  BY <1>27 DEF Match, Fails
<1>28. CASE Finally
  BY <1>28 DEF Finally, Fails, Step
<1>29. CASE Begin
  BY <1>29
<1>30. CASE Crash
  BY <1>30 DEF Crash
<1>31. ASSUME NEW p \in Path, NEW bytes \in File, Edit(p, bytes)
      PROVE  Shown
  BY <1>31 DEF Edit
<1>32. CASE UNCHANGED vars
  BY <1>32 DEF vars
<1> QED
  BY <1>1, <1>2, <1>3, <1>4, <1>5, <1>6, <1>7, <1>8, <1>9, <1>10, <1>11,
     <1>12, <1>13, <1>14, <1>15, <1>16, <1>17, <1>18, <1>19, <1>20, <1>21,
     <1>22, <1>23, <1>24, <1>25, <1>26, <1>27, <1>28, <1>29, <1>30, <1>31,
     <1>32 DEF Next, Recovery, Committing

LEMMA InitialStore == Init => Store!Init
<1> SUFFICES ASSUME Init
             PROVE  Store!Init
  OBVIOUS
<1>1. \A p \in Path : Recoverable(p) = target[p]
  BY DEF Init, NoJournal, Recoverable
<1>2. [p \in Path |-> Recoverable(p)] = [p \in Path |-> target[p]]
  BY <1>1
<1>3. target \in [Path -> File] /\ [p \in Path |-> target[p]] = target
  BY DEF Init
<1> QED
  BY <1>2, <1>3 DEF Init, Store!Init

(* Every step of the code is one of the abstract store's; a step that does *)
(* not show there, or moves a source touched from outside, is its Edit.    *)
LEMMA StepImplements ==
  ASSUME Typed, JournalInv, Typed', JournalInv', [Next]_vars
  PROVE  Store!Next
<1> DEFINE store == [p \in Path |-> Recoverable(p)]
<1>1. store \in [Path -> File] /\ store' \in [Path -> File]
  <2>1. (\A p \in Path : Recoverable(p) \in File)'
    <3>1. (Typed => \A p \in Path : Recoverable(p) \in File)'
      BY RecoverableTyped, PTL
    <3> QED BY <3>1
  <2> QED BY <2>1, RecoverableTyped
<1>2. /\ \A p \in Path \ touched : store[p] = Promised(p)
      /\ \A p \in Path \ touched' : store'[p] = Promised(p)'
  <2>1. (\A p \in Path \ touched : Recoverable(p) = Promised(p))'
    <3>1. (Typed /\ PreparedInv =>
             \A p \in Path \ touched : Recoverable(p) = Promised(p))'
      BY RecoverableIs, PTL
    <3> QED BY <3>1 DEF JournalInv
  <2>2. \A p \in Path \ touched : Recoverable(p) = Promised(p)
    BY RecoverableIs DEF JournalInv
  <2> QED BY <2>1, <2>2
<1>3. ASSUME committed' => committed, touched \subseteq touched'
      PROVE  \A p \in Path \ touched' : store'[p] = store[p]
  <2> SUFFICES ASSUME NEW p \in Path \ touched'
               PROVE  store'[p] = store[p]
    OBVIOUS
  <2>1. Promised(p)' = Promised(p)
    BY <1>3, PromiseKept DEF JournalInv
  <2> QED BY <1>2, <1>3, <2>1
<1> HIDE DEF store
<1>4. CASE Begin
  <2>1. store' = store
    BY <1>4 DEF Begin, files, store, Recoverable, Entries
  <2>2. touched' \subseteq touched
    BY <1>4 DEF Begin
  <2> QED
    BY <1>4, <2>1, <2>2 DEF Begin, Step, Goto, NoPlan, Store!Next, Store!Begin, store
<1>5. CASE Plan
  <2>1. plan = NoPlan /\ ~committed /\ pc = "act"
    BY <1>5 DEF JournalInv, ControlInv, Plan, Step, Preparing
  <2>2. touched' = touched /\ committed' = committed /\ pc' = "dependencies"
    BY <1>5 DEF Plan, Step, Goto, history
  <2>3. plan'.after \in UNION {[S -> File] : S \in SUBSET Path}
    BY <1>5 DEF Plan
  <2> QED
    BY <1>3, <2>1, <2>2, <2>3 DEF Store!Next, Store!Ask, Store!Unmoved, NoPlan, store
<1>6. CASE Commit /\ committed'
  <2>1. /\ ~committed /\ pc = "confirm" /\ pc' = "cleanTmp" /\ todo = {}
        /\ UNCHANGED <<target, touched, plan>>
        /\ journal = JournalFor("prepared") /\ journal' = JournalFor("committed")
    BY <1>6 DEF Commit, Goto, Abort, files, writer, history, JournalInv, ControlInv, Replacing
  <2>2. ASSUME NEW p \in Path \ touched'
        PROVE  store'[p] = IF p \in DOMAIN plan.after THEN plan.after[p] ELSE store[p]
    <3>1. store'[p] = target[p]
      BY <1>2, <2>1 DEF Promised, JournalFor
    <3>2. CASE p \in Mutated
      BY <2>1, <3>1, <3>2 DEF JournalInv, StagedInv, Mutated
    <3>3. CASE p \notin Mutated
      BY <1>2, <2>1, <3>1, <3>3 DEF Promised, JournalFor, Mutated, Entries
    <3> QED BY <3>2, <3>3
  <2> QED
    BY <1>6, <2>1, <2>2 DEF Store!Next, Store!Commit, store
<1>7. CASE Ends
  <2>1. committed' => committed
    BY <1>7, History DEF HistoryKept, Ends, Commit, Goto, Abort
  <2> QED
    BY <1>3, <1>7, <2>1
    DEF Ends, Typed, StepTyped, Store!Next, Store!Finish, Store!Results, Store!Unmoved, store
<1>8. CASE UNCHANGED <<Intent, Phase, Answer>> /\ ~Begin
  <2>1. touched \subseteq touched'
    BY <1>8, History DEF HistoryKept
  <2>2. committed' => committed
    BY <1>8, History DEF HistoryKept, Phase, Commit, Goto, Abort
  <2> QED
    BY <1>1, <1>3, <1>8, <2>1, <2>2
    DEF Intent, Phase, Answer, Store!Next, Store!Edit, Store!Unmoved, store
<1> QED
  BY <1>4, <1>5, <1>6, <1>7, <1>8, Outside DEF JournalInv, Shown

(* Implements: through the recovery that will come, a transaction is       *)
(* atomic, and its answer is true, for any sources, contents, crashes,     *)
(* failing calls and edits.                                                *)
THEOREM AllOrNothing == Spec => Implements
<1>1. Typed /\ JournalInv /\ [Next]_vars => Store!Next
  <2> SUFFICES ASSUME Typed, JournalInv, [Next]_vars
               PROVE  Store!Next
    OBVIOUS
  <2> QED
    BY InvInductive, StepImplements
<1>2. Typed /\ JournalInv /\ [Next]_vars => [Store!Next]_(Store!vars)
  BY <1>1
<1> QED
  BY <1>2, InitialStore, JournalInvCorrect, PTL DEF Spec, Implements, Store!Spec
=============================================================================
