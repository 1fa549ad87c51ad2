------------------------- MODULE SharedFilesProofs -------------------------
(***************************************************************************)
(* The store of the order files, for any number of writers, files and      *)
(* contents, with and without failures. And the approval queue: an entry   *)
(* passes an enforcing gate only if somebody has approved it, and an       *)
(* answer is lost only to a writer who had not read it, for every set of   *)
(* symbols, stage-6 files and every TTL.                                   *)
(***************************************************************************)
EXTENDS MCSharedFiles, TLAPS

-----------------------------------------------------------------------------
(* Types                                                                   *)

\* Every variable keeps its type, and no save runs with a state object that
\* was never loaded (UNLOADED_STATE).
THEOREM TypeCorrect == Spec => []TypeOK
<1> USE StoreAssumption DEF Holder, LoadSteps, LockedSteps, SaveSteps
<1>0. (CHOOSE f \in File : TRUE) \in File
  OBVIOUS
<1>1. Init => TypeOK
  BY <1>0 DEF Init, TypeOK
<1>2. TypeOK /\ [Next]_vars => TypeOK'
  <2> SUFFICES ASSUME TypeOK, [Next]_vars PROVE TypeOK'
    OBVIOUS
  <2> USE <1>0 DEF TypeOK, GoTo, Finish, SyncDirectory, disk, locks, task
  <2>1. ASSUME NEW w \in Writer, TaskStep(w) PROVE TypeOK'
    <3>1. CASE AcquireDirectory(w) BY <3>1 DEF AcquireDirectory
    <3>2. CASE EnterTask(w)        BY <3>2 DEF EnterTask
    <3>3. CASE LeaveTask(w)        BY <3>3 DEF LeaveTask
    <3>4. CASE AbortTask(w)        BY <3>4 DEF AbortTask
    <3>q. QED BY <2>1, <3>1, <3>2, <3>3, <3>4 DEF TaskStep
  <2>2. ASSUME NEW w \in Writer, NEW f \in File, BeginLoad(w, f) PROVE TypeOK'
    BY <2>2 DEF BeginLoad
  <2>3. ASSUME NEW w \in Writer, LoadStep(w) PROVE TypeOK'
    <3>1. CASE LoadChecksDirectory(w) BY <3>1 DEF LoadChecksDirectory
    <3>2. CASE LoadChecksLock(w)      BY <3>2 DEF LoadChecksLock
    <3>3. CASE LoadReads(w)           BY <3>3 DEF LoadReads
    <3>4. CASE LoadReturns(w)         BY <3>4 DEF LoadReturns
    <3>5. CASE LoadFails(w)           BY <3>5 DEF LoadFails
    <3>q. QED BY <2>3, <3>1, <3>2, <3>3, <3>4, <3>5 DEF LoadStep
  <2>4. ASSUME NEW w \in Writer, NEW f \in File, NEW c \in Content, BeginSave(w, f, c)
        PROVE TypeOK'
    BY <2>4 DEF BeginSave
  <2>5. ASSUME NEW w \in Writer, SaveStep(w) PROVE TypeOK'
    <3>1. CASE SaveOpensLock(w)            BY <3>1 DEF SaveOpensLock
    <3>2. CASE SaveIsLockedOut(w)          BY <3>2 DEF SaveIsLockedOut
    <3>3. CASE SaveWritesTemporary(w)      BY <3>3 DEF SaveWritesTemporary
    <3>4. CASE SaveCompares(w)             BY <3>4 DEF SaveCompares
    <3>5. CASE SaveChecksDirectoryAgain(w) BY <3>5 DEF SaveChecksDirectoryAgain
    <3>6. CASE SaveRenames(w)              BY <3>6 DEF SaveRenames
    <3>7. CASE SaveSyncs(w)                BY <3>7 DEF SaveSyncs
    <3>8. CASE SaveFails(w)                BY <3>8 DEF SaveFails
    <3>9. CASE SaveUnlocks(w)              BY <3>9 DEF SaveUnlocks
    <3>10. CASE SaveKeepsLock(w)           BY <3>10 DEF SaveKeepsLock
    <3>q. QED
      BY <2>5, <3>1, <3>2, <3>3, <3>4, <3>5, <3>6, <3>7, <3>8, <3>9, <3>10 DEF SaveStep
  <2>6. ASSUME NEW w \in Writer, Crash(w) PROVE TypeOK'
    BY <2>6 DEF Crash
  <2>7. CASE PowerLoss
    BY <2>7 DEF PowerLoss
  <2>8. ASSUME NEW f \in File, OperatorClearsLock(f) PROVE TypeOK'
    BY <2>8 DEF OperatorClearsLock
  <2>9. CASE OperatorClearsDirectoryLock
    BY <2>9 DEF OperatorClearsDirectoryLock
  <2>10. CASE UNCHANGED vars
    BY <2>10 DEF vars
  <2>q. QED
    BY <2>1, <2>2, <2>3, <2>4, <2>5, <2>6, <2>7, <2>8, <2>9, <2>10 DEF Next
<1>q. QED
  BY <1>1, <1>2, PTL DEF Spec

-----------------------------------------------------------------------------
(* The inductive invariant, in three layers: what the lock files mean, what *)
(* is durable, and what the directory owner can rely on.                   *)

\* A step leaves every lock file naming the writers that rely on it.
LEMMA LocksStep ==
  TypeOK /\ LocksNameHolders /\ [Next]_vars => LocksNameHolders'
<1> USE StoreAssumption DEF Holder, LoadSteps, LockedSteps, SaveSteps
<1> SUFFICES ASSUME TypeOK, LocksNameHolders, [Next]_vars PROVE LocksNameHolders'
  OBVIOUS
<1> USE DEF TypeOK, LocksNameHolders, GoTo, Finish, SyncDirectory, DirectoryIsMine, disk, locks, task
<1>1. ASSUME NEW w \in Writer, TaskStep(w) PROVE LocksNameHolders'
  <2>1. CASE AcquireDirectory(w) BY <2>1 DEF AcquireDirectory
  <2>2. CASE EnterTask(w)        BY <2>2 DEF EnterTask
  <2>3. CASE LeaveTask(w)        BY <2>3 DEF LeaveTask
  <2>4. CASE AbortTask(w)        BY <2>4 DEF AbortTask
  <2>q. QED BY <1>1, <2>1, <2>2, <2>3, <2>4 DEF TaskStep
<1>2. ASSUME NEW w \in Writer, NEW f \in File, BeginLoad(w, f) PROVE LocksNameHolders'
  BY <1>2 DEF BeginLoad
<1>3. ASSUME NEW w \in Writer, LoadStep(w) PROVE LocksNameHolders'
  <2>1. CASE LoadChecksDirectory(w) BY <2>1 DEF LoadChecksDirectory
  <2>2. CASE LoadChecksLock(w)      BY <2>2 DEF LoadChecksLock
  <2>3. CASE LoadReads(w)           BY <2>3 DEF LoadReads
  <2>4. CASE LoadReturns(w)         BY <2>4 DEF LoadReturns
  <2>5. CASE LoadFails(w)           
    <3>1. pc[w] \in LoadSteps /\ pc' = [pc EXCEPT ![w] = "idle"]
      BY <2>5 DEF LoadFails
    <3>2. UNCHANGED <<flock, dlock, owner, taken>> /\ \A v \in Writer \ {w} : at'[v] = at[v]
      BY <2>5 DEF LoadFails
    <3>q. QED BY <3>1, <3>2
  <2>q. QED BY <1>3, <2>1, <2>2, <2>3, <2>4, <2>5 DEF LoadStep
<1>4. ASSUME NEW w \in Writer, NEW f \in File, NEW c \in Content, BeginSave(w, f, c) PROVE LocksNameHolders'
  BY <1>4 DEF BeginSave
<1>5. ASSUME NEW w \in Writer, SaveStep(w) PROVE LocksNameHolders'
  <2>1. CASE SaveOpensLock(w)            BY <2>1 DEF SaveOpensLock
  <2>2. CASE SaveIsLockedOut(w)          BY <2>2 DEF SaveIsLockedOut
  <2>3. CASE SaveWritesTemporary(w)      BY <2>3 DEF SaveWritesTemporary
  <2>4. CASE SaveCompares(w)             BY <2>4 DEF SaveCompares
  <2>5. CASE SaveChecksDirectoryAgain(w) BY <2>5 DEF SaveChecksDirectoryAgain
  <2>6. CASE SaveRenames(w)              BY <2>6 DEF SaveRenames
  <2>7. CASE SaveSyncs(w)                BY <2>7 DEF SaveSyncs
  <2>8. CASE SaveFails(w)                BY <2>8 DEF SaveFails
  <2>9. CASE SaveUnlocks(w)              BY <2>9 DEF SaveUnlocks
  <2>10. CASE SaveKeepsLock(w)            BY <2>10 DEF SaveKeepsLock
  <2>q. QED
    BY <1>5, <2>1, <2>2, <2>3, <2>4, <2>5, <2>6, <2>7, <2>8, <2>9, <2>10 DEF SaveStep
<1>6. ASSUME NEW w \in Writer, Crash(w) PROVE LocksNameHolders'
  BY <1>6 DEF Crash
<1>7. CASE PowerLoss
  <2>1. /\ \A w \in Writer : pc'[w] = "idle" /\ ~owner'[w] /\ taken'[w] = {}
        /\ \A f \in File : flock'[f] \in {Nobody, Abandoned}
        /\ dlock' \in {Nobody, Abandoned}
    BY <1>7 DEF PowerLoss
  <2>2. \A w \in Writer : dlock' # w /\ \A f \in File : flock'[f] # w
    BY <2>1
  <2>q. QED BY <2>1, <2>2
<1>8. ASSUME NEW f \in File, OperatorClearsLock(f) PROVE LocksNameHolders'
  BY <1>8 DEF OperatorClearsLock
<1>9. CASE OperatorClearsDirectoryLock
  BY <1>9 DEF OperatorClearsDirectoryLock
<1>10. CASE UNCHANGED vars
  BY <1>10 DEF vars
<1>q. QED
  BY <1>1, <1>2, <1>3, <1>4, <1>5, <1>6, <1>7, <1>8, <1>9, <1>10 DEF Next

\* What an unlocked file, a finished load and a save past its comparison know.
DurableInv == UnlockedIsDurable /\ OnlyRenamedIsUnsynced /\ ViewsAreDurable /\ SaverIsCurrent

\* A step leaves unlocked files durable and savers current.
LEMMA DurableStep ==
  TypeOK /\ LocksNameHolders /\ DurableInv /\ [Next]_vars => DurableInv'
<1> USE StoreAssumption DEF Holder, LoadSteps, LockedSteps, SaveSteps
<1> SUFFICES ASSUME TypeOK, LocksNameHolders, DurableInv, [Next]_vars PROVE DurableInv'
  OBVIOUS
<1> USE DEF TypeOK, LocksNameHolders, DurableInv, UnlockedIsDurable,
  OnlyRenamedIsUnsynced, ViewsAreDurable, SaverIsCurrent, GoTo, Finish, SyncDirectory, DirectoryIsMine, disk, locks, task
<1>1. ASSUME NEW w \in Writer, TaskStep(w) PROVE DurableInv'
  <2>1. CASE AcquireDirectory(w) BY <2>1 DEF AcquireDirectory
  <2>2. CASE EnterTask(w)        BY <2>2 DEF EnterTask
  <2>3. CASE LeaveTask(w)        BY <2>3 DEF LeaveTask
  <2>4. CASE AbortTask(w)        BY <2>4 DEF AbortTask
  <2>q. QED BY <1>1, <2>1, <2>2, <2>3, <2>4 DEF TaskStep
<1>2. ASSUME NEW w \in Writer, NEW f \in File, BeginLoad(w, f) PROVE DurableInv'
  BY <1>2 DEF BeginLoad
<1>3. ASSUME NEW w \in Writer, LoadStep(w) PROVE DurableInv'
  <2>1. CASE LoadChecksDirectory(w) BY <2>1 DEF LoadChecksDirectory
  <2>2. CASE LoadChecksLock(w)      BY <2>2 DEF LoadChecksLock
  <2>3. CASE LoadReads(w)           BY <2>3 DEF LoadReads
  <2>4. CASE LoadReturns(w)         BY <2>4 DEF LoadReturns
  <2>5. CASE LoadFails(w)           BY <2>5 DEF LoadFails
  <2>q. QED BY <1>3, <2>1, <2>2, <2>3, <2>4, <2>5 DEF LoadStep
<1>4. ASSUME NEW w \in Writer, NEW f \in File, NEW c \in Content, BeginSave(w, f, c) PROVE DurableInv'
  BY <1>4 DEF BeginSave
<1>5. ASSUME NEW w \in Writer, SaveStep(w) PROVE DurableInv'
  <2>1. CASE SaveOpensLock(w)            BY <2>1 DEF SaveOpensLock
  <2>2. CASE SaveIsLockedOut(w)          BY <2>2 DEF SaveIsLockedOut
  <2>3. CASE SaveWritesTemporary(w)      BY <2>3 DEF SaveWritesTemporary
  <2>4. CASE SaveCompares(w)             BY <2>4 DEF SaveCompares
  <2>5. CASE SaveChecksDirectoryAgain(w) BY <2>5 DEF SaveChecksDirectoryAgain
  <2>6. CASE SaveRenames(w)              
    <3>1. /\ pc[w] = "save_rename" /\ pc' = [pc EXCEPT ![w] = "save_sync"]
          /\ file' = [file EXCEPT ![at[w]] = buf[w]]
          /\ onDisk' = [onDisk EXCEPT ![at[w]] = @ \cup {buf[w]}]
          /\ UNCHANGED <<settled, flock, at, buf, loaded>>
      BY <2>6 DEF SaveRenames
    <3>2. \A v \in Writer \ {w} : pc[v] \in LockedSteps => at[v] # at[w]
      BY <3>1
    <3>3. onDisk[at[w]] = {file[at[w]]} /\ file[at[w]] \in settled[at[w]]
      BY <3>1
    <3>4. UnlockedIsDurable'
      BY <3>1
    <3>5. SaverIsCurrent' /\ ViewsAreDurable'
      BY <3>1, <3>2
    <3>6. ASSUME NEW v \in Writer
          PROVE  /\ pc'[v] \in LockedSteps \ {"save_sync"} => onDisk'[at'[v]] = {file'[at'[v]]}
                 /\ pc'[v] = "save_sync" => file'[at'[v]] = buf'[v]
      BY <3>1, <3>2
    <3>7. ASSUME NEW v \in Writer, pc'[v] \in {"load_dir_again", "load_lock_again"}
          PROVE  \/ buf'[v] \in settled'[at'[v]]
                 \/ flock'[at'[v]] # Nobody /\ file'[at'[v]] = buf'[v]
      BY <3>1, <3>3, <3>7
    <3>8. ASSUME NEW f \in File, onDisk'[f] = {file'[f]} PROVE file'[f] \in settled'[f]
      <4>1. CASE f = at[w]
        <5>1. file[f] \in onDisk'[f]
          BY <3>1, <3>3, <4>1
        <5>2. file'[f] = file[f]
          BY <3>8, <5>1
        <5>q. QED BY <3>1, <3>3, <4>1, <5>2
      <4>2. CASE f # at[w] BY <3>1, <3>8, <4>2
      <4>q. QED BY <4>1, <4>2
    <3>q. QED BY <3>4, <3>5, <3>6, <3>7, <3>8
  <2>7. CASE SaveSyncs(w)                BY <2>7 DEF SaveSyncs
  <2>8. CASE SaveFails(w)                BY <2>8 DEF SaveFails
  <2>9. CASE SaveUnlocks(w)              BY <2>9 DEF SaveUnlocks
  <2>10. CASE SaveKeepsLock(w)            BY <2>10 DEF SaveKeepsLock
  <2>q. QED
    BY <1>5, <2>1, <2>2, <2>3, <2>4, <2>5, <2>6, <2>7, <2>8, <2>9, <2>10 DEF SaveStep
<1>6. ASSUME NEW w \in Writer, Crash(w) PROVE DurableInv'
  BY <1>6 DEF Crash
<1>7. CASE PowerLoss
  BY <1>7 DEF PowerLoss
<1>8. ASSUME NEW f \in File, OperatorClearsLock(f) PROVE DurableInv'
  BY <1>8 DEF OperatorClearsLock
<1>9. CASE OperatorClearsDirectoryLock
  BY <1>9 DEF OperatorClearsDirectoryLock
<1>10. CASE UNCHANGED vars
  BY <1>10 DEF vars
<1>q. QED
  BY <1>1, <1>2, <1>3, <1>4, <1>5, <1>6, <1>7, <1>8, <1>9, <1>10 DEF Next

\* What the directory owner knows.
OwnerInv == OwnerExcludesRenames /\ OwnerReadsCurrent /\ OwnerViewIsCurrent

\* A step leaves the directory owner alone with the files it has loaded.
LEMMA OwnerStep ==
  TypeOK /\ LocksNameHolders /\ DurableInv /\ OwnerInv /\ [Next]_vars => OwnerInv'
<1> USE StoreAssumption DEF Holder, LoadSteps, LockedSteps, SaveSteps
<1> SUFFICES ASSUME TypeOK, LocksNameHolders, DurableInv, OwnerInv, [Next]_vars PROVE OwnerInv'
  OBVIOUS
<1> USE DEF TypeOK, LocksNameHolders, OwnerInv, OwnerExcludesRenames,
  OwnerReadsCurrent, OwnerViewIsCurrent, GoTo, Finish, SyncDirectory, DirectoryIsMine, disk, locks, task
<1>1. ASSUME NEW w \in Writer, TaskStep(w) PROVE OwnerInv'
  <2>1. CASE AcquireDirectory(w) BY <2>1 DEF AcquireDirectory
  <2>2. CASE EnterTask(w)        BY <2>2 DEF EnterTask
  <2>3. CASE LeaveTask(w)        BY <2>3 DEF LeaveTask
  <2>4. CASE AbortTask(w)        BY <2>4 DEF AbortTask
  <2>q. QED BY <1>1, <2>1, <2>2, <2>3, <2>4 DEF TaskStep
<1>2. ASSUME NEW w \in Writer, NEW f \in File, BeginLoad(w, f) PROVE OwnerInv'
  BY <1>2 DEF BeginLoad
<1>3. ASSUME NEW w \in Writer, LoadStep(w) PROVE OwnerInv'
  <2>1. CASE LoadChecksDirectory(w) BY <2>1 DEF LoadChecksDirectory
  <2>2. CASE LoadChecksLock(w)      BY <2>2 DEF LoadChecksLock
  <2>3. CASE LoadReads(w)           BY <2>3 DEF LoadReads
  <2>4. CASE LoadReturns(w)         BY <2>4 DEF LoadReturns
  <2>5. CASE LoadFails(w)           BY <2>5 DEF LoadFails
  <2>q. QED BY <1>3, <2>1, <2>2, <2>3, <2>4, <2>5 DEF LoadStep
<1>4. ASSUME NEW w \in Writer, NEW f \in File, NEW c \in Content, BeginSave(w, f, c) PROVE OwnerInv'
  BY <1>4 DEF BeginSave
<1>5. ASSUME NEW w \in Writer, SaveStep(w) PROVE OwnerInv'
  <2>1. CASE SaveOpensLock(w)            BY <2>1 DEF SaveOpensLock
  <2>2. CASE SaveIsLockedOut(w)          BY <2>2 DEF SaveIsLockedOut
  <2>3. CASE SaveWritesTemporary(w)      BY <2>3 DEF SaveWritesTemporary
  <2>4. CASE SaveCompares(w)             BY <2>4 DEF SaveCompares
  <2>5. CASE SaveChecksDirectoryAgain(w) BY <2>5 DEF SaveChecksDirectoryAgain
  <2>6. CASE SaveRenames(w)              BY <2>6 DEF SaveRenames
  <2>7. CASE SaveSyncs(w)                
    <3>1. /\ pc[w] = "save_sync" /\ pc' = [pc EXCEPT ![w] = "save_unlock"]
          /\ loaded' = [loaded EXCEPT ![w][at[w]] = buf[w]]
          /\ UNCHANGED <<file, flock, dlock, at, buf, owner, taken>>
      BY <2>7 DEF SaveSyncs
    <3>2. flock[at[w]] = w
      BY <3>1
    <3>3. OwnerExcludesRenames' /\ OwnerReadsCurrent'
      BY <3>1
    <3>4. ASSUME NEW v \in Writer, NEW f \in File, f \in taken'[v]
          PROVE  \/ file'[f] = loaded'[v][f]
                 \/ pc'[v] = "save_sync" /\ at'[v] = f /\ file'[f] = buf'[v]
                 \/ flock'[f] = Abandoned
      <4>1. CASE v = w /\ f = at[w] BY <3>1, <3>2, <3>4, <4>1 DEF DurableInv, OnlyRenamedIsUnsynced
      <4>2. CASE ~(v = w /\ f = at[w]) BY <3>1, <3>4, <4>2
      <4>q. QED BY <4>1, <4>2
    <3>q. QED BY <3>3, <3>4
  <2>8. CASE SaveFails(w)                BY <2>8 DEF SaveFails
  <2>9. CASE SaveUnlocks(w)              BY <2>9 DEF SaveUnlocks
  <2>10. CASE SaveKeepsLock(w)            BY <2>10 DEF SaveKeepsLock
  <2>q. QED
    BY <1>5, <2>1, <2>2, <2>3, <2>4, <2>5, <2>6, <2>7, <2>8, <2>9, <2>10 DEF SaveStep
<1>6. ASSUME NEW w \in Writer, Crash(w) PROVE OwnerInv'
  BY <1>6 DEF Crash
<1>7. CASE PowerLoss
  BY <1>7 DEF PowerLoss
<1>8. ASSUME NEW f \in File, OperatorClearsLock(f) PROVE OwnerInv'
  BY <1>8 DEF OperatorClearsLock
<1>9. CASE OperatorClearsDirectoryLock
  BY <1>9 DEF OperatorClearsDirectoryLock
<1>10. CASE UNCHANGED vars
  BY <1>10 DEF vars
<1>q. QED
  BY <1>1, <1>2, <1>3, <1>4, <1>5, <1>6, <1>7, <1>8, <1>9, <1>10 DEF Next

-----------------------------------------------------------------------------
(* The safety theorems                                                     *)

\* The three layers together are inductive.
THEOREM StoreInvariant == Spec => []StoreInv
<1>1. Init => LocksNameHolders /\ DurableInv /\ OwnerInv
  BY StoreAssumption
  DEF Init, Holder, LoadSteps, LockedSteps, LocksNameHolders, DurableInv, UnlockedIsDurable,
      OnlyRenamedIsUnsynced, ViewsAreDurable, SaverIsCurrent, OwnerInv, OwnerExcludesRenames,
      OwnerReadsCurrent, OwnerViewIsCurrent
<1>2. TypeOK /\ LocksNameHolders /\ DurableInv /\ OwnerInv <=> StoreInv
  BY DEF StoreInv, DurableInv, OwnerInv
<1>3. TypeOK /\ (LocksNameHolders /\ DurableInv /\ OwnerInv) /\ [Next]_vars
        => (LocksNameHolders /\ DurableInv /\ OwnerInv)'
  BY LocksStep, DurableStep, OwnerStep
<1>q. QED
  BY <1>1, <1>2, <1>3, TypeCorrect, PTL DEF Spec

\* No lost update: the rename of a save replaces exactly the bytes that the
\* saved state was loaded from, whatever other writers do between the
\* comparison and the rename.
THEOREM NoLostUpdate == Spec => []SaverIsCurrent
<1>1. StoreInv => SaverIsCurrent
  BY DEF StoreInv
<1>q. QED BY <1>1, StoreInvariant, PTL

\* A file without a lock holds bytes that no power loss takes back.
THEOREM UnlockedSurvivesPowerLoss == Spec => []UnlockedIsDurable
<1>1. StoreInv => UnlockedIsDurable
  BY DEF StoreInv
<1>q. QED BY <1>1, StoreInvariant, PTL

\* Every state object in memory came from bytes that were durable.
THEOREM LoadsReturnDurableBytes == Spec => []ViewsAreDurable
<1>1. StoreInv => ViewsAreDurable
  BY DEF StoreInv
<1>q. QED BY <1>1, StoreInvariant, PTL

\* What the directory owner holds is what its files contain.
THEOREM OwnerViewCorrect == Spec => []OwnerViewIsCurrent
<1>1. StoreInv => OwnerViewIsCurrent
  BY DEF StoreInv
<1>q. QED BY <1>1, StoreInvariant, PTL

\* Only two steps change a file: a rename, and a power loss.
LEMMA FileChanges ==
  ASSUME Next
  PROVE  file' = file \/ PowerLoss \/ \E w \in Writer : SaveRenames(w)
<1> USE DEF disk
<1>1. ASSUME NEW w \in Writer, TaskStep(w) \/ LoadStep(w) \/ Crash(w) PROVE file' = file
  BY <1>1 DEF TaskStep, AcquireDirectory, EnterTask, LeaveTask, AbortTask, LoadStep,
     LoadChecksDirectory, LoadChecksLock, LoadReads, LoadReturns, LoadFails, Crash
<1>2. ASSUME NEW w \in Writer, SaveStep(w) PROVE file' = file \/ SaveRenames(w)
  BY <1>2 DEF SaveStep, SaveOpensLock, SaveIsLockedOut, SaveWritesTemporary, SaveCompares,
     SaveChecksDirectoryAgain, SaveSyncs, SaveFails, SaveUnlocks, SaveKeepsLock
<1>3. ASSUME NEW w \in Writer, NEW f \in File, BeginLoad(w, f) PROVE file' = file
  BY <1>3 DEF BeginLoad
<1>4. ASSUME NEW w \in Writer, NEW f \in File, NEW c \in Content, BeginSave(w, f, c)
      PROVE file' = file
  BY <1>4 DEF BeginSave
<1>5. ASSUME NEW f \in File, OperatorClearsLock(f) PROVE file' = file
  BY <1>5 DEF OperatorClearsLock
<1>6. CASE OperatorClearsDirectoryLock
  BY <1>6 DEF OperatorClearsDirectoryLock
<1>q. QED
  BY <1>1, <1>2, <1>3, <1>4, <1>5, <1>6 DEF Next

\* Once the directory owner has loaded a file, only its own rename or a power
\* loss changes that file until the task ends.
THEOREM OwnerAlone == Spec => OwnerIsAlone
<1>1. ASSUME StoreInv, Next, NEW w \in Writer, NEW f \in File, f \in taken[w], file'[f] # file[f]
      PROVE  \/ pc[w] = "save_rename" /\ at[w] = f
             \/ Faulty /\ taken'[w] = {}
  <2>1. CASE PowerLoss
    BY <2>1 DEF PowerLoss
  <2>2. ASSUME NEW v \in Writer, SaveRenames(v) PROVE pc[w] = "save_rename" /\ at[w] = f
    <3>1. pc[v] = "save_rename" /\ at[v] = f
      BY <1>1, <2>2 DEF SaveRenames, StoreInv, TypeOK
    <3>2. v = w
      BY <1>1, <3>1 DEF StoreInv, OwnerExcludesRenames
    <3>q. QED BY <3>1, <3>2
  <2>q. QED BY <1>1, <2>1, <2>2, FileChanges
<1>2. StoreInv /\ [Next]_vars =>
        [\A w \in Writer, f \in File :
           f \in taken[w] /\ file'[f] # file[f] =>
             \/ pc[w] = "save_rename" /\ at[w] = f
             \/ Faulty /\ taken'[w] = {}]_vars
  BY <1>1
<1>q. QED BY <1>2, StoreInvariant, PTL DEF Spec, OwnerIsAlone

-----------------------------------------------------------------------------
(* The store implements OrderStateRegister.                                *)

\* At most one writer holds a lease, and it is the one that loaded the file
\* inside its task.
LeaseHolds ==
  /\ \A f \in File : Lease[f] \in Writer \cup {Nobody}
  /\ \A w \in Writer, f \in File : (Lease[f] = w) <=> (f \in taken[w])

LEMMA LeaseFollowsTaken == StoreInv => LeaseHolds
<1> SUFFICES ASSUME StoreInv PROVE LeaseHolds
  OBVIOUS
<1>1. \A v, w \in Writer : taken[v] # {} /\ taken[w] # {} => v = w
  BY DEF StoreInv, LocksNameHolders
<1>2. ASSUME NEW f \in File
      PROVE  /\ Lease[f] \in Writer \cup {Nobody}
             /\ \A w \in Writer : (Lease[f] = w) <=> (f \in taken[w])
  <2>1. CASE \E w \in Writer : f \in taken[w]
    <3>1. PICK w \in Writer : f \in taken[w]
      BY <2>1
    <3>2. Lease[f] \in Writer /\ f \in taken[Lease[f]]
      BY <2>1 DEF Lease
    <3>q. QED BY <1>1, <3>1, <3>2
  <2>2. CASE ~\E w \in Writer : f \in taken[w]
    <3>1. Lease[f] = Nobody
      BY <2>2 DEF Lease
    <3>q. QED BY <2>2, <3>1, StoreAssumption
  <2>q. QED BY <2>1, <2>2
<1>q. QED BY <1>2 DEF LeaseHolds

\* Every step of the store is a step of the register, or none.
LEMMA RegisterStep ==
  ASSUME StoreInv, StoreInv', LeaseHolds, LeaseHolds', [Next]_vars
  PROVE  [Register!Next]_(Register!vars)
<1> USE StoreAssumption DEF Register!Next, Register!vars, disk, locks, task, GoTo, Finish
<1>0. taken' = taken => Lease' = Lease
  BY DEF Lease
<1>d. Lease = [f \in File |-> Lease[f]] /\ Lease' = [f \in File |-> Lease'[f]]
  BY DEF Lease
<1>t. TypeOK /\ TypeOK'
  BY DEF StoreInv
<1>1. ASSUME NEW w \in Writer, TaskStep(w) PROVE [Register!Next]_(Register!vars)
  <2>1. CASE AcquireDirectory(w)
    BY <1>0, <2>1 DEF AcquireDirectory
  <2>2. CASE EnterTask(w)
    <3>1. Register!Settle
      BY <1>0, <2>2 DEF EnterTask, SyncDirectory, Register!Settle
    <3>q. QED BY <3>1
  <2>3. CASE LeaveTask(w) \/ AbortTask(w)
    <3>1. taken' = [taken EXCEPT ![w] = {}] /\ UNCHANGED <<file, onDisk, loaded>>
      BY <2>3 DEF LeaveTask, AbortTask
    <3>2. Register!Release(w)
      BY <1>d, <1>t, <3>1 DEF LeaseHolds, TypeOK, Register!Release
    <3>q. QED BY <3>2
  <2>q. QED BY <1>1, <2>1, <2>2, <2>3 DEF TaskStep
<1>2. ASSUME NEW w \in Writer, NEW f \in File, BeginLoad(w, f) PROVE [Register!Next]_(Register!vars)
  BY <1>0, <1>2 DEF BeginLoad
<1>3. ASSUME NEW w \in Writer, LoadStep(w) PROVE [Register!Next]_(Register!vars)
  <2>1. CASE LoadChecksDirectory(w) \/ LoadChecksLock(w) \/ LoadReads(w) \/ LoadFails(w)
    BY <1>0, <2>1 DEF LoadChecksDirectory, LoadChecksLock, LoadReads, LoadFails
  <2>2. CASE LoadReturns(w)
    <3>1. /\ pc[w] = "load_lock_again" /\ UNCHANGED <<file, onDisk>>
          /\ loaded' = [loaded EXCEPT ![w][at[w]] = buf[w]]
          /\ taken' = IF owner[w] THEN [taken EXCEPT ![w] = @ \cup {at[w]}] ELSE taken
      BY <2>2 DEF LoadReturns
    <3>2. CASE owner[w]
      <4>1. buf[w] = file[at[w]]
        BY <3>1, <3>2 DEF StoreInv, OwnerReadsCurrent
      <4>2. \A v \in Writer \ {w} : taken[v] = {}
        BY <3>2 DEF StoreInv, LocksNameHolders
      <4>3. Register!ReadLeased(w, at[w])
        BY <1>d, <1>t, <3>1, <3>2, <4>1, <4>2 DEF LeaseHolds, TypeOK, Register!ReadLeased
      <4>q. QED BY <1>t, <4>3 DEF TypeOK
    <3>3. CASE ~owner[w]
      <4>1. Lease[at[w]] # w
        BY <1>t, <3>3 DEF StoreInv, LocksNameHolders, LeaseHolds, TypeOK
      <4>2. Register!Read(w, at[w], buf[w])
        BY <1>0, <3>1, <3>3, <4>1 DEF Register!Read
      <4>q. QED BY <1>t, <3>1, <4>2 DEF TypeOK
    <3>q. QED BY <3>2, <3>3
  <2>q. QED BY <1>3, <2>1, <2>2 DEF LoadStep
<1>4. ASSUME NEW w \in Writer, NEW f \in File, NEW c \in Content, BeginSave(w, f, c)
      PROVE  [Register!Next]_(Register!vars)
  BY <1>0, <1>4 DEF BeginSave
<1>5. ASSUME NEW w \in Writer, SaveStep(w) PROVE [Register!Next]_(Register!vars)
  <2>1. CASE \/ SaveOpensLock(w) \/ SaveIsLockedOut(w) \/ SaveWritesTemporary(w)
             \/ SaveCompares(w) \/ SaveChecksDirectoryAgain(w)
    BY <1>0, <2>1 DEF SaveOpensLock, SaveIsLockedOut, SaveWritesTemporary, SaveCompares,
       SaveChecksDirectoryAgain
  <2>2. CASE SaveFails(w) \/ SaveUnlocks(w) \/ SaveKeepsLock(w)
    BY <1>0, <2>2 DEF SaveFails, SaveUnlocks, SaveKeepsLock
  <2>3. CASE SaveRenames(w)
    <3>1. /\ pc[w] = "save_rename" /\ UNCHANGED <<loaded, taken>>
          /\ file' = [file EXCEPT ![at[w]] = buf[w]]
          /\ onDisk' = [onDisk EXCEPT ![at[w]] = @ \cup {buf[w]}]
      BY <2>3 DEF SaveRenames
    <3>2. Lease[at[w]] \in {w, Nobody}
      BY <1>t, <3>1 DEF StoreInv, OwnerExcludesRenames, LeaseHolds, TypeOK
    <3>3. loaded[w][at[w]] = file[at[w]]
      BY <3>1 DEF StoreInv, SaverIsCurrent
    <3>4. Register!Commit(w, at[w], buf[w])
      BY <1>0, <3>1, <3>2, <3>3 DEF Register!Commit
    <3>q. QED BY <1>t, <3>1, <3>4 DEF TypeOK, SaveSteps, LockedSteps
  <2>4. CASE SaveSyncs(w)
    <3>1. /\ pc[w] = "save_sync" /\ UNCHANGED <<file, taken>>
          /\ onDisk' = [f \in File |-> {file[f]}]
          /\ loaded' = [loaded EXCEPT ![w][at[w]] = buf[w]]
      BY <2>4 DEF SaveSyncs, SyncDirectory
    <3>2. buf[w] = file[at[w]]
      BY <3>1 DEF StoreInv, OnlyRenamedIsUnsynced
    <3>3. Register!Acknowledge(w, at[w])
      BY <1>0, <3>1, <3>2 DEF Register!Acknowledge
    <3>q. QED BY <1>t, <3>3 DEF TypeOK
  <2>q. QED BY <1>5, <2>1, <2>2, <2>3, <2>4 DEF SaveStep
<1>6. ASSUME NEW w \in Writer, Crash(w) PROVE [Register!Next]_(Register!vars)
  <2>1. /\ Faulty /\ taken' = [taken EXCEPT ![w] = {}] /\ UNCHANGED <<file, onDisk>>
        /\ loaded' = [loaded EXCEPT ![w] = [f \in File |-> Unread]]
    BY <1>6 DEF Crash
  <2>2. Register!Forget(w)
    BY <1>d, <1>t, <2>1 DEF LeaseHolds, TypeOK, Register!Forget
  <2>q. QED BY <2>2
<1>7. CASE PowerLoss
  <2>1. Lease' = [f \in File |-> Nobody]
    BY <1>7 DEF PowerLoss, Lease
  <2>2. Register!LoseUnsettled
    BY <1>7, <2>1 DEF PowerLoss, Register!LoseUnsettled
  <2>q. QED BY <2>2
<1>8. CASE OperatorClearsDirectoryLock \/ \E f \in File : OperatorClearsLock(f)
  <2>1. Register!Settle
    BY <1>0, <1>8
    DEF OperatorClearsDirectoryLock, OperatorClearsLock, SyncDirectory, Register!Settle
  <2>q. QED BY <2>1
<1>9. CASE UNCHANGED vars
  BY <1>0, <1>9 DEF vars
<1>q. QED
  BY <1>1, <1>2, <1>3, <1>4, <1>5, <1>6, <1>7, <1>8, <1>9 DEF Next

\* The store is the compare-and-set register with leases that the ledger and
\* the idempotency state are written against, failures included.
THEOREM StoreImplementsRegister == Spec => RegisterSpec
<1>1. Init => Register!Init
  <2>1. ASSUME Init PROVE Lease = [f \in File |-> Nobody]
    BY <2>1 DEF Init, Lease
  <2>q. QED BY <2>1 DEF Init, Register!Init
<1>2. StoreInv /\ StoreInv' /\ LeaseHolds /\ LeaseHolds' /\ [Next]_vars
        => [Register!Next]_(Register!vars)
  BY RegisterStep
<1>q. QED
  BY <1>1, <1>2, StoreInvariant, LeaseFollowsTaken, PTL DEF Spec, RegisterSpec, Register!Spec

-------------------------------------------------------------------------------
(* The approval queue. Files *)

LEMMA RowsMake ==
  ASSUME NEW status \in Queue!Closed \cup {"pending"}, NEW age \in 0..(Ttl + 1)
  PROVE  Queue!Row(status, age) \in Queue!Rows
  BY DEF Queue!Row, Queue!Rows

LEMMA OlderIsFile ==
  ASSUME NEW queue \in Queue!Files
  PROVE  /\ Queue!Older(queue) \in Queue!Files
         /\ \A n \in Queue!Names : Queue!Older(queue)[n].status = queue[n].status
<1>1. ASSUME NEW n \in Queue!Names
      PROVE  /\ Queue!Older(queue)[n] \in Queue!Rows /\ Queue!Older(queue)[n].status = queue[n].status
  <2>1. queue[n] \in Queue!Rows
    BY DEF Queue!Files
  <2>2. CASE queue[n] = Queue!None \/ queue[n].age > Ttl
    BY <2>1, <2>2 DEF Queue!Older
  <2>3. CASE queue[n] # Queue!None /\ ~(queue[n].age > Ttl)
    <3>1. queue[n] \in [status : Queue!Closed \cup {"pending"}, age : 0..(Ttl + 1)]
      BY <2>1, <2>3 DEF Queue!Rows
    <3>2. queue[n].age + 1 \in 0..(Ttl + 1)
      BY <3>1, <2>3, TtlAssumption
    <3>3. Queue!Older(queue)[n] = [queue[n] EXCEPT !.age = @ + 1]
      BY <2>3 DEF Queue!Older
    <3>q. QED BY <3>1, <3>2, <3>3 DEF Queue!Rows
  <2>q. QED BY <2>2, <2>3
<1>q. QED BY <1>1 DEF Queue!Older, Queue!Files

\* Expiry and new requests touch nothing that is closed and approve nothing.
LEMMA DecisionKeepsClosed ==
  ASSUME NEW queue \in Queue!Files
  PROVE  /\ Queue!Aged(queue) \in Queue!Files /\ Queue!Requested(queue) \in Queue!Files
         /\ \A n \in Queue!Names :
              /\ queue[n].status \in Queue!Closed =>
                   Queue!Aged(queue)[n].status = queue[n].status /\ Queue!Requested(queue)[n].status = queue[n].status
              /\ Queue!Aged(queue)[n].status = "approved" => queue[n].status = "approved"
              /\ Queue!Requested(queue)[n].status = "approved" => queue[n].status = "approved"
<1>1. ASSUME NEW n \in Queue!Names
      PROVE  /\ Queue!Aged(queue)[n] \in Queue!Rows
             /\ queue[n].status \in Queue!Closed => Queue!Aged(queue)[n].status = queue[n].status
             /\ Queue!Aged(queue)[n].status = "approved" => queue[n].status = "approved"
  <2>1. queue[n] \in Queue!Rows
    BY DEF Queue!Files
  <2>2. CASE queue[n].status = "pending" /\ queue[n].age > Ttl
    <3>1. queue[n] \in [status : Queue!Closed \cup {"pending"}, age : 0..(Ttl + 1)]
      BY <2>1, <2>2 DEF Queue!Rows, Queue!None
    <3>2. Queue!Row("expired", queue[n].age) \in Queue!Rows
      BY <3>1, RowsMake DEF Queue!Closed
    <3>3. Queue!Aged(queue)[n] = Queue!Row("expired", queue[n].age)
      BY <2>2 DEF Queue!Aged
    <3>q. QED BY <2>2, <3>2, <3>3 DEF Queue!Row, Queue!Closed
  <2>3. CASE ~(queue[n].status = "pending" /\ queue[n].age > Ttl)
    BY <2>1, <2>3 DEF Queue!Aged
  <2>q. QED BY <2>2, <2>3
<1>2. ASSUME NEW n \in Queue!Names
      PROVE  /\ Queue!Requested(queue)[n] \in Queue!Rows
             /\ queue[n].status \in Queue!Closed => Queue!Requested(queue)[n].status = queue[n].status
             /\ Queue!Requested(queue)[n].status = "approved" => queue[n].status = "approved"
  <2>1. queue[n] \in Queue!Rows
    BY DEF Queue!Files
  <2>2. CASE n \in Queue!NamesOf(Queue!Entries(run.want)) /\ queue[n] = Queue!None
    <3>1. 0 \in 0..(Ttl + 1)
      BY TtlAssumption
    <3>2. Queue!Row("pending", 0) \in Queue!Rows
      BY <3>1, RowsMake
    <3>3. Queue!Requested(queue)[n] = Queue!Row("pending", 0)
      BY <2>2 DEF Queue!Requested
    <3>q. QED BY <2>2, <3>2, <3>3 DEF Queue!Row, Queue!None, Queue!Closed
  <2>3. CASE ~(n \in Queue!NamesOf(Queue!Entries(run.want)) /\ queue[n] = Queue!None)
    BY <2>1, <2>3 DEF Queue!Requested
  <2>q. QED BY <2>2, <2>3
<1>3. Queue!Aged(queue) = [n \in Queue!Names |-> Queue!Aged(queue)[n]]
  BY DEF Queue!Aged
<1>4. Queue!Requested(queue) = [n \in Queue!Names |-> Queue!Requested(queue)[n]]
  BY DEF Queue!Requested
<1>q. QED BY <1>1, <1>2, <1>3, <1>4 DEF Queue!Files

-------------------------------------------------------------------------------
(* The approval queue. The steps *)

RunType == [at : {"idle", "start", "loaded", "save", "done"}, file : Queue!Files, stale : BOOLEAN,
            stage : Stages, want : [Symbols -> Queue!Kinds], pass : SUBSET Symbols, failed : BOOLEAN]
ApproverType == [busy : BOOLEAN, file : Queue!Files, stale : BOOLEAN]
AnswerType == [Queue!Names -> {"none", "approved", "rejected"}]

LEMMA FilesMake == Queue!NoFile \in Queue!Files /\ Queue!Idle \in RunType /\ Queue!Absent \in ApproverType
<1>1. Queue!NoFile \in Queue!Files
  BY DEF Queue!NoFile, Queue!Files, Queue!Rows
<1>2. (CHOOSE g \in Stages : TRUE) \in Stages
  BY StagesAssumption
<1>3. [s \in Symbols |-> "none"] \in [Symbols -> Queue!Kinds]
  BY DEF Queue!Kinds
<1>q. QED BY <1>1, <1>2, <1>3 DEF Queue!Idle, RunType, Queue!Absent, ApproverType

LEMMA ApprovalInit == Queue!Init => Queue!ApprovalInv
<1> SUFFICES ASSUME Queue!Init PROVE Queue!ApprovalInv
  OBVIOUS
<1>1. Queue!TypeOK
  BY FilesMake DEF Queue!Init, Queue!TypeOK, RunType, ApproverType
<1>2. \A n \in Queue!Names : Queue!NoFile[n].status = "none"
  BY DEF Queue!NoFile, Queue!None
<1>3. Queue!ApprovalsAreGiven
  BY <1>2 DEF Queue!Init, Queue!ApprovalsAreGiven, Queue!Idle, Queue!Absent
<1>q. QED BY <1>1, <1>3 DEF Queue!Init, Queue!ApprovalInv, Queue!OnlyApprovedPass, Queue!PassIsJustified,
  Queue!FreshCopiesAgree, Queue!AnswersStand, Queue!Idle, Queue!Absent

\* A gate that finishes with entries that are approved keeps the invariant.
LEMMA FinishKeeps ==
  ASSUME Queue!TypeOK, Queue!OnlyApprovedPass,
         NEW pass \in SUBSET Symbols, NEW failed \in BOOLEAN, Queue!Finish(pass, failed),
         \A s \in pass \cap Queue!Entries(run.want) : Queue!Approved(s)
  PROVE  /\ run' \in RunType /\ run'.at = "done" /\ run'.file = Queue!NoFile
         /\ through' \subseteq granted /\ through' \subseteq Queue!Names
<1>1. run \in RunType
  BY DEF Queue!TypeOK, RunType
<1>2. run' \in RunType /\ run'.at = "done" /\ run'.file = Queue!NoFile
  BY <1>1, FilesMake DEF Queue!Finish, RunType
<1>3. Queue!NamesOf(pass \cap Queue!Entries(run.want)) \subseteq granted
  BY DEF Queue!NamesOf, Queue!Approved
<1>4. granted \subseteq Queue!Names
  BY DEF Queue!TypeOK
<1>q. QED BY <1>2, <1>3, <1>4 DEF Queue!Finish, Queue!OnlyApprovedPass

\* What a file lets through is approved if its approvals are given.
LEMMA AllowedIsApproved ==
  ASSUME NEW queue \in Queue!Files, run \in RunType,
         \A n \in Queue!Names : queue[n].status = "approved" => n \in granted
  PROVE  /\ Queue!Allowed(queue) \subseteq Symbols
         /\ \A s \in Queue!Allowed(queue) \cap Queue!Entries(run.want) : Queue!Approved(s)
<1>1. ASSUME NEW s \in Queue!Allowed(queue), s \in Queue!Entries(run.want) PROVE Queue!Approved(s)
  <2>1. s \in Symbols /\ run.want[s] = "entry" /\ run.stage \in Stages
    BY <1>1 DEF Queue!Allowed, Queue!Entries, RunType
  <2>2. queue[<<s, run.stage>>].status = "approved"
    BY <1>1, <2>1 DEF Queue!Allowed
  <2>3. <<s, run.stage>> \in Queue!Names
    BY <2>1 DEF Queue!Names
  <2>q. QED BY <2>2, <2>3 DEF Queue!Approved
<1>q. QED BY <1>1 DEF Queue!Allowed

\* One step keeps the invariant where the gate enforces.
LEMMA ApprovalStep == Queue!EnforceNow /\ Queue!ApprovalInv /\ [Queue!Next]_(Queue!vars) => Queue!ApprovalInv'
<1> SUFFICES ASSUME Queue!EnforceNow, Queue!ApprovalInv, [Queue!Next]_(Queue!vars) PROVE Queue!ApprovalInv'
  OBVIOUS
<1>t. /\ drive \in Queue!Files /\ run \in RunType /\ approver \in ApproverType
      /\ answered \in AnswerType /\ granted \subseteq Queue!Names /\ through \subseteq Queue!Names /\ raced \in BOOLEAN
  BY DEF Queue!ApprovalInv, Queue!TypeOK, RunType, ApproverType, AnswerType
<1>f. run.file \in Queue!Files /\ approver.file \in Queue!Files
  BY <1>t DEF RunType, ApproverType
<1>g. \A n \in Queue!Names : /\ drive[n].status = "approved" => n \in granted
                             /\ run.file[n].status = "approved" => n \in granted
                             /\ approver.file[n].status = "approved" => n \in granted
  BY DEF Queue!ApprovalInv, Queue!ApprovalsAreGiven
<1>n. \A n \in Queue!Names : Queue!NoFile[n].status # "approved"
  BY DEF Queue!NoFile, Queue!None
\* The parts of the next invariant, each over values that were just described.
<1>a. ASSUME drive' \in Queue!Files, run' \in RunType, approver' \in ApproverType, answered' \in AnswerType,
             granted' \subseteq Queue!Names, through' \subseteq granted', raced' \in BOOLEAN,
             \A n \in Queue!Names : /\ drive'[n].status = "approved" => n \in granted'
                                    /\ run'.file[n].status = "approved" => n \in granted'
                                    /\ approver'.file[n].status = "approved" => n \in granted',
             Queue!PassIsJustified', Queue!FreshCopiesAgree', Queue!AnswersStand'
      PROVE  Queue!ApprovalInv'
  <2>1. through' \subseteq Queue!Names
    BY <1>a
  <2>2. Queue!TypeOK'
    BY <1>a, <2>1 DEF Queue!TypeOK, RunType, ApproverType, AnswerType
  <2>3. Queue!OnlyApprovedPass' /\ Queue!ApprovalsAreGiven'
    BY <1>a DEF Queue!OnlyApprovedPass, Queue!ApprovalsAreGiven
  <2>q. QED BY <1>a, <2>2, <2>3 DEF Queue!ApprovalInv
<1>1. CASE Queue!Start
  <2>1. PICK g \in Stages, want \in [Symbols -> Queue!Kinds] :
          run' = [Queue!Idle EXCEPT !.at = "start", !.stage = g, !.want = want]
    BY <1>1 DEF Queue!Start
  <2>2. run' \in RunType /\ run'.at = "start" /\ run'.file = Queue!NoFile
    BY <2>1, FilesMake DEF RunType, Queue!Idle
  <2>3. UNCHANGED <<drive, approver, answered, granted, through, raced>>
    BY <1>1 DEF Queue!Start
  <2>4. Queue!PassIsJustified' /\ Queue!FreshCopiesAgree' /\ Queue!AnswersStand'
    BY <2>2, <2>3 DEF Queue!ApprovalInv, Queue!PassIsJustified, Queue!FreshCopiesAgree, Queue!AnswersStand
  <2>q. QED BY <1>a, <1>t, <1>g, <1>n, <2>2, <2>3, <2>4 DEF Queue!ApprovalInv, Queue!OnlyApprovedPass
<1>2. CASE Queue!Bypass
  <2>1. Queue!Entries(run.want) = {} /\ Queue!Finish(Queue!Entries(run.want) \cup Queue!Exits(run.want), FALSE)
    BY <1>2 DEF Queue!Bypass
  <2>2. run' \in RunType /\ run'.at = "done" /\ run'.file = Queue!NoFile /\ through' \subseteq granted
    <3>1. Queue!Entries(run.want) \cup Queue!Exits(run.want) \subseteq Symbols
      BY DEF Queue!Entries, Queue!Exits
    <3>q. QED BY <2>1, <3>1, FinishKeeps DEF Queue!ApprovalInv
  <2>3. UNCHANGED <<drive, approver, answered, granted, raced>>
    BY <1>2 DEF Queue!Bypass
  <2>4. Queue!PassIsJustified' /\ Queue!FreshCopiesAgree' /\ Queue!AnswersStand'
    BY <2>2, <2>3 DEF Queue!ApprovalInv, Queue!PassIsJustified, Queue!FreshCopiesAgree, Queue!AnswersStand
  <2>q. QED BY <1>a, <1>t, <1>g, <1>n, <2>2, <2>3, <2>4
<1>3. CASE Queue!Load
  <2>1. run' = [run EXCEPT !.at = "loaded", !.file = drive]
    BY <1>3 DEF Queue!Load
  <2>2. run' \in RunType /\ run'.at = "loaded" /\ run'.file = drive
    BY <1>t, <2>1 DEF RunType
  <2>3. UNCHANGED <<drive, approver, answered, granted, through, raced>>
    BY <1>3 DEF Queue!Load
  <2>4. Queue!PassIsJustified' /\ Queue!FreshCopiesAgree' /\ Queue!AnswersStand'
    BY <2>2, <2>3 DEF Queue!ApprovalInv, Queue!PassIsJustified, Queue!FreshCopiesAgree, Queue!AnswersStand
  <2>q. QED BY <1>a, <1>t, <1>g, <2>2, <2>3, <2>4 DEF Queue!ApprovalInv, Queue!OnlyApprovedPass
<1>4. CASE Queue!LoadFails
  <2>1. Queue!Finish(Queue!Exits(run.want), TRUE)
    BY <1>4 DEF Queue!LoadFails
  <2>2. run' \in RunType /\ run'.at = "done" /\ run'.file = Queue!NoFile /\ through' \subseteq granted
    <3>1. Queue!Exits(run.want) \subseteq Symbols /\ Queue!Exits(run.want) \cap Queue!Entries(run.want) = {}
      BY DEF Queue!Entries, Queue!Exits
    <3>q. QED BY <2>1, <3>1, FinishKeeps DEF Queue!ApprovalInv
  <2>3. UNCHANGED <<drive, approver, answered, granted, raced>>
    BY <1>4 DEF Queue!LoadFails
  <2>4. Queue!PassIsJustified' /\ Queue!FreshCopiesAgree' /\ Queue!AnswersStand'
    BY <2>2, <2>3 DEF Queue!ApprovalInv, Queue!PassIsJustified, Queue!FreshCopiesAgree, Queue!AnswersStand
  <2>q. QED BY <1>a, <1>t, <1>g, <1>n, <2>2, <2>3, <2>4
<1>5. CASE Queue!Decide
  <2> DEFINE judged == Queue!Aged(run.file)
  <2>1. judged \in Queue!Files /\ Queue!Requested(judged) \in Queue!Files
    BY <1>f, DecisionKeepsClosed
  <2>2. \A n \in Queue!Names :
          /\ run.file[n].status \in Queue!Closed => Queue!Requested(judged)[n].status = run.file[n].status
          /\ judged[n].status = "approved" => n \in granted
          /\ Queue!Requested(judged)[n].status = "approved" => n \in granted
    <3> SUFFICES ASSUME NEW n \in Queue!Names
                 PROVE  /\ run.file[n].status \in Queue!Closed => Queue!Requested(judged)[n].status = run.file[n].status
                        /\ judged[n].status = "approved" => n \in granted
                        /\ Queue!Requested(judged)[n].status = "approved" => n \in granted
      OBVIOUS
    <3>1. /\ run.file[n].status \in Queue!Closed => judged[n].status = run.file[n].status
          /\ judged[n].status = "approved" => run.file[n].status = "approved"
      BY <1>f, DecisionKeepsClosed
    <3>2. /\ judged[n].status \in Queue!Closed => Queue!Requested(judged)[n].status = judged[n].status
          /\ Queue!Requested(judged)[n].status = "approved" => judged[n].status = "approved"
      BY <2>1, DecisionKeepsClosed
    <3>q. QED BY <1>g, <3>1, <3>2
  <2>3. Queue!Allowed(judged) \subseteq Symbols /\ \A s \in Queue!Allowed(judged) \cap Queue!Entries(run.want) : Queue!Approved(s)
    BY <1>t, <2>1, <2>2, AllowedIsApproved
  <2>4. UNCHANGED <<drive, approver, answered, granted, raced>>
    BY <1>5 DEF Queue!Decide
  <2>5. CASE Queue!Requested(judged) = run.file
    <3>1. Queue!Finish(Queue!Allowed(judged), FALSE)
      BY <1>5, <2>5 DEF Queue!Decide, Queue!Judged
    <3>2. run' \in RunType /\ run'.at = "done" /\ run'.file = Queue!NoFile /\ through' \subseteq granted
      BY <2>3, <3>1, FinishKeeps DEF Queue!ApprovalInv
    <3>3. Queue!PassIsJustified' /\ Queue!FreshCopiesAgree' /\ Queue!AnswersStand'
      BY <2>4, <3>2 DEF Queue!ApprovalInv, Queue!PassIsJustified, Queue!FreshCopiesAgree, Queue!AnswersStand
    <3>q. QED BY <1>a, <1>t, <1>g, <1>n, <2>4, <3>2, <3>3
  <2>6. CASE Queue!Requested(judged) # run.file
    <3>1. /\ run.at = "loaded" /\ UNCHANGED through
          /\ run' = [run EXCEPT !.at = "save", !.file = Queue!Requested(judged), !.pass = Queue!Allowed(judged)]
      BY <1>5, <2>6 DEF Queue!Decide, Queue!Judged
    <3>2. /\ run' \in RunType /\ run'.at = "save" /\ run'.file = Queue!Requested(judged)
          /\ run'.pass = Queue!Allowed(judged) /\ run'.want = run.want /\ run'.stage = run.stage
          /\ run'.stale = run.stale
      BY <1>t, <2>1, <2>3, <3>1 DEF RunType
    <3>3. Queue!PassIsJustified'
      BY <2>3, <2>4, <3>2 DEF Queue!PassIsJustified, Queue!Approved, Queue!Entries
    <3>4. ~run.stale => run.file = drive
      BY <3>1 DEF Queue!ApprovalInv, Queue!FreshCopiesAgree
    <3>5. Queue!FreshCopiesAgree'
      BY <2>2, <2>4, <3>2, <3>4 DEF Queue!ApprovalInv, Queue!FreshCopiesAgree
    <3>6. Queue!AnswersStand'
      BY <2>4 DEF Queue!ApprovalInv, Queue!AnswersStand
    <3>q. QED BY <1>a, <1>t, <1>g, <2>2, <2>4, <3>1, <3>2, <3>3, <3>5, <3>6 DEF Queue!ApprovalInv,
      Queue!OnlyApprovedPass
  <2>q. QED BY <2>5, <2>6
<1>6. CASE Queue!Save
  <2>1. run.at = "save" /\ Queue!Finish(run.pass, FALSE)
    BY <1>6 DEF Queue!Save
  <2>2. run' \in RunType /\ run'.at = "done" /\ run'.file = Queue!NoFile /\ through' \subseteq granted
    <3>1. run.pass \subseteq Symbols /\ \A s \in run.pass \cap Queue!Entries(run.want) : Queue!Approved(s)
      BY <1>t, <2>1 DEF RunType, Queue!ApprovalInv, Queue!PassIsJustified
    <3>q. QED BY <2>1, <3>1, FinishKeeps DEF Queue!ApprovalInv
  <2>3. /\ drive' = run.file /\ raced' = (raced \/ run.stale) /\ UNCHANGED <<answered, granted>>
        /\ approver' = [approver EXCEPT !.stale = approver.busy]
    BY <1>6 DEF Queue!Save
  <2>4. approver' \in ApproverType /\ approver'.file = approver.file /\ (approver'.busy => approver'.stale)
    BY <1>t, <2>3 DEF ApproverType
  <2>5. Queue!PassIsJustified' /\ Queue!FreshCopiesAgree'
    BY <2>2, <2>4 DEF Queue!PassIsJustified, Queue!FreshCopiesAgree
  <2>6. Queue!AnswersStand'
    <3> SUFFICES ASSUME ~raced', NEW n \in Queue!Names, answered'[n] # "none"
                 PROVE  drive'[n].status = answered'[n]
      BY DEF Queue!AnswersStand
    <3>1. ~raced /\ ~run.stale /\ answered[n] \in {"approved", "rejected"}
      BY <1>t, <2>3 DEF AnswerType
    <3>2. drive[n].status = answered[n]
      BY <2>3, <3>1 DEF Queue!ApprovalInv, Queue!AnswersStand
    <3>q. QED BY <2>1, <2>3, <3>1, <3>2 DEF Queue!ApprovalInv, Queue!FreshCopiesAgree, Queue!Closed
  <2>7. raced' \in BOOLEAN
    BY <1>t, <2>3 DEF RunType
  <2>q. QED BY <1>a, <1>t, <1>f, <1>g, <1>n, <2>2, <2>3, <2>4, <2>5, <2>6, <2>7
<1>7. CASE Queue!SaveFails
  <2>1. run.at = "save" /\ Queue!Finish(Queue!Exits(run.want), TRUE)
    BY <1>7 DEF Queue!SaveFails
  <2>2. run' \in RunType /\ run'.at = "done" /\ run'.file = Queue!NoFile /\ through' \subseteq granted
    <3>1. Queue!Exits(run.want) \subseteq Symbols /\ Queue!Exits(run.want) \cap Queue!Entries(run.want) = {}
      BY DEF Queue!Entries, Queue!Exits
    <3>q. QED BY <2>1, <3>1, FinishKeeps DEF Queue!ApprovalInv
  <2>3. UNCHANGED <<answered, granted>>
    BY <1>7 DEF Queue!SaveFails
  <2>4. CASE UNCHANGED <<drive, approver, raced>>
    <3>1. Queue!PassIsJustified' /\ Queue!FreshCopiesAgree' /\ Queue!AnswersStand'
      BY <2>2, <2>3, <2>4 DEF Queue!ApprovalInv, Queue!PassIsJustified, Queue!FreshCopiesAgree,
        Queue!AnswersStand
    <3>q. QED BY <1>a, <1>t, <1>g, <1>n, <2>2, <2>3, <2>4, <3>1
  <2>5. CASE /\ drive' = run.file /\ raced' = (raced \/ run.stale)
             /\ approver' = [approver EXCEPT !.stale = approver.busy]
    <3>1. approver' \in ApproverType /\ approver'.file = approver.file /\ (approver'.busy => approver'.stale)
      BY <1>t, <2>5 DEF ApproverType
    <3>2. Queue!PassIsJustified' /\ Queue!FreshCopiesAgree'
      BY <2>2, <3>1 DEF Queue!PassIsJustified, Queue!FreshCopiesAgree
    <3>3. Queue!AnswersStand'
      <4> SUFFICES ASSUME ~raced', NEW n \in Queue!Names, answered'[n] # "none"
                   PROVE  drive'[n].status = answered'[n]
        BY DEF Queue!AnswersStand
      <4>1. ~raced /\ ~run.stale /\ answered[n] \in {"approved", "rejected"}
        BY <1>t, <2>3, <2>5 DEF AnswerType
      <4>2. drive[n].status = answered[n]
        BY <2>3, <4>1 DEF Queue!ApprovalInv, Queue!AnswersStand
      <4>q. QED BY <2>1, <2>3, <2>5, <4>1, <4>2 DEF Queue!ApprovalInv, Queue!FreshCopiesAgree, Queue!Closed
    <3>4. raced' \in BOOLEAN
      BY <1>t, <2>5 DEF RunType
    <3>q. QED BY <1>a, <1>t, <1>f, <1>g, <1>n, <2>2, <2>3, <2>5, <3>1, <3>2, <3>3, <3>4
  <2>q. QED BY <1>7, <2>4, <2>5 DEF Queue!SaveFails
<1>8. CASE Queue!Die
  <2>1. run' \in RunType /\ run'.at = "idle" /\ run'.file = Queue!NoFile
    BY <1>8, FilesMake DEF Queue!Die, Queue!Idle
  <2>2. UNCHANGED <<drive, approver, answered, granted, through, raced>>
    BY <1>8 DEF Queue!Die
  <2>3. Queue!PassIsJustified' /\ Queue!FreshCopiesAgree' /\ Queue!AnswersStand'
    BY <2>1, <2>2 DEF Queue!ApprovalInv, Queue!PassIsJustified, Queue!FreshCopiesAgree, Queue!AnswersStand
  <2>q. QED BY <1>a, <1>t, <1>g, <1>n, <2>1, <2>2, <2>3 DEF Queue!ApprovalInv, Queue!OnlyApprovedPass
<1>9. CASE Queue!ApproverLoads \/ Queue!GivesUp
  <2>1. UNCHANGED <<drive, run, answered, granted, through, raced>>
    BY <1>9 DEF Queue!ApproverLoads, Queue!GivesUp
  <2>2. /\ approver' \in ApproverType /\ approver'.file \in {drive, Queue!NoFile}
        /\ approver'.busy => approver'.file = drive
    <3>1. CASE approver' = [busy |-> TRUE, file |-> drive, stale |-> FALSE]
      BY <1>t, <3>1 DEF ApproverType
    <3>2. CASE approver' = Queue!Absent
      <4>1. approver'.file = Queue!NoFile /\ ~approver'.busy
        BY <3>2 DEF Queue!Absent
      <4>q. QED BY <3>2, <4>1, FilesMake
    <3>q. QED BY <1>9, <3>1, <3>2 DEF Queue!ApproverLoads, Queue!GivesUp
  <2>3. Queue!PassIsJustified' /\ Queue!FreshCopiesAgree' /\ Queue!AnswersStand'
    BY <2>1, <2>2 DEF Queue!ApprovalInv, Queue!PassIsJustified, Queue!FreshCopiesAgree, Queue!AnswersStand,
      Queue!Approved, Queue!Entries
  <2>q. QED BY <1>a, <1>t, <1>g, <1>n, <2>1, <2>2, <2>3 DEF Queue!ApprovalInv, Queue!OnlyApprovedPass
<1>10. CASE Queue!Tick
  <2>1. /\ drive' = Queue!Older(drive) /\ run' = [run EXCEPT !.file = Queue!Older(run.file)]
        /\ approver' = [approver EXCEPT !.file = Queue!Older(approver.file)]
        /\ UNCHANGED <<answered, granted, through, raced>>
    BY <1>10 DEF Queue!Tick
  <2>2. /\ drive' \in Queue!Files /\ Queue!Older(run.file) \in Queue!Files /\ Queue!Older(approver.file) \in Queue!Files
        /\ \A n \in Queue!Names : /\ drive'[n].status = drive[n].status
                                  /\ Queue!Older(run.file)[n].status = run.file[n].status
                                  /\ Queue!Older(approver.file)[n].status = approver.file[n].status
    BY <1>t, <1>f, <2>1, OlderIsFile
  <2>3. /\ run' \in RunType /\ run'.file = Queue!Older(run.file) /\ run'.at = run.at /\ run'.stale = run.stale
        /\ run'.pass = run.pass /\ run'.want = run.want /\ run'.stage = run.stage
    BY <1>t, <2>1, <2>2 DEF RunType
  <2>4. /\ approver' \in ApproverType /\ approver'.file = Queue!Older(approver.file)
        /\ approver'.busy = approver.busy /\ approver'.stale = approver.stale
    BY <1>t, <2>1, <2>2 DEF ApproverType
  <2>5. Queue!PassIsJustified'
    BY <2>1, <2>3 DEF Queue!ApprovalInv, Queue!PassIsJustified, Queue!Approved, Queue!Entries
  <2>6. Queue!FreshCopiesAgree'
    BY <2>1, <2>2, <2>3, <2>4 DEF Queue!ApprovalInv, Queue!FreshCopiesAgree
  <2>7. Queue!AnswersStand'
    BY <2>1, <2>2 DEF Queue!ApprovalInv, Queue!AnswersStand
  <2>q. QED BY <1>a, <1>t, <1>g, <2>1, <2>2, <2>3, <2>4, <2>5, <2>6, <2>7 DEF Queue!ApprovalInv,
    Queue!OnlyApprovedPass
<1>11. ASSUME NEW n \in Queue!Names, NEW status \in {"approved", "rejected"}, Queue!Answer(n, status)
       PROVE  Queue!ApprovalInv'
  <2> DEFINE written == [approver.file EXCEPT ![n] = Queue!Row(status, approver.file[n].age)]
  <2>1. /\ approver.busy /\ approver.file[n].status = "pending" /\ drive' = written /\ approver' = Queue!Absent
        /\ run' = [run EXCEPT !.stale = run.at \in {"loaded", "save"}]
        /\ raced' = (raced \/ approver.stale) /\ answered' = [answered EXCEPT ![n] = status]
        /\ granted' = (IF status = "approved" THEN granted \cup {n} ELSE granted) /\ UNCHANGED through
    BY <1>11 DEF Queue!Answer
  <2>2. written \in Queue!Files /\ written[n].status = status
        /\ \A m \in Queue!Names \ {n} : written[m] = approver.file[m]
    <3>1. approver.file[n] \in Queue!Rows /\ approver.file[n] # Queue!None
      BY <1>f, <2>1 DEF Queue!Files, Queue!None
    <3>2. Queue!Row(status, approver.file[n].age) \in Queue!Rows
      BY <3>1, RowsMake DEF Queue!Rows, Queue!Closed
    <3>q. QED BY <1>f, <3>2 DEF Queue!Files, Queue!Row
  <2>3. /\ run' \in RunType /\ run'.file = run.file /\ run'.at = run.at /\ run'.pass = run.pass
        /\ run'.want = run.want /\ run'.stage = run.stage /\ (run.at \in {"loaded", "save"} => run'.stale)
    <3>1. (run.at \in {"loaded", "save"}) \in BOOLEAN
      OBVIOUS
    <3>q. QED BY <1>t, <2>1, <3>1 DEF RunType
  <2>4. approver' \in ApproverType /\ ~approver'.busy /\ approver'.file = Queue!NoFile
    BY <2>1, FilesMake DEF Queue!Absent
  <2>5. answered' \in AnswerType /\ answered'[n] = status /\ \A m \in Queue!Names \ {n} : answered'[m] = answered[m]
    BY <1>t, <2>1 DEF AnswerType
  <2>6. granted \subseteq granted' /\ granted' \subseteq Queue!Names /\ (status = "approved" => n \in granted')
    BY <1>t, <2>1
  <2>7. Queue!PassIsJustified'
    BY <2>3, <2>6 DEF Queue!ApprovalInv, Queue!PassIsJustified, Queue!Approved, Queue!Entries
  <2>8. Queue!FreshCopiesAgree'
    BY <2>3, <2>4 DEF Queue!FreshCopiesAgree
  <2>9. Queue!AnswersStand'
    <3> SUFFICES ASSUME ~raced', NEW m \in Queue!Names, answered'[m] # "none"
                 PROVE  drive'[m].status = answered'[m]
      BY DEF Queue!AnswersStand
    <3>1. CASE m = n
      BY <2>1, <2>2, <2>5, <3>1
    <3>2. CASE m # n
      <4>1. answered[m] # "none" /\ drive'[m] = approver.file[m]
        BY <2>1, <2>2, <2>5, <3>2
      <4>2. ~raced /\ approver.file = drive
        BY <2>1 DEF Queue!ApprovalInv, Queue!FreshCopiesAgree
      <4>3. drive[m].status = answered[m]
        BY <4>1, <4>2 DEF Queue!ApprovalInv, Queue!AnswersStand
      <4>q. QED BY <2>5, <3>2, <4>1, <4>2, <4>3
    <3>q. QED BY <3>1, <3>2
  <2>10. raced' \in BOOLEAN
    BY <1>t, <2>1 DEF ApproverType
  <2>11. \A m \in Queue!Names : drive'[m].status = "approved" => m \in granted'
    BY <1>g, <2>1, <2>2, <2>6
  <2>12. through' \subseteq granted'
    BY <2>1, <2>6 DEF Queue!ApprovalInv, Queue!OnlyApprovedPass
  <2>q. QED BY <1>a, <1>g, <1>n, <2>1, <2>2, <2>3, <2>4, <2>5, <2>6, <2>7, <2>8, <2>9, <2>10, <2>11, <2>12
<1>12. CASE UNCHANGED Queue!vars
  BY <1>12 DEF Queue!vars, Queue!ApprovalInv, Queue!TypeOK, Queue!OnlyApprovedPass,
    Queue!ApprovalsAreGiven, Queue!PassIsJustified,
     Queue!FreshCopiesAgree, Queue!AnswersStand, Queue!Approved, Queue!Entries
<1>q. QED BY <1>1, <1>2, <1>3, <1>4, <1>5, <1>6, <1>7, <1>8, <1>9, <1>10, <1>11, <1>12 DEF Queue!Next,
  Queue!Gate

-------------------------------------------------------------------------------
(* Theorems *)

\* The inductive invariant, where the gate enforces (not in a preview).
THEOREM ApprovalInvariant == Queue!EnforceNow /\ Queue!Spec => []Queue!ApprovalInv
<1> SUFFICES ASSUME Queue!EnforceNow PROVE Queue!Spec => []Queue!ApprovalInv
  OBVIOUS
<1>1. Queue!ApprovalInv /\ [Queue!Next]_(Queue!vars) => Queue!ApprovalInv'
  BY ApprovalStep
<1>q. QED BY <1>1, ApprovalInit, PTL DEF Queue!Spec

\* Where the gate enforces, no entry passes that nobody has approved
\* (applyApprovalQueueGate), however the writes to the file overtake each other.
THEOREM EntriesAreApproved == Queue!EnforceNow /\ Queue!Spec => []OnlyApprovedPass
<1>1. Queue!ApprovalInv => OnlyApprovedPass
  BY DEF Queue!ApprovalInv, OnlyApprovedPass
<1>q. QED BY <1>1, ApprovalInvariant, PTL

\* An answer that is given stands in the file until somebody overwrites a file he
\* had not read (saveApprovalQueueToDrive writes without a version check).
THEOREM AnswersAreKept == Queue!EnforceNow /\ Queue!Spec => []AnswersStand
<1>1. Queue!ApprovalInv => AnswersStand
  BY DEF Queue!ApprovalInv, AnswersStand
<1>q. QED BY <1>1, ApprovalInvariant, PTL

-------------------------------------------------------------------------------
(* The approval queue. What a gate owes the entries it holds back          *)

\* Before the gate is done: no sale is held back, what is held back is in the file that
\* is about to be written, and what a copy has on file the drive has, unless somebody has
\* overwritten a file he had not read.
HoldsBack ==
  /\ run.at = "save" =>
       /\ Queue!Exits(run.want) \subseteq run.pass
       /\ \A s \in Queue!Entries(run.want) \ run.pass : run.file[<<s, run.stage>>].status # "none"
  /\ run.at = "loaded" /\ ~raced =>
       \A n \in Queue!Names : run.file[n].status # "none" => drive[n].status # "none"
GateInv == Queue!ApprovalInv /\ HoldsBack /\ Queue!FailsClosed /\ Queue!HeldBackIsOnFile

\* The row of a name that is not on file has a status of its own.
LEMMA OnFile ==
  ASSUME NEW queue \in Queue!Files, NEW n \in Queue!Names
  PROVE  queue[n] = Queue!None <=> queue[n].status = "none"
<1>1. queue[n] \in Queue!Rows
  BY DEF Queue!Files
<1>q. QED BY <1>1 DEF Queue!Rows, Queue!None, Queue!Closed

\* A decision leaves what is on file there, and puts there what it holds back.
LEMMA DecisionFiles ==
  ASSUME NEW queue \in Queue!Files, run \in RunType, NEW n \in Queue!Names
  PROVE  /\ queue[n].status # "none" => Queue!Requested(Queue!Aged(queue))[n].status # "none"
         /\ n \in Queue!NamesOf(Queue!Entries(run.want)) => Queue!Requested(Queue!Aged(queue))[n].status # "none"
<1> DEFINE judged == Queue!Aged(queue)
<1>1. judged \in Queue!Files
  BY DecisionKeepsClosed
<1>2. queue[n].status # "none" => judged[n].status # "none"
  BY DEF Queue!Aged, Queue!Row
<1>3. judged[n] = Queue!None <=> judged[n].status = "none"
  BY <1>1, OnFile
<1> HIDE DEF judged
<1>4. Queue!Requested(judged)[n] =
        IF n \in Queue!NamesOf(Queue!Entries(run.want)) /\ judged[n] = Queue!None
        THEN Queue!Row("pending", 0) ELSE judged[n]
  BY DEF Queue!Requested
<1>5. CASE n \in Queue!NamesOf(Queue!Entries(run.want)) /\ judged[n] = Queue!None
  BY <1>4, <1>5 DEF Queue!Row, judged
<1>6. CASE ~(n \in Queue!NamesOf(Queue!Entries(run.want)) /\ judged[n] = Queue!None)
  BY <1>2, <1>3, <1>4, <1>6 DEF judged
<1>q. QED BY <1>5, <1>6

\* A gate that finishes: what it passes, and whose entries are left.
LEMMA FinishIs ==
  ASSUME run \in RunType, NEW pass \in SUBSET Symbols, NEW failed \in BOOLEAN, Queue!Finish(pass, failed)
  PROVE  /\ run'.at = "done" /\ run'.pass = pass /\ run'.failed = failed
         /\ run'.want = run.want /\ run'.stage = run.stage
BY DEF Queue!Finish, RunType

LEMMA SaleOrEntry ==
  /\ Queue!Exits(run.want) \subseteq Symbols /\ Queue!Entries(run.want) \subseteq Symbols
  /\ Queue!Exits(run.want) \cap Queue!Entries(run.want) = {}
BY DEF Queue!Exits, Queue!Entries

\* One step keeps what the gate owes, and no closed request is opened again by it.
LEMMA GateStep ==
  ASSUME Queue!EnforceNow, GateInv, [Queue!Next]_(Queue!vars)
  PROVE  GateInv' /\ Queue!ClosedStaysClosed
<1>t. /\ drive \in Queue!Files /\ run \in RunType /\ approver \in ApproverType /\ raced \in BOOLEAN
      /\ run.file \in Queue!Files /\ approver.file \in Queue!Files
  BY DEF GateInv, Queue!ApprovalInv, Queue!TypeOK, RunType, ApproverType
<1>i. Queue!ApprovalInv'
  BY ApprovalStep DEF GateInv
<1>n. \A s \in Queue!Entries(run.want) : <<s, run.stage>> \in Queue!Names
                                        /\ <<s, run.stage>> \in Queue!NamesOf(Queue!Entries(run.want))
  BY <1>t DEF Queue!Entries, Queue!Names, Queue!NamesOf, RunType
\* The run is done and the drive has what was held back, or does not matter.
<1>d. ASSUME run'.at = "done", Queue!Exits(run.want) \subseteq run'.pass, run'.want = run.want, run'.stage = run.stage,
             run'.failed => run'.pass \cap Queue!Entries(run.want) = {},
             ~run'.failed /\ ~raced' =>
               \A s \in Queue!Entries(run.want) \ run'.pass : drive'[<<s, run.stage>>].status # "none"
      PROVE  GateInv'
  <2>1. Queue!Entries(run.want)' = Queue!Entries(run.want) /\ Queue!Exits(run.want)' = Queue!Exits(run.want)
    BY <1>d DEF Queue!Entries, Queue!Exits
  <2>2. Queue!FailsClosed'
    BY <1>d, <2>1 DEF Queue!FailsClosed
  <2>3. HoldsBack'
    BY <1>d DEF HoldsBack
  <2>4. \A s \in Queue!Entries(run.want) :
          drive'[<<s, run.stage>>].status # "none" => drive'[<<s, run.stage>>] # Queue!None
    BY DEF Queue!None
  <2>5. Queue!HeldBackIsOnFile'
    BY <1>d, <2>1, <2>4 DEF Queue!HeldBackIsOnFile
  <2>q. QED BY <1>i, <2>2, <2>3, <2>5 DEF GateInv
\* The drive is as it was.
<1>s. ASSUME drive' = drive PROVE Queue!ClosedStaysClosed
  BY <1>s DEF Queue!ClosedStaysClosed
\* The run writes its copy.
<1>w. ASSUME run.at = "save", drive' = run.file, raced' = (raced \/ run.stale)
      PROVE  Queue!ClosedStaysClosed
  BY <1>w DEF GateInv, Queue!ApprovalInv, Queue!FreshCopiesAgree, Queue!ClosedStaysClosed
\* The run goes nowhere, and the drive forgets nothing.
<1>k. ASSUME run'.at = run.at, run'.want = run.want, run'.stage = run.stage, run'.pass = run.pass,
             run'.failed = run.failed, raced => raced',
             \A n \in Queue!Names : run'.file[n].status = run.file[n].status,
             ~raced' => \A n \in Queue!Names : drive[n].status # "none" => drive'[n].status # "none"
      PROVE  GateInv'
  <2>1. Queue!Entries(run.want)' = Queue!Entries(run.want) /\ Queue!Exits(run.want)' = Queue!Exits(run.want)
    BY <1>k DEF Queue!Entries, Queue!Exits
  <2>2. Queue!FailsClosed'
    BY <1>k, <2>1 DEF GateInv, Queue!FailsClosed
  <2>3. HoldsBack'
    BY <1>k, <1>n, <2>1 DEF GateInv, HoldsBack
  <2>4. Queue!HeldBackIsOnFile'
    <3> SUFFICES ASSUME run'.at = "done", ~run'.failed, ~raced', NEW s \in Queue!Entries(run.want) \ run.pass
                 PROVE  drive'[<<s, run.stage>>] # Queue!None
      BY <1>k, <2>1 DEF Queue!HeldBackIsOnFile
    <3>1. ~raced
      BY <1>k
    <3>2. drive[<<s, run.stage>>] # Queue!None /\ <<s, run.stage>> \in Queue!Names
      BY <1>k, <1>n, <3>1 DEF GateInv, Queue!HeldBackIsOnFile
    <3>3. drive[<<s, run.stage>>].status # "none"
      BY <1>t, <3>2, OnFile
    <3>4. drive'[<<s, run.stage>>].status # "none"
      BY <1>k, <3>2, <3>3
    <3>q. QED BY <3>4 DEF Queue!None
  <2>q. QED BY <1>i, <2>2, <2>3, <2>4 DEF GateInv
\* Before the decision a run owes nothing.
<1>e. ASSUME run'.at \in {"idle", "start"} PROVE GateInv'
  BY <1>e, <1>i DEF GateInv, HoldsBack, Queue!FailsClosed, Queue!HeldBackIsOnFile
<1>1. CASE Queue!Start \/ Queue!Die
  <2>1. drive' = drive
    BY <1>1 DEF Queue!Start, Queue!Die
  <2>2. CASE Queue!Start
    <3>1. PICK g \in Stages, want \in [Symbols -> Queue!Kinds] :
            run' = [Queue!Idle EXCEPT !.at = "start", !.stage = g, !.want = want]
      BY <2>2 DEF Queue!Start
    <3>2. run'.at = "start"
      BY <3>1, FilesMake DEF RunType
    <3>q. QED BY <1>e, <1>s, <2>1, <3>2
  <2>3. CASE Queue!Die
    <3>1. run'.at = "idle"
      BY <2>3 DEF Queue!Die, Queue!Idle
    <3>q. QED BY <1>e, <1>s, <2>1, <3>1
  <2>q. QED BY <1>1, <2>2, <2>3
<1>2. CASE Queue!Bypass
  <2>1. Queue!Entries(run.want) = {} /\ Queue!Finish(Queue!Exits(run.want), FALSE) /\ drive' = drive
    BY <1>2 DEF Queue!Bypass
  <2>2. /\ run'.at = "done" /\ run'.pass = Queue!Exits(run.want) /\ run'.failed = FALSE
        /\ run'.want = run.want /\ run'.stage = run.stage
    BY <1>t, <2>1, SaleOrEntry, FinishIs
  <2>q. QED BY <1>d, <1>s, <2>1, <2>2
<1>3. CASE Queue!Load
  <2>1. run' = [run EXCEPT !.at = "loaded", !.file = drive] /\ drive' = drive
    BY <1>3 DEF Queue!Load
  <2>2. run'.at = "loaded" /\ run'.file = drive
    BY <1>t, <2>1 DEF RunType
  <2>q. QED BY <1>i, <1>s, <2>1, <2>2 DEF GateInv, HoldsBack, Queue!FailsClosed, Queue!HeldBackIsOnFile
<1>4. CASE Queue!LoadFails
  <2>1. Queue!Finish(Queue!Exits(run.want), TRUE) /\ drive' = drive
    BY <1>4 DEF Queue!LoadFails
  <2>2. /\ run'.at = "done" /\ run'.pass = Queue!Exits(run.want) /\ run'.failed = TRUE
        /\ run'.want = run.want /\ run'.stage = run.stage
    BY <1>t, <2>1, SaleOrEntry, FinishIs
  <2>q. QED BY <1>d, <1>s, <2>1, <2>2, SaleOrEntry
<1>5. CASE Queue!Decide
  <2> DEFINE pass == Queue!Allowed(Queue!Aged(run.file))
             next == Queue!Requested(Queue!Aged(run.file))
  <2>1. /\ run.at = "loaded" /\ drive' = drive /\ raced' = raced
        /\ IF next = run.file THEN Queue!Finish(pass, FALSE)
           ELSE run' = [run EXCEPT !.at = "save", !.file = next, !.pass = pass]
    BY <1>5 DEF Queue!Decide, Queue!Judged
  <2>2. pass \in SUBSET Symbols /\ Queue!Exits(run.want) \subseteq pass
    BY DEF Queue!Allowed, Queue!Exits
  <2>3. \A s \in Queue!Entries(run.want) : next[<<s, run.stage>>].status # "none"
    BY <1>t, <1>n, DecisionFiles
  <2> HIDE DEF pass, next
  <2>4. CASE next = run.file
    <3>1. /\ run'.at = "done" /\ run'.pass = pass /\ run'.failed = FALSE
          /\ run'.want = run.want /\ run'.stage = run.stage
      BY <1>t, <2>1, <2>2, <2>4, FinishIs
    <3>2. ~raced' => \A s \in Queue!Entries(run.want) : drive'[<<s, run.stage>>].status # "none"
      BY <1>n, <2>1, <2>3, <2>4 DEF GateInv, HoldsBack
    <3>q. QED BY <1>d, <1>s, <2>1, <2>2, <3>1, <3>2
  <2>5. CASE next # run.file
    <3>1. /\ run'.at = "save" /\ run'.file = next /\ run'.pass = pass
          /\ run'.want = run.want /\ run'.stage = run.stage
      BY <1>t, <2>1, <2>5 DEF RunType
    <3>2. Queue!Entries(run.want)' = Queue!Entries(run.want) /\ Queue!Exits(run.want)' = Queue!Exits(run.want)
      BY <3>1 DEF Queue!Entries, Queue!Exits
    <3>3. HoldsBack'
      BY <2>2, <2>3, <3>1, <3>2 DEF HoldsBack
    <3>q. QED BY <1>i, <1>s, <2>1, <3>1, <3>3 DEF GateInv, Queue!FailsClosed, Queue!HeldBackIsOnFile
  <2>q. QED BY <2>4, <2>5
<1>6. CASE Queue!Save
  <2>1. run.at = "save" /\ drive' = run.file /\ raced' = (raced \/ run.stale) /\ Queue!Finish(run.pass, FALSE)
    BY <1>6 DEF Queue!Save
  <2>2. /\ run'.at = "done" /\ run'.pass = run.pass /\ run'.failed = FALSE
        /\ run'.want = run.want /\ run'.stage = run.stage
    <3>1. run.pass \in SUBSET Symbols
      BY <1>t DEF RunType
    <3>q. QED BY <1>t, <2>1, <3>1, FinishIs
  <2>3. /\ Queue!Exits(run.want) \subseteq run.pass
        /\ \A s \in Queue!Entries(run.want) \ run.pass : drive'[<<s, run.stage>>].status # "none"
    BY <2>1 DEF GateInv, HoldsBack
  <2>q. QED BY <1>d, <1>w, <2>1, <2>2, <2>3
<1>7. CASE Queue!SaveFails
  <2>1. run.at = "save" /\ Queue!Finish(Queue!Exits(run.want), TRUE)
        /\ (drive' = drive \/ (drive' = run.file /\ raced' = (raced \/ run.stale)))
    BY <1>7 DEF Queue!SaveFails
  <2>2. /\ run'.at = "done" /\ run'.pass = Queue!Exits(run.want) /\ run'.failed = TRUE
        /\ run'.want = run.want /\ run'.stage = run.stage
    BY <1>t, <2>1, SaleOrEntry, FinishIs
  <2>q. QED BY <1>d, <1>s, <1>w, <2>1, <2>2, SaleOrEntry
<1>8. CASE Queue!ApproverLoads \/ Queue!GivesUp \/ UNCHANGED Queue!vars
  <2>1. UNCHANGED <<drive, run, raced>>
    BY <1>8 DEF Queue!ApproverLoads, Queue!GivesUp, Queue!vars
  <2>q. QED BY <1>k, <1>s, <2>1
<1>9. CASE Queue!Tick
  <2>1. drive' = Queue!Older(drive) /\ run' = [run EXCEPT !.file = Queue!Older(run.file)] /\ raced' = raced
    BY <1>9 DEF Queue!Tick
  <2>2. \A n \in Queue!Names : /\ drive'[n].status = drive[n].status
                               /\ Queue!Older(run.file)[n].status = run.file[n].status
    BY <1>t, <2>1, OlderIsFile
  <2>3. /\ run'.file = Queue!Older(run.file) /\ run'.at = run.at /\ run'.pass = run.pass
        /\ run'.want = run.want /\ run'.stage = run.stage /\ run'.failed = run.failed
    BY <1>t, <2>1 DEF RunType
  <2>4. Queue!ClosedStaysClosed
    BY <2>2 DEF Queue!ClosedStaysClosed
  <2>q. QED BY <1>k, <2>1, <2>2, <2>3, <2>4
<1>10. ASSUME NEW n \in Queue!Names, NEW status \in {"approved", "rejected"}, Queue!Answer(n, status)
       PROVE  GateInv' /\ Queue!ClosedStaysClosed
  <2>1. /\ approver.busy /\ approver.file[n].status = "pending"
        /\ drive' = [approver.file EXCEPT ![n] = Queue!Row(status, approver.file[n].age)]
        /\ run' = [run EXCEPT !.stale = run.at \in {"loaded", "save"}]
        /\ raced' = (raced \/ approver.stale)
    BY <1>10 DEF Queue!Answer
  <2>2. drive'[n].status = status /\ \A m \in Queue!Names \ {n} : drive'[m] = approver.file[m]
    BY <1>t, <2>1 DEF Queue!Files, Queue!Row
  <2>3. /\ run'.file = run.file /\ run'.at = run.at /\ run'.pass = run.pass
        /\ run'.want = run.want /\ run'.stage = run.stage /\ run'.failed = run.failed
    BY <1>t, <2>1 DEF RunType
  <2>4. ~raced' => approver.file = drive /\ ~raced
    BY <1>t, <2>1 DEF GateInv, Queue!ApprovalInv, Queue!FreshCopiesAgree, ApproverType
  <2>5. Queue!ClosedStaysClosed
    BY <2>1, <2>2, <2>4 DEF Queue!ClosedStaysClosed, Queue!Closed
  <2>6. ~raced' => \A m \in Queue!Names : drive[m].status # "none" => drive'[m].status # "none"
    BY <2>1, <2>2, <2>4
  <2>q. QED BY <1>k, <2>1, <2>3, <2>5, <2>6
<1>q. QED BY <1>1, <1>2, <1>3, <1>4, <1>5, <1>6, <1>7, <1>8, <1>9, <1>10 DEF Queue!Next, Queue!Gate

\* What the gate owes, where it enforces: a sale is never held back, a gate that could not
\* read or write lets no entry through, and an entry it holds back is on file
\* (applyApprovalQueueGate, index.ts:2364-2396).
THEOREM GateInvariant == Queue!EnforceNow /\ Queue!Spec => []GateInv
<1> SUFFICES ASSUME Queue!EnforceNow PROVE Queue!Spec => []GateInv
  OBVIOUS
<1>1. Queue!Init => GateInv
  BY ApprovalInit DEF Queue!Init, Queue!Idle, GateInv, HoldsBack, Queue!FailsClosed, Queue!HeldBackIsOnFile
<1>2. GateInv /\ [Queue!Next]_(Queue!vars) => GateInv'
  BY GateStep
<1>q. QED BY <1>1, <1>2, PTL DEF Queue!Spec

\* Neither a failing drive nor a closed request opens the gate or loses a request
\* (index.ts:2303, 2367-2369), where the gate enforces.
THEOREM RequestsStay == Queue!EnforceNow /\ Queue!Spec => RequestsAreKept
<1> SUFFICES ASSUME Queue!EnforceNow PROVE Queue!Spec => RequestsAreKept
  OBVIOUS
<1>1. Queue!Init => GateInv
  BY ApprovalInit DEF Queue!Init, Queue!Idle, GateInv, HoldsBack, Queue!FailsClosed, Queue!HeldBackIsOnFile
<1>2. GateInv /\ [Queue!Next]_(Queue!vars) =>
        GateInv' /\ [Queue!FailsClosed' /\ Queue!HeldBackIsOnFile' /\ Queue!ClosedStaysClosed]_(Queue!vars)
  BY GateStep DEF GateInv
<1>q. QED BY <1>1, <1>2, PTL DEF Queue!Spec, RequestsAreKept, Queue!RequestsAreKept

\* A behaviour of the two files is one of each of them.
THEOREM FilesAreApart == SharedSpec => Spec /\ Queue!Spec
<1>1. SharedInit => Init /\ Queue!Init
  BY DEF SharedInit
<1>2. [StoreMoves \/ QueueMoves]_<<part, vars, queueVars>> => [Next]_vars /\ [Queue!Next]_(Queue!vars)
  BY DEF StoreMoves, QueueMoves, queueVars, Queue!vars
<1>q. QED BY <1>1, <1>2, PTL DEF SharedSpec, Spec, Queue!Spec
=============================================================================
