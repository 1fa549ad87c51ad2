-------------------------- MODULE OrderStateStore --------------------------
(***************************************************************************)
(* The store under order-ledger.json and order-idempotency.json:           *)
(* src/order-state-storage.ts.                                             *)
(*                                                                         *)
(* A writer is one asynchronous context of one process (AsyncLocalStorage  *)
(* tells contexts apart, so two contexts of one process are two writers).  *)
(* Writers share nothing but one directory, in which they see              *)
(*   - the state files themselves,                                         *)
(*   - "<file>.lock", created exclusively for the length of one save, and  *)
(*   - ".scoped-closeout.lock", created exclusively by the writer that     *)
(*     takes the whole directory for the length of a task.                 *)
(* Every file-system call is a step of its own; any of them may fail, a    *)
(* writer may be killed between two of them, and a power loss may take     *)
(* back every rename that no fsync of the directory followed.              *)
(***************************************************************************)
CONSTANTS
  Writer,     \* asynchronous contexts that use the store
  File,       \* state files of the directory
  Content,    \* the bytes a valid state can serialise to
  Unread,     \* no bytes: nothing loaded, nothing buffered
  Nobody,     \* the lock file does not exist
  Abandoned,  \* the lock file exists and no live call will remove it
  Faulty      \* whether calls fail, processes die and power is lost

ASSUME StoreAssumption ==
  /\ Unread \notin Content
  /\ Nobody \notin Writer
  /\ Abandoned \notin Writer
  /\ Nobody # Abandoned
  /\ Faulty \in BOOLEAN
  /\ File # {}

VARIABLES
  file,     \* file[f]: the bytes a reader of f sees now
  onDisk,   \* onDisk[f]: the bytes a power loss may leave in f
  flock,    \* flock[f]: who created "<f>.lock"
  dlock,    \* who created ".scoped-closeout.lock"
  pc,       \* pc[w]: the next file-system call of w
  at,       \* at[w]: the file w is loading or saving
  buf,      \* buf[w]: bytes w has read, or is about to write
  loaded,   \* loaded[w][f]: loadedBytes of the state object w holds for f
  owner,    \* owner[w]: w runs inside a directory-lock task
  taken,    \* taken[w]: files w has loaded inside that task (history)
  settled   \* settled[f]: bytes that were on disk for certain (history)

disk  == <<file, onDisk, settled>>
locks == <<flock, dlock>>
task  == <<owner, taken>>
vars  == <<file, onDisk, flock, dlock, pc, at, buf, loaded, owner, taken, settled>>

Holder == Writer \cup {Nobody, Abandoned}

LoadSteps == {"load_dir", "load_lock", "load_read", "load_dir_again", "load_lock_again"}
\* The steps of a save that run while its "<file>.lock" exists.
LockedSteps == {"save_write", "save_compare", "save_dir_again", "save_rename",
                "save_sync", "save_unlock", "save_cleanup"}
SaveSteps == {"save_open_lock"} \cup LockedSteps

Init ==
  /\ file \in [File -> Content]
  /\ onDisk = [f \in File |-> {file[f]}]
  /\ settled = onDisk
  /\ flock = [f \in File |-> Nobody]
  /\ dlock = Nobody
  /\ pc = [w \in Writer |-> "idle"]
  /\ at = [w \in Writer |-> CHOOSE f \in File : TRUE]
  /\ buf = [w \in Writer |-> Unread]
  /\ loaded = [w \in Writer |-> [f \in File |-> Unread]]
  /\ owner = [w \in Writer |-> FALSE]
  /\ taken = [w \in Writer |-> {}]

-----------------------------------------------------------------------------
(* Helpers.                                                                *)

GoTo(w, step) == pc' = [pc EXCEPT ![w] = step]

\* The call returns or throws: its local state is garbage.
Finish(w) ==
  /\ GoTo(w, "idle")
  /\ at' = [at EXCEPT ![w] = CHOOSE f \in File : TRUE]
  /\ buf' = [buf EXCEPT ![w] = Unread]

\* requireDirectoryOwner: the owner must still find its own token, anybody
\* else must find no directory lock at all.
DirectoryIsMine(w) == IF owner[w] THEN dlock = w ELSE dlock = Nobody

\* fsync of the directory makes every entry of it durable.
SyncDirectory ==
  /\ onDisk' = [f \in File |-> {file[f]}]
  /\ settled' = [f \in File |-> settled[f] \cup {file[f]}]

-----------------------------------------------------------------------------
(* Mutations: plausible bugs in the actions below. No specification uses   *)
(* them; each shows that a property notices the bug it stands for.         *)

\* The first requireUnlocked of a load is dropped.
LoadSkipsLockCheck(w) ==
  /\ pc[w] = "load_lock"
  /\ GoTo(w, "load_read")
  /\ UNCHANGED <<disk, locks, at, buf, loaded, task>>

\* The bytes in the file are not compared before the rename.
SaveOverwrites(w) ==
  /\ pc[w] = "save_compare"
  /\ GoTo(w, "save_dir_again")
  /\ UNCHANGED <<disk, locks, at, buf, loaded, task>>

\* The directory lock is only looked for before "<file>.lock" is created.
SaveTrustsFirstCheck(w) ==
  /\ pc[w] = "save_dir_again"
  /\ GoTo(w, "save_rename")
  /\ UNCHANGED <<disk, locks, at, buf, loaded, task>>

\* The lock is only removed after a successful save.
SaveUnlocksOnSuccess(w) ==
  /\ pc[w] \in {"save_unlock", "save_cleanup"}
  /\ flock' = IF pc[w] = "save_unlock" THEN [flock EXCEPT ![at[w]] = Nobody] ELSE flock
  /\ Finish(w)
  /\ UNCHANGED <<disk, dlock, loaded, task>>

-----------------------------------------------------------------------------
(* withOrderStateDirectoryLock                                             *)

\* open(lock, 'wx'): SCOPED_STORE_LOCK_UNAVAILABLE unless it creates it.
AcquireDirectory(w) ==
  /\ pc[w] = "idle" /\ ~owner[w] /\ dlock = Nobody
  /\ dlock' = w
  /\ GoTo(w, "dir_sync")
  /\ UNCHANGED <<disk, flock, at, buf, loaded, task>>

\* Token written and synced, parent synced: the task starts.
EnterTask(w) ==
  /\ pc[w] = "dir_sync"
  /\ SyncDirectory
  /\ owner' = [owner EXCEPT ![w] = TRUE]
  /\ GoTo(w, "idle")
  /\ UNCHANGED <<file, locks, at, buf, loaded, taken>>

\* The task returned and the token is unchanged: the lock is removed.
LeaveTask(w) ==
  /\ pc[w] = "idle" /\ owner[w] /\ dlock = w
  /\ dlock' = Nobody
  /\ owner' = [owner EXCEPT ![w] = FALSE]
  /\ taken' = [taken EXCEPT ![w] = {}]
  /\ UNCHANGED <<disk, flock, pc, at, buf, loaded>>

\* Syncing the lock failed, or the task threw: the lock stays behind.
AbortTask(w) ==
  /\ Faulty
  /\ \/ pc[w] = "dir_sync"
     \/ pc[w] = "idle" /\ owner[w]
  /\ dlock' = Abandoned
  /\ owner' = [owner EXCEPT ![w] = FALSE]
  /\ taken' = [taken EXCEPT ![w] = {}]
  /\ GoTo(w, "idle")
  /\ UNCHANGED <<disk, flock, at, buf, loaded>>

-----------------------------------------------------------------------------
(* loadValidatedOrderState: requireUnlocked, readFile, requireUnlocked     *)

BeginLoad(w, f) ==
  /\ pc[w] = "idle"
  /\ GoTo(w, "load_dir")
  /\ at' = [at EXCEPT ![w] = f]
  /\ UNCHANGED <<disk, locks, buf, loaded, task>>

LoadChecksDirectory(w) ==
  /\ \/ pc[w] = "load_dir" /\ GoTo(w, "load_lock")
     \/ pc[w] = "load_dir_again" /\ GoTo(w, "load_lock_again")
  /\ DirectoryIsMine(w)
  /\ UNCHANGED <<disk, locks, at, buf, loaded, task>>

LoadChecksLock(w) ==
  /\ pc[w] = "load_lock" /\ flock[at[w]] = Nobody
  /\ GoTo(w, "load_read")
  /\ UNCHANGED <<disk, locks, at, buf, loaded, task>>

LoadReads(w) ==
  /\ pc[w] = "load_read"
  /\ buf' = [buf EXCEPT ![w] = file[at[w]]]
  /\ GoTo(w, "load_dir_again")
  /\ UNCHANGED <<disk, locks, at, loaded, task>>

\* The last check; only now does the caller get a state object.
LoadReturns(w) ==
  /\ pc[w] = "load_lock_again" /\ flock[at[w]] = Nobody
  /\ loaded' = [loaded EXCEPT ![w][at[w]] = buf[w]]
  /\ taken' = IF owner[w] THEN [taken EXCEPT ![w] = @ \cup {at[w]}] ELSE taken
  /\ Finish(w)
  /\ UNCHANGED <<disk, locks, owner>>

\* LOCK_UNAVAILABLE at any of the four checks, READ_FAILED or JSON_INVALID.
LoadFails(w) ==
  /\ \/ pc[w] \in {"load_dir", "load_dir_again"} /\ ~DirectoryIsMine(w)
     \/ pc[w] \in {"load_lock", "load_lock_again"} /\ flock[at[w]] # Nobody
     \/ Faulty /\ pc[w] \in LoadSteps
  /\ Finish(w)
  /\ UNCHANGED <<disk, locks, loaded, task>>

-----------------------------------------------------------------------------
(* saveValidatedOrderState                                                 *)

\* requireDirectoryOwner, validateState, UNLOADED_STATE.
BeginSave(w, f, c) ==
  /\ pc[w] = "idle"
  /\ DirectoryIsMine(w)
  /\ loaded[w][f] # Unread
  /\ GoTo(w, "save_open_lock")
  /\ at' = [at EXCEPT ![w] = f]
  /\ buf' = [buf EXCEPT ![w] = c]
  /\ UNCHANGED <<disk, locks, loaded, task>>

SaveOpensLock(w) ==
  /\ pc[w] = "save_open_lock" /\ flock[at[w]] = Nobody
  /\ flock' = [flock EXCEPT ![at[w]] = w]
  /\ GoTo(w, "save_write")
  /\ UNCHANGED <<disk, dlock, at, buf, loaded, task>>

\* LOCK_UNAVAILABLE: nothing was created, nothing is cleaned up.
SaveIsLockedOut(w) ==
  /\ pc[w] = "save_open_lock" /\ (Faulty \/ flock[at[w]] # Nobody)
  /\ Finish(w)
  /\ UNCHANGED <<disk, locks, loaded, task>>

\* The temporary file is written, synced, read back and parsed.
SaveWritesTemporary(w) ==
  /\ pc[w] = "save_write"
  /\ GoTo(w, "save_compare")
  /\ UNCHANGED <<disk, locks, at, buf, loaded, task>>

\* The bytes now in the file must be the bytes this state came from.
SaveCompares(w) ==
  /\ pc[w] = "save_compare" /\ file[at[w]] = loaded[w][at[w]]
  /\ GoTo(w, "save_dir_again")
  /\ UNCHANGED <<disk, locks, at, buf, loaded, task>>

SaveChecksDirectoryAgain(w) ==
  /\ pc[w] = "save_dir_again" /\ DirectoryIsMine(w)
  /\ GoTo(w, "save_rename")
  /\ UNCHANGED <<disk, locks, at, buf, loaded, task>>

SaveRenames(w) ==
  /\ pc[w] = "save_rename"
  /\ file' = [file EXCEPT ![at[w]] = buf[w]]
  /\ onDisk' = [onDisk EXCEPT ![at[w]] = @ \cup {buf[w]}]
  /\ GoTo(w, "save_sync")
  /\ UNCHANGED <<settled, locks, at, buf, loaded, task>>

SaveSyncs(w) ==
  /\ pc[w] = "save_sync"
  /\ SyncDirectory
  /\ loaded' = [loaded EXCEPT ![w][at[w]] = buf[w]]
  /\ GoTo(w, "save_unlock")
  /\ UNCHANGED <<file, locks, at, buf, task>>

\* STORE_CHANGED, LOCK_UNAVAILABLE, or a failed call before the rename: the
\* finally block removes what was created.
SaveFails(w) ==
  /\ \/ pc[w] = "save_compare" /\ file[at[w]] # loaded[w][at[w]]
     \/ pc[w] = "save_dir_again" /\ ~DirectoryIsMine(w)
     \/ Faulty /\ pc[w] \in {"save_write", "save_compare", "save_dir_again", "save_rename"}
  /\ GoTo(w, "save_cleanup")
  /\ UNCHANGED <<disk, locks, at, buf, loaded, task>>

\* The end of the finally block: committed and durable, or nothing committed.
SaveUnlocks(w) ==
  /\ pc[w] \in {"save_unlock", "save_cleanup"}
  /\ flock' = [flock EXCEPT ![at[w]] = Nobody]
  /\ Finish(w)
  /\ UNCHANGED <<disk, dlock, loaded, task>>

\* COMMIT_UNCERTAIN or CLEANUP_FAILED: the lock stays behind.
SaveKeepsLock(w) ==
  /\ Faulty
  /\ pc[w] \in {"save_sync", "save_unlock", "save_cleanup"}
  /\ flock' = [flock EXCEPT ![at[w]] = Abandoned]
  /\ Finish(w)
  /\ UNCHANGED <<disk, dlock, loaded, task>>

-----------------------------------------------------------------------------
(* The environment                                                         *)

\* The process is killed. Its lock files stay, its memory is gone.
Crash(w) ==
  /\ Faulty
  /\ flock' = [f \in File |-> IF flock[f] = w THEN Abandoned ELSE flock[f]]
  /\ dlock' = IF dlock = w THEN Abandoned ELSE dlock
  /\ Finish(w)
  /\ loaded' = [loaded EXCEPT ![w] = [f \in File |-> Unread]]
  /\ owner' = [owner EXCEPT ![w] = FALSE]
  /\ taken' = [taken EXCEPT ![w] = {}]
  /\ UNCHANGED disk

\* Every process dies and each file is one of the contents the disk may
\* hold. No unlink of a lock is ever synced, so either lock may be back.
PowerLoss ==
  /\ Faulty
  /\ file' \in {g \in [File -> Content] : \A f \in File : g[f] \in onDisk[f]}
  /\ onDisk' = [f \in File |-> {file'[f]}]
  /\ settled' = [f \in File |-> settled[f] \cup {file'[f]}]
  /\ flock' \in [File -> {Nobody, Abandoned}]
  /\ dlock' \in {Nobody, Abandoned}
  /\ pc' = [w \in Writer |-> "idle"]
  /\ at' = [w \in Writer |-> CHOOSE f \in File : TRUE]
  /\ buf' = [w \in Writer |-> Unread]
  /\ loaded' = [w \in Writer |-> [f \in File |-> Unread]]
  /\ owner' = [w \in Writer |-> FALSE]
  /\ taken' = [w \in Writer |-> {}]

\* The runtime never removes an abandoned lock. An operator does, by hand,
\* once no live call holds it and no live task holds the directory, with the
\* directory flushed first.
OperatorClearsLock(f) ==
  /\ flock[f] = Abandoned
  /\ dlock \in {Nobody, Abandoned}
  /\ SyncDirectory
  /\ flock' = [flock EXCEPT ![f] = Nobody]
  /\ UNCHANGED <<file, dlock, pc, at, buf, loaded, task>>

OperatorClearsDirectoryLock ==
  /\ dlock = Abandoned
  /\ SyncDirectory
  /\ dlock' = Nobody
  /\ UNCHANGED <<file, flock, pc, at, buf, loaded, task>>

-----------------------------------------------------------------------------
TaskStep(w) == AcquireDirectory(w) \/ EnterTask(w) \/ LeaveTask(w) \/ AbortTask(w)

LoadStep(w) ==
  \/ LoadChecksDirectory(w) \/ LoadChecksLock(w) \/ LoadReads(w)
  \/ LoadReturns(w) \/ LoadFails(w)

SaveStep(w) ==
  \/ SaveOpensLock(w) \/ SaveIsLockedOut(w) \/ SaveWritesTemporary(w)
  \/ SaveCompares(w) \/ SaveChecksDirectoryAgain(w) \/ SaveRenames(w)
  \/ SaveSyncs(w) \/ SaveFails(w) \/ SaveUnlocks(w) \/ SaveKeepsLock(w)

Next ==
  \/ \E w \in Writer :
       \/ TaskStep(w)
       \/ \E f \in File : BeginLoad(w, f)
       \/ LoadStep(w)
       \/ \E f \in File, c \in Content : BeginSave(w, f, c)
       \/ SaveStep(w)
       \/ Crash(w)
  \/ PowerLoss
  \/ \E f \in File : OperatorClearsLock(f)
  \/ OperatorClearsDirectoryLock

Spec == Init /\ [][Next]_vars

\* A started call runs to its end, as an awaited promise chain does, and the
\* task a writer runs inside the directory lock returns.
Fairness ==
  \A w \in Writer : WF_vars(EnterTask(w) \/ LeaveTask(w) \/ LoadStep(w) \/ SaveStep(w))

FairSpec == Spec /\ Fairness

-----------------------------------------------------------------------------
(* Properties                                                              *)

\* Every variable keeps its type; a save has bytes to write and the bytes its
\* state was loaded from (UNLOADED_STATE), and only loaders and savers buffer.
TypeOK ==
  /\ file \in [File -> Content]
  /\ onDisk \in [File -> SUBSET Content]
  /\ settled \in [File -> SUBSET Content]
  /\ flock \in [File -> Holder]
  /\ dlock \in Holder
  /\ pc \in [Writer -> {"idle", "dir_sync"} \cup LoadSteps \cup SaveSteps]
  /\ at \in [Writer -> File]
  /\ buf \in [Writer -> Content \cup {Unread}]
  /\ loaded \in [Writer -> [File -> Content \cup {Unread}]]
  /\ owner \in [Writer -> BOOLEAN]
  /\ taken \in [Writer -> SUBSET File]
  /\ \A w \in Writer :
       /\ pc[w] \in SaveSteps => buf[w] \in Content /\ loaded[w][at[w]] \in Content
       /\ pc[w] \in {"load_dir_again", "load_lock_again"} => buf[w] \in Content

\* No lost update. Between the comparison with the loaded bytes and the
\* rename there are two more awaits; whatever other writers do in them, the
\* rename replaces exactly the bytes the saved state was derived from.
SaverIsCurrent ==
  \A w \in Writer :
    pc[w] \in {"save_dir_again", "save_rename"} => file[at[w]] = loaded[w][at[w]]

\* The handshake between the two kinds of lock. A saver creates "<file>.lock"
\* and then looks for the directory lock; a directory owner creates its lock
\* and then looks for "<file>.lock". So once the owner has loaded a file,
\* nobody else changes it until the task ends, saves already under way when
\* the directory was taken included.
OwnerIsAlone ==
  [][\A w \in Writer, f \in File :
       f \in taken[w] /\ file'[f] # file[f] =>
         \/ pc[w] = "save_rename" /\ at[w] = f
         \/ Faulty /\ taken'[w] = {}]_vars

\* What the directory owner holds in memory is what the file contains, except
\* between its own rename and the end of that save, and after a save of its
\* own that ended with COMMIT_UNCERTAIN and left the lock.
OwnerViewIsCurrent ==
  \A w \in Writer, f \in File :
    f \in taken[w] =>
      \/ file[f] = loaded[w][f]
      \/ pc[w] = "save_sync" /\ at[w] = f /\ file[f] = buf[w]
      \/ flock[f] = Abandoned

\* COMMIT_UNCERTAIN keeps the lock: whoever finds a file unlocked reads bytes
\* that no power loss takes back.
UnlockedIsDurable ==
  \A f \in File : flock[f] = Nobody => onDisk[f] = {file[f]}

\* A load that returns never returns bytes of a commit that may still be
\* lost, although it may well read them: the second requireUnlocked is what
\* rejects them.
ViewsAreDurable ==
  \A w \in Writer, f \in File :
    loaded[w][f] # Unread => loaded[w][f] \in settled[f]

\* The facts the proofs in SharedFilesProofs rest on, which together are
\* inductive. Locks: the two lock files name the writers that rely on them.
LocksNameHolders ==
  /\ \A w \in Writer, f \in File :
       (flock[f] = w) <=> (pc[w] \in LockedSteps /\ at[w] = f)
  /\ \A w \in Writer : (dlock = w) <=> (owner[w] \/ pc[w] = "dir_sync")
  /\ \A w \in Writer : taken[w] # {} => owner[w]

\* Durability: only the holder of "<file>.lock" that has just renamed may
\* leave a file unsynced, and a load that read such bytes finds them settled
\* or the lock still there.
OnlyRenamedIsUnsynced ==
  /\ \A w \in Writer :
       /\ pc[w] \in LockedSteps \ {"save_sync"} => onDisk[at[w]] = {file[at[w]]}
       /\ pc[w] = "save_sync" => file[at[w]] = buf[w]
       /\ pc[w] \in {"load_dir_again", "load_lock_again"} =>
            \/ buf[w] \in settled[at[w]]
            \/ flock[at[w]] # Nobody /\ file[at[w]] = buf[w]
  /\ \A f \in File : onDisk[f] = {file[f]} => file[f] \in settled[f]

\* Exclusion: nobody else is about to rename a file that the directory owner
\* has loaded, or is loading after it found the file unlocked.
OwnerExcludesRenames ==
  \A w, v \in Writer :
    v # w /\ pc[v] = "save_rename" =>
      /\ at[v] \notin taken[w]
      /\ owner[w] /\ pc[w] \in {"load_read", "load_dir_again", "load_lock_again"} => at[v] # at[w]

OwnerReadsCurrent ==
  \A w \in Writer :
    owner[w] /\ pc[w] \in {"load_dir_again", "load_lock_again"} => file[at[w]] = buf[w]

\* The inductive invariant.
StoreInv ==
  /\ TypeOK /\ LocksNameHolders
  /\ UnlockedIsDurable /\ OnlyRenamedIsUnsynced /\ ViewsAreDurable
  /\ SaverIsCurrent
  /\ OwnerExcludesRenames /\ OwnerReadsCurrent /\ OwnerViewIsCurrent

\* Without failures no save leaves its lock behind, STORE_CHANGED and
\* LOCK_UNAVAILABLE included: every file is unlocked again.
LocksAreReleased ==
  \A f \in File : flock[f] # Nobody ~> flock[f] = Nobody

\* The store implements the register its callers rely on.
Lease ==
  [f \in File |-> IF \E w \in Writer : f \in taken[w]
                  THEN CHOOSE w \in Writer : f \in taken[w] ELSE Nobody]

Register == INSTANCE OrderStateRegister
              WITH value <- file, fallback <- onDisk, view <- loaded, lease <- Lease

RegisterSpec == Register!Spec
=============================================================================
