# TLA+ models of TheOpenRepository

The repository is a collection of several hundred Perl (and some C) distributions
that share a tree and little else. Most are sequential tools. Four of them keep
state that several processes or threads share, and carry the logic that is hardest to
get right; they are what this project models:

* **DBM-Deep**, a single-file transactional database written in Perl
  (`src/DBM-Deep/lib`);
* **File-SharedNFSLock**, a lock among machines made of hard links
  (`src/File-SharedNFSLock/lib/File/SharedNFSLock.pm`);
* **libjio**, the C library for journaled file I/O in Alien-Libjio, which IO-Journal
  binds (`src/Alien-Libjio/libjio/libjio`);
* **Thread-SharedVector**, C++ vectors shared by Perl threads
  (`src/Thread-SharedVector`).

## Inventory

| Component | State | Operations | What is hard | What makes it correct |
|---|---|---|---|---|
| Transaction engine (`Engine.pm`) | header: activeness bitfield, 16-bit staleness counters; in memory: `trans_id`, `entries` | `begin_work`, `commit`, `rollback`, `read_value`, `write_value`, `key_exists`, `delete_key` | several processes, each with its own memory, on one file; a process that ends inside a transaction; ids that are reused | ids exclusive; isolation; a commit applies what the transaction did and nothing else |
| Bucket lists (`Engine/Sector/BucketList.pm`) | per bucket: key, HEAD location, one location and staleness tag per transaction id | `find_md5`, `write_md5`, `mark_deleted`, `delete_md5`, `get_data_location_for` | reads that repair stale slots; index -1 for a full list; buckets that move on deletion | a key is in one bucket and is found; no slot names a freed sector |
| Hash and array sectors (`Engine/Sector/Reference.pm`) | location of the first bucket list or index; reference count | `write_data`, `delete_key`, `get_bucket_list` (splitting a full list) | cloning the old value for running transactions; dying when there is none | HEAD writes isolated |
| Methods (`Deep.pm`) | none | `STORE`, `FETCH`, `EXISTS`, `DELETE`, `CLEAR`, `optimize`, `begin_work`, ... | a die between lock and unlock; a read that writes | every method returns and releases its lock |
| File and locks (`File.pm`) | `flock`, nested count `locked`, `inode`, `end` | `_lock`, `unlock`, `request_space` | shared locks are not upgraded; the file may be replaced by `optimize` | one writer at a time |
| Data and index sectors, free chains | sectors on disk, three free chains | `_request_sector`, `_add_free_sector`, `clone`, `free` | double free, reuse | disjoint sectors |
| Arrays, hashes, iterators | the iterator's position | `push`, `splice`, `next_key`, ... | iterating while deleting | agrees with a Perl array or hash |
| File::SharedNFSLock | the lock file, one unique file per process | `lock`, `unlock`, `locked` | every file-system call interleaves; crashes; two timeouts | mutual exclusion; `lock` returns; a dead holder does not block for ever |
| libjio transactions (`trans.c`, `journal.c`) | data file; journal directory with a file per transaction; the greatest id in a mapped lock file; `fcntl` locks; per process the list of lingering transactions | `jtrans_commit`, `jtrans_rollback`, `jsync`, `jopen`, `jclose` | what the disk holds before a sync; every system call may fail; locks that belong to processes and not to threads; deadlock between ranges | a commit is atomic and durable; ids are unique; commits return |
| libjio recovery (`check.c`) | the file it is at | `jfsck` | it writes transactions of its own and is interrupted itself | every committed transaction survives, none is half there |
| Thread::SharedVector (`SharedVec.cc`, `SharedVectorLock.cc`, `SharedVectorInstance.cc`) | per vector a recursive lock, a count, an id, the elements; the registry and its lock | `new`, `Push`, `Get`, `Set`, `GetSize`, `GetId`, destruction | counts read and used in two steps; clones that nobody counts; a condition variable that wakes one waiter; two locks at a time | no lost element, no leak, no use after free, no hang |

`Deep.pm` calls the engine under `flock`; the engine loads sectors and lets them
change the file; sectors call back into the engine for running transactions,
staleness counters and `add_entry`. Engines of different processes share the file
only. In libjio, a program calls `jtrans_commit`, which calls the journal, which
calls the file system; the autosync thread calls `jsync`; `jfsck` calls
`jtrans_commit` for each transaction file it finds. Distributions that are left out, and why, are listed under `components` in
`PROJECT.json`.

## Modules

| Module | Role |
|---|---|
| `DBMDeepEngine` | engine, bucket list, `write_data`/`delete_key` and the methods that call them: one hash, several engines |
| `DBMDeepSharedFetch` | extends `DBMDeepEngine`: a `FETCH` that writes under the shared lock, in two steps |
| `MCDBMDeepEngine` | symmetry for TLC |
| `DBMDeepEngineProofs` | the invariants of `DBMDeepEngine` as theorems |
| `DBMDeepIsolationProofs` | its isolation, that is its action properties, as theorems |
| `LockService` | abstract lock: one owner, only the owner is inside, only the owner gives it back |
| `SharedNFSLock` | File::SharedNFSLock, one step per file-system call; its refinement of `LockService` |
| `MCSharedNFSLock` | instances for TLC |
| `SharedNFSLockProofs` | theorems about `SharedNFSLock` |
| `JioFile` | what libjio keeps in the file system: cache and disk, transaction files, the lock file |
| `JioTrans` | extends `JioFile`: `jtrans_commit`, rollback, lingering, `jsync`, `jopen`, `jclose`, in steps |
| `AtomicFile` | abstract: a file whose transactions are in it as a whole or not at all, and stay once acknowledged |
| `JioCheck` | extends `JioTrans`: `jfsck`, power failures, killed processes; the composed specification, its properties and its refinement of `AtomicFile` |
| `MCJio` | transactions, flags and faults of the instances for TLC |
| `JioProofs` | transaction ids and transaction files as theorems |
| `JioTypeProofs` | type correctness of libjio's model, and lemmas about lists of operations |
| `JioIsolationProofs` | that libjio's readers find nothing that may be undone, as a theorem |
| `SharedVector` | Thread::SharedVector: locks, registry, counts and methods |
| `MCSharedVector` | the instances for TLC |
| `SharedVectorProofs` | its locks, reads and registry as an inductive invariant, and the theorems that follow |
| `SharedVectorCountProofs` | on top of it, what the reference count says, and its type, leaks and dangling objects as theorems |

### DBMDeepEngine and the code

File state: `slots` is the set of ids whose bit is set in the bitfield, `counter`
the staleness counters, `md5`, `loc` and `tag` the key, the locations (HEAD is id 0)
and the staleness tags of each bucket, `sector` the content of data sectors, `blist`
whether the hash has a bucket list. Memory: `transId` and `entries` of each engine.
`held` is the lock a method left behind when it died, and `intact` turns false when
`mark_deleted` writes in front of the list.

Each method of `Deep.pm` is one action that includes everything it calls: `STORE`,
`FETCH`, `EXISTS`, `DELETE`, `begin_work`, `commit`, `rollback`. For the methods that
take an exclusive `flock` this follows from the lock. It does not for `FETCH`, which
holds a shared one and yet writes when the key has no value: that two such methods do
not overlap is an assumption of this module, of its runs and of its theorems.
`DBMDeepSharedFetch` drops it: there `FetchMiss` finds no value and reads which sector
is next, `FetchStore` writes it and the bucket, and other methods come in between as
far as the shared lock (`held`) lets them. The outcomes inside `write_data` are
`WriteInTxn`, `WriteInHead` and `WriteDies`; inside `delete_key` they are
`delete_md5` (no transaction runs), `DeleteInTxn`, `DeleteInHead`, `DeleteDies` and
`DeleteOutside` (full list, key absent). `Exit` is the end of a process and the start
of its successor. A method that dies inside the engine skips `unlock`
(`Deep.pm` has no `eval` around it), so its lock stays until `Exit`; begin_work,
commit and rollback do have an `eval`, and when they report an error they change
nothing, which is a stuttering step.

What is abstracted: digests (a key is its md5), chains of data sectors (a value is
one cell, a key's own sector is left out), filters, `autoflush`. Values are
scalars and undef. A write that needs a new bucket in a full list would split it;
that write is not enabled here. After `begin_work` has handed out an id the file has
no room for, or after `DeleteOutside` wrote, regions of the file overlap; the guard
`LayoutSound` ends the behaviour there, which is why deadlock is not checked.

### SharedNFSLock and the code

`lockFile` says to whose unique file the lock file is linked (`Orphan` when that
file has been removed since), `unique` which unique files exist, `pc` where each
process is. The steps of `lock` are `CreateUnique`, `Link`, `Stat`, `CheckStale`,
`BreakLock`, `BreakUnique`, `Wait`; those of `_unlink_lock_file`, shared by `unlock`,
`DESTROY` and a timed-out `lock`, are `IsLocked`, `RemoveLock`, `RemoveUnique`. Time
is two facts: the lock file is older than `timeout_stale` (`old`, by `Outlive`) and a
caller has spent `timeout_acquire` (`expired`, by `Expire`). `TimeoutStale` says
whether the stale feature is on, `MayOutlive` whether locks get that old. `Crash`
may happen before any step. Failing to create the unique file (a die) and fork are
not modelled. Deadlock is not checked because all processes may be dead.

### libjio and the code

*Disk.* `cache` is the data file as `read` sees it, `stable[c]` the set of contents that
a power failure may leave in cell `c`: a write without `O_SYNC` adds the new value and
`Garbage`, a sync leaves one value. `jf` and `jstable` are the same for transaction
files, whose contents are `NoFile`, `Partial` (rejected by `fill_trans`: empty, cut off
or with a wrong checksum) or the operations. The model follows `doc/assumptions`: what
was being written may be garbage, nothing else is touched. `fsync` of the
directory settles which files exist. `max` is the mapped integer of the lock file and
`jlock` the process that has it locked.

*Calls.* `cur[th]` is the frame of the call that a thread is in: its place, operations,
flags, previous data, id, locks and return value. `jtrans_commit` goes through
`LockRange` (one `fcntl` each, or `LockDeadlock`), `get_tid_read`, `get_tid_write`,
`FillFile`, `CommitFile`, `SyncFile`, `ReadOp`/`WriteOp`, then `Linger`, or `SyncData`,
`UnlinkFile`, `SyncDir`, `free_tid_read`, `free_tid_write`, and `CommitReturn`. Each
system call that the code tests has its failing twin (`OpenFails`, `HeaderFails`,
`FillFails`, `SyncFileFails`, `OpFails`, `SyncDataFails`, branches of `UnlinkFile`,
`MarkBroken`). A failure after the first write starts `jtrans_rollback` (`RollbackExit`): its
commit runs in the frame (`kind` = "undo") while `saved` keeps the commit that failed,
until `UndoReturn`. `jsync` and `jclose` share the steps of `journal_free`. The
autosync thread is any thread that calls `jsync`.

*Recovery.* `jfsck` runs when the file was left behind (`dirty`) or the journal is
marked broken, and nobody has the file open, as `doc/guide.rst` asks. It rewrites
the lock file, and for each id skips, removes or commits; the commit is the same
`jtrans_commit`, by the thread `Checker` (`kind` = "redo"). `PowerFail` chooses one of
the contents that the disk may have and forgets all memory; `Kill` ends one process.

*Refinement.* `view` is what the file would contain if the power failed now and `jfsck`
ran: the transaction files that are surely on disk, in the order of their ids,
over the data. `AtomicFile` says that `view` changes by whole transactions that
are not yet acknowledged, that `jtrans_commit` returns success only for a
transaction that is in it and failure only for one that is not, and that recovery
changes nothing that was acknowledged. A return of -2 ends all promises.

Abstracted: the data file has a fixed number of cells, so extending it and the
`ftruncate` of the rollback do not happen; a transaction writes its own name, so
that its traces can be told apart; each transaction is committed once.

### SharedVector and the code

`Code` lists the steps of each method; `call[th]` is the method a thread is in and the
step it is at. `Acquire` and `AcquireGlobal` either take the lock or put the thread to
sleep on the condition (`asleep`); `Release` and `ReleaseGlobal` wake one. `owner`,
`locks`, `refs`, `ids` and `registry` are the members of the classes, `heap` the vectors
that exist. `fVector` is the vector of each `SharedVectorInstance`, `objs` the Perl objects:
which thread has an object for which instance. `New` and `Fetch` are the two kinds of
constructor, `Destroy` the destructor, `Spawn` is `threads->new`, which gives the new thread an
object for every instance of its parent and counts nothing. The size of a vector is read and
written in two steps, so that two threads inside at the same time would lose an element. The
destructor reads the count under the lock, releases it, and then deletes or decrements
(`AfterRefCount`). Threads call what they like when they like: no discipline of the program is
assumed. A behaviour ends (`Safe`) where a call has come to freed memory or an instance is
deleted twice, as what follows is undefined. `raced` and `cloned` are history: the vectors
on which a destructor has overlapped with another one or with an attach, and the instances
of which objects have been cloned. Addresses are used again.

`Fetch` finds an id in the registry or, not modelled as it changes nothing, croaks; what an
unlocked read of a `std::map` does while another thread changes it is not modelled. The copy
constructor of `SharedVectorInstance` is called by nothing.

## Runs

| Run | Checks | Instance |
|---|---|---|
| `engine_integrity` | `TypeOK`, `HeapIntegrity`, `BucketListCompact` | 2 engines, 3 keys, 2 buckets, 1 transaction id, 3 sectors |
| `engine_isolation` | `TxnIdsExclusive`, `UncommittedInvisible`, `HeadWritesIsolated`, `OwnStoresSurvive` | 2 engines, 1 key, 2 transaction ids, 3 sectors |
| `nfs_safety` | `MutualExclusion`, `HolderOwnsLockFile`, `ImplementsLockService`, `LockReturns` | 3 processes, `timeout_stale` = 0 |
| `nfs_recover` | `DeadLockBroken` | 2 processes, stale locks broken |
| `jio_recovery` | `NoDirtyReads`, `ImplementsAtomicFile` | two processes with overlapping transactions, a lingering one apart from them, one failing write, `jsync`, power failures in use and in recovery |
| `jio_faults` | `TypeOK`, `TidsUnique`, `JournalKept`, `CommitReturns` | any one system call fails, in commits, `jsync` or `jfsck`; a process is killed or the power fails; opposite lock orders; ids up to 3 of which 2 are ints, so that both ends are reached |
| `svec` | `TypeOK`, `NoLostPush`, `RegistryExact`, `NoLeak`, `NoDangling`, `CallReturns` | three threads that call what they like; two share a vector, a third one makes and destroys another |

and runs that refute something the documentation, a comment or a test says:

| Run | Refutes | What happens |
|---|---|---|
| `commit_applies` | `CommitAppliesChanges` | an engine that wrote to the HEAD while another engine's transaction ran keeps that bucket in its own `entries`; when it later runs a transaction with the same id, its commit copies whatever the slot holds into the HEAD |
| `shared_fetch` | `HeapIntegrity` | two engines fetch keys without a value at the same time, both read the same next sector; the second one puts it into its bucket too, or frees the one it uses |
| `nfs_break` | `MutualExclusion` | a released lock is taken for a stale one and a fresh lock of a third process is removed, with no lock ever as old as `timeout_stale` |
| `jio_fsck_order` | `ImplementsAtomicFile` | two lingering transactions on one cell; `jfsck` commits the first one again as id 3, the power fails before its file is removed, and the next `jfsck` ends with it |
| `svec_clone` | `NoUseAfterFree` | the clone that `threads->new` made is destroyed and takes the vector with it; the main thread goes on using it |

Found with these models, without a run of its own:

* DBM::Deep: a commit is seen by the other running transactions (`Engine.pm:748`: no
  clone). The second HEAD write of a key clones the first value over a transaction's
  deletion marker (`Reference.pm:123`). `begin_work` scans all the bits of the
  bitfield's bytes, not `num_txns - 1` (`Engine.pm:646`). Deleting a key the HEAD
  lacks while a transaction runs dies in `clone` and leaves the flock
  (`Reference.pm:192`); in a full list, `find_md5` leaves `idx` at -1 and
  `mark_deleted` writes in front of the list (`DeleteOutside`). The staleness counter
  is incremented when a transaction ends (`Engine.pm:709`, `764`), not when it starts
  (`Engine.pm:120`).
* File::SharedNFSLock: with `timeout_stale` set, the stale branch never looks at
  `timeout_acquire`, so `LockReturns` fails (`TimeoutStale` = TRUE).
* libjio: `sync_range_submit` and `sync_range_wait` get length and offset in the wrong
  order (`trans.c:332`, `378`), so another range is synced and the transaction file is
  removed: `CommittedOnDisk` fails with one transaction and `HaveSyncRange` = TRUE. `jsync`
  syncs the data before it takes `ltlock`, so a transaction that another thread lingers
  in between loses its file with its data unsynced: `CommittedOnDisk` fails with
  two threads (`ProcOf` = `OneProcess`, `MaxSyncs` = 1). Two threads of one process get the same
  id, as `fcntl` locks do not keep them apart: `TidsUnique` fails with `OneProcess`, against
  `doc/tids.rst:30`. When `fsync` of a complete file fails, the commit returns -1 and the file
  stays; a later commit succeeds, the power fails, and `jfsck` replays the failed one over it:
  `CommitsStay` fails with `Faults` = `FsyncFault`. `jfsck` passes over the files with ids above
  `INT_MAX` and writes a smaller greatest id (`check.c:204`), so a later transaction truncates one of
  them: `JournalKept` fails without its `tid <= MaxInt`. A write error in the commit that
  `jfsck` makes is rolled back to what the power failure left, under a greater id.
  `free_tid` stops at the first id without a file, where
  `doc/tids.rst` says that it looks for the greatest one in use. A lingering
  transaction below a later one of another process on the same range is replayed over
  it, which `doc/guide.rst` forbids.
* Thread::SharedVector: two destructors that both read a count of 2 both decrement, and the
  vector and its id stay: `EverythingGcd` fails, and so does `NoLeak` without `raced`. An
  attach between the count that a destructor reads and its `delete` gets a vector that is
  deleted: `NoDangling` fails without `raced`.

**Bounds.** Two engines are enough for every interaction of a transaction with the
HEAD or with another transaction; `Exit` lets one engine play several processes.
Three keys on two buckets reach the full list, the move of buckets behind a
deleted one and the search for an absent key; that run stores only undef (`Values` =
{}), since the shape of the lists and of the heap does not depend on what is stored.
`Sectors` bounds the file: a method
that needs more sectors than are free is not enabled, and three allow a HEAD value,
one clone and the new value of a write. `StaleMod` = 2 in the passing runs makes the
16-bit counter wrap after two transactions, so a slot left by a dead process becomes
current again within the bound; `commit_applies` uses 4, so that no wrap is needed.
Three processes are needed for the lock: the one that finds it, the one that
releases and the one that takes it.

For libjio, transactions are few and each does a different thing: in `jio_recovery` one
writes two cells, so that half of it can be seen, one overlaps it, and one lingers.
`MaxCrashes` = 1 power failure while the file is in use and `MaxFsckCrashes` = 1 more
before the recovery has ended give an interrupted recovery, a second recovery, and
transactions after it; `MaxFaults` = 1 failing call; `MaxTid` = 5 ids, which are not
exhausted there. `MaxTid` stands for the greatest `unsigned int` and `MaxInt` for the greatest
`int`, since `jfsck` reads the names of the files as ints (`GreatestTid`, `OnDisk`); they differ
in `jio_faults` and are the same where ids do not get that far. In `jio_recovery` the write of a commit may fail but not that of `jfsck`, and
overlapping transactions do not linger: both are known to break atomicity (above).
`jio_faults` lets everything fail once and asks what must hold even so. For vectors, three
threads are needed for two waiters at one lock, two instances for a count that two
destructors share, and two vectors for a destructor and a constructor that meet at the
registry and for an id that is used again; `MaxLen` = 2 pushes collide. `Access` says which thread
may make which instance for which vector, and only bounds the state space; the theorems
hold for every `Access`. `svec_clone` needs two threads and one vector. Deadlock is not checked where programs may end: a
thread need not make another call, and every transaction is committed once.

**Fairness.** In `SharedNFSLock`, `FairSpec` assumes that
a live process executes its next file-system call, that clocks run, and that the
holder of a lock releases it at some time or dies (`DESTROY` does so at the latest).
Nothing makes a process call `lock`, and `Crash` is never forced. `LockReturns` and
`DeadLockBroken` count a death as an end of waiting. In `JioCheck` and `SharedVector`
a thread that can take the next step of its call takes it: the kernel schedules
threads and grants a free lock. Calls, `jfsck` and failures are never forced.
`CommitReturns` needs no stronger fairness because each transaction is committed once;
`CallReturns` is stated for programs that stop making calls, since a thread that was woken may
find the lock taken again each time.

## Proofs

Every theorem holds for every value of the constants that meets the assumptions named
here. Each strengthened invariant was first checked by TLC on the instances above.

*DBMDeepEngine, invariants* (assumption `ConstantsAssumption`: positive bounds; markers
that are not sectors, keys or values).

* `TypedIds == TypeOK /\ TxnIdsExclusive` is inductive; neither part is alone. The
  type of `loc` after a commit needs that the engine's id is a slot the buckets
  have, which follows from its bit being set and `LayoutSound`; that its bit is
  still set needs that no other engine released it, so ids must be exclusive.
  `TypeCorrect` and `IdsExclusive` follow.
* `HeapSound`: `HeapIntegrity` is inductive relative to `TypedIds`. `HeapUpdate`
  covers every step that takes new locations from free sectors only; a commit and
  `delete_md5` move locations instead, and get their own argument: each location
  after the step comes from a different one before it, and what is freed is named
  by the one that was overwritten. It does not depend on staleness, so it holds
  across wrapped counters and leftovers of dead processes.
* `BucketsCompact`: `BucketListCompact` likewise. `WriteCompact` says that writing
  to the bucket `find_md5` chose cannot create a duplicate or a hole;
  `MoveUpCompact` is the closing up of `delete_md5`.

*DBMDeepEngine, steps* (same assumption). The three action properties follow from the
invariants above, together `Sound`, without a further one: a step that starts in a
sound state has the effect claimed.

* `KeepsView(j, t)` says that a reader under id `t` gets from bucket `j` what it got
  before; `SeenKept` puts the buckets together.
* `NoDirtyRead`: a step inside transaction `u` `OnlyTouches(u)`: it changes slots of `u`,
  sectors no one else names (`HeapIntegrity`) and buckets that show nothing
  (`BucketListCompact`). `OthersSeeTheSame` concludes.
* `HeadIsolated`: `write_data` and `delete_key` clone the old value for every running
  transaction that has none (`WriteIsolates`, `DeleteIsolates`); the stale slots that
  `read_value` blanks showed nothing (`ScrubIsolates`).
* `OwnStoresKept`: another engine's step keeps a bucket with its own slot. For a commit,
  which copies slots to the HEAD and frees what the HEAD had, `CommitKeepsOwn` needs that
  no two slots name one sector.

*SharedNFSLock*, for `timeout_stale` = 0. `MutualExclusion` is not inductive:
`LinkInv` adds, per process, when its unique file exists, that the lock file is its
own from the successful `stat` to the `unlink` of its release, that it is not its own
elsewhere, and that nobody is in the stale branch. `NoTwoHolders`, `ReleaseOwnLock`
and the refinement `LinksImplementLock` follow: `link` is `Take`, the successful `stat`
is `Enter`, `unlink` is `Give`, a crash leaves the section and keeps the lock.

*SharedVector* (`SharedVectorAssumption`: finite sets, markers that are no members; nothing is
assumed of the program). The invariant has two layers. `VectorInv` holds whatever becomes of
the counts: `LockInv` and `RegistryLockInv` say who owns which lock where in its method, and how
deep; `ReadInv` that a size or an id that a thread has read is still so when it acts on it;
`RegistryInv` that ids and registry agree on all vectors but those half made or half
destroyed; `SoleInv` that nobody else knows a vector until its constructor has registered it.
It does not depend on the counts, and when a wrong count makes a call use freed memory,
`Safe` has ended the behaviour. `PushesKept` and `IdsLead` follow.

`CountsInv`, relative to it, says what the count is worth. It is always the number of instances that
have been counted and not uncounted (`CountInv`, with `Counted`), as an instance has at least one object or is
being destroyed (`ObjInv`). It is still what a destructor has read when the destructor acts on it
(`AloneInv`), and nothing leads to a vector that is deleted (`LastInv`), as far as destructors do not
overlap (`ApartInv`, for vectors outside `raced`) and objects are not cloned (`UnclonedInv`, for
instances outside `cloned`). The run `svec_clone` and the
counterexamples above show that neither condition can be left out. Theorems: `TypeCorrect`, `NoneForgotten`, `NoneDangles`.

*libjio ids* (`JioAssumption`, and `OneThreadPerProcess`: `fcntl` locks do not keep the threads
of a process apart, and ids are then shared, see above). `IdInv` is
inductive, with every fault, kill, power failure and interrupted recovery. It says
that between the read and the write of the greatest id nobody changes it (`MaxRead`);
that calls, interrupted calls and lingering transactions have different ids
(`DistinctInv`), none above the greatest (`BelowInv`); that a call that got a new id or is
about to free one has no complete file (`Gone`); and that no complete file is above the greatest id, except
from a power failure until `jfsck` rewrites the lock file, while nobody has it open (`FilesInv`). A failing
`fsync` leaves a complete file whose id has no owner, so that `JournalKept` is not a consequence of unique
ids. `JournalKept` and `FilesInv` are about ids up to `MaxInt`: above it `jfsck` does not see the files. Theorems: `IdsUnique`, `FilesKept`.

*libjio types* (also `OpsAssumption`: operations lie within the file, as the model's do; a
transaction has some). `TypeOK` is not inductive: `TypedInv` adds, per call, that it has operations
and is at one of them (`OpsOK`), has a transaction file only when one of them is a write, and
has read as much previous data as it writes whenever it may have to roll back (`PrevOK`: else
the rollback would write the wrong cells, see `UndoIs`); that what the disk may hold is typed
too, and contains what the cache holds; that no two processes have locked a cell (`TypedLocks`,
needed for the locks that a call gives back); and that only `jfsck` replays a file
(`TypedFsck`). The lemmas on `Writes` (`WritesPick`, `WritesCover`) are proved by induction on the
length of the list, over a set instead of an operator. Theorem: `TypesCorrect`.

*libjio isolation* (also `FileAssumption`: an incomplete file is a file; and `LingerApart`: a
transaction that lingers writes no cell that another one writes. It has released its locks
and its file is still in the journal, so a recovery would write its data over what another
transaction has written since; without it TLC finds `NoDirtyReads` violated by two
transactions of one thread). `IsolationInv` has three parts. `CallInv`, per call: it has
locked the cells of its operations from the last lock to the first unlock, a rollback those of its commit
(`LocksOK`); its complete file has its write operations (`FileIs`); what it has written so far is
in the data file (`AppliedOK`); it runs its own transaction and writes only its cells
(`TxnOK`). `JournalInv`: during a check nobody else does anything (`FsckBusy`) and the
complete files are those that `jfsck` has not come to, or is committing (`FsckClean`); a complete file
that may be found in another state may be found incomplete (`SureFiles`), so that no sync of
the directory can make a file certain whose call has not synced it. `CalmInv`: while nothing is
to be recovered, every file that is on the disk for certain belongs to a call that has its cells locked
(`HeldBy`), or is that of a lingering transaction with its data in the data file (`Settled`).
`NoDirtyReads` is then a lemma about `View`: no lock, hence no holder, hence the last file that
covers the cell is settled. Theorem: `NoDirt`.

Only model-checked: the refinement `ImplementsAtomicFile`, which holds for restricted faults and transactions only; and `LockReturns`,
`DeadLockBroken`, `CommitReturns` and `CallReturns`, because liveness under fairness is out
of the prover's reach. Model-checked counterexamples (the second table of runs) need no proof.

## Not modelled

In DBM::Deep: splitting a full list, chains of data sectors and free chains,
references, iterators, `optimize`, the nested counts of `File.pm`, and a commit in steps.
In libjio: extending the file, `jtrans_rollback` called by the program, `J_NOLOCK`,
`J_RDONLY`, `jtruncate`, `jmove_journal`, `J_CLEANUP`, the file pointers of the `read` and
`write` wrappers, and `broken` marks that cannot be written. In Thread::SharedVector: the
values of the elements, Perl magic under the lock, and what a data race does to the
`std::map` of the registry. SQLite and libnova are third-party sources; the other distributions are
sequential (see `components` in `PROJECT.json`).

## Plan

Done: the engine, overlapping reads, the NFS lock, libjio with recovery, shared vectors, and the proofs of all
safety invariants and action properties. Next: `ImplementsAtomicFile` as a theorem, which needs
`IsolationInv` extended to what a power failure may leave, for transactions that do not
overlap lingering ones.

Then models: `DBMDeepFile` (nested locks, autovivification under a shared lock,
`optimize`), `DBMDeepIndex` (splitting, `reindex_entry`), a commit in steps.
