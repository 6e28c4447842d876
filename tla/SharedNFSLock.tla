--------------------------- MODULE SharedNFSLock ---------------------------
(***************************************************************************)
(* File::SharedNFSLock: a lock among machines, made of hard links.  Each   *)
(* process writes a file of its own, tries to link it to the common lock   *)
(* file, and has the lock when stat() finds two links on its own file.     *)
(*                                                                         *)
(* Each call to the file system that other processes can see is a step.    *)
(* Real time is reduced to two facts: the lock file has become older than  *)
(* timeout_stale (old), and a caller has spent more than timeout_acquire   *)
(* in lock() (expired).                                                    *)
(***************************************************************************)
EXTENDS Naturals

CONSTANTS
  Procs,         \* lock objects, one per process
  Nobody,        \* there is no lock file
  Orphan,        \* the lock file is an inode that no unique file names any more
  TimeoutStale,  \* BOOLEAN: is timeout_stale non-zero?
  MayOutlive     \* BOOLEAN: may a lock be held longer than timeout_stale?

ASSUME NFSAssumption ==
  /\ Nobody \notin Procs /\ Orphan \notin Procs /\ Nobody # Orphan
  /\ TimeoutStale \in BOOLEAN /\ MayOutlive \in BOOLEAN

VARIABLES
  lockFile,  \* whose unique file the lock file is a link to
  old,       \* the time written in the lock file is more than timeout_stale ago
  unique,    \* does the unique file of the process exist?
  expired,   \* timeout_acquire has passed since the process called lock()
  pc         \* where each process is

vars == <<lockFile, old, unique, expired, pc>>

\* Inside lock(), before it returns.
Trying == {"create", "link", "stat", "check", "breakLock", "breakUnique", "wait"}
\* Inside _unlink_lock_file, called by unlock() or at the end of a failed lock().
Removing == {"isLocked", "rmLock", "rmUnique"}

TypeOK ==
  /\ lockFile \in Procs \cup {Nobody, Orphan}
  /\ old \in BOOLEAN
  /\ unique \in [Procs -> BOOLEAN]
  /\ expired \in [Procs -> BOOLEAN]
  /\ pc \in [Procs -> {"idle", "held", "dead"} \cup Trying \cup Removing]

Init ==
  /\ lockFile = Nobody
  /\ old = FALSE
  /\ unique = [p \in Procs |-> FALSE]
  /\ expired = [p \in Procs |-> FALSE]
  /\ pc = [p \in Procs |-> "idle"]

Goto(p, from, to) == pc[p] = from /\ pc' = [pc EXCEPT ![p] = to]

\* stat() on the unique file finds two links.
locked(p) == unique[p] /\ lockFile = p

\* unlink() of the unique file; a lock file linked to it loses its owner.
UnlinkUnique(p) ==
  /\ unique' = [unique EXCEPT ![p] = FALSE]
  /\ lockFile' = IF lockFile = p THEN Orphan ELSE lockFile

-----------------------------------------------------------------------------
\* lock() returns at once when the object already has the lock; an object that
\* had it and lost it to a process that found it stale starts again.
lock(p) ==
  /\ pc[p] \in {"idle", "held"}
  /\ ~locked(p)
  /\ pc' = [pc EXCEPT ![p] = "create"]
  /\ expired' = [expired EXCEPT ![p] = FALSE]
  /\ UNCHANGED <<lockFile, old, unique>>

\* The unique file is removed if it exists, and written anew.
CreateUnique(p) ==
  /\ Goto(p, "create", "link")
  /\ unique' = [unique EXCEPT ![p] = TRUE]
  /\ lockFile' = IF lockFile = p THEN Orphan ELSE lockFile
  /\ UNCHANGED <<old, expired>>

\* link() fails when the lock file exists; its return value is not used.
Link(p) ==
  /\ Goto(p, "link", "stat")
  /\ IF lockFile = Nobody
     THEN lockFile' = p /\ old' = FALSE
     ELSE UNCHANGED <<lockFile, old>>
  /\ UNCHANGED <<unique, expired>>

\* Mutant: the lock is taken to be ours whenever there is a lock file.
Stat_AnyLink(p) ==
  /\ Goto(p, "stat", IF lockFile # Nobody THEN "held" ELSE "check")
  /\ UNCHANGED <<lockFile, old, unique, expired>>

Stat(p) ==
  /\ Goto(p, "stat", IF locked(p) THEN "held" ELSE "check")
  /\ UNCHANGED <<lockFile, old, unique, expired>>

\* Mutant: the time in the lock file is not looked at.
is_stale_lock_AgeIgnored == TimeoutStale /\ lockFile = Nobody

\* A lock file that cannot be opened counts as stale.
is_stale_lock == TimeoutStale /\ (lockFile = Nobody \/ old)

CheckStale(p) ==
  /\ Goto(p, "check", IF is_stale_lock THEN "breakLock" ELSE "wait")
  /\ UNCHANGED <<lockFile, old, unique, expired>>

\* unlink() of the lock file, whosever it is by now.
BreakLock(p) ==
  /\ Goto(p, "breakLock", "breakUnique")
  /\ lockFile' = Nobody
  /\ old' = FALSE
  /\ UNCHANGED <<unique, expired>>

BreakUnique(p) ==
  /\ Goto(p, "breakUnique", "create")
  /\ UnlinkUnique(p)
  /\ UNCHANGED <<old, expired>>

\* Mutant: the time spent is not compared with timeout_acquire.
Wait_Forever(p) ==
  /\ Goto(p, "wait", "create")
  /\ UNCHANGED <<lockFile, old, unique, expired>>

Wait(p) ==
  /\ Goto(p, "wait", IF expired[p] THEN "isLocked" ELSE "create")
  /\ UNCHANGED <<lockFile, old, unique, expired>>

-----------------------------------------------------------------------------
\* unlock() is called by the holder, and by DESTROY on any object.
unlock(p) ==
  /\ \/ Goto(p, "held", "isLocked")
     \/ Goto(p, "idle", "isLocked")
  /\ UNCHANGED <<lockFile, old, unique, expired>>

\* Mutant: the lock file is removed without asking stat() first.
IsLocked_NotAsked(p) ==
  /\ Goto(p, "isLocked", "rmLock")
  /\ UNCHANGED <<lockFile, old, unique, expired>>

IsLocked(p) ==
  /\ Goto(p, "isLocked", IF locked(p) THEN "rmLock" ELSE "rmUnique")
  /\ UNCHANGED <<lockFile, old, unique, expired>>

RemoveLock(p) ==
  /\ Goto(p, "rmLock", "rmUnique")
  /\ lockFile' = Nobody
  /\ old' = FALSE
  /\ UNCHANGED <<unique, expired>>

RemoveUnique(p) ==
  /\ Goto(p, "rmUnique", "idle")
  /\ UnlinkUnique(p)
  /\ UNCHANGED <<old, expired>>

\* The process is killed: its files stay, and no later process has its name.
Crash(p) ==
  /\ pc[p] # "dead"
  /\ pc' = [pc EXCEPT ![p] = "dead"]
  /\ UNCHANGED <<lockFile, old, unique, expired>>

\* Time passes.
Outlive ==
  /\ MayOutlive /\ lockFile # Nobody
  /\ old' = TRUE
  /\ UNCHANGED <<lockFile, unique, expired, pc>>

Expire(p) ==
  /\ pc[p] \in Trying
  /\ expired' = [expired EXCEPT ![p] = TRUE]
  /\ UNCHANGED <<lockFile, old, unique, pc>>

\* What a process does on its own once it has called lock() or unlock().
Step(p) ==
  \/ CreateUnique(p) \/ Link(p) \/ Stat(p) \/ CheckStale(p)
  \/ BreakLock(p) \/ BreakUnique(p) \/ Wait(p)
  \/ IsLocked(p) \/ RemoveLock(p) \/ RemoveUnique(p)

Next ==
  \/ \E p \in Procs : lock(p) \/ Step(p) \/ unlock(p) \/ Crash(p) \/ Expire(p)
  \/ Outlive

Spec == Init /\ [][Next]_vars

\* A live process goes on, the holder of a lock releases it, and clocks run.
\* Nobody has to call lock().
Fairness == \A p \in Procs :
  /\ WF_vars(Step(p))
  /\ WF_vars(Expire(p))
  /\ WF_vars(pc[p] = "held" /\ unlock(p))

FairSpec == Spec /\ Fairness

-----------------------------------------------------------------------------
\* lock() has returned 1 to at most one process that has not released since.
\* With timeout_stale = 0 this is the whole promise of the module; otherwise
\* a lock is only ever lost to a process that found it stale.
MutualExclusion ==
  \A p, q \in Procs : pc[p] = "held" /\ pc[q] = "held" => p = q

\* The holder still has the lock file, up to the unlink() of its own release,
\* which therefore removes no one else's lock.
HolderOwnsLockFile ==
  \A p \in Procs : pc[p] \in {"held", "rmLock"} => locked(p)

\* lock() returns once timeout_acquire has passed.
LockReturns ==
  \A p \in Procs : (pc[p] \in Trying) ~> (pc[p] \notin Trying)

\* A lock left behind by a process that died does not block the others once
\* it is older than timeout_stale: the next process that comes to look at it
\* removes it, unless it dies first.
DeadLockBroken ==
  \A p, q \in Procs :
    (/\ pc[p] = "dead" /\ lockFile = p /\ old
     /\ pc[q] \in {"create", "link", "stat", "check"})
      ~> (lockFile # p \/ pc[q] = "dead")

\* The lock files implement a lock: taken by link(), given back by unlink().
Service == INSTANCE LockService
  WITH owner <- lockFile, inside <- {p \in Procs : pc[p] = "held"}

\* Whoever takes, holds and releases the lock file does so as LockService says.
ImplementsLockService == Service!Spec

=============================================================================
