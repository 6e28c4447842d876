------------------------ MODULE SharedNFSLockProofs ------------------------
(***************************************************************************)
(* For any number of processes, File::SharedNFSLock with timeout_stale = 0 *)
(* is a lock: mutual exclusion, and refinement of LockService.             *)
(***************************************************************************)
EXTENDS SharedNFSLock, TLAPS

\* The program counters are the ones listed, whatever the constants are.
\* About: every step of lock(), unlock() and _unlink_lock_file.
THEOREM TypeCorrect == Spec => []TypeOK
<1>1. Init => TypeOK
  BY DEF Init, TypeOK
<1>2. ASSUME TypeOK, [Next]_vars PROVE TypeOK'
  <2> USE TypeOK DEF TypeOK, Goto, Trying, Removing
  <2>1. ASSUME NEW p \in Procs, lock(p) PROVE TypeOK'
    BY <2>1 DEF lock
  <2>2. ASSUME NEW p \in Procs, Step(p) PROVE TypeOK'
    <3>1. CASE CreateUnique(p) BY <3>1 DEF CreateUnique
    <3>2. CASE Link(p) BY <3>2 DEF Link
    <3>3. CASE Stat(p) BY <3>3 DEF Stat
    <3>4. CASE CheckStale(p) BY <3>4 DEF CheckStale
    <3>5. CASE BreakLock(p) BY <3>5 DEF BreakLock
    <3>6. CASE BreakUnique(p) BY <3>6 DEF BreakUnique, UnlinkUnique
    <3>7. CASE Wait(p) BY <3>7 DEF Wait
    <3>8. CASE IsLocked(p) BY <3>8 DEF IsLocked
    <3>9. CASE RemoveLock(p) BY <3>9 DEF RemoveLock
    <3>10. CASE RemoveUnique(p) BY <3>10 DEF RemoveUnique, UnlinkUnique
    <3> QED
      BY <2>2, <3>1, <3>2, <3>3, <3>4, <3>5, <3>6, <3>7, <3>8, <3>9, <3>10
      DEF Step
  <2>3. ASSUME NEW p \in Procs, unlock(p) PROVE TypeOK'
    BY <2>3 DEF unlock
  <2>4. ASSUME NEW p \in Procs, Crash(p) PROVE TypeOK'
    BY <2>4 DEF Crash
  <2>5. ASSUME NEW p \in Procs, Expire(p) PROVE TypeOK'
    BY <2>5 DEF Expire
  <2>6. CASE Outlive
    BY <2>6 DEF Outlive
  <2>7. CASE UNCHANGED vars
    BY <2>7 DEF vars
  <2> QED
    BY <1>2, <2>1, <2>2, <2>3, <2>4, <2>5, <2>6, <2>7 DEF Next
<1> QED
  BY <1>1, <1>2, PTL DEF Spec

-----------------------------------------------------------------------------
(* The inductive invariant.  MutualExclusion alone is not inductive: it has *)
(* to be known whose link the lock file is at every step of a process.     *)

\* A process has its unique file from the time it wrote it to the release.
UniqueThere(p) ==
  pc[p] \in {"link", "stat", "held", "rmLock"} => unique[p]

\* From the successful stat() to the unlink(), the lock file is the holder's.
HolderLinked(p) ==
  pc[p] \in {"held", "rmLock"} => lockFile = p

\* Away from there the lock file is not a link to the process's own file,
\* except between link() and the stat() that finds out.
OthersNotLinked(p) ==
  pc[p] \in {"idle", "create", "link", "check", "wait", "rmUnique"} => lockFile # p

\* A lock file linked to the process's file is seen by its stat().
LinkSeen(p) ==
  pc[p] \in {"stat", "isLocked"} /\ lockFile = p => unique[p]

\* Nobody breaks a lock.
NobodyBreaks(p) == pc[p] \notin {"breakLock", "breakUnique"}

LinkInv == \A p \in Procs :
  UniqueThere(p) /\ HolderLinked(p) /\ OthersNotLinked(p) /\ LinkSeen(p) /\ NobodyBreaks(p)

LEMMA LinkInvStep ==
  ASSUME ~TimeoutStale, TypeOK, LinkInv, [Next]_vars
  PROVE  LinkInv'
<1> USE NFSAssumption, TypeOK, LinkInv
    DEF TypeOK, LinkInv, UniqueThere, HolderLinked, OthersNotLinked, LinkSeen,
        NobodyBreaks, Goto, locked, Trying, Removing
<1>1. ASSUME NEW p \in Procs, lock(p) PROVE LinkInv'
  BY <1>1 DEF lock
<1>2. ASSUME NEW p \in Procs, Step(p) PROVE LinkInv'
  <2>1. CASE CreateUnique(p) BY <2>1 DEF CreateUnique
  <2>2. CASE Link(p) BY <2>2 DEF Link
  <2>3. CASE Stat(p) BY <2>3 DEF Stat
  <2>4. CASE CheckStale(p) BY ~TimeoutStale, <2>4 DEF CheckStale, is_stale_lock
  <2>5. CASE BreakLock(p) BY <2>5 DEF BreakLock
  <2>6. CASE BreakUnique(p) BY <2>6 DEF BreakUnique
  <2>7. CASE Wait(p) BY <2>7 DEF Wait
  <2>8. CASE IsLocked(p) BY <2>8 DEF IsLocked
  <2>9. CASE RemoveLock(p) BY <2>9 DEF RemoveLock
  <2>10. CASE RemoveUnique(p) BY <2>10 DEF RemoveUnique, UnlinkUnique
  <2> QED
    BY <1>2, <2>1, <2>2, <2>3, <2>4, <2>5, <2>6, <2>7, <2>8, <2>9, <2>10 DEF Step
<1>3. ASSUME NEW p \in Procs, unlock(p) PROVE LinkInv'
  BY <1>3 DEF unlock
<1>4. ASSUME NEW p \in Procs, Crash(p) PROVE LinkInv'
  BY <1>4 DEF Crash
<1>5. ASSUME NEW p \in Procs, Expire(p) PROVE LinkInv'
  BY <1>5 DEF Expire
<1>6. CASE Outlive
  BY <1>6 DEF Outlive
<1>7. CASE UNCHANGED vars
  BY <1>7 DEF vars
<1> QED
  BY <1>1, <1>2, <1>3, <1>4, <1>5, <1>6, <1>7 DEF Next

LEMMA LinkInvariant == ASSUME ~TimeoutStale PROVE Spec => []LinkInv
<1>1. Init => LinkInv
  BY NFSAssumption DEF Init, LinkInv, UniqueThere, HolderLinked, OthersNotLinked,
     LinkSeen, NobodyBreaks
<1>2. TypeOK /\ LinkInv /\ [Next]_vars => LinkInv'
  BY ~TimeoutStale, LinkInvStep
<1> QED
  BY <1>1, <1>2, TypeCorrect, PTL DEF Spec

\* With timeout_stale = 0, lock() never returns 1 to a process while another
\* one has the lock: the link()/stat() protocol of _write_lock_file is sound.
THEOREM NoTwoHolders == ASSUME ~TimeoutStale PROVE Spec => []MutualExclusion
<1>1. LinkInv => MutualExclusion
  BY DEF LinkInv, HolderLinked, MutualExclusion
<1> QED
  BY <1>1, LinkInvariant, PTL

\* With timeout_stale = 0, the unlink() of a release removes the releasing
\* process's own lock file, although stat() and unlink() are two calls.
THEOREM ReleaseOwnLock == ASSUME ~TimeoutStale PROVE Spec => []HolderOwnsLockFile
<1>1. LinkInv => HolderOwnsLockFile
  BY DEF LinkInv, UniqueThere, HolderLinked, HolderOwnsLockFile, locked
<1> QED
  BY <1>1, LinkInvariant, PTL

\* With timeout_stale = 0, the protocol of hard links implements LockService:
\* link() is Take, the stat() that succeeds is Enter, unlink() is Give.
THEOREM LinksImplementLock == ASSUME ~TimeoutStale PROVE Spec => ImplementsLockService
<1> DEFINE Inside == {p \in Procs : pc[p] = "held"}
<1>1. Init => Service!Init
  BY DEF Init, Service!Init
<1>2. ASSUME TypeOK, LinkInv, [Next]_vars PROVE [Service!Next]_(Service!vars)
  <2> USE NFSAssumption, TypeOK, LinkInv
      DEF TypeOK, LinkInv, UniqueThere, HolderLinked, OthersNotLinked, LinkSeen,
          NobodyBreaks, Goto, locked, Trying, Removing
  <2>0. ASSUME UNCHANGED lockFile, Inside' = Inside PROVE UNCHANGED Service!vars
    BY <2>0 DEF Service!vars
  <2>1. ASSUME NEW p \in Procs, lock(p) PROVE UNCHANGED Service!vars
    BY <2>0, <2>1 DEF lock
  <2>2. ASSUME NEW p \in Procs, Step(p) PROVE [Service!Next]_(Service!vars)
    <3>1. CASE CreateUnique(p)
      BY <2>0, <3>1 DEF CreateUnique
    <3>2. CASE Link(p)
      <4>1. Inside' = Inside
        BY <3>2 DEF Link
      <4>2. CASE lockFile = Nobody
        BY <3>2, <4>1, <4>2 DEF Link, Service!Next, Service!Take
      <4>3. CASE lockFile # Nobody
        BY <2>0, <3>2, <4>1, <4>3 DEF Link
      <4> QED BY <4>2, <4>3
    <3>3. CASE Stat(p)
      <4>1. CASE locked(p)
        <5>1. Inside' = Inside \cup {p}
          BY <3>3, <4>1 DEF Stat
        <5> QED BY <3>3, <4>1, <5>1 DEF Stat, Service!Next, Service!Enter
      <4>2. CASE ~locked(p)
        BY <2>0, <3>3, <4>2 DEF Stat
      <4> QED BY <4>1, <4>2
    <3>4. CASE CheckStale(p)
      BY <2>0, <3>4 DEF CheckStale
    <3>5. CASE BreakLock(p)
      BY <3>5 DEF BreakLock
    <3>6. CASE BreakUnique(p)
      BY <3>6 DEF BreakUnique
    <3>7. CASE Wait(p)
      BY <2>0, <3>7 DEF Wait
    <3>8. CASE IsLocked(p)
      BY <2>0, <3>8 DEF IsLocked
    <3>9. CASE RemoveLock(p)
      <4>1. Inside' = Inside /\ p \notin Inside
        BY <3>9 DEF RemoveLock
      <4> QED BY <3>9, <4>1 DEF RemoveLock, Service!Next, Service!Give
    <3>10. CASE RemoveUnique(p)
      BY <2>0, <3>10 DEF RemoveUnique, UnlinkUnique
    <3> QED
      BY <2>2, <3>1, <3>2, <3>3, <3>4, <3>5, <3>6, <3>7, <3>8, <3>9, <3>10 DEF Step
  <2>3. ASSUME NEW p \in Procs, unlock(p) \/ Crash(p)
        PROVE [Service!Next]_(Service!vars)
    <3>1. Inside' = Inside \ {p} /\ UNCHANGED lockFile
      BY <2>3 DEF unlock, Crash
    <3> QED BY <3>1 DEF Service!Next, Service!Leave
  <2>4. ASSUME NEW p \in Procs, Expire(p) PROVE UNCHANGED Service!vars
    BY <2>0, <2>4 DEF Expire
  <2>5. CASE Outlive
    BY <2>0, <2>5 DEF Outlive
  <2>6. CASE UNCHANGED vars
    BY <2>0, <2>6 DEF vars
  <2> QED
    BY <1>2, <2>1, <2>2, <2>3, <2>4, <2>5, <2>6 DEF Next
<1> QED
  BY <1>1, <1>2, TypeCorrect, LinkInvariant, PTL
  DEF Spec, ImplementsLockService, Service!Spec
=============================================================================
