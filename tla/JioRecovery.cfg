CONSTANTS
  NCells = 3
  MaxTid = 5
  MaxInt = 5
  Zero = Zero
  Garbage = Garbage
  NoFile = NoFile
  Partial = Partial
  t1 = t1
  t2 = t2
  t3 = t3
  Txns = {t1, t2, t3}
  Ops <- RecoveryOps
  Flags <- RecoveryFlags
  Runner <- RecoveryRunner
  Threads = {"a", "b", "fsck"}
  Procs = {"a", "b", "fsck"}
  ProcOf <- OwnProcess
  Checker = "fsck"
  HaveSyncRange = FALSE
  Faults <- CommitFaults
  MaxFaults = 1
  MaxSyncs = 1
  MaxCrashes = 1
  MaxFsckCrashes = 1
  MayKill = FALSE
SPECIFICATION Spec
INVARIANT NoDirtyReads
PROPERTY ImplementsAtomicFile
CHECK_DEADLOCK FALSE
