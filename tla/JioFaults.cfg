CONSTANTS
  NCells = 2
  MaxTid = 3
  MaxInt = 2
  Zero = Zero
  Garbage = Garbage
  NoFile = NoFile
  Partial = Partial
  t1 = t1
  t2 = t2
  t3 = t3
  Txns = {t1, t2, t3}
  Ops <- FaultOps
  Flags <- FaultFlags
  Runner <- RecoveryRunner
  Threads = {"a", "b", "fsck"}
  Procs = {"a", "b", "fsck"}
  ProcOf <- OwnProcess
  Checker = "fsck"
  HaveSyncRange = TRUE
  Faults <- AllFaults
  MaxFaults = 1
  MaxSyncs = 1
  MaxCrashes = 1
  MaxFsckCrashes = 0
  MayKill = TRUE
SPECIFICATION FairSpec
INVARIANTS TypeOK TidsUnique JournalKept
PROPERTY CommitReturns
CHECK_DEADLOCK FALSE
