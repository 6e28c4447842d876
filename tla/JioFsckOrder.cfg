CONSTANTS
  NCells = 1
  MaxTid = 5
  MaxInt = 5
  Zero = Zero
  Garbage = Garbage
  NoFile = NoFile
  Partial = Partial
  t1 = t1
  t2 = t2
  t3 = t3
  Txns = {t1, t2}
  Ops <- PairOps
  Flags <- AllLinger
  Runner <- RunnerA
  Threads = {"a", "fsck"}
  Procs = {"a", "fsck"}
  ProcOf <- OwnProcess
  Checker = "fsck"
  HaveSyncRange = FALSE
  Faults <- NoFaults
  MaxFaults = 0
  MaxSyncs = 0
  MaxCrashes = 1
  MaxFsckCrashes = 1
  MayKill = FALSE
SPECIFICATION FairSpec
PROPERTY ImplementsAtomicFile
CHECK_DEADLOCK FALSE
