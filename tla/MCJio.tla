-------------------------------- MODULE MCJio --------------------------------
(***************************************************************************)
(* Small instances of libjio for TLC.                                      *)
(***************************************************************************)
EXTENDS JioCheck, TLC

CONSTANTS t1, t2, t3

W(t, off, len) == [dir |-> "W", off |-> off, buf |-> [i \in 1 .. len |-> t]]
R(t, off, len) == [dir |-> "R", off |-> off, buf |-> [i \in 1 .. len |-> t]]

\* Every thread is a process of its own.
OwnProcess == [th \in Threads |-> th]

\* t1 and t2 overlap; t3 lingers, apart from them.
RecoveryOps == (t1 :> <<W(t1, 0, 2)>>) @@ (t2 :> <<W(t2, 1, 1)>>) @@ (t3 :> <<W(t3, 2, 1)>>)
RecoveryFlags == (t1 :> {}) @@ (t2 :> {}) @@ (t3 :> {"LINGER"})
RecoveryRunner == (t1 :> "a") @@ (t2 :> "b") @@ (t3 :> "a")

\* t1 and t2 lock cells 0 and 1 in opposite orders; t3 only reads.
FaultOps == (t1 :> <<W(t1, 0, 1), W(t1, 1, 1)>>) @@ (t2 :> <<W(t2, 1, 1), R(t2, 0, 1)>>)
         @@ (t3 :> <<R(t3, 0, 1)>>)
FaultFlags == (t1 :> {"LINGER"}) @@ (t2 :> {"NOROLLBACK"}) @@ (t3 :> {})

\* Two overlapping transactions of one thread, or of two threads.
PairOps == (t1 :> <<W(t1, 0, 1)>>) @@ (t2 :> <<W(t2, 0, 1)>>)
NoFlags == [t \in Txns |-> {}]
AllLinger == [t \in Txns |-> {"LINGER"}]
RunnerA == [t \in Txns |-> "a"]

\* The threads of one process; jfsck is another one.
OneProcess == [th \in Threads |-> IF th = Checker THEN Checker ELSE "p"]

NoFaults == [th \in Threads |-> {}]

\* Faults from which a commit recovers, while jfsck is spared.
CommitFaults == [th \in Threads |->
  IF th = Checker THEN {} ELSE {"write"}]

FsyncFault == [th \in Threads |-> IF th = Checker THEN {} ELSE {"fsync"}]

AllFaults == [th \in Threads |->
  {"open", "header", "fill", "fsync", "write", "datasync", "unlink", "truncate",
   "corrupt", "dirsync"}]

=============================================================================
