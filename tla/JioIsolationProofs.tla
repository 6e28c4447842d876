-------------------------- MODULE JioIsolationProofs --------------------------
(***************************************************************************)
(* What a reader finds in a cell that nobody has locked is what a recovery *)
(* would leave there: the proof that libjio's transactions read no data    *)
(* that may yet be undone, when lingering transactions write where no      *)
(* other transaction does.                                                 *)
(***************************************************************************)
EXTENDS JioTypeProofs

\* A lingering transaction has its file in the journal after it has released
\* its locks: until jsync removes it, a recovery would apply it again, over what
\* another transaction has since written in the same cell and no longer has a
\* file for.  NoDirtyReads fails without this.
LingerApart ==
  \A t, u \in Txns : t # u /\ "LINGER" \in Flags[t] => WriteSet(t) \cap WriteSet(u) = {}

-----------------------------------------------------------------------------
(* The inductive invariant: what it says of one call.                      *)

Covered(ops, S) == \A m \in 1 .. Len(ops) : CellsOf(ops[m]) \subseteq S

\* A call has the locks on the cells of its operations from the time it has
\* got them to the time it gives them back, a rollback those of its commit.
LocksOK(th) ==
  /\ cur[th].kind \in CallKinds /\ cur[th].pc = "lock" =>
       \A m \in 1 .. cur[th].k - 1 : CellsOf(cur[th].ops[m]) \subseteq plocks[ProcOf[th]]
  /\ cur[th].kind \in CallKinds /\ cur[th].pc \notin {"lock", "unlock"} =>
       Covered(cur[th].ops, plocks[ProcOf[th]])
  /\ cur[th].kind = "undo" => Covered(saved[th].ops, plocks[ProcOf[th]])

\* Its transaction file has its write operations, once it is complete; without
\* any there is no file.
WithFile(f) == f.pc \in {"fsync", "unlink"} \/ (f.pc \in Applying /\ HasWrites(f))
FileIs(th) ==
  /\ cur[th].kind \in CallKinds /\ cur[th].pc = "trailer" => jf[cur[th].tid] = Partial
  /\ cur[th].kind \in CallKinds /\ WithFile(cur[th]) => jf[cur[th].tid] = Writes(cur[th].ops)
  /\ cur[th].kind = "undo" => jf[saved[th].tid] = Writes(saved[th].ops)
  /\ cur[th].kind \in CallKinds /\
     (cur[th].pc = "lock" \/ (cur[th].pc \in Applying /\ ~HasWrites(cur[th]))) => cur[th].tid = 0

\* Operation m is the last of the first n to write cell c.
Latest(ops, n, m, c) ==
  /\ IsWrite(ops[m]) /\ c \in CellsOf(ops[m])
  /\ \A l \in m + 1 .. n : IsWrite(ops[l]) => c \notin CellsOf(ops[l])

\* What the call has written is in the data file.
Done(f) == IF f.pc = "apply" THEN f.k - 1 ELSE Len(f.ops)
Found(ops, n, data) ==
  \A m \in 1 .. n, c \in Cells : Latest(ops, n, m, c) => data[c] = ops[m].buf[c - ops[m].off + 1]
AppliedOK(th) ==
  cur[th].kind \in CallKinds /\ cur[th].pc \in Applying =>
    Found(cur[th].ops, Done(cur[th]), cache)

\* The call is of a transaction that this thread runs, and writes its cells.
TxnOK(th) ==
  /\ cur[th].kind = "commit" =>
       /\ cur[th].txn \in Txns /\ Runner[cur[th].txn] = th /\ ack[cur[th].txn] = "running"
       /\ cur[th].ops = Ops[cur[th].txn] /\ cur[th].flags = Flags[cur[th].txn]
  /\ cur[th].kind = "undo" /\ saved[th].kind = "commit" =>
       /\ cur[th].txn \in Txns /\ Runner[cur[th].txn] = th /\ ack[cur[th].txn] = "running"
       /\ saved[th].txn = cur[th].txn
       /\ saved[th].ops = Ops[cur[th].txn] /\ saved[th].flags = Flags[cur[th].txn]
       /\ "LINGER" \in cur[th].flags => "LINGER" \in Flags[cur[th].txn]
       /\ Covered(cur[th].ops, WriteSet(cur[th].txn))
  /\ cur[th].kind = "redo" => cur[th].flags = {}
  /\ saved[th].kind = "redo" => saved[th].flags = {}

-----------------------------------------------------------------------------
(* What it says of the journal.                                            *)

\* While jfsck runs nobody else does.
FsckBusy == fsck.pc # "off" =>
  /\ dirty /\ (\A p \in Procs : ~open[p])
  /\ \A th \in Threads \ {Checker} : cur[th].pc = "idle"

\* The complete files that jfsck can see are those that it has not yet come to,
\* and the one of its own commit while that goes well.
Swept(i) == fsck.i <= i /\ i <= fsck.maxtid
Healthy(f) == f.kind = "redo" /\ (f.pc \in Removing \cup {"unlock"} => f.retval >= 0)
FsckClean ==
  /\ fsck.pc \in {"scan", "unlink"} => \A i \in Tids : Seen(i) => Swept(i)
  /\ fsck.pc = "commit" /\ Healthy(cur[Checker]) => \A i \in Tids : Seen(i) =>
       Swept(i) \/ (i = cur[Checker].tid /\ cur[Checker].pc \in {"fsync", "apply", "sync", "unlink"})

\* A complete file of which something else may be left after a power failure
\* may also be found incomplete.
SureFiles == \A i \in Tids : Complete(jf[i]) => jstable[i] = {jf[i]} \/ Partial \in jstable[i]

\* A file that recovery finds for certain belongs to a call that has its cells
\* locked, or has failed to undo it and will say so, or it is that of a
\* lingering transaction, and the data file has what it has.
Firm(i) == Seen(i) /\ jstable[i] = {jf[i]}
LocksFile(th, i) == \A c \in Cells : Covers(jf[i], c) => c \in plocks[ProcOf[th]]
HeldBy(th, i) ==
  /\ LocksFile(th, i)
  /\ cur[th].kind \in {"commit", "undo"}
  /\ \/ cur[th].tid = i /\ cur[th].pc \in {"apply", "sync", "unlink"}
     \/ cur[th].kind = "undo" /\ saved[th].tid = i
     \/ cur[th].pc = "unlock" /\ cur[th].kind = "commit" /\ cur[th].retval = -2
     \/ cur[th].pc = "unlock" /\ cur[th].kind = "undo" /\ cur[th].retval < 0
DoneTxn(t) == ack[t] # "new" /\ \A th \in Threads :
  cur[th].kind \in {"commit", "undo"} /\ cur[th].txn = t => cur[th].pc \in Removing \cup {"unlock"}
Settled(t, i) ==
  /\ "LINGER" \in Flags[t] /\ DoneTxn(t)
  /\ \A c \in Cells : Covers(jf[i], c) => c \in WriteSet(t) /\ ValueIn(jf[i], c) = cache[c]
Calm == ~dirty /\ \A t \in Txns : ack[t] # "severe"
CalmInv ==
  Calm => \A i \in Tids : Firm(i) =>
    (\E th \in Threads : HeldBy(th, i)) \/ (\E t \in Txns : Settled(t, i))

Safe(th) == LocksOK(th) /\ FileIs(th) /\ AppliedOK(th) /\ TxnOK(th)
CallInv == \A th \in Threads : Safe(th)
JournalInv == FsckBusy /\ FsckClean /\ SureFiles
IsolationInv == CallInv /\ JournalInv /\ CalmInv /\ view = View

-----------------------------------------------------------------------------
(* What a step of a call does to its frame.                                *)

\* It fails and gives up,
Fails(th) ==
  /\ cur'[th].pc = "unlock" /\ cur'[th].tid = cur[th].tid
  /\ \/ cur[th].pc \in CommitPCs \ Applying /\ cur'[th].retval = -1
     \/ cur[th].pc \in {"unlink", "fsync_dir"} /\ cur'[th].retval = -2
     \/ /\ cur[th].pc \in Applying /\ cur'[th].retval = -1
        /\ ~HasWrites(cur[th]) \/ "ROLLBACKING" \in cur[th].flags
     \/ cur[th].pc \in Applying /\ cur'[th].retval = -2 /\ HasWrites(cur[th])

\* it goes on with its transaction file,
Records(th) ==
  /\ cur'[th].tid = cur[th].tid
  /\ \/ cur[th].pc = "get_tid" /\ cur'[th].pc = "get_tid_write"
     \/ cur[th].pc = "fill" /\ cur'[th].pc = "trailer" /\ FillFile(th)
     \/ cur[th].pc = "fill" /\ cur'[th].pc = "free_tid" /\ HeaderFails(th)
     \/ cur[th].pc = "trailer" /\ cur'[th].pc = "fsync" /\ CommitFile(th)
     \/ cur[th].pc = "fsync" /\ cur'[th].pc = "apply" /\ cur'[th].k = 1 /\ SyncFile(th)

\* with its operations,
Applies(th) ==
  /\ cur'[th].tid = cur[th].tid /\ cur[th].pc = "apply" /\ (ReadOp(th) \/ WriteOp(th))
  /\ \/ /\ cur[th].k < Len(cur[th].ops)
        /\ cur'[th].pc = "apply" /\ cur'[th].k = cur[th].k + 1
     \/ ~ (cur[th].k < Len(cur[th].ops)) /\ cur'[th].pc = "sync"

\* with the removal of its file,
Removes(th) ==
  /\ cur'[th].tid = cur[th].tid
  /\ \/ cur[th].pc = "sync" /\ cur'[th].pc = "unlink" /\ HasWrites(cur[th]) /\ cur'[th].retval = 1
     \/ /\ cur'[th].retval = cur[th].retval
        /\ \/ cur[th].pc = "unlink" /\ cur'[th].pc = "fsync_dir" /\ UnlinkFile(th)
           \/ cur[th].pc = "fsync_dir" /\ cur'[th].pc = "free_tid"
           \/ cur[th].pc = "free_tid" /\ cur'[th].pc = "free_tid_write"

\* or it has done it all.
Ends(th) ==
  /\ cur'[th].pc = "unlock" /\ cur'[th].tid = 0
  /\ \/ cur[th].pc = "sync" /\ cur'[th].retval = 1 /\ (~HasWrites(cur[th]) \/ Linger(th))
     \/ cur[th].pc = "free_tid_write" /\ cur'[th].retval = cur[th].retval

Flow(th) ==
  /\ Moves(th) /\ cur'[th].txn = cur[th].txn /\ saved' = saved
  /\ \/ Fails(th) \/ Records(th) \/ Applies(th) \/ Removes(th) \/ Ends(th)
     \/ cur[th].pc = "get_tid_write" /\ cur'[th].pc = "fill"

\* The commit begins its rollback.
Undoes(th) ==
  /\ cur[th].pc \in Applying /\ HasWrites(cur[th])
  /\ "ROLLBACKING" \notin cur[th].flags /\ "NOROLLBACK" \notin cur[th].flags
  /\ saved' = [saved EXCEPT ![th] = [cur[th] EXCEPT !.k = 1]]
  /\ cur' = [cur EXCEPT ![th] = UndoFrame(cur[th])]

LEMMA StaysFlow ==
  ASSUME NEW th \in Threads, Stays(th), saved' = saved,
         \/ Fails(th) \/ Records(th) \/ Applies(th) \/ Removes(th) \/ Ends(th)
         \/ cur[th].pc = "get_tid_write" /\ cur'[th].pc = "fill"
  PROVE  Flow(th)
  BY DEF Flow, Stays

LEMMA FailFlow ==
  ASSUME IdInv, NEW th \in Threads, cur[th].kind \in CallKinds,
         \/ LockDeadlock(th) \/ journal_new_broken(th) \/ OpenFails(th) \/ FillFails(th)
         \/ SyncFileFails(th) \/ MarkBroken(th)
  PROVE  Flow(th)
<1>1. saved' = saved
  BY DEF LockDeadlock, journal_new_broken, OpenFails, FillFails, SyncFileFails, MarkBroken
<1>2. \E rv \in {-1, -2} :
        /\ Return(th, rv)
        /\ \/ cur[th].pc \in CommitPCs \ Applying /\ rv = -1
           \/ cur[th].pc \in {"unlink", "fsync_dir"} /\ rv = -2
  <2>1. CASE \/ LockDeadlock(th) \/ journal_new_broken(th) \/ OpenFails(th) \/ FillFails(th)
             \/ SyncFileFails(th)
    <3>1. Return(th, -1)
      BY <2>1 DEF LockDeadlock, journal_new_broken, OpenFails, FillFails, SyncFileFails
    <3>2. cur[th].pc \in CommitPCs \ Applying
      BY <2>1 DEF LockDeadlock, journal_new_broken, OpenFails, FillFails, SyncFileFails, At,
           CommitPCs, Applying
    <3> QED  BY <3>1, <3>2
  <2>2. CASE MarkBroken(th)
    <3>1. ~Syncing(th)
      BY DEF Syncing, CallKinds
    <3>2. Return(th, -2) /\ cur[th].pc \in {"unlink", "fsync_dir"}
      BY <2>2, <3>1 DEF MarkBroken, At
    <3> QED  BY <3>2
  <2> QED  BY <2>1, <2>2
<1>3. PICK rv \in {-1, -2} :
        /\ Return(th, rv)
        /\ \/ cur[th].pc \in CommitPCs \ Applying /\ rv = -1
           \/ cur[th].pc \in {"unlink", "fsync_dir"} /\ rv = -2
  BY <1>2
<1>4. Stays(th) /\ cur'[th].pc = "unlock" /\ cur'[th].tid = cur[th].tid /\ cur'[th].retval = rv
  BY <1>3, ReturnStays
<1>5. Fails(th)
  BY <1>3, <1>4 DEF Fails
<1> QED  BY <1>1, <1>4, <1>5, StaysFlow

LEMMA RecordFlow ==
  ASSUME IdInv, TypedInv, NEW th \in Threads, cur[th].kind \in CallKinds,
         FillFile(th) \/ HeaderFails(th) \/ CommitFile(th) \/ SyncFile(th)
  PROVE  Flow(th)
<1>1. saved' = saved
  BY DEF FillFile, HeaderFails, CommitFile, SyncFile
<1>2. CASE FillFile(th)
  <2>1. /\ Moves(th) /\ cur'[th].txn = cur[th].txn /\ cur'[th].tid = cur[th].tid
        /\ cur[th].pc = "fill" /\ cur'[th].pc = "trailer"
    BY <1>2, FillFileDoes
  <2> QED  BY <1>1, <1>2, <2>1 DEF Flow, Records
<1>3. ASSUME NEW pc, Goto(th, pc)
      PROVE  /\ Stays(th) /\ cur'[th].pc = pc /\ cur'[th].k = 1 /\ cur'[th].tid = cur[th].tid
  BY <1>3, GotoStays
<1>4. CASE HeaderFails(th)
  <2>1. cur[th].pc = "fill" /\ Goto(th, "free_tid")
    BY <1>4 DEF HeaderFails, At
  <2>2. Records(th) /\ Stays(th)
    BY <1>3, <1>4, <2>1 DEF Records
  <2> QED  BY <1>1, <2>2, StaysFlow
<1>5. CASE CommitFile(th)
  <2>1. cur[th].pc = "trailer" /\ Goto(th, "fsync")
    BY <1>5 DEF CommitFile, At
  <2>2. Records(th) /\ Stays(th)
    BY <1>3, <1>5, <2>1 DEF Records
  <2> QED  BY <1>1, <2>2, StaysFlow
<1>6. CASE SyncFile(th)
  <2>1. cur[th].pc = "fsync" /\ Goto(th, "apply")
    BY <1>6 DEF SyncFile, At
  <2>2. Records(th) /\ Stays(th)
    BY <1>3, <1>6, <2>1 DEF Records
  <2> QED  BY <1>1, <2>2, StaysFlow
<1> QED  BY <1>2, <1>4, <1>5, <1>6

LEMMA ApplyFlow ==
  ASSUME IdInv, TypedInv, NEW th \in Threads, cur[th].kind \in CallKinds,
         \/ ReadOp(th) \/ WriteOp(th) \/ NothingToSync(th) \/ Linger(th) \/ SyncData(th)
  PROVE  Flow(th)
<1>1. saved' = saved
  BY DEF ReadOp, WriteOp, NothingToSync, Linger, SyncData
<1>2. CASE ReadOp(th) \/ WriteOp(th)
  <2>1. NextOp(th) /\ cur[th].pc = "apply"
    BY <1>2 DEF ReadOp, WriteOp, At
  <2>2. Stays(th) /\ Applies(th)
    BY <1>2, <2>1, NextOpStays DEF Applies
  <2> QED  BY <1>1, <2>2, StaysFlow
<1>3. ASSUME NEW pc, SyncDone(th, pc)
      PROVE  /\ Stays(th) /\ cur'[th].pc = pc /\ cur'[th].retval = 1
             /\ cur'[th].tid = (IF pc = "unlock" THEN 0 ELSE cur[th].tid)
  BY <1>3, SyncDoneStays
<1>4. CASE NothingToSync(th) \/ Linger(th)
  <2>1. cur[th].pc = "sync" /\ SyncDone(th, "unlock") /\ (~HasWrites(cur[th]) \/ Linger(th))
    BY <1>4 DEF NothingToSync, Linger, At
  <2>2. Stays(th) /\ Ends(th)
    BY <2>1, <1>3 DEF Ends
  <2> QED  BY <1>1, <2>2, StaysFlow
<1>5. CASE SyncData(th)
  <2>1. cur[th].pc = "sync" /\ SyncDone(th, "unlink") /\ HasWrites(cur[th])
    BY <1>5 DEF SyncData, At
  <2>2. Stays(th) /\ Removes(th)
    BY <2>1, <1>3 DEF Removes
  <2> QED  BY <1>1, <2>2, StaysFlow
<1> QED  BY <1>2, <1>4, <1>5

LEMMA RemoveFlow ==
  ASSUME IdInv, TypedInv, NEW th \in Threads, cur[th].kind \in CallKinds,
         \/ UnlinkFile(th) \/ SyncDir(th)
         \/ get_tid_read(th) \/ get_tid_write(th) \/ free_tid_read(th) \/ free_tid_write(th)
  PROVE  Flow(th)
<1>1. saved' = saved
  BY DEF UnlinkFile, SyncDir, get_tid_read, get_tid_write, free_tid_read, free_tid_write
<1>2. CASE UnlinkFile(th) \/ SyncDir(th)
  <2>1. PICK pc : /\ Goto(th, pc)
                  /\ \/ cur[th].pc = "unlink" /\ pc = "fsync_dir" /\ UnlinkFile(th)
                     \/ cur[th].pc = "fsync_dir" /\ pc = "free_tid"
    BY <1>2 DEF UnlinkFile, SyncDir, At
  <2>2. Stays(th) /\ cur'[th].pc = pc /\ cur'[th].tid = cur[th].tid
        /\ cur'[th].retval = cur[th].retval
    BY <2>1, GotoStays
  <2>3. Removes(th)
    BY <2>1, <2>2 DEF Removes
  <2> QED  BY <1>1, <2>2, <2>3, StaysFlow
<1>3. CASE get_tid_read(th) \/ get_tid_write(th) \/ free_tid_read(th) \/ free_tid_write(th)
  <2>1. ~Syncing(th)
    BY DEF Syncing, CallKinds
  <2>2. Stays(th)
    BY <1>3, TidStays
  <2>3. CASE cur[th].pc = "get_tid_write" /\ Return(th, -1) /\ cur'[th].pc = "unlock"
    <3> DEFINE rv == -1
    <3>1. Return(th, rv)
      BY <2>3
    <3> HIDE DEF rv
    <3>2. cur'[th].retval = rv /\ cur'[th].tid = cur[th].tid
      BY <3>1, ReturnStays
    <3>3. Fails(th)
      BY <2>3, <3>2 DEF Fails, CommitPCs, Applying, rv
    <3> QED  BY <1>1, <2>2, <3>3, StaysFlow
  <2>4. CASE ~ (cur[th].pc = "get_tid_write" /\ Return(th, -1) /\ cur'[th].pc = "unlock")
    <3>1. \/ Records(th) \/ Removes(th) \/ Ends(th)
          \/ cur[th].pc = "get_tid_write" /\ cur'[th].pc = "fill"
      BY <1>3, <2>1, <2>4, TidStays DEF Records, Removes, Ends
    <3> QED  BY <1>1, <2>2, <3>1, StaysFlow
  <2> QED  BY <2>3, <2>4
<1> QED  BY <1>2, <1>3

LEMMA RollbackFlow ==
  ASSUME IdInv, NEW th \in Threads, OpFails(th) \/ SyncDataFails(th)
  PROVE  Flow(th) \/ Undoes(th)
<1>1. cur[th].pc \in Applying /\ RollbackExit(th)
  BY DEF OpFails, SyncDataFails, At, Applying
<1>2. CASE saved' = saved /\ \E rv \in {-1, -2} :
             /\ Return(th, rv)
             /\ rv = -1 => ~HasWrites(cur[th]) \/ "ROLLBACKING" \in cur[th].flags
             /\ rv = -2 => HasWrites(cur[th])
  <2>1. PICK rv \in {-1, -2} :
             /\ Return(th, rv)
             /\ rv = -1 => ~HasWrites(cur[th]) \/ "ROLLBACKING" \in cur[th].flags
             /\ rv = -2 => HasWrites(cur[th])
    BY <1>2
  <2>2. Stays(th) /\ cur'[th].pc = "unlock" /\ cur'[th].tid = cur[th].tid /\ cur'[th].retval = rv
    BY <2>1, ReturnStays
  <2>3. Fails(th)
    BY <1>1, <2>1, <2>2 DEF Fails
  <2> QED  BY <1>2, <2>2, <2>3, StaysFlow
<1>3. CASE Undoes(th)
  BY <1>3
<1> QED  BY <1>1, <1>2, <1>3, RollbackCases DEF Undoes

\* The steps of a commit, and those that begin and end it.
LEMMA StepFlow ==
  ASSUME IdInv, TypedInv, NEW th \in Threads, Step(th), cur[th].kind \in CallKinds
  PROVE  LockRange(th) \/ Flow(th) \/ Undoes(th) \/ UndoReturn(th) \/ CommitReturn(th)
<1>1. ~Sync(th)
  <2>1. cur[th].pc \notin SyncPCs /\ cur[th].kind \notin {"jsync", "jclose"}
    BY DEF IdInv, ThreadOK, SyncOK, CallKinds, SyncKinds
  <2> QED  BY <2>1 DEF Sync, SyncAll, SyncAllFails, TakeLtlock, NextLinger, jsyncReturn,
               jcloseReturn, At, SyncPCs
<1> QED  BY <1>1, FailFlow, RecordFlow, ApplyFlow, RemoveFlow, RollbackFlow DEF Step, Commit

-----------------------------------------------------------------------------
(* What a step does to the transaction files.                              *)

\* Only the file of the thread's own transaction changes.
LEMMA StepFiles1 ==
  ASSUME TypedInv, NEW th \in Threads, Step(th)
  PROVE  /\ \A i \in Tids : i # cur[th].tid => jf'[i] = jf[i]
         /\ FillFile(th) /\ cur[th].tid \in Tids => jf'[cur[th].tid] = Partial
         /\ CommitFile(th) /\ cur[th].tid \in Tids => jf'[cur[th].tid] = Writes(cur[th].ops)
         /\ UnlinkFile(th) /\ cur[th].tid \in Tids => ~Complete(jf'[cur[th].tid])
         /\ ~ (\/ FillFile(th) \/ HeaderFails(th) \/ FillFails(th) \/ CommitFile(th)
               \/ UnlinkFile(th)) => jf' = jf
<1>1. jf = [i \in Tids |-> jf[i]]
  BY DEF TypedInv, TypedFiles
<1>2. CASE FillFile(th) \/ HeaderFails(th) \/ FillFails(th) \/ CommitFile(th) \/ UnlinkFile(th)
  <2>1. PICK x : jf' = [jf EXCEPT ![cur[th].tid] = x]
    BY <1>2 DEF FillFile, HeaderFails, FillFails, CommitFile, UnlinkFile, CreateFile,
         CreateAndUnlink, WriteTrailer, unlink, TruncateFile, corrupt_journal_file
  <2>2. FillFile(th) => jf' = [jf EXCEPT ![cur[th].tid] = Partial]
    BY DEF FillFile, CreateFile
  <2>3. CommitFile(th) => jf' = [jf EXCEPT ![cur[th].tid] = Writes(cur[th].ops)]
    BY DEF CommitFile, WriteTrailer
  <2>4. UnlinkFile(th) => \E y \in {NoFile, Partial} : jf' = [jf EXCEPT ![cur[th].tid] = y]
    BY DEF UnlinkFile, unlink, TruncateFile, corrupt_journal_file
  <2>5. \A i \in Tids : i # cur[th].tid => jf'[i] = jf[i]
    BY <1>1, <2>1
  <2>6. \A y : jf' = [jf EXCEPT ![cur[th].tid] = y] /\ cur[th].tid \in Tids => jf'[cur[th].tid] = y
    BY <1>1
  <2> QED  BY <1>2, <2>2, <2>3, <2>4, <2>5, <2>6 DEF Complete
<1>3. ASSUME ~ (\/ FillFile(th) \/ HeaderFails(th) \/ FillFails(th) \/ CommitFile(th)
                \/ UnlinkFile(th))
      PROVE  jf' = jf
  <2>1. ASSUME \/ LockRange(th) \/ LockDeadlock(th)
               \/ journal_new_broken(th) \/ get_tid_read(th) \/ get_tid_write(th)
               \/ OpenFails(th) \/ SyncFile(th) \/ SyncFileFails(th)
               \/ ReadOp(th) \/ WriteOp(th) \/ OpFails(th)
               \/ NothingToSync(th) \/ Linger(th) \/ SyncData(th) \/ SyncDataFails(th)
        PROVE  jf' = jf
    BY <2>1 DEF LockRange, LockDeadlock, journal_new_broken, get_tid_read, get_tid_write,
         OpenFails, SyncFile, SyncFileFails, ReadOp, WriteOp,
         OpFails, NothingToSync, Linger, SyncData, SyncDataFails, FsyncFile, dirVars, fileVars
  <2>2. ASSUME \/ SyncDir(th) \/ MarkBroken(th)
               \/ free_tid_read(th) \/ free_tid_write(th) \/ UndoReturn(th) \/ CommitReturn(th)
               \/ SyncAll(th) \/ SyncAllFails(th) \/ TakeLtlock(th) \/ NextLinger(th)
               \/ jsyncReturn(th) \/ jcloseReturn(th)
        PROVE  jf' = jf
    BY <2>2 DEF SyncDir, MarkBroken, free_tid_read, free_tid_write, UndoReturn, CommitReturn,
         SyncAll, SyncAllFails, TakeLtlock, NextLinger, jsyncReturn, jcloseReturn, fsync_dir,
         dirVars, fileVars
  <2> QED  BY <1>3, <2>1, <2>2 DEF Step, Commit, Sync
<1> QED  BY <1>2, <1>3

\* A complete file is as it was, or has just been synced or completed.
Stable(i) == jf'[i] = jf[i] /\ jstable'[i] \in {jstable[i], Linked(i)}
Synced(th, i) ==
  i = cur[th].tid /\ SyncFile(th) /\ jf'[i] = jf[i] /\ jstable'[i] = {jf[i]}
Completed(th, i) ==
  /\ i = cur[th].tid /\ CommitFile(th)
  /\ jf'[i] = Writes(cur[th].ops) /\ jstable'[i] = jstable[i] \cup {jf'[i]}

LEMMA StepFiles2 ==
  ASSUME TypedInv, NEW th \in Threads, Step(th), NEW i \in Tids, Complete(jf'[i])
  PROVE  Stable(i) \/ Synced(th, i) \/ Completed(th, i)
<1>1. /\ jf = [j \in Tids |-> jf[j]] /\ jstable = [j \in Tids |-> jstable[j]]
  BY DEF TypedInv, TypedFiles
<1>2. CASE FillFile(th) \/ HeaderFails(th) \/ FillFails(th) \/ UnlinkFile(th)
  <2>1. PICK x, S :
          /\ x \in {NoFile, Partial}
          /\ jf' = [jf EXCEPT ![cur[th].tid] = x]
          /\ jstable' = [jstable EXCEPT ![cur[th].tid] = S]
    BY <1>2 DEF FillFile, HeaderFails, FillFails, UnlinkFile, CreateFile,
         CreateAndUnlink, unlink, TruncateFile, corrupt_journal_file
  <2>2. i # cur[th].tid
    BY <1>1, <2>1 DEF Complete
  <2> QED  BY <1>1, <2>1, <2>2 DEF Stable
<1>3. CASE CommitFile(th)
  BY <1>1, <1>3 DEF CommitFile, WriteTrailer, Stable, Completed
<1>4. CASE SyncFile(th)
  BY <1>1, <1>4 DEF SyncFile, FsyncFile, Stable, Synced
<1>5. CASE SyncDir(th)
  BY <1>1, <1>5 DEF SyncDir, fsync_dir, Stable
<1>6. ASSUME UNCHANGED dirVars PROVE Stable(i)
  BY <1>6 DEF dirVars, Stable
<1>7. ASSUME \/ LockRange(th) \/ LockDeadlock(th)
             \/ journal_new_broken(th) \/ get_tid_read(th) \/ get_tid_write(th)
             \/ OpenFails(th) \/ SyncFileFails(th)
             \/ ReadOp(th) \/ WriteOp(th) \/ OpFails(th)
             \/ NothingToSync(th) \/ Linger(th) \/ SyncData(th) \/ SyncDataFails(th)
      PROVE  UNCHANGED dirVars
  BY <1>7 DEF LockRange, LockDeadlock, journal_new_broken, get_tid_read, get_tid_write,
       OpenFails, SyncFileFails, ReadOp, WriteOp,
       OpFails, NothingToSync, Linger, SyncData, SyncDataFails, dirVars, fileVars
<1>8. ASSUME \/ MarkBroken(th)
             \/ free_tid_read(th) \/ free_tid_write(th) \/ UndoReturn(th) \/ CommitReturn(th)
             \/ SyncAll(th) \/ SyncAllFails(th) \/ TakeLtlock(th) \/ NextLinger(th)
             \/ jsyncReturn(th) \/ jcloseReturn(th)
      PROVE  UNCHANGED dirVars
  BY <1>8 DEF MarkBroken, free_tid_read, free_tid_write, UndoReturn, CommitReturn,
       SyncAll, SyncAllFails, TakeLtlock, NextLinger, jsyncReturn, jcloseReturn, dirVars, fileVars
<1> QED  BY <1>2, <1>3, <1>4, <1>5, <1>6, <1>7, <1>8 DEF Step, Commit, Sync

\* Only the cells of the operation that a call is at change.
LEMMA StepCells ==
  ASSUME IdInv, TypedInv, NEW th \in Threads, Step(th)
  PROVE  \/ cache' = cache
         \/ /\ cur[th].pc = "apply" /\ IsWrite(cur[th].ops[cur[th].k])
            /\ \A c \in Cells : c \notin CellsOf(cur[th].ops[cur[th].k]) => cache'[c] = cache[c]
<1>1. TypedData
  BY DEF TypedInv
<1>2. CASE WriteOp(th)
  <2>1. cur[th].pc = "apply" /\ cur[th].ops[cur[th].k] \in Op /\ IsWrite(cur[th].ops[cur[th].k])
    BY <1>2, OpAt DEF WriteOp, At, CommitPCs
  <2>2. PICK op \in Op : op = cur[th].ops[cur[th].k]
    BY <2>1
  <2>3. PICK osync : pwrite(op, osync)
    BY <1>2, <2>2 DEF WriteOp
  <2> QED  BY <1>1, <2>1, <2>2, <2>3, WriteDoes
<1>3. CASE OpFails(th)
  <2>1. cur[th].pc = "apply" /\ cur[th].ops[cur[th].k] \in Op
    BY <1>3, OpAt DEF OpFails, At, CommitPCs
  <2>2. PICK op \in Op : op = cur[th].ops[cur[th].k]
    BY <2>1
  <2>3. CASE IsWrite(op)
    <3>1. PICK n, osync :
             /\ n \in 0 .. Len(op.buf) - 1
             /\ pwrite([op EXCEPT !.buf = SubSeq(@, 1, n)], osync)
      BY <1>3, <2>2, <2>3 DEF OpFails
    <3>2. PICK part \in Op : part = [op EXCEPT !.buf = SubSeq(@, 1, n)] /\ CellsOf(part) \subseteq CellsOf(op)
      BY <3>1, PartOfOp
    <3>3. pwrite(part, osync)
      BY <3>1, <3>2
    <3>4. \A c \in Cells : c \notin CellsOf(part) => cache'[c] = cache[c]
      BY <1>1, <3>3, WriteDoes
    <3> QED  BY <2>1, <2>2, <2>3, <3>2, <3>4
  <2>4. CASE ~IsWrite(op)
    BY <1>3, <2>2, <2>4 DEF OpFails, dataVars
  <2> QED  BY <2>3, <2>4
<1>4. CASE SyncData(th) \/ SyncAll(th)
  BY <1>1, <1>4, SyncTyped DEF SyncData, SyncAll
<1>5. ASSUME \/ LockRange(th) \/ LockDeadlock(th)
             \/ journal_new_broken(th) \/ get_tid_read(th) \/ get_tid_write(th)
             \/ FillFile(th) \/ OpenFails(th) \/ HeaderFails(th) \/ FillFails(th)
             \/ CommitFile(th) \/ SyncFile(th) \/ SyncFileFails(th)
             \/ ReadOp(th) \/ NothingToSync(th) \/ Linger(th) \/ SyncDataFails(th)
      PROVE  cache' = cache
  BY <1>5 DEF LockRange, LockDeadlock, journal_new_broken, get_tid_read, get_tid_write, FillFile,
       OpenFails, HeaderFails, FillFails, CommitFile, SyncFile, SyncFileFails, ReadOp,
       NothingToSync, Linger, SyncDataFails, dataVars, fileVars
<1>6. ASSUME \/ UnlinkFile(th) \/ SyncDir(th) \/ MarkBroken(th)
             \/ free_tid_read(th) \/ free_tid_write(th) \/ UndoReturn(th) \/ CommitReturn(th)
             \/ SyncAllFails(th) \/ TakeLtlock(th) \/ NextLinger(th)
             \/ jsyncReturn(th) \/ jcloseReturn(th)
      PROVE  cache' = cache
  BY <1>6 DEF UnlinkFile, SyncDir, MarkBroken, free_tid_read, free_tid_write, UndoReturn,
       CommitReturn, SyncAllFails, TakeLtlock, NextLinger, jsyncReturn, jcloseReturn, dataVars,
       fileVars
<1> QED  BY <1>2, <1>3, <1>4, <1>5, <1>6 DEF Step, Commit, Sync

\* The file stays open, and a check that is needed stays needed.
LEMMA StepOpen ==
  ASSUME NEW th \in Threads, Step(th)
  PROVE  open' = open /\ (dirty => dirty') /\ fsck' = fsck /\ cur[th].pc # "idle"
<1>1. fsck' = fsck
  BY DEF Step
<1>2. ASSUME \/ LockRange(th) \/ LockDeadlock(th)
             \/ journal_new_broken(th) \/ get_tid_read(th) \/ get_tid_write(th)
             \/ FillFile(th) \/ OpenFails(th) \/ HeaderFails(th) \/ FillFails(th)
             \/ CommitFile(th) \/ SyncFile(th) \/ SyncFileFails(th)
             \/ ReadOp(th) \/ WriteOp(th) \/ OpFails(th)
             \/ NothingToSync(th) \/ Linger(th) \/ SyncData(th) \/ SyncDataFails(th)
      PROVE  open' = open /\ dirty' = dirty /\ cur[th].pc # "idle"
  BY <1>2 DEF LockRange, LockDeadlock, journal_new_broken, get_tid_read, get_tid_write, FillFile,
       OpenFails, HeaderFails, FillFails, CommitFile, SyncFile, SyncFileFails, ReadOp, WriteOp,
       OpFails, NothingToSync, Linger, SyncData, SyncDataFails, procVars, At
<1>3. ASSUME \/ UnlinkFile(th) \/ SyncDir(th) \/ MarkBroken(th)
             \/ free_tid_read(th) \/ free_tid_write(th) \/ UndoReturn(th) \/ CommitReturn(th)
             \/ SyncAll(th) \/ SyncAllFails(th) \/ TakeLtlock(th) \/ NextLinger(th)
             \/ jsyncReturn(th)
      PROVE  open' = open /\ dirty' = dirty /\ cur[th].pc # "idle"
  BY <1>3 DEF UnlinkFile, SyncDir, MarkBroken, free_tid_read, free_tid_write, UndoReturn,
       CommitReturn, SyncAll, SyncAllFails, TakeLtlock, NextLinger, jsyncReturn, procVars, At
<1>4. ASSUME jcloseReturn(th) PROVE open' = open /\ cur[th].pc # "idle"
  BY <1>4 DEF jcloseReturn, At
<1>5. ASSUME jcloseReturn(th), dirty PROVE dirty'
  <2>1. dirty' = (dirty \/ ltrans[ProcOf[th]] # <<>>)
    BY <1>5 DEF jcloseReturn
  <2> QED  BY <1>5, <2>1, Zenon
<1> QED  BY <1>1, <1>2, <1>3, <1>4, <1>5 DEF Step, Commit, Sync

-----------------------------------------------------------------------------
(* The locks.                                                              *)

\* Between calls there is nothing to say of a thread.
LEMMA IdleSafe ==
  ASSUME NEW u \in Threads, cur'[u] = Idle, saved'[u] = Idle
  PROVE  Safe(u)'
<1>1. Idle.kind = "none"
  BY IdleFrame
<1> QED  BY <1>1 DEF Safe, LocksOK, FileIs, AppliedOK, TxnOK, CallKinds

\* Nor is there in jsync.
LEMMA SyncSafe ==
  ASSUME NEW u \in Threads, cur'[u].kind \in SyncKinds, saved'[u] = Idle
  PROVE  Safe(u)'
<1>1. Idle.kind = "none"
  BY IdleFrame
<1> QED  BY <1>1 DEF Safe, LocksOK, FileIs, AppliedOK, TxnOK, CallKinds, SyncKinds

LEMMA FlowPcs ==
  ASSUME NEW th \in Threads, Flow(th)
  PROVE  /\ cur[th].pc # "unlock" /\ cur'[th].pc \notin {"idle", "lock"}
         /\ cur[th].pc = "lock" => cur'[th].pc = "unlock"
         /\ cur'[th].kind = cur[th].kind /\ cur'[th].ops = cur[th].ops
         /\ cur'[th].flags = cur[th].flags /\ cur'[th].txn = cur[th].txn /\ saved' = saved
<1>1. cur[th].pc # "unlock" /\ cur'[th].pc \notin {"idle", "lock"}
  BY DEF Flow, Fails, Records, Applies, Removes, Ends, CommitPCs, Applying
<1>2. cur[th].pc = "lock" => cur'[th].pc = "unlock"
  BY DEF Flow, Fails, Records, Applies, Removes, Ends
<1> QED  BY <1>1, <1>2 DEF Flow, Moves

LEMMA FlowPlocks ==
  ASSUME NEW th \in Threads, Step(th), Flow(th) \/ Undoes(th) \/ UndoReturn(th), ~LockRange(th)
  PROVE  plocks' = plocks
<1>1. CASE CommitReturn(th)
  <2>1. cur[th].pc = "unlock" /\ cur[th].kind = "commit"
    BY <1>1 DEF CommitReturn, At
  <2>2. ~UndoReturn(th) /\ ~Undoes(th)
    BY <2>1 DEF UndoReturn, Undoes, Applying
  <2> QED  BY <2>1, <2>2, FlowPcs
<1> QED  BY <1>1, StepPlocks

LEMMA LockFlow ==
  ASSUME NEW th \in Threads, Flow(th), LocksOK(th), plocks' = plocks
  PROVE  LocksOK(th)'
<1>1. /\ cur[th].pc = "lock" => cur'[th].pc = "unlock"
      /\ cur[th].pc # "unlock" /\ cur'[th].pc # "lock"
      /\ cur'[th].kind = cur[th].kind /\ cur'[th].ops = cur[th].ops /\ saved' = saved
  BY FlowPcs
<1> QED  BY <1>1 DEF LocksOK, Covered

LEMMA LockTaken ==
  ASSUME OneThreadPerProcess, IdInv, TypedInv, NEW th \in Threads, LocksOK(th), LockRange(th)
  PROVE  LocksOK(th)' /\ saved' = saved
<1>1. /\ cur[th].kind \in CallKinds /\ cur[th].pc = "lock"
      /\ cur'[th].kind = cur[th].kind /\ cur'[th].ops = cur[th].ops
      /\ \/ cur'[th].pc = "lock" /\ cur'[th].k = cur[th].k + 1
         \/ /\ ~ (cur[th].k < Len(cur[th].ops)) /\ cur'[th].k = 1
            /\ cur'[th].pc \in {"get_tid", "apply"}
  BY LockRangeDoes DEF Moves
<1>2. saved' = saved /\ plocks' = [plocks EXCEPT ![ProcOf[th]] = @ \cup Wanted(th)]
  BY DEF LockRange
<1>3. ProcOf[th] \in Procs /\ plocks \in [Procs -> SUBSET Cells]
  BY JioAssumption DEF TypedInv, TypedLocks
<1>4. plocks'[ProcOf[th]] = plocks[ProcOf[th]] \cup CellsOf(cur[th].ops[cur[th].k])
  BY <1>2, <1>3 DEF Wanted
<1>5. cur[th].k \in 1 .. Len(cur[th].ops) /\ Len(cur[th].ops) \in Nat
  BY <1>1, CallOps
<1>6. \A m \in 1 .. cur[th].k : CellsOf(cur[th].ops[m]) \subseteq plocks'[ProcOf[th]]
  <2> SUFFICES ASSUME NEW m \in 1 .. cur[th].k
      PROVE  CellsOf(cur[th].ops[m]) \subseteq plocks'[ProcOf[th]]
    OBVIOUS
  <2>1. CASE m = cur[th].k
    BY <1>4, <2>1
  <2>2. CASE m \in 1 .. cur[th].k - 1
    BY <1>1, <1>4, <2>2 DEF LocksOK
  <2> QED  BY <1>5, <2>1, <2>2
<1>7. cur'[th].pc = "lock" => \A m \in 1 .. cur'[th].k - 1 :
        CellsOf(cur'[th].ops[m]) \subseteq plocks'[ProcOf[th]]
  BY <1>1, <1>5, <1>6
<1>8. cur'[th].pc # "lock" => Covered(cur'[th].ops, plocks'[ProcOf[th]])
  <2>1. cur'[th].pc # "lock" => cur[th].k = Len(cur[th].ops)
    BY <1>1, <1>5
  <2> QED  BY <1>1, <1>6, <2>1 DEF Covered
<1>9. cur[th].kind = "undo" => Covered(saved'[th].ops, plocks'[ProcOf[th]])
  BY <1>2, <1>4 DEF LocksOK, Covered
<1> QED  BY <1>1, <1>2, <1>7, <1>8, <1>9 DEF LocksOK, Covered

\* The undo operations are on the cells of the write operations they undo.
LEMMA UndoCells ==
  ASSUME NEW f, f.ops \in OpLists, PrevOK(f)
  PROVE  \A m \in 1 .. Len(UndoOps(f)) : \E k \in 1 .. Len(f.ops) :
           IsWrite(f.ops[k]) /\ CellsOf(UndoOps(f)[m]) = CellsOf(f.ops[k])
<1>1. PICK u \in Seq(Op) : /\ u = Undo(f) /\ UndoOps(f) = Writes(u)
                           /\ Len(u) = Len(f.ops) /\ Len(f.ops) \in Nat
  BY UndoIs
<1>2. PICK w \in Seq(Op) : w = Writes(u)
  BY WritesPick
<1>3. PICK e : Picks(u, Len(u), w, e)
  BY <1>2, WritesPick
<1> SUFFICES ASSUME NEW m \in 1 .. Len(w)
    PROVE  \E k \in 1 .. Len(f.ops) : IsWrite(f.ops[k]) /\ CellsOf(w[m]) = CellsOf(f.ops[k])
  BY <1>1, <1>2
<1>4. PICK j \in 1 .. Len(u) : w[m] = u[j] /\ IsWrite(u[j])
  BY <1>3 DEF Picks
<1>5. j \in 1 .. Len(f.ops)
  BY <1>1, <1>4
<1>6. PICK k : k = Len(f.ops) + 1 - j
  OBVIOUS
<1>7. /\ k \in 1 .. Len(f.ops)
      /\ Undo(f)[j].dir = f.ops[k].dir /\ CellsOf(Undo(f)[j]) = CellsOf(f.ops[k])
  BY <1>5, <1>6, UndoIs
<1>8. u[j].dir = f.ops[k].dir /\ CellsOf(u[j]) = CellsOf(f.ops[k])
  BY <1>1, <1>7
<1>9. IsWrite(f.ops[k])
  BY <1>4, <1>8 DEF IsWrite
<1> QED  BY <1>4, <1>7, <1>8, <1>9

LEMMA UndoFacts ==
  ASSUME IdInv, TypedInv, NEW th \in Threads, Undoes(th)
  PROVE  /\ cur[th].kind \in CallKinds \ {"undo"} /\ cur[th].ops \in OpLists /\ PrevOK(cur[th])
         /\ cur'[th].kind = "undo" /\ cur'[th].pc = "get_tid" /\ cur'[th].txn = cur[th].txn
         /\ cur'[th].ops = UndoOps(cur[th]) /\ cur'[th].tid = 0
         /\ cur'[th].flags = cur[th].flags \cup {"NOLOCK", "ROLLBACKING"}
         /\ saved'[th].kind = cur[th].kind /\ saved'[th].txn = cur[th].txn
         /\ saved'[th].ops = cur[th].ops /\ saved'[th].flags = cur[th].flags
         /\ saved'[th].tid = cur[th].tid
<1>1. cur[th].kind \in CallKinds
  BY CommitKind DEF Undoes, Applying, CommitPCs
<1>2. cur[th].ops \in OpLists /\ PrevOK(cur[th])
  BY <1>1 DEF Undoes, TypedInv, TypedThread, OpsOK
<1>3. cur[th].kind # "undo"
  BY DEF Undoes, IdInv, ThreadOK, CallOK
<1> QED  BY <1>1, <1>2, <1>3, UndoDoes DEF Undoes

LEMMA LockUndo ==
  ASSUME IdInv, TypedInv, NEW th \in Threads, LocksOK(th), plocks' = plocks,
         Undoes(th) \/ UndoReturn(th)
  PROVE  LocksOK(th)'
<1>1. CASE Undoes(th)
  <2>1. /\ cur[th].kind \in CallKinds \ {"undo"} /\ cur[th].ops \in OpLists /\ PrevOK(cur[th])
        /\ cur'[th].kind = "undo" /\ cur'[th].pc = "get_tid"
        /\ cur'[th].ops = UndoOps(cur[th]) /\ saved'[th].ops = cur[th].ops
    BY <1>1, UndoFacts
  <2>2. Covered(cur[th].ops, plocks[ProcOf[th]])
    BY <1>1, <2>1 DEF LocksOK, Undoes, Applying
  <2>3. Covered(UndoOps(cur[th]), plocks[ProcOf[th]])
    BY <2>1, <2>2, UndoCells DEF Covered
  <2> QED  BY <2>1, <2>2, <2>3 DEF LocksOK, Covered
<1>2. CASE UndoReturn(th)
  <2>1. /\ cur[th].kind = "undo" /\ cur'[th].pc # "lock" /\ cur'[th].kind # "undo"
        /\ cur'[th].ops = saved[th].ops
    BY <1>2, UndoReturnDoes
  <2> QED  BY <2>1 DEF LocksOK, Covered
<1> QED  BY <1>1, <1>2

-----------------------------------------------------------------------------
(* The transaction files.                                                  *)

\* Nobody else changes the file of a call, and nobody that of a commit that is
\* being undone.
LEMMA FileKept ==
  ASSUME IdInv, TypedInv, NEW th \in Threads, Step(th), NEW i \in Tids, NEW u \in Threads,
         (u # th /\ CallOwns(u, i)) \/ SavedOwns(u, i)
  PROVE  jf'[i] = jf[i]
<1>1. CASE i # cur[th].tid
  BY <1>1, StepFiles1
<1>2. CASE jf' = jf
  BY <1>2
<1>3. CASE i = cur[th].tid /\ jf' # jf
  <2>1. FillFile(th) \/ HeaderFails(th) \/ FillFails(th) \/ CommitFile(th) \/ UnlinkFile(th)
    BY <1>3, StepFiles1
  <2>2. cur[th].pc \in WithId
    BY <2>1 DEF FillFile, HeaderFails, FillFails, CommitFile, UnlinkFile, At, WithId
  <2>3. CallOwns(th, i) \/ LingerOwns(ProcOf[th], 1, i)
    BY <1>3, <2>2, IdOwner DEF IdInv
  <2>4. ProcOf[th] \in Procs
    BY JioAssumption
  <2> QED  BY <2>3, <2>4 DEF IdInv, DistinctInv
<1> QED  BY <1>1, <1>2, <1>3

\* The ids of a call's file, and of the file of the commit it undoes.
LEMMA FileIds ==
  ASSUME IdInv, NEW u \in Threads
  PROVE  /\ /\ cur[u].kind \in CallKinds
            /\ cur[u].pc = "trailer" \/ WithFile(cur[u])
            => cur[u].tid \in Tids /\ CallOwns(u, cur[u].tid)
         /\ cur[u].kind = "undo" => saved[u].tid \in Tids /\ SavedOwns(u, saved[u].tid)
<1>1. HasId(u) /\ CallOK(u)
  BY DEF IdInv, ThreadOK
<1> QED  BY <1>1 DEF HasId, CallOK, WithFile, WithId, Applying, CallOwns, SavedOwns

LEMMA SameWriteOps ==
  ASSUME NEW u \in Threads
  PROVE  /\ cur'[u].ops = cur[u].ops => Writes(cur[u].ops)' = Writes(cur[u].ops)
         /\ saved'[u].ops = saved[u].ops => Writes(saved[u].ops)' = Writes(saved[u].ops)
         /\ saved'[u].ops = cur[u].ops => Writes(saved[u].ops)' = Writes(cur[u].ops)
         /\ cur'[u].ops = saved[u].ops => Writes(cur[u].ops)' = Writes(saved[u].ops)
  BY DEF Writes

LEMMA SameHasWrites ==
  ASSUME NEW u \in Threads, cur'[u].ops = cur[u].ops
  PROVE  HasWrites(cur[u])' <=> HasWrites(cur[u])
  BY SameWrites

\* Whether a call has its complete file, when it is in the same call later.
LEMMA WithFileIs ==
  ASSUME NEW u \in Threads, cur'[u].ops = cur[u].ops
  PROVE  WithFile(cur[u])' <=>
           cur'[u].pc \in {"fsync", "unlink"} \/ (cur'[u].pc \in Applying /\ HasWrites(cur[u]))
  BY SameHasWrites DEF WithFile

LEMMA FileOther ==
  ASSUME IdInv, TypedInv, NEW u \in Threads, FileIs(u), cur'[u] = cur[u], saved'[u] = saved[u],
         \A i \in Tids : CallOwns(u, i) \/ SavedOwns(u, i) => jf'[i] = jf[i]
  PROVE  FileIs(u)'
<1>1. WithFile(cur[u])' <=> WithFile(cur[u])
  BY WithFileIs DEF WithFile
<1>2. HasWrites(cur[u])' <=> HasWrites(cur[u])
  BY SameHasWrites
<1>3. Writes(cur[u].ops)' = Writes(cur[u].ops) /\ Writes(saved[u].ops)' = Writes(saved[u].ops)
  BY SameWriteOps
<1>4. /\ /\ cur[u].kind \in CallKinds
         /\ cur[u].pc = "trailer" \/ WithFile(cur[u])
         => jf'[cur[u].tid] = jf[cur[u].tid]
      /\ cur[u].kind = "undo" => jf'[saved[u].tid] = jf[saved[u].tid]
  BY FileIds
<1> QED  BY <1>1, <1>2, <1>3, <1>4 DEF FileIs

\* The file of the commit that is being undone.
LEMMA SavedFile ==
  ASSUME IdInv, TypedInv, NEW th \in Threads, Step(th), FileIs(th), saved' = saved,
         cur[th].kind = "undo"
  PROVE  jf'[saved'[th].tid] = Writes(saved[th].ops)'
<1>1. Writes(saved[th].ops)' = Writes(saved[th].ops) /\ jf[saved[th].tid] = Writes(saved[th].ops)
  BY SameWriteOps DEF FileIs
<1>2. jf'[saved[th].tid] = jf[saved[th].tid]
  BY FileIds, FileKept
<1> QED  BY <1>1, <1>2

\* A step that does not change the files.
LEMMA FileFlow ==
  ASSUME IdInv, TypedInv, NEW th \in Threads, Step(th), Flow(th), FileIs(th),
         cur[th].kind \in CallKinds
  PROVE  FileIs(th)'
<1>1. /\ cur'[th].kind = cur[th].kind /\ cur'[th].ops = cur[th].ops /\ saved' = saved
      /\ cur'[th].pc # "lock"
  BY FlowPcs
<1>2. Writes(cur[th].ops)' = Writes(cur[th].ops) /\ (HasWrites(cur[th])' <=> HasWrites(cur[th]))
  BY <1>1, SameWriteOps, SameHasWrites
<1>3. cur'[th].pc = "trailer" => jf'[cur'[th].tid] = Partial
  <2> SUFFICES ASSUME cur'[th].pc = "trailer" PROVE jf'[cur'[th].tid] = Partial
    OBVIOUS
  <2>1. FillFile(th) /\ cur'[th].tid = cur[th].tid /\ cur[th].pc = "fill"
    BY DEF Flow, Fails, Records, Applies, Removes, Ends
  <2>2. cur[th].tid \in Tids
    BY <2>1 DEF IdInv, ThreadOK, HasId, WithId
  <2> QED  BY <2>1, <2>2, StepFiles1
<1>4. WithFile(cur[th])' => jf'[cur'[th].tid] = Writes(cur[th].ops)
  <2> SUFFICES ASSUME WithFile(cur[th])' PROVE jf'[cur'[th].tid] = Writes(cur[th].ops)
    OBVIOUS
  <2>1. cur'[th].pc \in {"fsync", "unlink"} \/ (cur'[th].pc \in Applying /\ HasWrites(cur[th]))
    BY <1>1, WithFileIs
  <2>2. cur'[th].tid = cur[th].tid
    BY <2>1 DEF Flow, Fails, Records, Applies, Removes, Ends, Applying
  <2>3. CASE cur'[th].pc = "fsync"
    <3>1. CommitFile(th) /\ cur[th].pc = "trailer"
      BY <2>3 DEF Flow, Fails, Records, Applies, Removes, Ends
    <3>2. cur[th].tid \in Tids
      BY <3>1 DEF IdInv, ThreadOK, HasId, WithId
    <3> QED  BY <2>2, <3>1, <3>2, StepFiles1
  <2>4. CASE cur'[th].pc # "fsync"
    <3>1. WithFile(cur[th]) /\ cur[th].pc \in {"fsync", "apply", "sync"}
      BY <2>1, <2>4 DEF Flow, Fails, Records, Applies, Removes, Ends, Applying, WithFile
    <3>2. jf' = jf
      BY <3>1, StepFiles1 DEF FillFile, HeaderFails, FillFails, CommitFile, UnlinkFile, At
    <3> QED  BY <2>2, <3>1, <3>2 DEF FileIs
  <2> QED  BY <2>3, <2>4
<1>5. cur'[th].pc \in Applying /\ ~HasWrites(cur[th]) => cur'[th].tid = 0
  <2> SUFFICES ASSUME cur'[th].pc \in Applying, ~HasWrites(cur[th]) PROVE cur'[th].tid = 0
    OBVIOUS
  <2>1. cur[th].pc = "fsync" \/ (cur[th].pc \in Applying /\ cur'[th].tid = cur[th].tid)
    BY DEF Flow, Fails, Records, Applies, Removes, Ends, Applying
  <2>2. cur[th].pc # "fsync"
    BY DEF TypedInv, TypedThread, OpsOK, Recording
  <2> QED  BY <2>1, <2>2 DEF FileIs
<1>6. cur[th].kind = "undo" => jf'[saved'[th].tid] = Writes(saved[th].ops)'
  BY <1>1, SavedFile
<1> QED  BY <1>1, <1>2, <1>3, <1>4, <1>5, <1>6 DEF FileIs

LEMMA FileLocked ==
  ASSUME IdInv, TypedInv, NEW th \in Threads, Step(th), LockRange(th), FileIs(th), saved' = saved
  PROVE  FileIs(th)'
<1>1. /\ cur[th].kind \in CallKinds /\ cur[th].pc = "lock"
      /\ cur'[th].kind = cur[th].kind /\ cur'[th].ops = cur[th].ops
      /\ cur'[th].tid = cur[th].tid
      /\ cur'[th].pc \in {"lock", "get_tid"} \/ (cur'[th].pc = "apply" /\ ~HasWrites(cur[th]))
  BY LockRangeDoes DEF Moves
<1>2. HasWrites(cur[th])' <=> HasWrites(cur[th])
  BY <1>1, SameHasWrites
<1>3. ~WithFile(cur[th])'
  BY <1>1, WithFileIs DEF Applying
<1>4. cur[th].tid = 0
  BY <1>1 DEF FileIs
<1>5. cur[th].kind = "undo" => jf'[saved'[th].tid] = Writes(saved[th].ops)'
  BY SavedFile
<1> QED  BY <1>1, <1>2, <1>3, <1>4, <1>5 DEF FileIs

LEMMA FileUndo ==
  ASSUME IdInv, TypedInv, NEW th \in Threads, FileIs(th), jf' = jf, Undoes(th) \/ UndoReturn(th)
  PROVE  FileIs(th)'
<1>1. CASE Undoes(th)
  <2>1. /\ cur[th].kind \in CallKinds \ {"undo"} /\ cur[th].pc \in Applying /\ HasWrites(cur[th])
        /\ cur'[th].kind = "undo" /\ cur'[th].pc = "get_tid"
        /\ saved'[th].ops = cur[th].ops /\ saved'[th].tid = cur[th].tid
    BY <1>1, UndoFacts DEF Undoes
  <2>2. jf[cur[th].tid] = Writes(cur[th].ops)
    BY <2>1 DEF FileIs, WithFile
  <2>3. Writes(saved[th].ops)' = Writes(cur[th].ops)
    BY <2>1, SameWriteOps
  <2>4. ~WithFile(cur[th])'
    BY <2>1 DEF WithFile, Applying
  <2> QED  BY <2>1, <2>2, <2>3, <2>4 DEF FileIs, Applying
<1>2. CASE UndoReturn(th)
  <2>1. /\ cur[th].kind = "undo" /\ cur'[th].pc \in {"unlink", "unlock"} /\ cur'[th].kind # "undo"
        /\ cur'[th].ops = saved[th].ops /\ cur'[th].tid = saved[th].tid
    BY <1>2, UndoReturnDoes
  <2>2. Writes(cur[th].ops)' = Writes(saved[th].ops) /\ jf[saved[th].tid] = Writes(saved[th].ops)
    BY <2>1, SameWriteOps DEF FileIs
  <2> QED  BY <2>1, <2>2 DEF FileIs, Applying
<1> QED  BY <1>1, <1>2

-----------------------------------------------------------------------------
(* What has been written.                                                  *)

\* The cells of another process's operations are not written.
LEMMA AppliedOther ==
  ASSUME TypedInv, NEW u \in Threads, AppliedOK(u), LocksOK(u), cur'[u] = cur[u],
         \A c \in plocks[ProcOf[u]] : cache'[c] = cache[c]
  PROVE  AppliedOK(u)'
<1> SUFFICES ASSUME cur[u].kind \in CallKinds, cur[u].pc \in Applying,
                    NEW m \in 1 .. Done(cur[u]), NEW c \in Cells,
                    Latest(cur[u].ops, Done(cur[u]), m, c)
    PROVE  cache'[c] = cur[u].ops[m].buf[c - cur[u].ops[m].off + 1]
  BY DEF AppliedOK, Found, Done, Latest
<1>1. cache[c] = cur[u].ops[m].buf[c - cur[u].ops[m].off + 1]
  BY DEF AppliedOK, Found
<1>2. m \in 1 .. Len(cur[u].ops)
  <2>1. cur[u].k \in 1 .. Len(cur[u].ops) /\ Len(cur[u].ops) \in Nat
    BY CallOps
  <2> QED  BY <2>1 DEF Done
<1>3. c \in plocks[ProcOf[u]]
  BY <1>2 DEF LocksOK, Covered, Applying, Latest
<1> QED  BY <1>1, <1>3

LEMMA StepCellsOther ==
  ASSUME OneThreadPerProcess, IdInv, TypedInv, NEW th \in Threads, Step(th), LocksOK(th),
         NEW u \in Threads, u # th
  PROVE  \A c \in plocks[ProcOf[u]] : cache'[c] = cache[c]
<1> SUFFICES ASSUME NEW c \in plocks[ProcOf[u]], cache' # cache PROVE cache'[c] = cache[c]
  OBVIOUS
<1>1. ProcOf[u] \in Procs /\ ProcOf[th] \in Procs /\ ProcOf[u] # ProcOf[th]
  BY JioAssumption DEF OneThreadPerProcess
<1>2. c \in Cells /\ c \notin plocks[ProcOf[th]]
  BY <1>1 DEF TypedInv, TypedLocks
<1>3. /\ cur[th].pc = "apply"
      /\ c \notin CellsOf(cur[th].ops[cur[th].k]) => cache'[c] = cache[c]
  BY <1>2, StepCells
<1>4. cur[th].kind \in CallKinds
  BY <1>3, CommitKind DEF CommitPCs
<1>5. CellsOf(cur[th].ops[cur[th].k]) \subseteq plocks[ProcOf[th]]
  BY <1>3, <1>4, CallOps DEF LocksOK, Covered
<1> QED  BY <1>2, <1>3, <1>5

\* One more operation is done.
LEMMA FoundNext ==
  ASSUME IdInv, TypedInv, NEW th \in Threads, AppliedOK(th), ReadOp(th) \/ WriteOp(th)
  PROVE  Found(cur[th].ops, cur[th].k, cache')
<1>1. cur[th].pc = "apply" /\ cur[th].kind \in CallKinds
  BY CommitKind DEF ReadOp, WriteOp, At, CommitPCs
<1>2. PICK ops, k : ops = cur[th].ops /\ k = cur[th].k
  OBVIOUS
<1>3. k \in Nat /\ k >= 1 /\ ops[k] \in Op
  BY <1>1, <1>2, CallOps
<1>4. Found(ops, k - 1, cache)
  BY <1>1, <1>2 DEF AppliedOK, Applying, Done
<1>5. IF IsWrite(ops[k])
      THEN \A c \in Cells :
             IF c \in CellsOf(ops[k]) THEN cache'[c] = ops[k].buf[c - ops[k].off + 1]
             ELSE cache'[c] = cache[c]
      ELSE cache' = cache
  <2>1. CASE WriteOp(th)
    <3>1. PICK osync : pwrite(ops[k], osync) /\ IsWrite(ops[k])
      BY <1>2, <2>1 DEF WriteOp
    <3> QED  BY <1>3, <3>1, WriteDoes DEF TypedInv
  <2>2. CASE ReadOp(th)
    BY <1>2, <2>2 DEF ReadOp, fileVars, dataVars
  <2> QED  BY <2>1, <2>2
<1>6. ASSUME NEW m \in 1 .. k, NEW c \in Cells, Latest(ops, k, m, c)
      PROVE  cache'[c] = ops[m].buf[c - ops[m].off + 1]
  <2>1. CASE m = k
    BY <1>5, <1>6, <2>1 DEF Latest
  <2>2. CASE m # k
    <3>1. m \in 1 .. k - 1 /\ k \in m + 1 .. k /\ \A l \in m + 1 .. k - 1 : l \in m + 1 .. k
      BY <1>3, <2>2
    <3>2. Latest(ops, k - 1, m, c)
      BY <1>6, <3>1 DEF Latest
    <3>3. cache[c] = ops[m].buf[c - ops[m].off + 1]
      BY <1>4, <3>1, <3>2 DEF Found
    <3>4. IsWrite(ops[k]) => c \notin CellsOf(ops[k])
      BY <1>6, <3>1 DEF Latest
    <3> QED  BY <1>5, <3>3, <3>4
  <2> QED  BY <2>1, <2>2
<1>7. Found(ops, k, cache')
  BY <1>6 DEF Found
<1> QED  BY <1>2, <1>7

LEMMA AppliedFlow ==
  ASSUME IdInv, TypedInv, NEW th \in Threads, AppliedOK(th), cur[th].kind \in CallKinds,
         Step(th), LockRange(th) \/ Flow(th)
  PROVE  AppliedOK(th)'
<1>1. CASE LockRange(th)
  <2>1. cur'[th].pc \in {"lock", "get_tid"} \/ (cur'[th].pc = "apply" /\ cur'[th].k = 1)
    BY <1>1, LockRangeDoes
  <2> QED  BY <2>1 DEF AppliedOK, Applying, Done, Found
<1>2. CASE Flow(th) /\ cur'[th].pc \notin Applying
  BY <1>2 DEF AppliedOK
<1>3. CASE Flow(th) /\ cur'[th].pc \in Applying
  <2>1. /\ cur'[th].kind = cur[th].kind /\ cur'[th].ops = cur[th].ops
        /\ (cur'[th].pc = "apply" /\ cur'[th].k = 1) \/ Applies(th)
    BY <1>3 DEF Flow, Moves, Fails, Records, Removes, Ends, Applying
  <2>2. CASE cur'[th].pc = "apply" /\ cur'[th].k = 1
    BY <2>2 DEF AppliedOK, Done, Found
  <2>3. CASE Applies(th)
    <3>1. Found(cur[th].ops, cur[th].k, cache')
      BY <2>3, FoundNext DEF Applies
    <3>2. cur[th].k \in 1 .. Len(cur[th].ops) /\ Len(cur[th].ops) \in Nat
      BY CallOps
    <3>3. Done(cur[th])' = cur[th].k
      BY <2>1, <2>3, <3>2 DEF Applies, Done
    <3>4. Found(cur'[th].ops, Done(cur[th])', cache')
      BY <2>1, <3>1, <3>3
    <3> QED  BY <3>4 DEF AppliedOK, Found, Latest
  <2> QED  BY <2>1, <2>2, <2>3
<1> QED  BY <1>1, <1>2, <1>3

LEMMA AppliedUndo ==
  ASSUME IdInv, TypedInv, NEW th \in Threads, Undoes(th) \/ UndoReturn(th)
  PROVE  AppliedOK(th)'
<1>1. cur'[th].pc \in {"get_tid", "unlink", "unlock"}
  BY UndoFacts, UndoReturnDoes
<1> QED  BY <1>1 DEF AppliedOK, Applying

-----------------------------------------------------------------------------
(* The transactions.                                                       *)

LEMMA TxnOther ==
  ASSUME NEW u \in Threads, TxnOK(u), cur'[u] = cur[u], saved'[u] = saved[u],
         \/ ack' = ack
         \/ \E t, x : ack' = [ack EXCEPT ![t] = x] /\ (t \in Txns => Runner[t] # u),
         ack \in [Txns -> Acks]
  PROVE  TxnOK(u)'
<1>1. \A t \in Txns : Runner[t] = u => ack'[t] = ack[t]
  OBVIOUS
<1> QED  BY <1>1 DEF TxnOK, Covered

LEMMA StepAckIs ==
  ASSUME NEW th \in Threads, Step(th)
  PROVE  ack' = ack \/ CommitReturn(th)
<1>1. ASSUME \/ LockRange(th) \/ LockDeadlock(th)
             \/ journal_new_broken(th) \/ get_tid_read(th) \/ get_tid_write(th)
             \/ FillFile(th) \/ OpenFails(th) \/ HeaderFails(th) \/ FillFails(th)
             \/ CommitFile(th) \/ SyncFile(th) \/ SyncFileFails(th)
             \/ ReadOp(th) \/ WriteOp(th) \/ OpFails(th)
             \/ NothingToSync(th) \/ Linger(th) \/ SyncData(th) \/ SyncDataFails(th)
      PROVE  ack' = ack
  BY <1>1 DEF LockRange, LockDeadlock, journal_new_broken, get_tid_read, get_tid_write, FillFile,
       OpenFails, HeaderFails, FillFails, CommitFile, SyncFile, SyncFileFails, ReadOp, WriteOp,
       OpFails, NothingToSync, Linger, SyncData, SyncDataFails
<1>2. ASSUME \/ UnlinkFile(th) \/ SyncDir(th) \/ MarkBroken(th)
             \/ free_tid_read(th) \/ free_tid_write(th) \/ UndoReturn(th)
             \/ SyncAll(th) \/ SyncAllFails(th) \/ TakeLtlock(th) \/ NextLinger(th)
             \/ jsyncReturn(th) \/ jcloseReturn(th)
      PROVE  ack' = ack
  BY <1>2 DEF UnlinkFile, SyncDir, MarkBroken, free_tid_read, free_tid_write, UndoReturn, SyncAll,
       SyncAllFails, TakeLtlock, NextLinger, jsyncReturn, jcloseReturn
<1> QED  BY <1>1, <1>2 DEF Step, Commit, Sync

LEMMA TxnMoves ==
  ASSUME NEW th \in Threads, TxnOK(th), ack' = ack, saved' = saved, Moves(th),
         cur'[th].txn = cur[th].txn
  PROVE  TxnOK(th)'
  BY DEF TxnOK, Moves, Covered

LEMMA TxnUndo ==
  ASSUME IdInv, TypedInv, NEW th \in Threads, TxnOK(th), ack' = ack,
         Undoes(th) \/ UndoReturn(th)
  PROVE  TxnOK(th)'
<1>1. CASE Undoes(th)
  <2>1. /\ cur[th].kind \in CallKinds \ {"undo"} /\ cur[th].ops \in OpLists /\ PrevOK(cur[th])
        /\ cur'[th].kind = "undo" /\ cur'[th].txn = cur[th].txn
        /\ cur'[th].ops = UndoOps(cur[th])
        /\ cur'[th].flags = cur[th].flags \cup {"NOLOCK", "ROLLBACKING"}
        /\ saved'[th].kind = cur[th].kind /\ saved'[th].txn = cur[th].txn
        /\ saved'[th].ops = cur[th].ops /\ saved'[th].flags = cur[th].flags
    BY <1>1, UndoFacts
  <2>2. cur[th].kind = "commit" => Covered(cur'[th].ops, WriteSet(cur[th].txn))
    <3> SUFFICES ASSUME cur[th].kind = "commit",
                        NEW m \in 1 .. Len(UndoOps(cur[th])),
                        NEW c \in CellsOf(UndoOps(cur[th])[m])
        PROVE  c \in WriteSet(cur[th].txn)
      BY <2>1 DEF Covered
    <3>1. PICK k \in 1 .. Len(cur[th].ops) :
            IsWrite(cur[th].ops[k]) /\ CellsOf(UndoOps(cur[th])[m]) = CellsOf(cur[th].ops[k])
      BY <2>1, UndoCells
    <3>2. cur[th].ops = Ops[cur[th].txn] /\ cur[th].txn \in Txns
      BY DEF TxnOK
    <3>3. k \in DOMAIN Ops[cur[th].txn]
      BY <2>1, <3>1, <3>2, FirstOp
    <3> QED  BY <3>1, <3>2, <3>3 DEF WriteSet
  <2>3. /\ cur[th].kind = "commit" =>
             /\ cur[th].txn \in Txns /\ Runner[cur[th].txn] = th /\ ack[cur[th].txn] = "running"
             /\ cur[th].ops = Ops[cur[th].txn] /\ cur[th].flags = Flags[cur[th].txn]
        /\ cur[th].kind = "redo" => cur[th].flags = {}
    BY DEF TxnOK
  <2>4. "LINGER" \in cur'[th].flags => "LINGER" \in cur[th].flags
    BY <2>1
  <2>5. Covered(cur[th].ops, WriteSet(cur[th].txn))' <=> Covered(cur'[th].ops, WriteSet(cur[th].txn))
    BY <2>1 DEF Covered
  <2> QED  BY <2>1, <2>2, <2>3, <2>4, <2>5 DEF TxnOK
<1>2. CASE UndoReturn(th)
  <2>1. /\ cur[th].kind = "undo" /\ cur'[th].kind = saved[th].kind /\ cur'[th].txn = saved[th].txn
        /\ cur'[th].ops = saved[th].ops /\ cur'[th].flags = saved[th].flags
        /\ saved'[th] = Idle /\ saved[th].kind \in CallKinds \ {"undo"}
    BY <1>2, UndoReturnDoes
  <2> QED  BY <2>1, IdleFrame DEF TxnOK
<1> QED  BY <1>1, <1>2

-----------------------------------------------------------------------------
(* All of it, for every thread.                                            *)

LEMMA OtherSafe ==
  ASSUME IdInv, TypedInv, NEW u \in Threads, Safe(u), cur'[u] = cur[u], saved'[u] = saved[u],
         plocks'[ProcOf[u]] = plocks[ProcOf[u]],
         \A i \in Tids : CallOwns(u, i) \/ SavedOwns(u, i) => jf'[i] = jf[i],
         \A c \in plocks[ProcOf[u]] : cache'[c] = cache[c],
         \/ ack' = ack
         \/ \E t, x : ack' = [ack EXCEPT ![t] = x] /\ (t \in Txns => Runner[t] # u)
  PROVE  Safe(u)'
<1>1. LocksOK(u)'
  BY DEF Safe, LocksOK, Covered
<1>2. FileIs(u)'
  BY FileOther DEF Safe
<1>3. AppliedOK(u)'
  BY AppliedOther DEF Safe
<1>4. TxnOK(u)'
  BY TxnOther DEF Safe, TypedInv
<1> QED  BY <1>1, <1>2, <1>3, <1>4 DEF Safe

LEMMA StepOthersSafe ==
  ASSUME OneThreadPerProcess, IdInv, TypedInv, CallInv, NEW th \in Threads, Step(th),
         NEW u \in Threads, u # th
  PROVE  Safe(u)'
<1>1. ProcOf[u] \in Procs /\ ProcOf[u] # ProcOf[th]
  BY JioAssumption DEF OneThreadPerProcess
<1>2. cur'[u] = cur[u] /\ saved'[u] = saved[u] /\ plocks'[ProcOf[u]] = plocks[ProcOf[u]]
  BY <1>1, StepElsewhere DEF Elsewhere
<1>3. \A i \in Tids : CallOwns(u, i) \/ SavedOwns(u, i) => jf'[i] = jf[i]
  BY FileKept
<1>4. \A c \in plocks[ProcOf[u]] : cache'[c] = cache[c]
  BY StepCellsOther DEF CallInv, Safe
<1>5. \/ ack' = ack
      \/ \E t, x : ack' = [ack EXCEPT ![t] = x] /\ (t \in Txns => Runner[t] # u)
  <2>1. CASE CommitReturn(th)
    <3>1. cur[th].kind = "commit" /\ \E x : ack' = [ack EXCEPT ![cur[th].txn] = x]
      BY <2>1 DEF CommitReturn
    <3>2. Runner[cur[th].txn] # u
      BY <3>1 DEF CallInv, Safe, TxnOK
    <3> QED  BY <3>1, <3>2
  <2> QED  BY <2>1, StepAckIs
<1> QED  BY <1>2, <1>3, <1>4, <1>5, OtherSafe DEF CallInv

LEMMA StepSafe ==
  ASSUME OneThreadPerProcess, IdInv, TypedInv, CallInv, NEW th \in Threads, Step(th)
  PROVE  CallInv'
<1>1. LocksOK(th) /\ FileIs(th) /\ AppliedOK(th) /\ TxnOK(th)
  BY DEF CallInv, Safe
<1>2. ack' = ack \/ CommitReturn(th)
  BY StepAckIs
<1>3. CASE CommitReturn(th) \/ jsyncReturn(th) \/ jcloseReturn(th)
  BY <1>3, ReturnsTyped, IdleSafe, StepOthersSafe DEF CallInv
<1>4. CASE cur[th].kind \in CallKinds /\ ~CommitReturn(th)
  <2> SUFFICES Safe(th)'
    BY StepOthersSafe DEF CallInv
  <2>1. CASE LockRange(th)
    <3>1. LocksOK(th)' /\ saved' = saved
      BY <1>1, <2>1, LockTaken
    <3>2. Moves(th) /\ cur'[th].txn = cur[th].txn
      BY <2>1, LockRangeDoes
    <3>3. FileIs(th)' /\ AppliedOK(th)' /\ TxnOK(th)'
      BY <1>1, <1>2, <1>4, <2>1, <3>1, <3>2, FileLocked, AppliedFlow, TxnMoves
    <3> QED  BY <3>1, <3>3 DEF Safe
  <2>2. CASE Flow(th) /\ ~LockRange(th)
    <3>1. plocks' = plocks
      BY <2>2, FlowPlocks
    <3>2. LocksOK(th)'
      BY <1>1, <2>2, <3>1, LockFlow
    <3>3. FileIs(th)' /\ AppliedOK(th)' /\ TxnOK(th)'
      BY <1>1, <1>2, <1>4, <2>2, FileFlow, AppliedFlow, TxnMoves DEF Flow
    <3> QED  BY <3>2, <3>3 DEF Safe
  <2>3. CASE Undoes(th) \/ UndoReturn(th)
    <3>1. cur[th].pc # "lock" /\ cur[th].pc \notin {"fill", "trailer"} /\ ~UnlinkFile(th)
      BY <2>3 DEF Undoes, UndoReturn, UnlinkFile, At, Applying
    <3>2. /\ ~FillFile(th) /\ ~HeaderFails(th) /\ ~FillFails(th) /\ ~CommitFile(th)
          /\ ~LockRange(th)
      BY <3>1 DEF LockRange, FillFile, HeaderFails, FillFails, CommitFile, At
    <3>3. jf' = jf /\ plocks' = plocks
      BY <2>3, <3>1, <3>2, FlowPlocks, StepFiles1
    <3>4. LocksOK(th)' /\ FileIs(th)' /\ AppliedOK(th)' /\ TxnOK(th)'
      BY <1>1, <1>2, <1>4, <2>3, <3>3, LockUndo, FileUndo, AppliedUndo, TxnUndo
    <3> QED  BY <3>4 DEF Safe
  <2> QED  BY <1>4, <2>1, <2>2, <2>3, StepFlow
<1>5. CASE cur[th].kind \in SyncKinds /\ ~ (jsyncReturn(th) \/ jcloseReturn(th))
  <2>1. saved[th] = Idle /\ cur[th].kind \notin CallKinds
    <3>1. CallOK(th)
      BY DEF IdInv, ThreadOK
    <3> QED  BY <1>5, <3>1 DEF CallOK, CallKinds, SyncKinds
  <2>2. Moves(th) /\ saved' = saved
    <3>1. ~UndoReturn(th) /\ ~CommitReturn(th)
      BY <2>1 DEF UndoReturn, CommitReturn, CallKinds
    <3> QED  BY <1>5, <2>1, <3>1, StepKinds, Zenon
  <2>3. Safe(th)'
    BY <1>5, <2>1, <2>2, SyncSafe DEF Moves
  <2> QED  BY <2>3, StepOthersSafe DEF CallInv
<1>6. cur[th].kind \in CallKinds \cup SyncKinds
  BY StepOpen, ActiveThread
<1> QED  BY <1>3, <1>4, <1>5, <1>6

LEMMA CallSafe ==
  ASSUME IdInv, TypedInv, CallInv, NEW th \in Threads, Call(th)
  PROVE  CallInv'
<1>1. /\ UNCHANGED fileVars /\ plocks' = plocks /\ saved' = saved /\ cur[th].pc = "idle"
      /\ \A u \in Threads : u # th => cur'[u] = cur[u]
  <2>1. UNCHANGED fileVars /\ plocks' = plocks
    BY DEF Call, jtrans_commit, jsync, jclose, procVars
  <2> QED  BY <2>1, CallsTyped
<1>2. jf' = jf /\ cache' = cache
  BY <1>1 DEF fileVars
<1>3. saved[th] = Idle /\ cur[th].kind = "none"
  BY <1>1, IdleFrame DEF IdInv, ThreadOK, CallOK
<1>4. CASE \E t \in Txns : jtrans_commit(th, t)
  <2>1. PICK t \in Txns : jtrans_commit(th, t)
    BY <1>4
  <2>2. /\ Runner[t] = th /\ ack[t] = "new" /\ ack' = [ack EXCEPT ![t] = "running"]
        /\ cur' = [cur EXCEPT ![th] = Frame("commit", "lock", t, Ops[t], Flags[t])]
    BY <2>1 DEF jtrans_commit
  <2>3. PICK f : f = Frame("commit", "lock", t, Ops[t], Flags[t])
    OBVIOUS
  <2>4. /\ f.kind = "commit" /\ f.pc = "lock" /\ f.txn = t /\ f.ops = Ops[t] /\ f.flags = Flags[t]
        /\ f.tid = 0 /\ f.k = 1
    BY <2>3 DEF Frame
  <2>5. cur'[th] = f
    BY <2>2, <2>3, NewCall
  <2>6. ack'[t] = "running"
    BY <2>2 DEF TypedInv
  <2>7. TxnOK(th)'
    BY <1>1, <1>3, <2>2, <2>4, <2>5, <2>6, IdleFrame DEF TxnOK
  <2>8. LocksOK(th)' /\ FileIs(th)' /\ AppliedOK(th)'
    <3>1. LocksOK(th)'
      BY <2>4, <2>5 DEF LocksOK
    <3>2. FileIs(th)'
      BY <2>4, <2>5 DEF FileIs, WithFile, Applying
    <3>3. AppliedOK(th)'
      BY <2>4, <2>5 DEF AppliedOK, Applying
    <3> QED  BY <3>1, <3>2, <3>3
  <2>9. ASSUME NEW u \in Threads, u # th PROVE Safe(u)'
    <3>1. t \in Txns => Runner[t] # u
      BY <2>2, <2>9
    <3> QED  BY <1>1, <1>2, <2>2, <2>9, <3>1, OtherSafe DEF CallInv
  <2> QED  BY <2>7, <2>8, <2>9 DEF CallInv, Safe
<1>5. CASE jsync(th) \/ jclose(th)
  <2>1. PICK kind \in SyncKinds : cur' = [cur EXCEPT ![th] = SyncFrame(kind)] /\ ack' = ack
    BY <1>5 DEF jsync, jclose, SyncKinds
  <2>2. cur'[th] = SyncFrame(kind)
    BY <2>1, NewCall
  <2>3. cur'[th].kind \in SyncKinds
    BY <2>2 DEF SyncFrame, Frame
  <2>4. Safe(th)'
    BY <1>1, <1>3, <2>3, SyncSafe
  <2>5. ASSUME NEW u \in Threads, u # th PROVE Safe(u)'
    BY <1>1, <1>2, <2>1, <2>5, OtherSafe DEF CallInv
  <2> QED  BY <2>4, <2>5 DEF CallInv
<1> QED  BY <1>4, <1>5 DEF Call

\* When no thread is in a call there is nothing to show.
LEMMA AllIdle ==
  ASSUME IdInv, \A u \in Threads : cur[u].pc = "idle", cur' = cur, saved' = saved
  PROVE  CallInv'
<1>1. ASSUME NEW u \in Threads PROVE cur'[u] = Idle /\ saved'[u] = Idle
  <2>1. cur[u] = Idle
    BY DEF IdInv, ThreadOK, CallOK
  <2>2. saved[u] = Idle
    BY <2>1, IdleFrame DEF IdInv, ThreadOK, CallOK
  <2> QED  BY <2>1, <2>2
<1> QED  BY <1>1, IdleSafe DEF CallInv

LEMMA QuietSafe ==
  ASSUME IdInv, TypedInv, CallInv, UNCHANGED <<cur, saved, plocks, jf, cache, ack>>
  PROVE  CallInv'
  BY OtherSafe DEF CallInv

-----------------------------------------------------------------------------
(* jfsck and failures.                                                     *)

\* jfsck runs alone.
LEMMA FsckAlone ==
  ASSUME IdInv, FsckBusy, fsck.pc # "off"
  PROVE  /\ dirty /\ \A u \in Threads \ {Checker} : cur[u].pc = "idle"
         /\ fsck.pc \in {"scan", "unlink"} => \A u \in Threads : cur[u].pc = "idle"
  BY DEF IdInv, FsckInv, FsckBusy

LEMMA FsckSafe ==
  ASSUME OneThreadPerProcess, IdInv, TypedInv, CallInv, FsckBusy, Fsck
  PROVE  CallInv'
<1>1. CASE FsckStart \/ FsckSkip
  <2>1. UNCHANGED <<cur, saved, plocks, jf, cache, ack>>
    BY <1>1 DEF FsckStart, FsckSkip, dataVars, dirVars, memVars, fileVars, procVars
  <2> QED  BY <2>1, QuietSafe
<1>2. CASE FsckUnlink \/ FsckDone
  <2>1. fsck.pc \in {"scan", "unlink"} /\ cur' = cur /\ saved' = saved
    BY <1>2 DEF FsckUnlink, FsckDone, memVars
  <2>2. \A u \in Threads : cur[u].pc = "idle"
    BY <2>1, FsckAlone
  <2> QED  BY <2>1, <2>2, AllIdle
<1>3. CASE FsckCommit
  <2> DEFINE kind == "redo"
             pc == "lock"
             flags == {}
  <2>1. /\ UNCHANGED fileVars /\ UNCHANGED <<plocks, saved, ack>> /\ fsck.pc = "scan"
        /\ cur' = [cur EXCEPT ![Checker] = Frame(kind, pc, NoTxn, jf[fsck.i], flags)]
    BY <1>3 DEF FsckCommit, procVars
  <2>2. PICK f : f = Frame(kind, pc, NoTxn, jf[fsck.i], flags)
    OBVIOUS
  <2>3. f.kind = "redo" /\ f.pc = "lock" /\ f.flags = {} /\ f.tid = 0 /\ f.k = 1
    BY <2>2, NewFrame
  <2> HIDE DEF kind, pc, flags
  <2>4. Checker \in Threads
    BY JioAssumption
  <2>5. cur'[Checker] = f /\ \A u \in Threads : u # Checker => cur'[u] = cur[u]
    BY <2>1, <2>2, <2>4, NewCall
  <2>6. jf' = jf /\ cache' = cache
    BY <2>1 DEF fileVars
  <2>7. saved[Checker] = Idle
    <3>1. cur[Checker].pc = "idle"
      BY <2>1 DEF IdInv, FsckInv
    <3> QED  BY <3>1, <2>4, IdleFrame DEF IdInv, ThreadOK, CallOK
  <2>8. Safe(Checker)'
    <3>1. LocksOK(Checker)'
      BY <2>3, <2>5 DEF LocksOK
    <3>2. FileIs(Checker)'
      BY <2>3, <2>5 DEF FileIs, WithFile, Applying
    <3>3. AppliedOK(Checker)'
      BY <2>3, <2>5 DEF AppliedOK, Applying
    <3>4. TxnOK(Checker)'
      BY <2>1, <2>3, <2>5, <2>7, IdleFrame DEF TxnOK
    <3> QED  BY <3>1, <3>2, <3>3, <3>4 DEF Safe
  <2>9. ASSUME NEW u \in Threads, u # Checker PROVE Safe(u)'
    BY <2>1, <2>5, <2>6, <2>9, OtherSafe DEF CallInv
  <2> QED  BY <2>8, <2>9 DEF CallInv
<1>4. CASE FsckCommitReturn
  <2>1. /\ UNCHANGED fileVars /\ ack' = ack
        /\ plocks' = [plocks EXCEPT ![ProcOf[Checker]] = @ \ cur[Checker].held]
    BY <1>4 DEF FsckCommitReturn, Unlock
  <2>2. Checker \in Threads /\ ProcOf[Checker] \in Procs
    BY JioAssumption
  <2>3. /\ cur'[Checker] = Idle /\ saved'[Checker] = Idle
        /\ \A u \in Threads : u # Checker => cur'[u] = cur[u] /\ saved'[u] = saved[u]
    BY <1>4, <2>2, ReturnsTyped
  <2>4. jf' = jf /\ cache' = cache
    BY <2>1 DEF fileVars
  <2>5. ASSUME NEW u \in Threads, u # Checker PROVE Safe(u)'
    <3>1. ProcOf[u] \in Procs /\ ProcOf[u] # ProcOf[Checker]
      BY <2>2, <2>5, JioAssumption DEF OneThreadPerProcess
    <3>2. plocks'[ProcOf[u]] = plocks[ProcOf[u]]
      BY <2>1, <3>1 DEF TypedInv, TypedLocks
    <3> QED  BY <2>1, <2>3, <2>4, <2>5, <3>2, OtherSafe DEF CallInv
  <2> QED  BY <2>3, <2>5, IdleSafe DEF CallInv
<1> QED  BY <1>1, <1>2, <1>3, <1>4 DEF Fsck

LEMMA FailureSafe ==
  ASSUME IdInv, TypedInv, CallInv, PowerFail \/ \E p \in Procs : Kill(p)
  PROVE  CallInv'
<1>1. CASE PowerFail
  <2>1. cur' = [th \in Threads |-> Idle] /\ saved' = [th \in Threads |-> Idle]
    BY <1>1 DEF PowerFail
  <2>2. \A u \in Threads : cur'[u] = Idle /\ saved'[u] = Idle
    BY <2>1
  <2> QED  BY <2>2, IdleSafe DEF CallInv
<1>2. ASSUME NEW p \in Procs, Kill(p) PROVE CallInv'
  <2>1. /\ UNCHANGED dataVars /\ UNCHANGED dirVars /\ ack' = ack
        /\ plocks' = [plocks EXCEPT ![p] = {}]
        /\ cur' = [th \in Threads |-> IF ProcOf[th] = p THEN Idle ELSE cur[th]]
        /\ saved' = [th \in Threads |-> IF ProcOf[th] = p THEN Idle ELSE saved[th]]
    BY <1>2 DEF Kill
  <2>2. jf' = jf /\ cache' = cache
    BY <2>1 DEF dataVars, dirVars
  <2>3. ASSUME NEW u \in Threads PROVE Safe(u)'
    <3>1. CASE ProcOf[u] = p
      BY <2>1, <3>1, IdleSafe
    <3>2. CASE ProcOf[u] # p
      <4>1. ProcOf[u] \in Procs
        BY JioAssumption
      <4>2. cur'[u] = cur[u] /\ saved'[u] = saved[u] /\ plocks'[ProcOf[u]] = plocks[ProcOf[u]]
        BY <2>1, <3>2, <4>1 DEF TypedInv, TypedLocks
      <4> QED  BY <2>1, <2>2, <4>2, OtherSafe DEF CallInv
    <3> QED  BY <3>1, <3>2
  <2> QED  BY <2>3 DEF CallInv
<1> QED  BY <1>1, <1>2

-----------------------------------------------------------------------------
(* The check and the journal.                                              *)

LEMMA OffClean ==
  ASSUME fsck'.pc = "off"
  PROVE  FsckBusy' /\ FsckClean'
  BY DEF FsckBusy, FsckClean, Seen

LEMMA StepBusy ==
  ASSUME IdInv, TypedInv, FsckBusy, NEW th \in Threads, Step(th)
  PROVE  FsckBusy' /\ (fsck.pc # "off" => th = Checker /\ fsck.pc = "commit")
<1>1. open' = open /\ (dirty => dirty') /\ fsck' = fsck /\ cur[th].pc # "idle"
  BY StepOpen
<1>2. fsck.pc # "off" => th = Checker /\ fsck.pc = "commit"
  BY <1>1, FsckAlone DEF TypedInv, TypedFsck
<1>3. ASSUME fsck.pc # "off" PROVE FsckBusy'
  <2>1. dirty /\ (\A p \in Procs : ~open[p])
    BY <1>3 DEF FsckBusy
  <2>2. \A u \in Threads \ {Checker} : cur[u].pc = "idle" /\ cur'[u] = cur[u]
    BY <1>2, <1>3, StepElsewhere DEF FsckBusy, Elsewhere
  <2>3. dirty'
    BY <1>1, <2>1
  <2> QED  BY <1>1, <2>1, <2>2, <2>3 DEF FsckBusy
<1> QED  BY <1>1, <1>2, <1>3, OffClean

\* A call that jfsck makes goes on well, or not at all.
LEMMA StepHealthy ==
  ASSUME IdInv, TypedInv, NEW th \in Threads, Step(th), Healthy(cur[th])'
  PROVE  Healthy(cur[th]) /\ (LockRange(th) \/ Flow(th))
<1>1. cur'[th].kind = "redo" /\ (cur'[th].pc \in Removing \cup {"unlock"} => cur'[th].retval >= 0)
  BY DEF Healthy
<1>2. ~Undoes(th) /\ ~UndoReturn(th)
  BY <1>1, UndoFacts, UndoReturnDoes DEF Removing
<1>3. ~CommitReturn(th) /\ ~jsyncReturn(th) /\ ~jcloseReturn(th)
  BY <1>1, ReturnsTyped, IdleFrame
<1>4. Moves(th)
  BY <1>2, <1>3, StepKinds, UndoFacts, <1>1, UndoDoes
<1>5. cur[th].kind = "redo" /\ (LockRange(th) \/ Flow(th))
  BY <1>1, <1>2, <1>3, <1>4, StepFlow DEF Moves, CallKinds
<1>6. CASE LockRange(th)
  <2>1. cur[th].pc = "lock" /\ cur'[th].pc \in {"lock", "get_tid", "apply"}
    BY <1>6, LockRangeDoes
  <2> QED  BY <1>5, <2>1 DEF Healthy, Removing
<1>7. CASE Flow(th)
  <2>1. ~Fails(th)
    <3>1. cur[th].retval \in -2 .. 1
      BY DEF TypedInv, TypedThread
    <3> QED  BY <1>1 DEF Fails
  <2>2. cur[th].pc \in Removing => cur'[th].retval = cur[th].retval /\ cur'[th].pc \in Removing \cup {"unlock"}
    BY <1>7, <2>1 DEF Flow, Records, Applies, Removes, Ends, Removing
  <2>3. cur[th].pc # "unlock"
    BY <1>7, FlowPcs
  <2> QED  BY <1>1, <1>5, <1>7, <2>2, <2>3 DEF Healthy
<1> QED  BY <1>5, <1>6, <1>7
LEMMA StepClean ==
  ASSUME IdInv, TypedInv, FsckBusy, FsckClean, NEW th \in Threads, Step(th), FileIs(th), TxnOK(th)
  PROVE  FsckClean'
<1>1. fsck' = fsck
  BY StepOpen
<1>2. CASE fsck.pc = "off"
  BY <1>1, <1>2, OffClean
<1>3. CASE fsck.pc # "off"
  <2>1. th = Checker /\ fsck.pc = "commit"
    BY <1>3, StepBusy
  <2> SUFFICES ASSUME Healthy(cur[th])', NEW i \in Tids, i <= MaxInt, Complete(jf'[i]), ~Swept(i)
      PROVE  i = cur'[th].tid /\ cur'[th].pc \in {"fsync", "apply", "sync", "unlink"}
    BY <1>1, <2>1 DEF FsckClean, Swept, Complete, Seen
  <2>2. Healthy(cur[th]) /\ (LockRange(th) \/ Flow(th))
    BY StepHealthy
  <2>3. cur'[th].pc = "unlock" => cur'[th].retval >= 0
    BY DEF Healthy
  <2>4. CASE Completed(th, i)
    <3>1. Goto(th, "fsync")
      BY <2>4 DEF Completed, CommitFile
    <3>2. cur'[th].pc = "fsync" /\ cur'[th].tid = cur[th].tid
      BY <3>1, GotoStays
    <3> QED  BY <2>4, <3>2 DEF Completed
  <2>5. CASE jf'[i] = jf[i]
    <3>1. i = cur[th].tid /\ cur[th].pc \in {"fsync", "apply", "sync", "unlink"}
      BY <2>1, <2>2, <2>5 DEF FsckClean, Seen
    <3>2. Flow(th)
      <4>1. LockRange(th) => cur[th].pc = "lock"
        BY DEF LockRange, At
      <4> QED  BY <2>2, <3>1, <4>1
    <3>3. ~Fails(th)
      BY <2>3 DEF Fails
    <3>4. ~UnlinkFile(th)
      BY <3>1, StepFiles1
    <3>5. ~Ends(th)
      <4>1. cur[th].kind = "redo" /\ cur[th].flags = {} /\ cur[th].tid # 0
        BY <2>2, <3>1, TidsNat DEF Healthy, TxnOK
      <4>2. ~Linger(th)
        BY <4>1 DEF Linger
      <4> QED  BY <3>1, <4>1, <4>2 DEF Ends, FileIs, CallKinds, Applying
    <3> QED  BY <3>1, <3>2, <3>3, <3>4, <3>5 DEF Flow, Records, Applies, Removes
  <2> QED  BY <2>4, <2>5, StepFiles2 DEF Stable, Synced
<1> QED  BY <1>2, <1>3

LEMMA StepSure ==
  ASSUME TypedInv, SureFiles, NEW th \in Threads, Step(th), FileIs(th), IdInv
  PROVE  SureFiles'
<1> SUFFICES ASSUME NEW i \in Tids, Complete(jf'[i])
    PROVE  jstable'[i] = {jf'[i]} \/ Partial \in jstable'[i]
  BY DEF SureFiles, Complete
<1>1. jf[i] \in jstable[i]
  BY DEF TypedInv, TypedFiles
<1>2. CASE Stable(i)
  <2>1. Complete(jf[i]) /\ jf[i] # NoFile
    BY <1>2 DEF Stable, Complete
  <2>2. jstable[i] = {jf[i]} \/ Partial \in jstable[i]
    BY <2>1 DEF SureFiles
  <2> QED  BY <1>1, <1>2, <2>1, <2>2, FileAssumption DEF Stable, Linked
<1>3. CASE Synced(th, i)
  BY <1>3 DEF Synced
<1>4. CASE Completed(th, i)
  <2>1. cur[th].pc = "trailer"
    BY <1>4 DEF Completed, CommitFile, At
  <2>2. cur[th].kind \in CallKinds
    BY <2>1, CommitKind DEF CommitPCs
  <2>3. jf[i] = Partial
    BY <1>4, <2>1, <2>2 DEF FileIs, Completed
  <2> QED  BY <1>1, <1>4, <2>3 DEF Completed
<1> QED  BY <1>2, <1>3, <1>4, StepFiles2

LEMMA StepJournal ==
  ASSUME IdInv, TypedInv, CallInv, JournalInv, NEW th \in Threads, Step(th)
  PROVE  JournalInv'
<1>1. FileIs(th) /\ TxnOK(th)
  BY DEF CallInv, Safe
<1> QED  BY <1>1, StepBusy, StepClean, StepSure DEF JournalInv
LEMMA SameSure ==
  ASSUME SureFiles, UNCHANGED dirVars
  PROVE  SureFiles'
  BY DEF SureFiles, dirVars, Complete

\* While jfsck runs no call begins, and nobody opens the file.
LEMMA CallJournal ==
  ASSUME JournalInv, NEW th \in Threads, Call(th)
  PROVE  JournalInv'
<1>1. open[ProcOf[th]] /\ fsck' = fsck /\ UNCHANGED dirVars
  BY DEF Call, jtrans_commit, jsync, jclose, fileVars, dirVars
<1>2. fsck.pc = "off"
  BY <1>1, JioAssumption DEF FsckBusy, JournalInv
<1> QED  BY <1>1, <1>2, OffClean, SameSure DEF JournalInv

LEMMA QuietJournal ==
  ASSUME JournalInv, NEW p, Open(p) \/ UNCHANGED vars
  PROVE  JournalInv'
<1>1. CASE Open(p)
  <2>1. fsck'.pc = "off" /\ UNCHANGED dirVars
    BY <1>1 DEF Open, jopen, fileVars, dirVars
  <2> QED  BY <2>1, OffClean, SameSure DEF JournalInv
<1>2. CASE UNCHANGED vars
  <2>1. UNCHANGED <<jf, jstable, open, dirty, cur, fsck>>
    BY <1>2 DEF vars, fileVars, procVars
  <2>2. SureFiles'
    BY <2>1, SameSure DEF JournalInv, dirVars
  <2>3. FsckBusy'
    BY <2>1 DEF JournalInv, FsckBusy
  <2>4. FsckClean'
    BY <2>1 DEF JournalInv, FsckClean, Swept, Healthy, Complete, Seen
  <2> QED  BY <2>2, <2>3, <2>4 DEF JournalInv
<1> QED  BY <1>1, <1>2

LEMMA FsckStartJournal ==
  ASSUME IdInv, TypedInv, JournalInv, FsckStart
  PROVE  JournalInv'
<1>1. /\ fsck' = [pc |-> "scan", i |-> 1, maxtid |-> GreatestTid]
      /\ dirty' /\ open' = open /\ cur' = cur /\ jf' = jf /\ UNCHANGED dirVars
      /\ \A p \in Procs : ~InUse(p)
  BY DEF FsckStart, memVars, dirVars
<1>2. \A p \in Procs : ~open[p] /\ \A th \in ThreadsOf(p) : cur[th].pc = "idle"
  BY <1>1 DEF InUse, At
<1>3. \A th \in Threads : cur[th].pc = "idle"
  BY <1>2, JioAssumption DEF ThreadsOf
<1>4. FsckBusy'
  BY <1>1, <1>2, <1>3 DEF FsckBusy
<1>5. \A i \in Tids : Seen(i) => 1 <= i /\ i <= GreatestTid
  <2>1. \A i \in Tids : Seen(i) => i <= GreatestTid
    BY GreatestTidIs DEF Seen, Complete
  <2>2. \A i \in Tids : 1 <= i
    BY JioAssumption DEF Tids
  <2> QED  BY <2>1, <2>2
<1>6. FsckClean'
  <2>1. fsck'.pc = "scan" /\ fsck'.i = 1 /\ fsck'.maxtid = GreatestTid
    BY <1>1
  <2> QED  BY <1>1, <1>5, <2>1 DEF FsckClean, Swept, Complete, Seen
<1> QED  BY <1>1, <1>4, <1>6, SameSure DEF JournalInv

\* The file that jfsck is at is gone: it comes to the next one.
LEMMA NextClean ==
  ASSUME IdInv, TypedInv, FsckClean, fsck.pc \in {"scan", "unlink"}, fsck' = NextFile,
         \A i \in Tids : Complete(jf'[i]) => Complete(jf[i]) /\ i # fsck.i
  PROVE  FsckClean'
<1>1. fsck'.pc = "scan" /\ fsck'.i = fsck.i + 1 /\ fsck'.maxtid = fsck.maxtid
  BY NextFileIs
<1>2. fsck.i \in Nat
  BY DEF TypedInv, TypedFsck
<1>3. ASSUME NEW i \in Tids, i <= MaxInt, Complete(jf'[i]) PROVE fsck'.i <= i /\ i <= fsck'.maxtid
  <2>1. fsck.i <= i /\ i <= fsck.maxtid /\ i # fsck.i
    BY <1>3 DEF FsckClean, Swept, Seen
  <2>2. i \in Nat
    BY TidsNat
  <2>3. fsck.i + 1 <= i
    BY <1>2, <2>1, <2>2
  <2> QED  BY <1>1, <2>1, <2>3
<1> QED  BY <1>1, <1>3 DEF FsckClean, Swept, Complete, Seen

LEMMA FsckScanJournal ==
  ASSUME IdInv, TypedInv, JournalInv, FsckSkip \/ FsckUnlink \/ FsckDone
  PROVE  JournalInv'
<1>1. CASE fsck' = FsckOff /\ UNCHANGED dirVars
  BY <1>1, OffClean, SameSure DEF JournalInv, FsckOff
<1>2. CASE fsck' = NextFile
  <2>1. /\ fsck.pc \in {"scan", "unlink"} /\ UNCHANGED <<dirty, open, cur>>
        /\ (jf[fsck.i] = NoFile /\ UNCHANGED dirVars) \/ unlink(fsck.i)
    <3>1. CASE FsckSkip
      BY <3>1 DEF FsckSkip, procVars, fileVars, dirVars
    <3>2. CASE FsckUnlink
      <4>1. fsck' # FsckOff
        BY <1>2, <3>2, NextFileIs DEF FsckOff, FsckUnlink
      <4> QED  BY <3>2, <4>1 DEF FsckUnlink, procVars
    <3>3. CASE FsckDone
      BY <1>2, <3>3, NextFileIs DEF FsckOff, FsckDone
    <3> QED  BY <3>1, <3>2, <3>3
  <2>2. fsck.i \in Tids
    <3>1. CASE FsckUnlink
      BY <3>1, FsckFile DEF FsckUnlink
    <3>2. CASE FsckSkip
      BY <3>2, FsckFile DEF FsckSkip
    <3>3. CASE FsckDone
      BY <1>2, <3>3, NextFileIs DEF FsckOff, FsckDone
    <3> QED  BY <3>1, <3>2, <3>3
  <2>3. jf = [i \in Tids |-> jf[i]] /\ jstable = [i \in Tids |-> jstable[i]]
    BY DEF TypedInv, TypedFiles
  <2>4. /\ ~Complete(jf'[fsck.i])
        /\ \A i \in Tids : i # fsck.i => jf'[i] = jf[i] /\ jstable'[i] = jstable[i]
    BY <2>1, <2>2, <2>3 DEF unlink, Complete, dirVars
  <2>5. FsckClean'
    BY <1>2, <2>1, <2>4, NextClean DEF JournalInv
  <2>6. SureFiles'
    BY <2>4 DEF JournalInv, SureFiles, Complete
  <2>7. FsckBusy'
    BY <2>1 DEF JournalInv, FsckBusy
  <2> QED  BY <2>5, <2>6, <2>7 DEF JournalInv
<1> QED  BY <1>1, <1>2 DEF FsckSkip, FsckUnlink, FsckDone, fileVars, dirVars

LEMMA FsckCommitJournal ==
  ASSUME IdInv, TypedInv, JournalInv, FsckCommit \/ FsckCommitReturn
  PROVE  JournalInv'
<1>1. /\ UNCHANGED dirVars /\ jf' = jf /\ dirty' = dirty /\ open' = open
      /\ \E f : cur' = [cur EXCEPT ![Checker] = f]
  BY DEF FsckCommit, FsckCommitReturn, fileVars, dirVars, procVars
<1>2. fsck = [pc |-> fsck.pc, i |-> fsck.i, maxtid |-> fsck.maxtid]
  BY DEF IdInv, FsckInv
<1>3. \A u \in Threads \ {Checker} : cur'[u] = cur[u]
  BY <1>1, NewCall, JioAssumption
<1>4. fsck.pc # "off" => FsckBusy'
  BY <1>1, <1>3 DEF JournalInv, FsckBusy
<1>5. CASE FsckCommit
  <2>1. fsck.pc = "scan" /\ fsck' = [fsck EXCEPT !.pc = "commit"]
    BY <1>5 DEF FsckCommit
  <2>2. fsck'.pc = "commit" /\ fsck'.i = fsck.i /\ fsck'.maxtid = fsck.maxtid
    BY <1>2, <2>1
  <2>3. \A i \in Tids : Seen(i) => Swept(i)
    BY <2>1 DEF JournalInv, FsckClean
  <2>4. FsckClean'
    BY <1>1, <2>2, <2>3 DEF FsckClean, Swept, Complete, Seen
  <2> QED  BY <1>1, <1>4, <2>1, <2>4, SameSure DEF JournalInv
<1>6. CASE FsckCommitReturn /\ fsck' = FsckOff
  BY <1>1, <1>6, OffClean, SameSure DEF JournalInv, FsckOff
<1>7. CASE FsckCommitReturn /\ fsck' # FsckOff
  <2>1. /\ fsck' = [fsck EXCEPT !.pc = "unlink"] /\ cur[Checker].kind = "redo"
        /\ cur[Checker].pc = "unlock" /\ ~ (cur[Checker].retval < 0)
    BY <1>7 DEF FsckCommitReturn, At
  <2>2. fsck'.pc = "unlink" /\ fsck'.i = fsck.i /\ fsck'.maxtid = fsck.maxtid
    BY <1>2, <2>1
  <2>3. fsck.pc = "commit"
    BY <2>1, JioAssumption DEF TypedInv, TypedFsck, Redoing
  <2>4. Healthy(cur[Checker])
    <3>1. cur[Checker].retval \in -2 .. 1
      BY JioAssumption DEF TypedInv, TypedThread
    <3> QED  BY <2>1, <3>1 DEF Healthy
  <2>5. \A i \in Tids : Seen(i) => Swept(i)
    BY <2>1, <2>3, <2>4 DEF JournalInv, FsckClean
  <2>6. FsckClean'
    BY <1>1, <2>2, <2>5 DEF FsckClean, Swept, Complete, Seen
  <2> QED  BY <1>1, <1>4, <2>3, <2>6, SameSure DEF JournalInv
<1> QED  BY <1>5, <1>6, <1>7

LEMMA FsckJournal ==
  ASSUME IdInv, TypedInv, JournalInv, Fsck
  PROVE  JournalInv'
  BY FsckStartJournal, FsckScanJournal, FsckCommitJournal DEF Fsck

LEMMA FailureJournal ==
  ASSUME IdInv, TypedInv, JournalInv, PowerFail \/ \E p \in Procs : Kill(p)
  PROVE  JournalInv'
<1>1. CASE PowerFail
  <2>1. fsck' = FsckOff /\ jstable' = [i \in Tids |-> {jf'[i]}]
    BY <1>1 DEF PowerFail
  <2>2. SureFiles'
    BY <2>1 DEF SureFiles
  <2> QED  BY <2>1, <2>2, OffClean DEF JournalInv, FsckOff
<1>2. ASSUME NEW p \in Procs, Kill(p) PROVE JournalInv'
  <2>1. /\ UNCHANGED dirVars /\ jf' = jf /\ dirty' /\ open' = [open EXCEPT ![p] = FALSE]
        /\ cur' = [th \in Threads |-> IF ProcOf[th] = p THEN Idle ELSE cur[th]]
        /\ fsck' = (IF ProcOf[Checker] = p THEN FsckOff ELSE fsck)
    BY <1>2 DEF Kill, dirVars
  <2>2. CASE ProcOf[Checker] = p
    BY <2>1, <2>2, OffClean, SameSure DEF JournalInv, FsckOff
  <2>3. CASE ProcOf[Checker] # p
    <3>1. fsck' = fsck /\ cur'[Checker] = cur[Checker]
      BY <2>1, <2>3, JioAssumption
    <3>2. \A th \in Threads : cur[th].pc = "idle" => cur'[th].pc = "idle"
      BY <2>1, IdleFrame
    <3>3. \A q \in Procs : ~open[q] => ~open'[q]
      BY <2>1 DEF IdInv, StateOK
    <3>4. FsckBusy'
      BY <2>1, <3>1, <3>2, <3>3 DEF JournalInv, FsckBusy
    <3>5. FsckClean'
      BY <2>1, <3>1 DEF JournalInv, FsckClean, Swept, Healthy, Complete, Seen
    <3> QED  BY <2>1, <3>4, <3>5, SameSure DEF JournalInv
  <2> QED  BY <2>2, <2>3
<1> QED  BY <1>1, <1>2
-----------------------------------------------------------------------------
(* What recovery finds for certain.                                        *)

LEMMA SameFile ==
  ASSUME NEW i, jf'[i] = jf[i]
  PROVE  \A c : /\ Covers(jf[i], c)' <=> Covers(jf[i], c)
                /\ ValueIn(jf[i], c)' = ValueIn(jf[i], c)
  BY DEF Covers, ValueIn, CellsOf

\* A step leaves a file firm, or has synced it.
LEMMA StepFirm ==
  ASSUME IdInv, TypedInv, SureFiles, NEW th \in Threads, Step(th), FileIs(th),
         NEW i \in Tids, Firm(i)'
  PROVE  jf'[i] = jf[i] /\ Complete(jf[i]) /\ (Firm(i) \/ Synced(th, i))
<1>1. Complete(jf'[i]) /\ jstable'[i] = {jf'[i]}
  BY DEF Firm, Complete, Seen
<1>2. jf[i] \in jstable[i]
  BY DEF TypedInv, TypedFiles
<1>3. CASE Stable(i)
  <2>1. jf'[i] = jf[i] /\ Complete(jf[i]) /\ jf[i] # NoFile /\ jf[i] # Partial
    BY <1>1, <1>3 DEF Stable, Complete
  <2>2. jstable[i] = {jf[i]} \/ Partial \in jstable[i]
    BY <2>1 DEF SureFiles
  <2>3. Partial \notin jstable[i]
    BY <1>1, <1>3, <2>1, FileAssumption DEF Stable, Linked
  <2> QED  BY <2>1, <2>2, <2>3 DEF Firm, Seen
<1>4. CASE Synced(th, i)
  BY <1>1, <1>4 DEF Synced
<1>5. CASE Completed(th, i)
  <2>1. cur[th].pc = "trailer"
    BY <1>5 DEF Completed, CommitFile, At
  <2>2. cur[th].kind \in CallKinds
    BY <2>1, CommitKind DEF CommitPCs
  <2>3. jf[i] = Partial
    BY <1>5, <2>1, <2>2 DEF FileIs, Completed
  <2> QED  BY <1>1, <1>2, <1>5, <2>3 DEF Completed, Complete
<1> QED  BY <1>1, <1>3, <1>4, <1>5, StepFiles2

\* When no check is needed none runs, and no commit of its own.
LEMMA CalmKinds ==
  ASSUME TypedInv, FsckBusy, ~dirty
  PROVE  fsck.pc = "off" /\ \A u \in Threads : ~Redoing(u)
  BY DEF TypedInv, TypedFsck, FsckBusy

LEMMA StepCalm ==
  ASSUME IdInv, TypedInv, NEW th \in Threads, Step(th), TxnOK(th), Calm'
  PROVE  Calm /\ ~ (CommitReturn(th) /\ cur[th].retval = -2)
<1>1. ~dirty
  BY StepOpen DEF Calm
<1>2. CASE ack' = ack /\ ~CommitReturn(th)
  BY <1>1, <1>2 DEF Calm
<1>3. CASE CommitReturn(th)
  <2>1. PICK t \in Txns : t = cur[th].txn /\ ack[t] = "running"
    BY <1>3 DEF CommitReturn, TxnOK
  <2>2. PICK rv : rv = cur[th].retval
    OBVIOUS
  <2>3. ack' = [ack EXCEPT ![t] = Outcome(rv)] /\ rv \in -2 .. 1
    BY <1>3, <2>1, <2>2 DEF CommitReturn, TypedInv, TypedThread
  <2>4. ack = [s \in Txns |-> ack[s]]
    BY DEF TypedInv
  <2>5. ack'[t] = Outcome(rv) /\ \A s \in Txns : s # t => ack'[s] = ack[s]
    BY <2>3, <2>4
  <2>6. rv # -2
    BY <2>3, <2>5, OutcomeTyped DEF Calm
  <2> QED  BY <1>1, <2>1, <2>2, <2>5, <2>6 DEF Calm
<1> QED  BY <1>2, <1>3, StepAckIs

LEMMA HeldElsewhere ==
  ASSUME OneThreadPerProcess, IdInv, TypedInv, NEW th \in Threads, Step(th),
         NEW u \in Threads, u # th, NEW i \in Tids, jf'[i] = jf[i], HeldBy(u, i)
  PROVE  HeldBy(u, i)'
<1>1. ProcOf[u] \in Procs /\ ProcOf[u] # ProcOf[th]
  BY JioAssumption DEF OneThreadPerProcess
<1>2. cur'[u] = cur[u] /\ saved'[u] = saved[u] /\ plocks'[ProcOf[u]] = plocks[ProcOf[u]]
  BY <1>1, StepElsewhere DEF Elsewhere
<1>3. LocksFile(u, i)'
  BY <1>2, SameFile DEF HeldBy, LocksFile
<1> QED  BY <1>2, <1>3 DEF HeldBy

\* The cells that a transaction writes.
LEMMA InWriteSet ==
  ASSUME NEW t \in Txns, NEW k \in 1 .. Len(Ops[t]), IsWrite(Ops[t][k]), NEW c \in CellsOf(Ops[t][k])
  PROVE  c \in WriteSet(t)
<1>1. DOMAIN Ops[t] = 1 .. Len(Ops[t])
  BY TxnOps DEF OpLists
<1> QED  BY <1>1 DEF WriteSet

\* A call of a transaction writes only the cells of that transaction.
LEMMA CallTxn ==
  ASSUME NEW th \in Threads, TxnOK(th), CallOK(th), cur[th].kind \in {"commit", "undo"},
         ~Redoing(th)
  PROVE  /\ cur[th].txn \in Txns /\ Runner[cur[th].txn] = th /\ ack[cur[th].txn] = "running"
         /\ "LINGER" \in cur[th].flags => "LINGER" \in Flags[cur[th].txn]
         /\ cur[th].kind = "undo" => saved[th].kind = "commit" /\ saved[th].txn = cur[th].txn
<1>1. cur[th].kind = "undo" => saved[th].kind = "commit"
  BY DEF CallOK, CallKinds, Redoing
<1> QED  BY <1>1 DEF TxnOK

LEMMA CallWrites ==
  ASSUME TypedInv, NEW th \in Threads, TxnOK(th), CallOK(th), cur[th].kind \in {"commit", "undo"},
         ~Redoing(th), NEW k \in 1 .. Len(cur[th].ops), IsWrite(cur[th].ops[k])
  PROVE  CellsOf(cur[th].ops[k]) \subseteq WriteSet(cur[th].txn)
<1>1. CASE cur[th].kind = "commit"
  BY <1>1, InWriteSet DEF TxnOK
<1>2. CASE cur[th].kind = "undo"
  <2>1. saved[th].kind = "commit"
    BY <1>2, CallTxn
  <2> QED  BY <1>2, <2>1 DEF TxnOK, Covered
<1> QED  BY <1>1, <1>2

\* The file of a call: each of its cells is one of a write operation.
LEMMA FileCells ==
  ASSUME TypedInv, NEW th \in Threads, FileIs(th), cur[th].kind \in CallKinds, WithFile(cur[th]),
         NEW c, Covers(jf[cur[th].tid], c)
  PROVE  \E m \in 1 .. Len(cur[th].ops) :
           /\ Latest(cur[th].ops, Len(cur[th].ops), m, c)
           /\ c \in Cells
           /\ ValueIn(jf[cur[th].tid], c) = cur[th].ops[m].buf[c - cur[th].ops[m].off + 1]
<1>1. PICK ops \in Seq(Op) : ops = cur[th].ops
  BY DEF TypedInv, TypedThread, OpsOK, OpLists
<1>2. jf[cur[th].tid] = Writes(ops)
  BY <1>1 DEF FileIs
<1>3. PICK m \in 1 .. Len(ops) :
        /\ IsWrite(ops[m]) /\ c \in CellsOf(ops[m])
        /\ \A l \in m + 1 .. Len(ops) : IsWrite(ops[l]) => c \notin CellsOf(ops[l])
        /\ ValueIn(Writes(ops), c) = ops[m].buf[c - ops[m].off + 1]
  BY <1>2, WritesCover
<1>4. ops[m] \in Op
  OBVIOUS
<1>5. c \in Cells
  BY <1>3, <1>4 DEF Op
<1>6. Latest(ops, Len(ops), m, c)
  BY <1>3 DEF Latest
<1> QED  BY <1>1, <1>2, <1>3, <1>5, <1>6

\* A transaction file that is synced is that of a call with its cells locked.
LEMMA SyncedHeld ==
  ASSUME IdInv, TypedInv, NEW th \in Threads, Safe(th), ~Redoing(th), Step(th),
         NEW i \in Tids, Synced(th, i)
  PROVE  HeldBy(th, i)'
<1>1. i = cur[th].tid /\ SyncFile(th) /\ jf'[i] = jf[i]
  BY DEF Synced
<1>2. cur[th].pc = "fsync" /\ Goto(th, "apply")
  BY <1>1 DEF SyncFile, At
<1>3. cur'[th].pc = "apply" /\ cur'[th].tid = i /\ cur'[th].kind = cur[th].kind
  BY <1>1, <1>2, GotoStays DEF Stays, Moves
<1>4. cur[th].kind \in CallKinds
  BY <1>2, CommitKind DEF CommitPCs
<1>5. cur[th].kind \in {"commit", "undo"}
  BY <1>4 DEF CallKinds, Redoing
<1>6. plocks' = plocks
  BY <1>1 DEF SyncFile, procVars
<1>7. ASSUME NEW c \in Cells, Covers(jf[i], c) PROVE c \in plocks[ProcOf[th]]
  <2>1. PICK m \in 1 .. Len(cur[th].ops) : c \in CellsOf(cur[th].ops[m])
    BY <1>1, <1>2, <1>4, <1>7, FileCells DEF Safe, WithFile, Latest
  <2> QED  BY <1>2, <1>4, <2>1 DEF Safe, LocksOK, Covered
<1>8. LocksFile(th, i)'
  BY <1>1, <1>6, <1>7, SameFile DEF LocksFile
<1> QED  BY <1>3, <1>5, <1>8 DEF HeldBy
\* When a transaction is left to linger what its file has is in the data file.
LEMMA LingerSettles ==
  ASSUME IdInv, TypedInv, CallInv, NEW th \in Threads, \A u \in Threads : ~Redoing(u),
         Step(th), Linger(th), NEW i \in Tids, i = cur[th].tid, jf'[i] = jf[i]
  PROVE  \E t \in Txns : Settled(t, i)'
<1>1. /\ cur[th].pc = "sync" /\ HasWrites(cur[th]) /\ "LINGER" \in cur[th].flags
      /\ SyncDone(th, "unlock") /\ cache' = cache /\ ack' = ack
  BY DEF Linger, At, fileVars
<1>2. cur'[th].pc = "unlock" /\ \A u \in Threads : u # th => cur'[u] = cur[u]
  BY <1>1, SyncDoneStays DEF Stays, Moves
<1>3. cur[th].kind \in CallKinds
  BY <1>1, CommitKind DEF CommitPCs
<1>4. cur[th].kind \in {"commit", "undo"}
  BY <1>3 DEF CallKinds, Redoing
<1>5. \A u \in Threads : TxnOK(u) /\ CallOK(u)
  BY DEF CallInv, Safe, IdInv, ThreadOK
<1>6. PICK t \in Txns : t = cur[th].txn /\ Runner[t] = th /\ ack[t] = "running" /\ "LINGER" \in Flags[t]
  BY <1>1, <1>4, <1>5, CallTxn
<1>7. DoneTxn(t)'
  <2> SUFFICES ASSUME NEW u \in Threads, cur'[u].kind \in {"commit", "undo"}, cur'[u].txn = t
      PROVE  cur'[u].pc \in Removing \cup {"unlock"}
    BY <1>1, <1>6 DEF DoneTxn, Removing
  <2>1. CASE u = th
    BY <1>2, <2>1
  <2>2. CASE u # th
    <3>1. Runner[t] = u
      BY <1>2, <1>5, <2>2, CallTxn
    <3> QED  BY <1>6, <2>2, <3>1
  <2> QED  BY <2>1, <2>2
<1>8. ASSUME NEW c \in Cells, Covers(jf[i], c)
      PROVE  c \in WriteSet(t) /\ ValueIn(jf[i], c) = cache[c]
  <2>1. FileIs(th) /\ AppliedOK(th)
    BY DEF CallInv, Safe
  <2>2. WithFile(cur[th])
    BY <1>1 DEF WithFile, Applying
  <2>3. PICK m \in 1 .. Len(cur[th].ops) :
           /\ Latest(cur[th].ops, Len(cur[th].ops), m, c)
           /\ ValueIn(jf[i], c) = cur[th].ops[m].buf[c - cur[th].ops[m].off + 1]
    BY <1>3, <1>8, <2>1, <2>2, FileCells
  <2>4. Found(cur[th].ops, Len(cur[th].ops), cache)
    BY <1>1, <1>3, <2>1 DEF AppliedOK, Done, Applying
  <2>5. cache[c] = cur[th].ops[m].buf[c - cur[th].ops[m].off + 1]
    BY <2>3, <2>4 DEF Found
  <2>6. CellsOf(cur[th].ops[m]) \subseteq WriteSet(t)
    BY <1>4, <1>5, <1>6, <2>3, CallWrites DEF Latest
  <2> QED  BY <2>3, <2>5, <2>6 DEF Latest
<1>9. \A c \in Cells : Covers(jf[i], c)' => c \in WriteSet(t) /\ ValueIn(jf[i], c)' = cache'[c]
  BY <1>1, <1>8, SameFile
<1>10. Settled(t, i)'
  BY <1>6, <1>7, <1>9 DEF Settled, WriteSet, CellsOf, IsWrite
<1> QED  BY <1>10

\* It stays as it is: no other transaction writes there.
LEMMA DoneStays ==
  ASSUME IdInv, TypedInv, CallInv, NEW th \in Threads, \A u \in Threads : ~Redoing(u),
         Step(th), NEW t \in Txns, DoneTxn(t)
  PROVE  DoneTxn(t)'
<1>1. TxnOK(th) /\ CallOK(th)
  BY DEF CallInv, Safe, IdInv, ThreadOK
<1>2. ack'[t] # "new"
  <2>1. CASE CommitReturn(th)
    <3>1. PICK rv \in -2 .. 1 : rv = cur[th].retval
      BY DEF TypedInv, TypedThread
    <3>2. PICK s \in Txns : s = cur[th].txn
      BY <1>1, <2>1 DEF CommitReturn, TxnOK
    <3>3. ack' = [ack EXCEPT ![s] = Outcome(rv)] /\ Outcome(rv) # "new"
      BY <2>1, <3>1, <3>2, OutcomeTyped DEF CommitReturn
    <3> QED  BY <3>3 DEF DoneTxn, TypedInv
  <2> QED  BY <2>1, StepAckIs DEF DoneTxn
<1> SUFFICES ASSUME NEW u \in Threads, cur'[u].kind \in {"commit", "undo"}, cur'[u].txn = t
    PROVE  cur'[u].pc \in Removing \cup {"unlock"}
  BY <1>2 DEF DoneTxn, Removing
<1>3. CASE u # th
  BY <1>3, StepElsewhere DEF DoneTxn, Elsewhere
<1>4. CASE u = th /\ cur[th].kind \in CallKinds
  <2>1. cur[th].kind \in {"commit", "undo"}
    BY <1>4 DEF CallKinds, Redoing
  <2>2. CASE Undoes(th) \/ LockRange(th)
    <3>1. cur[th].pc \in Applying \cup {"lock"}
      BY <2>2 DEF Undoes, LockRange, At
    <3>2. cur'[th].txn = cur[th].txn
      BY <2>2, UndoFacts, LockRangeDoes
    <3> QED  BY <1>4, <2>1, <3>1, <3>2 DEF DoneTxn, Applying, Removing
  <2>3. CASE Flow(th)
    <3>1. cur[th].pc \in Removing
      BY <1>4, <2>1, <2>3, FlowPcs DEF DoneTxn
    <3> QED  BY <1>4, <2>3, <3>1 DEF Flow, Fails, Records, Applies, Removes, Ends, Removing
  <2>4. CASE UndoReturn(th)
    BY <1>4, <2>4, UndoReturnDoes DEF Removing
  <2>5. CASE CommitReturn(th)
    BY <1>4, <2>5, ReturnsTyped, IdleFrame
  <2> QED  BY <1>4, <2>2, <2>3, <2>4, <2>5, StepFlow
<1>5. CASE u = th /\ cur[th].kind \notin CallKinds
  <2>1. ~UndoReturn(th)
    BY <1>5 DEF UndoReturn, CallKinds
  <2>2. ~Moves(th)
    BY <1>5 DEF Moves, CallKinds
  <2> QED  BY <1>5, <2>1, <2>2, StepKinds, ReturnsTyped, IdleFrame
<1> QED  BY <1>3, <1>4, <1>5

LEMMA SettledStays ==
  ASSUME LingerApart, IdInv, TypedInv, CallInv, NEW th \in Threads,
         \A u \in Threads : ~Redoing(u), Step(th), NEW i \in Tids, jf'[i] = jf[i],
         NEW t \in Txns, Settled(t, i)
  PROVE  Settled(t, i)'
<1>1. DoneTxn(t)' /\ "LINGER" \in Flags[t]
  BY DoneStays DEF Settled
<1>2. ASSUME NEW c \in WriteSet(t), c \in Cells PROVE cache'[c] = cache[c]
  <2> SUFFICES ASSUME cache'[c] # cache[c] PROVE FALSE
    OBVIOUS
  <2>1. PICK k : k = cur[th].k
    OBVIOUS
  <2>2. cur[th].pc = "apply" /\ IsWrite(cur[th].ops[k]) /\ c \in CellsOf(cur[th].ops[k])
    BY <1>2, <2>1, StepCells
  <2>3. cur[th].kind \in CallKinds
    BY <2>2, CommitKind DEF CommitPCs
  <2>4. cur[th].kind \in {"commit", "undo"}
    BY <2>3 DEF CallKinds, Redoing
  <2>5. k \in 1 .. Len(cur[th].ops) /\ TxnOK(th) /\ CallOK(th)
    BY <2>1, <2>3 DEF TypedInv, TypedThread, OpsOK, CallInv, Safe, IdInv, ThreadOK
  <2>6. cur[th].txn \in Txns /\ CellsOf(cur[th].ops[k]) \subseteq WriteSet(cur[th].txn)
    BY <2>2, <2>4, <2>5, CallTxn, CallWrites
  <2>7. cur[th].txn # t
    BY <2>2, <2>4 DEF Settled, DoneTxn, Removing
  <2> QED  BY <1>1, <2>2, <2>6, <2>7 DEF LingerApart
<1>3. \A c \in Cells : Covers(jf[i], c)' => c \in WriteSet(t) /\ ValueIn(jf[i], c)' = cache'[c]
  BY <1>2, SameFile DEF Settled
<1> QED  BY <1>1, <1>3 DEF Settled, WriteSet, CellsOf, IsWrite
\* The call that has a firm file keeps it, undoes it, says that it could not, or
\* leaves it to linger.
LEMMA FlowHeld ==
  ASSUME IdInv, TypedInv, CallInv, NEW th \in Threads, \A u \in Threads : ~Redoing(u),
         Step(th), Flow(th), NEW i \in Tids, jf'[i] = jf[i], Complete(jf[i]), HeldBy(th, i),
         LocksFile(th, i)'
  PROVE  HeldBy(th, i)' \/ \E t \in Txns : Settled(t, i)'
<1>1. /\ cur[th].pc # "unlock" /\ cur'[th].kind = cur[th].kind /\ saved' = saved
      /\ cur[th].kind \in {"commit", "undo"}
  BY FlowPcs DEF HeldBy
<1>2. CASE cur[th].kind = "undo" /\ saved[th].tid = i
  BY <1>1, <1>2 DEF HeldBy
<1>3. CASE cur[th].tid = i /\ cur[th].pc \in {"apply", "sync", "unlink"}
  <2>1. FileIs(th) /\ TxnOK(th) /\ i # 0
    BY TidsNat DEF CallInv, Safe
  <2>2. cur[th].pc \in Applying => HasWrites(cur[th])
    BY <1>1, <1>3, <2>1 DEF FileIs, CallKinds
  <2>3. "ROLLBACKING" \in cur[th].flags => cur[th].kind = "undo"
    BY <1>1, <2>1, TxnOps DEF TxnOK
  <2>4. CASE Fails(th)
    <3>1. cur'[th].pc = "unlock" /\ cur'[th].retval \in {-1, -2}
      BY <2>4 DEF Fails
    <3>2. cur[th].kind = "commit" => cur'[th].retval = -2
      BY <1>3, <2>2, <2>3, <2>4 DEF Fails, Applying, CommitPCs
    <3> QED  BY <1>1, <3>1, <3>2 DEF HeldBy
  <2>5. CASE Ends(th)
    <3>1. Linger(th)
      BY <1>3, <2>2, <2>5 DEF Ends, Applying
    <3> QED  BY <1>3, <3>1, LingerSettles
  <2>6. CASE Applies(th) \/ Removes(th)
    <3>1. ~UnlinkFile(th)
      BY <1>3, StepFiles1
    <3>2. cur'[th].tid = i /\ cur'[th].pc \in {"apply", "sync", "unlink"}
      BY <1>3, <2>6, <3>1 DEF Applies, Removes
    <3> QED  BY <1>1, <3>2 DEF HeldBy
  <2> QED  BY <1>3, <2>4, <2>5, <2>6 DEF Flow, Records
<1> QED  BY <1>1, <1>2, <1>3 DEF HeldBy

LEMMA HeldStays ==
  ASSUME OneThreadPerProcess, IdInv, TypedInv, CallInv, NEW th \in Threads,
         \A u \in Threads : ~Redoing(u), Step(th), ~ (CommitReturn(th) /\ cur[th].retval = -2),
         NEW i \in Tids, jf'[i] = jf[i], Complete(jf[i]), HeldBy(th, i)
  PROVE  HeldBy(th, i)' \/ \E t \in Txns : Settled(t, i)'
<1>1. cur[th].kind \in {"commit", "undo"} /\ cur[th].kind \in CallKinds
  BY DEF HeldBy, CallKinds
<1>2. ASSUME plocks[ProcOf[th]] \subseteq plocks'[ProcOf[th]] PROVE LocksFile(th, i)'
  BY <1>2, SameFile DEF HeldBy, LocksFile
<1>3. CASE LockRange(th)
  <2>1. cur[th].pc = "lock" /\ cur'[th].kind = cur[th].kind
    BY <1>3, LockRangeDoes DEF Moves
  <2>2. saved' = saved /\ plocks' = [plocks EXCEPT ![ProcOf[th]] = @ \cup Wanted(th)]
    BY <1>3 DEF LockRange
  <2>3. plocks[ProcOf[th]] \subseteq plocks'[ProcOf[th]]
    BY <2>2, JioAssumption DEF TypedInv, TypedLocks
  <2> QED  BY <1>2, <2>1, <2>2, <2>3 DEF HeldBy
<1>4. ASSUME Flow(th) \/ Undoes(th) \/ UndoReturn(th), ~LockRange(th) PROVE LocksFile(th, i)'
  BY <1>2, <1>4, FlowPlocks
<1>5. CASE Flow(th) /\ ~LockRange(th)
  BY <1>4, <1>5, FlowHeld
<1>6. CASE Undoes(th) /\ ~LockRange(th)
  <2>1. /\ cur[th].pc \in Applying /\ cur[th].kind # "undo"
        /\ cur'[th].kind = "undo" /\ saved'[th].tid = cur[th].tid
    BY <1>6, UndoFacts DEF Undoes
  <2> QED  BY <1>4, <1>6, <2>1 DEF HeldBy, Applying
<1>7. CASE UndoReturn(th) /\ ~LockRange(th)
  <2>1. TxnOK(th) /\ CallOK(th) /\ ~Redoing(th)
    BY DEF CallInv, Safe, IdInv, ThreadOK
  <2>2. /\ cur[th].kind = "undo" /\ cur[th].pc = "unlock"
        /\ \/ cur[th].retval >= 0 /\ cur'[th].pc = "unlink"
           \/ ~ (cur[th].retval >= 0) /\ cur'[th].pc = "unlock" /\ cur'[th].retval = -2
        /\ cur'[th].kind = saved[th].kind /\ cur'[th].tid = saved[th].tid
    BY <1>7, UndoReturnDoes
  <2>3. cur'[th].kind = "commit"
    BY <2>1, <2>2, CallTxn
  <2>4. saved[th].tid = i \/ cur[th].retval < 0
    BY <2>2 DEF HeldBy
  <2>5. cur[th].retval \in -2 .. 1
    BY DEF TypedInv, TypedThread
  <2>6. \/ cur'[th].tid = i /\ cur'[th].pc = "unlink"
        \/ cur'[th].pc = "unlock" /\ cur'[th].retval = -2
    BY <2>2, <2>4, <2>5
  <2>7. LocksFile(th, i)'
    BY <1>4, <1>7
  <2> QED  BY <2>3, <2>6, <2>7 DEF HeldBy
<1>8. CASE CommitReturn(th)
  <2>1. cur[th].pc = "unlock" /\ cur[th].kind = "commit" /\ cur[th].retval # -2
    BY <1>8 DEF CommitReturn, At
  <2> QED  BY <2>1 DEF HeldBy
<1> QED  BY <1>1, <1>3, <1>5, <1>6, <1>7, <1>8, StepFlow

LEMMA StepCalmInv ==
  ASSUME OneThreadPerProcess, LingerApart, IdInv, TypedInv, CallInv, JournalInv, CalmInv,
         NEW th \in Threads, Step(th)
  PROVE  CalmInv'
<1> SUFFICES ASSUME Calm', NEW i \in Tids, Firm(i)'
    PROVE  (\E u \in Threads : HeldBy(u, i)') \/ (\E t \in Txns : Settled(t, i)')
  BY DEF CalmInv
<1>1. Safe(th) /\ TxnOK(th) /\ FileIs(th) /\ FsckBusy /\ SureFiles
  BY DEF CallInv, Safe, JournalInv
<1>2. Calm /\ ~ (CommitReturn(th) /\ cur[th].retval = -2)
  BY <1>1, StepCalm
<1>3. \A u \in Threads : ~Redoing(u)
  BY <1>1, <1>2, CalmKinds DEF Calm
<1>4. jf'[i] = jf[i] /\ Complete(jf[i]) /\ (Firm(i) \/ Synced(th, i))
  BY <1>1, StepFirm
<1>5. CASE Synced(th, i)
  BY <1>1, <1>3, <1>5, SyncedHeld
<1>6. CASE Firm(i)
  <2>1. (\E u \in Threads : HeldBy(u, i)) \/ (\E t \in Txns : Settled(t, i))
    BY <1>2, <1>6 DEF CalmInv
  <2>2. ASSUME NEW u \in Threads, HeldBy(u, i)
        PROVE  HeldBy(u, i)' \/ \E t \in Txns : Settled(t, i)'
    <3>1. CASE u = th
      BY <1>2, <1>3, <1>4, <2>2, <3>1, HeldStays
    <3>2. CASE u # th
      BY <1>4, <2>2, <3>2, HeldElsewhere
    <3> QED  BY <3>1, <3>2
  <2>3. ASSUME NEW t \in Txns, Settled(t, i) PROVE Settled(t, i)'
    BY <1>3, <1>4, <2>3, SettledStays
  <2> QED  BY <2>1, <2>2, <2>3
<1> QED  BY <1>4, <1>5, <1>6
-----------------------------------------------------------------------------
(* Calls that begin, jfsck and failures.                                   *)

\* A call begins: no other call, and no transaction that is done, is disturbed.
LEMMA CallCalm ==
  ASSUME IdInv, TypedInv, CalmInv, NEW th \in Threads, Call(th)
  PROVE  CalmInv'
<1>1. /\ UNCHANGED <<cache, jf, jstable, dirty, plocks>> /\ cur[th].pc = "idle" /\ saved' = saved
      /\ \A u \in Threads : u # th => cur'[u] = cur[u]
  <2>1. UNCHANGED <<cache, jf, jstable, dirty, plocks>>
    BY DEF Call, jtrans_commit, jsync, jclose, procVars, fileVars
  <2> QED  BY <2>1, CallsTyped
<1>2. cur[th].kind = "none"
  BY <1>1, IdleFrame DEF IdInv, ThreadOK, CallOK
<1>3. \/ \E s \in Txns : /\ ack' = [ack EXCEPT ![s] = "running"] /\ ack[s] = "new"
                         /\ cur'[th].txn = s
      \/ ack' = ack /\ cur'[th].kind \in SyncKinds
  <2>1. ASSUME NEW s \in Txns, jtrans_commit(th, s) PROVE cur'[th].txn = s
    <3> DEFINE f == Frame("commit", "lock", s, Ops[s], Flags[s])
    <3>1. cur' = [cur EXCEPT ![th] = f] /\ f.txn = s
      BY <2>1 DEF jtrans_commit, Frame
    <3> HIDE DEF f
    <3> QED  BY <3>1, NewCall
  <2>2. ASSUME NEW kind \in SyncKinds, cur' = [cur EXCEPT ![th] = SyncFrame(kind)]
        PROVE  cur'[th].kind = kind
    <3>1. cur'[th] = SyncFrame(kind)
      BY <2>2, NewCall
    <3> QED  BY <3>1 DEF SyncFrame, Frame
  <2>3. CASE \E s \in Txns : jtrans_commit(th, s)
    BY <2>1, <2>3 DEF jtrans_commit
  <2>4. CASE jsync(th) \/ jclose(th)
    <3>1. PICK kind \in SyncKinds : cur' = [cur EXCEPT ![th] = SyncFrame(kind)] /\ ack' = ack
      BY <2>4 DEF jsync, jclose, SyncKinds
    <3> QED  BY <2>2, <3>1
  <2> QED  BY <2>3, <2>4 DEF Call
<1>4. ack = [s \in Txns |-> ack[s]]
  BY DEF TypedInv
<1>5. \A s \in Txns : ack[s] # "new" =>
        ack'[s] = ack[s] /\ ~ (cur'[th].kind \in {"commit", "undo"} /\ cur'[th].txn = s)
  BY <1>3, <1>4 DEF SyncKinds
<1> SUFFICES ASSUME Calm', NEW i \in Tids, Firm(i)'
    PROVE  (\E u \in Threads : HeldBy(u, i)') \/ (\E t \in Txns : Settled(t, i)')
  BY DEF CalmInv
<1>6. Calm
  BY <1>1, <1>5 DEF Calm
<1>7. Firm(i) /\ jf'[i] = jf[i]
  BY <1>1 DEF Firm, Complete, Seen
<1>8. ASSUME NEW u \in Threads, HeldBy(u, i) PROVE HeldBy(u, i)'
  <2>1. u # th
    BY <1>2, <1>8 DEF HeldBy
  <2>2. cur'[u] = cur[u] /\ saved'[u] = saved[u] /\ plocks' = plocks
    BY <1>1, <2>1
  <2>3. LocksFile(u, i)'
    BY <1>7, <1>8, <2>2, SameFile DEF HeldBy, LocksFile
  <2> QED  BY <1>8, <2>2, <2>3 DEF HeldBy
<1>9. ASSUME NEW t \in Txns, Settled(t, i) PROVE Settled(t, i)'
  <2>1. DoneTxn(t)'
    BY <1>1, <1>5, <1>9 DEF Settled, DoneTxn, Removing
  <2>2. \A c \in Cells : Covers(jf[i], c)' => c \in WriteSet(t) /\ ValueIn(jf[i], c)' = cache'[c]
    BY <1>1, <1>7, <1>9, SameFile DEF Settled
  <2> QED  BY <1>9, <2>1, <2>2 DEF Settled, WriteSet, CellsOf, IsWrite
<1> QED  BY <1>6, <1>7, <1>8, <1>9 DEF CalmInv

LEMMA QuietCalm ==
  ASSUME CalmInv, UNCHANGED <<cache, jf, jstable, dirty, plocks, cur, saved, ack>>
  PROVE  CalmInv'
<1> SUFFICES ASSUME Calm', NEW i \in Tids, Firm(i)'
    PROVE  (\E u \in Threads : HeldBy(u, i)') \/ (\E t \in Txns : Settled(t, i)')
  BY DEF CalmInv
<1>1. Calm /\ Firm(i) /\ jf'[i] = jf[i]
  BY DEF Calm, Firm, Complete, Seen
<1>2. ASSUME NEW u \in Threads, HeldBy(u, i) PROVE HeldBy(u, i)'
  <2>1. LocksFile(u, i)'
    BY <1>1, <1>2, SameFile DEF HeldBy, LocksFile
  <2> QED  BY <1>2, <2>1 DEF HeldBy
<1>3. ASSUME NEW t \in Txns, Settled(t, i) PROVE Settled(t, i)'
  <2>1. DoneTxn(t)'
    BY <1>3 DEF Settled, DoneTxn, Removing
  <2>2. \A c \in Cells : Covers(jf[i], c)' => c \in WriteSet(t) /\ ValueIn(jf[i], c)' = cache'[c]
    BY <1>1, <1>3, SameFile DEF Settled
  <2> QED  BY <1>3, <2>1, <2>2 DEF Settled, WriteSet, CellsOf, IsWrite
<1> QED  BY <1>1, <1>2, <1>3 DEF CalmInv

\* From a failure to the end of the check that follows nothing is calm; then
\* the journal directory has no complete file.
LEMMA DirtyCalm ==
  ASSUME dirty'
  PROVE  CalmInv'
  BY DEF CalmInv, Calm

LEMMA FsckCalm ==
  ASSUME IdInv, TypedInv, JournalInv, Fsck \/ PowerFail \/ \E p \in Procs : Kill(p)
  PROVE  CalmInv'
<1>1. CASE FsckStart \/ PowerFail \/ \E p \in Procs : Kill(p)
  BY <1>1, DirtyCalm DEF FsckStart, PowerFail, Kill
<1>2. CASE FsckSkip \/ FsckCommit \/ FsckCommitReturn \/ FsckUnlink
  <2>1. fsck.pc # "off"
    <3>1. CASE FsckCommitReturn
      <4>1. Redoing(Checker)
        BY <3>1 DEF FsckCommitReturn, Redoing
      <4> QED  BY <4>1, JioAssumption DEF TypedInv, TypedFsck
    <3> QED  BY <1>2, <3>1 DEF FsckSkip, FsckCommit, FsckUnlink
  <2>2. dirty' = dirty
    BY <1>2 DEF FsckSkip, FsckCommit, FsckCommitReturn, FsckUnlink, procVars
  <2> QED  BY <2>1, <2>2, DirtyCalm DEF JournalInv, FsckBusy
<1>3. CASE FsckDone
  <2>1. fsck.pc = "scan" /\ fsck.i > fsck.maxtid /\ jf' = jf
    BY <1>3 DEF FsckDone, fileVars
  <2>2. fsck.i \in Nat /\ fsck.maxtid \in Nat
    BY JioAssumption DEF TypedInv, TypedFsck
  <2>3. ASSUME NEW i \in Tids, Seen(i) PROVE FALSE
    <3>1. fsck.i <= i /\ i <= fsck.maxtid /\ i \in Nat
      BY <2>1, <2>3, TidsNat DEF JournalInv, FsckClean, Swept, Seen
    <3> QED  BY <2>1, <2>2, <3>1
  <2>4. \A i \in Tids : ~Firm(i)'
    BY <2>1, <2>3 DEF Firm, Complete, Seen
  <2> QED  BY <2>4 DEF CalmInv
<1> QED  BY <1>1, <1>2, <1>3 DEF Fsck

-----------------------------------------------------------------------------
(* The theorem.                                                            *)

LEMMA InitIsolation == Init => IsolationInv
<1> SUFFICES ASSUME Init PROVE IsolationInv
  OBVIOUS
<1>1. /\ \A th \in Threads : cur[th] = Idle /\ saved[th] = Idle
      /\ jf = [i \in Tids |-> NoFile] /\ fsck.pc = "off"
      /\ cache = [c \in Cells |-> Zero] /\ view = [c \in Cells |-> Zero]
  BY DEF Init, TransInit, FileInit, FsckOff
<1>2. CallInv
  BY <1>1, IdleFrame DEF CallInv, Safe, LocksOK, FileIs, AppliedOK, TxnOK, CallKinds
<1>3. \A i \in Tids : ~Complete(jf[i])
  BY <1>1 DEF Complete
<1>4. JournalInv
  BY <1>1, <1>3 DEF JournalInv, FsckBusy, FsckClean, SureFiles, Seen
<1>5. CalmInv
  BY <1>3 DEF CalmInv, Firm, Seen
<1>6. \A i \in Tids, c \in Cells : ~OnDisk(i, c)
  BY <1>3 DEF OnDisk
<1>7. view = View
  BY <1>1, <1>6 DEF View
<1> QED  BY <1>2, <1>4, <1>5, <1>7 DEF IsolationInv

LEMMA NextIsolation ==
  ASSUME OneThreadPerProcess, LingerApart, IdInv, TypedInv, IsolationInv, Next
  PROVE  CallInv' /\ JournalInv' /\ CalmInv'
<1>1. CallInv /\ JournalInv /\ CalmInv /\ FsckBusy
  BY DEF IsolationInv, JournalInv
<1>2. ASSUME NEW th \in Threads, Step(th) PROVE CallInv' /\ JournalInv' /\ CalmInv'
  BY <1>1, <1>2, StepSafe, StepJournal, StepCalmInv
<1>3. ASSUME NEW th \in Threads, Call(th) PROVE CallInv' /\ JournalInv' /\ CalmInv'
  BY <1>1, <1>3, CallSafe, CallJournal, CallCalm
<1>4. ASSUME NEW p, Open(p) PROVE CallInv' /\ JournalInv' /\ CalmInv'
  <2>1. UNCHANGED <<cache, jf, jstable, dirty, plocks, cur, saved, ack>>
    BY <1>4 DEF Open, jopen, fileVars
  <2> QED  BY <1>1, <1>4, <2>1, QuietSafe, QuietJournal, QuietCalm
<1>5. CASE Fsck
  BY <1>1, <1>5, FsckSafe, FsckJournal, FsckCalm
<1>6. CASE PowerFail \/ \E p \in Procs : Kill(p)
  BY <1>1, <1>6, FailureSafe, FailureJournal, FsckCalm
<1> QED  BY <1>2, <1>3, <1>4, <1>5, <1>6 DEF Next

LEMMA IsolationInductive ==
  ASSUME OneThreadPerProcess, LingerApart, IdInv, TypedInv, IsolationInv, [Next]_vars
  PROVE  IsolationInv'
<1>1. CASE Next
  <2>1. view' = View'
    BY <1>1 DEF Next, Remember
  <2> QED  BY <1>1, <2>1, NextIsolation DEF IsolationInv
<1>2. CASE UNCHANGED vars
  <2>1. UNCHANGED <<cache, jf, jstable, dirty, plocks, cur, saved, ack, view>>
    BY <1>2 DEF vars, fileVars, procVars
  <2>2. CallInv' /\ JournalInv' /\ CalmInv'
    BY <1>2, <2>1, QuietSafe, QuietJournal, QuietCalm DEF IsolationInv
  <2>3. View' = View
    BY <2>1 DEF View, OnDisk, Complete, Covers, ValueIn, CellsOf
  <2> QED  BY <2>1, <2>2, <2>3 DEF IsolationInv
<1> QED  BY <1>1, <1>2

\* When nothing is to be recovered, an unlocked cell has what a recovery would
\* leave there: the file on the disk that has it last is that of a lingering
\* transaction, which has written it.
LEMMA UnlockedCell ==
  ASSUME IdInv, TypedInv, IsolationInv, Calm, NEW c \in Cells, \A p \in Procs : c \notin plocks[p]
  PROVE  cache[c] = view[c]
<1>1. view = View
  BY DEF IsolationInv
<1>2. CASE ~ \E i \in Tids : OnDisk(i, c)
  BY <1>1, <1>2 DEF View
<1>3. CASE \E i \in Tids : OnDisk(i, c)
  <2> DEFINE last == CHOOSE i \in Tids : OnDisk(i, c) /\ \A j \in i + 1 .. MaxTid : ~OnDisk(j, c)
  <2>1. \E i \in Tids : OnDisk(i, c) /\ \A j \in i + 1 .. MaxTid : ~OnDisk(j, c)
    <3> DEFINE A == {i \in Tids : OnDisk(i, c)}
    <3>1. A \in SUBSET (1 .. MaxTid) /\ A # {} /\ MaxTid \in Nat
      BY <1>3, JioAssumption DEF Tids
    <3>2. PICK m \in A : \A k \in A : k <= m
      BY <3>1, Greatest
    <3>3. m \in Tids /\ m \in Nat /\ OnDisk(m, c)
      BY TidsNat
    <3>4. ASSUME NEW j \in m + 1 .. MaxTid PROVE ~OnDisk(j, c)
      <4>1. j \in Tids /\ ~ (j <= m)
        BY <3>1, <3>3, <3>4 DEF Tids
      <4> QED  BY <3>2, <4>1
    <3> QED  BY <3>3, <3>4
  <2>2. last \in Tids /\ OnDisk(last, c)
    BY <2>1
  <2>3. view[c] = ValueIn(jf[last], c)
    BY <1>1, <1>3 DEF View
  <2> HIDE DEF last
  <2>4. Firm(last) /\ Covers(jf[last], c)
    BY <2>2 DEF OnDisk, Firm, Seen
  <2>5. ~ \E th \in Threads : HeldBy(th, last)
    BY <2>4, JioAssumption DEF HeldBy, LocksFile
  <2>6. PICK t \in Txns : Settled(t, last)
    BY <2>2, <2>4, <2>5 DEF IsolationInv, CalmInv
  <2> QED  BY <2>3, <2>4, <2>6 DEF Settled
<1> QED  BY <1>2, <1>3

\* What read() finds in a cell that nobody has locked is what a recovery would
\* leave there, whatever has failed before (lock_file_ranges and the order of
\* the steps of jtrans_commit).
THEOREM NoDirt == ASSUME OneThreadPerProcess, LingerApart PROVE Spec => []NoDirtyReads
<1>1. IdInv /\ TypedInv /\ IsolationInv => NoDirtyReads
  BY UnlockedCell DEF NoDirtyReads, Calm
<1>2. (IdInv /\ TypedInv) /\ IsolationInv /\ [Next]_vars => IsolationInv'
  BY IsolationInductive
<1>3. Spec => [](IdInv /\ TypedInv)
  BY TypedInvHolds
<1>4. Spec => []IsolationInv
  BY <1>2, <1>3, InitIsolation, PTL DEF Spec
<1> QED  BY <1>1, <1>3, <1>4, PTL


=============================================================================
