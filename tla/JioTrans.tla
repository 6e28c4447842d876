------------------------------ MODULE JioTrans ------------------------------
(***************************************************************************)
(* The transactions of libjio (trans.c, journal.c): jtrans_commit with the *)
(* rollback it tries when it cannot apply its operations, lingering        *)
(* transactions and jsync, jopen and jclose.                               *)
(*                                                                         *)
(* A thread runs one call at a time, in steps between which other threads, *)
(* other processes and failures come.  A frame holds the call's local      *)
(* variables and the place (pc) of its next step.                          *)
(***************************************************************************)
EXTENDS JioFile

CONSTANTS
  Txns,           \* the transactions that are committed, once each
  Ops,            \* Ops[t]: its operations in order, [dir, off, buf]
  Flags,          \* Flags[t]: its flags, among "LINGER" and "NOROLLBACK"
  Runner,         \* Runner[t]: the thread that commits it
  Threads, Procs,
  ProcOf,         \* the process of each thread
  Checker,        \* the thread that runs jfsck
  HaveSyncRange,  \* have_sync_range: data is synced by sync_file_range
  Faults,         \* Faults[th]: the system calls that may fail in thread th
  MaxFaults,      \* bound: how many of them do
  MaxSyncs        \* bound: the calls of jsync and jclose

ASSUME JioAssumption ==
  /\ MaxTid \in Nat /\ MaxInt \in Nat
  /\ ProcOf \in [Threads -> Procs]
  /\ Checker \in Threads
  /\ NoProc \notin Procs

\* Operations stay within the file, and a transaction has some.
ASSUME OpsAssumption ==
  /\ Ops \in [Txns -> Seq([dir : {"R", "W"}, off : Nat, buf : Seq(Txns)])]
  /\ \A t \in Txns : Ops[t] # <<>> /\ \A k \in DOMAIN Ops[t] : CellsOf(Ops[t][k]) \subseteq Cells
  /\ Flags \in [Txns -> SUBSET {"LINGER", "NOROLLBACK"}]

VARIABLES
  open,           \* open[p]: process p has the file open
  cur,            \* cur[th]: the frame of the call that thread th is in
  saved,          \* saved[th]: the commit that a rollback interrupts
  plocks,         \* plocks[p]: the cells on which p has fcntl locks
  ltrans,         \* ltrans[p]: the ids of its lingering transactions
  ltlock,         \* ltlock[p]: the thread of p that holds fs->ltlock
  dirty,          \* jfsck has to run before the file is opened again
  ack,            \* ack[t]: what jtrans_commit returned
  faults,         \* how many system calls have failed
  syncs           \* how often jsync or jclose has been called

procVars == <<open, plocks, ltrans, ltlock, dirty, syncs>>
fileVars == <<cache, stable, jf, jstable, max, jlock, broken>>

NoThread == "nothread"
NoTxn == "notxn"

\* A linger whose journal_op has been freed by a journal_free that failed.
Dangling == 0

Acks == {"new", "running", "ok", "failed", "severe", "lost"}

IsWrite(op) == op.dir = "W"

\* The write operations, in order; w[k] are those among the first k.
Writes(ops) ==
  LET w[k \in 0 .. Len(ops)] ==
        IF k = 0 THEN <<>>
        ELSE IF IsWrite(ops[k]) THEN Append(w[k - 1], ops[k]) ELSE w[k - 1]
  IN  w[Len(ops)]
HasWrites(f) == Writes(f.ops) # <<>>
WriteSet(t) == UNION {CellsOf(Ops[t][k]) : k \in {j \in DOMAIN Ops[t] : IsWrite(Ops[t][j])}}

Frame(kind, pc, t, ops, flags) ==
  [kind |-> kind, pc |-> pc, txn |-> t, ops |-> ops, flags |-> flags,
   prev |-> <<>>, tid |-> 0, k |-> 1, curid |-> 0, held |-> {}, retval |-> -1]

Idle == Frame("none", "idle", NoTxn, <<>>, {})

TransInit ==
  /\ FileInit
  /\ open = [p \in Procs |-> FALSE]
  /\ cur = [th \in Threads |-> Idle]
  /\ saved = [th \in Threads |-> Idle]
  /\ plocks = [p \in Procs |-> {}]
  /\ ltrans = [p \in Procs |-> <<>>]
  /\ ltlock = [p \in Procs |-> NoThread]
  /\ dirty = FALSE
  /\ ack = [t \in Txns |-> "new"]
  /\ faults = 0
  /\ syncs = 0

At(th, pc) == cur[th].pc = pc

Goto(th, pc) == cur' = [cur EXCEPT ![th].pc = pc, ![th].k = 1]

\* goto unlock_exit with a return value; a file that is there stays there.
Return(th, rv) == cur' = [cur EXCEPT ![th].pc = "unlock", ![th].k = 1, ![th].retval = rv]

Fault(th, call) == call \in Faults[th] /\ faults < MaxFaults /\ faults' = faults + 1

-----------------------------------------------------------------------------
(* jtrans_commit: the locks.                                               *)

jtrans_commit(th, t) ==
  /\ At(th, "idle") /\ open[ProcOf[th]]
  /\ Runner[t] = th /\ ack[t] = "new"
  /\ ack' = [ack EXCEPT ![t] = "running"]
  /\ cur' = [cur EXCEPT ![th] = Frame("commit", "lock", t, Ops[t], Flags[t])]
  /\ UNCHANGED <<fileVars, procVars, saved, faults>>

\* Mutant: only the first byte of the range is locked.
WantedMut(th) == {cur[th].ops[cur[th].k].off}

\* The range that a thread waits for, and the processes that keep it waiting.
Wanted(th) == CellsOf(cur[th].ops[cur[th].k])
Blockers(th) == {p \in Procs \ {ProcOf[th]} : plocks[p] \cap Wanted(th) # {}}

\* One fcntl(F_SETLKW) of lock_file_ranges.
LockRange(th) ==
  /\ At(th, "lock") /\ Blockers(th) = {}
  /\ plocks' = [plocks EXCEPT ![ProcOf[th]] = @ \cup Wanted(th)]
  /\ LET f == cur[th]
         g == [f EXCEPT !.held = @ \cup Wanted(th)]
     IN cur' = [cur EXCEPT ![th] =
          IF f.k < Len(f.ops) THEN [g EXCEPT !.k = @ + 1]
          ELSE [g EXCEPT !.k = 1, !.pc = IF HasWrites(f) THEN "get_tid" ELSE "apply"]]
  /\ UNCHANGED <<fileVars, open, ltrans, ltlock, dirty, syncs, saved, ack, faults>>

\* A cycle of processes that wait for each other: fcntl fails with EDEADLK.
Waiting(th) == At(th, "lock") /\ Blockers(th) # {}

\* Mutant: fcntl does not detect the cycle.
DeadlockedMut(th) == FALSE

Deadlocked(th) ==
  \E S \in SUBSET Threads :
    /\ th \in S
    /\ \A u \in S : Waiting(u) /\ \E v \in S : ProcOf[v] \in Blockers(u)

LockDeadlock(th) ==
  /\ At(th, "lock") /\ Deadlocked(th)
  /\ Return(th, -1)
  /\ UNCHANGED <<fileVars, procVars, saved, ack, faults>>

-----------------------------------------------------------------------------
(* jtrans_commit: the transaction file.                                    *)

journal_new_broken(th) ==
  /\ At(th, "get_tid") /\ broken
  /\ Return(th, -1)
  /\ UNCHANGED <<fileVars, procVars, saved, ack, faults>>

get_tid_read(th) ==
  /\ At(th, "get_tid") /\ ~broken
  /\ LockTids(ProcOf[th])
  /\ cur' = [cur EXCEPT ![th].pc = "get_tid_write", ![th].curid = max]
  /\ UNCHANGED <<dataVars, dirVars, max, broken, procVars, saved, ack, faults>>

\* Mutant: that curid + 1 may be 0 goes unnoticed.
get_tid_writeMut(th) ==
  LET rv == (cur[th].curid + 1) % (MaxTid + 1) IN
  /\ At(th, "get_tid_write")
  /\ jlock' = NoProc
  /\ max' = rv
  /\ cur' = [cur EXCEPT ![th].pc = "fill", ![th].curid = 0, ![th].tid = rv]
  /\ UNCHANGED <<dataVars, dirVars, broken, procVars, saved, ack, faults>>

\* curid + 1 is 0 when it overflows, and journal_new fails.
get_tid_write(th) ==
  /\ At(th, "get_tid_write")
  /\ jlock' = NoProc
  /\ IF cur[th].curid = MaxTid
     THEN Return(th, -1) /\ UNCHANGED max
     ELSE /\ max' = cur[th].curid + 1
          /\ cur' = [cur EXCEPT ![th].pc = "fill", ![th].curid = 0,
                                ![th].tid = cur[th].curid + 1]
  /\ UNCHANGED <<dataVars, dirVars, broken, procVars, saved, ack, faults>>

\* What operation_read_prev reads for each operation.
PrevOf(f) ==
  IF "NOROLLBACK" \in f.flags THEN <<>>
  ELSE [k \in DOMAIN f.ops |->
          [j \in DOMAIN f.ops[k].buf |-> cache[f.ops[k].off + j - 1]]]

\* The file with its header and operations, then the previous data.
FillFile(th) ==
  /\ At(th, "fill")
  /\ CreateFile(cur[th].tid)
  /\ cur' = [cur EXCEPT ![th].pc = "trailer", ![th].prev = PrevOf(cur[th])]
  /\ UNCHANGED <<dataVars, tidVars, broken, procVars, saved, ack, faults>>

\* open fails: the id is not freed.
OpenFails(th) ==
  /\ At(th, "fill") /\ Fault(th, "open")
  /\ Return(th, -1)
  /\ UNCHANGED <<fileVars, procVars, saved, ack>>

\* The header cannot be written: the file is unlinked and the id freed.
HeaderFails(th) ==
  /\ At(th, "fill") /\ Fault(th, "header")
  /\ CreateAndUnlink(cur[th].tid)
  /\ Goto(th, "free_tid")
  /\ UNCHANGED <<dataVars, tidVars, broken, procVars, saved, ack>>

\* An operation, the previous data or the trailer fails: the file stays.
FillFails(th) ==
  /\ cur[th].pc \in {"fill", "trailer"} /\ Fault(th, "fill")
  /\ CreateFile(cur[th].tid)
  /\ Return(th, -1)
  /\ UNCHANGED <<dataVars, tidVars, broken, procVars, saved, ack>>

\* journal_commit.
CommitFile(th) ==
  /\ At(th, "trailer")
  /\ WriteTrailer(cur[th].tid, Writes(cur[th].ops))
  /\ Goto(th, "fsync")
  /\ UNCHANGED <<dataVars, tidVars, broken, procVars, saved, ack, faults>>

SyncFile(th) ==
  /\ At(th, "fsync")
  /\ FsyncFile(cur[th].tid)
  /\ Goto(th, "apply")
  /\ UNCHANGED <<dataVars, tidVars, broken, procVars, saved, ack, faults>>

SyncFileFails(th) ==
  /\ At(th, "fsync") /\ Fault(th, "fsync")
  /\ Return(th, -1)
  /\ UNCHANGED <<fileVars, procVars, saved, ack>>

-----------------------------------------------------------------------------
(* jtrans_commit: the data, and the rollback.                              *)

\* jtrans_rollback: the previous data of the write operations, from the last
\* to the first, is committed under the locks that the transaction holds.
UndoOps(f) ==
  LET n == Len(f.ops)
      undo == [k \in 1 .. n |-> [f.ops[n + 1 - k] EXCEPT !.buf = f.prev[n + 1 - k]]]
  IN  Writes(undo)

UndoFrame(f) ==
  Frame("undo", "get_tid", f.txn, UndoOps(f), f.flags \cup {"NOLOCK", "ROLLBACKING"})

\* The label rollback_exit.
RollbackExit(th) ==
  LET f == cur[th] IN
  IF ~HasWrites(f) \/ "ROLLBACKING" \in f.flags
  THEN Return(th, -1) /\ UNCHANGED saved
  ELSE IF "NOROLLBACK" \in f.flags
  THEN Return(th, -2) /\ UNCHANGED saved
  ELSE /\ saved' = [saved EXCEPT ![th] = [f EXCEPT !.k = 1]]
       /\ cur' = [cur EXCEPT ![th] = UndoFrame(f)]

NextOp(th) ==
  IF cur[th].k < Len(cur[th].ops)
  THEN cur' = [cur EXCEPT ![th].k = @ + 1]
  ELSE Goto(th, "sync")

ReadOp(th) ==
  /\ At(th, "apply") /\ ~IsWrite(cur[th].ops[cur[th].k])
  /\ NextOp(th)
  /\ UNCHANGED <<fileVars, procVars, saved, ack, faults>>

WriteOp(th) ==
  /\ At(th, "apply") /\ IsWrite(cur[th].ops[cur[th].k])
  /\ pwrite(cur[th].ops[cur[th].k], th = Checker)
  /\ NextOp(th)
  /\ UNCHANGED <<dirVars, tidVars, broken, procVars, saved, ack, faults>>

\* spread or spwrite fails, after a part of the buffer has been written.
OpFails(th) ==
  /\ At(th, "apply") /\ Fault(th, "write")
  /\ LET op == cur[th].ops[cur[th].k] IN
     IF IsWrite(op)
     THEN \E n \in 0 .. Len(op.buf) - 1 :
            pwrite([op EXCEPT !.buf = SubSeq(@, 1, n)], th = Checker)
     ELSE UNCHANGED dataVars
  /\ RollbackExit(th)
  /\ UNCHANGED <<dirVars, tidVars, broken, procVars, ack>>

SyncDone(th, pc) ==
  cur' = [cur EXCEPT ![th].pc = pc, ![th].k = 1, ![th].retval = 1,
                     ![th].tid = IF pc = "unlock" THEN 0 ELSE @]

NothingToSync(th) ==
  /\ At(th, "sync") /\ ~HasWrites(cur[th])
  /\ SyncDone(th, "unlock")
  /\ UNCHANGED <<fileVars, procVars, saved, ack, faults>>

\* A lingering transaction is left to jsync.
Linger(th) ==
  /\ At(th, "sync") /\ HasWrites(cur[th]) /\ "LINGER" \in cur[th].flags
  /\ ltlock[ProcOf[th]] = NoThread
  /\ ltrans' = [ltrans EXCEPT ![ProcOf[th]] = Append(@, cur[th].tid)]
  /\ SyncDone(th, "unlock")
  /\ UNCHANGED <<fileVars, open, plocks, ltlock, dirty, syncs, saved, ack, faults>>

\* sync_range_submit and sync_range_wait get op->len as the offset and
\* op->offset as the number of bytes.
SyncRanges(ops) ==
  {[offset |-> Len(ops[k].buf), nbytes |-> ops[k].off] : k \in DOMAIN ops}

SyncData(th) ==
  /\ At(th, "sync") /\ HasWrites(cur[th]) /\ "LINGER" \notin cur[th].flags
  /\ IF HaveSyncRange THEN sync_file_range(SyncRanges(Writes(cur[th].ops))) ELSE fdatasync
  /\ SyncDone(th, "unlink")
  /\ UNCHANGED <<dirVars, tidVars, broken, procVars, saved, ack, faults>>

SyncDataFails(th) ==
  /\ At(th, "sync") /\ HasWrites(cur[th]) /\ "LINGER" \notin cur[th].flags
  /\ Fault(th, "datasync")
  /\ RollbackExit(th)
  /\ UNCHANGED <<fileVars, procVars, ack>>

-----------------------------------------------------------------------------
(* journal_free.                                                           *)

\* journal_free is called by jsync, for a lingering transaction.
Syncing(th) == cur[th].kind \in {"jsync", "jclose"}

UnlinkFile(th) ==
  /\ At(th, "unlink")
  /\ \/ unlink(cur[th].tid) /\ UNCHANGED faults
     \/ Fault(th, "unlink") /\ TruncateFile(cur[th].tid)
     \/ Fault(th, "truncate") /\ corrupt_journal_file(cur[th].tid)
  /\ Goto(th, "fsync_dir")
  /\ UNCHANGED <<dataVars, tidVars, broken, procVars, saved, ack>>

SyncDir(th) ==
  /\ At(th, "fsync_dir")
  /\ fsync_dir
  /\ Goto(th, "free_tid")
  /\ UNCHANGED <<dataVars, tidVars, broken, procVars, saved, ack, faults>>

\* The file can be neither removed nor corrupted, or its removal not synced:
\* mark_broken.  jsync leaves the journal_op it has freed in the list.
MarkBroken(th) ==
  /\ \/ At(th, "unlink") /\ Fault(th, "corrupt")
     \/ At(th, "fsync_dir") /\ Fault(th, "dirsync")
  /\ broken' = TRUE
  /\ IF Syncing(th)
     THEN Return(th, -1) /\ ltrans' = [ltrans EXCEPT ![ProcOf[th]][1] = Dangling]
     ELSE Return(th, -2) /\ UNCHANGED ltrans
  /\ UNCHANGED <<dataVars, dirVars, tidVars, open, plocks, ltlock, dirty, syncs, saved, ack>>

free_tid_read(th) ==
  /\ At(th, "free_tid")
  /\ LockTids(ProcOf[th])
  /\ cur' = [cur EXCEPT ![th].pc = "free_tid_write", ![th].curid = max]
  /\ UNCHANGED <<dataVars, dirVars, max, broken, procVars, saved, ack, faults>>

free_tid_write(th) ==
  /\ At(th, "free_tid_write")
  /\ free_tid(cur[th].tid, cur[th].curid)
  /\ cur' = [cur EXCEPT ![th].curid = 0, ![th].tid = 0,
                        ![th].pc = IF Syncing(th) THEN "next" ELSE "unlock"]
  /\ ltrans' = IF Syncing(th) THEN [ltrans EXCEPT ![ProcOf[th]] = Tail(@)] ELSE ltrans
  /\ UNCHANGED <<dataVars, dirVars, broken, open, plocks, ltlock, dirty, syncs, saved, ack, faults>>

-----------------------------------------------------------------------------
(* The ends of jtrans_commit.                                              *)

Outcome(rv) == CASE rv >= 0 -> "ok" [] rv = -1 -> "failed" [] rv = -2 -> "severe"

Unlock(th) ==
  plocks' = [plocks EXCEPT ![ProcOf[th]] = @ \ cur[th].held]

CommitReturn(th) ==
  /\ At(th, "unlock") /\ cur[th].kind = "commit"
  /\ Unlock(th)
  /\ ack' = [ack EXCEPT ![cur[th].txn] = Outcome(cur[th].retval)]
  /\ cur' = [cur EXCEPT ![th] = Idle]
  /\ UNCHANGED <<fileVars, open, ltrans, ltlock, dirty, syncs, saved, faults>>

\* The commit of the rollback returns to the commit that failed.  It removes
\* the transaction file only when the rollback succeeded.
UndoReturn(th) ==
  /\ At(th, "unlock") /\ cur[th].kind = "undo"
  /\ cur' = [cur EXCEPT ![th] =
       IF cur[th].retval >= 0
       THEN [saved[th] EXCEPT !.pc = "unlink", !.retval = -1]
       ELSE [saved[th] EXCEPT !.pc = "unlock", !.retval = -2]]
  /\ saved' = [saved EXCEPT ![th] = Idle]
  /\ UNCHANGED <<fileVars, procVars, ack, faults>>

-----------------------------------------------------------------------------
(* jopen, jsync and jclose.  The autosync thread calls jsync whenever its  *)
(* time is up or enough has been written: a thread may call it at any time.*)

ThreadsOf(p) == {th \in Threads : ProcOf[th] = p}

\* A list with a dangling element is not followed: what happens is undefined.
Intact(p) == Dangling \notin {ltrans[p][k] : k \in DOMAIN ltrans[p]}

SyncFrame(kind) == Frame(kind, "fdatasync", NoTxn, <<>>, {})

jsync(th) ==
  /\ At(th, "idle") /\ open[ProcOf[th]] /\ Intact(ProcOf[th])
  /\ syncs < MaxSyncs /\ syncs' = syncs + 1
  /\ cur' = [cur EXCEPT ![th] = SyncFrame("jsync")]
  /\ UNCHANGED <<fileVars, open, plocks, ltrans, ltlock, dirty, saved, ack, faults>>

SyncAll(th) ==
  /\ At(th, "fdatasync")
  /\ fdatasync
  /\ Goto(th, "ltlock")
  /\ UNCHANGED <<dirVars, tidVars, broken, procVars, saved, ack, faults>>

SyncAllFails(th) ==
  /\ At(th, "fdatasync") /\ Fault(th, "datasync")
  /\ Return(th, -1)
  /\ UNCHANGED <<fileVars, procVars, saved, ack>>

TakeLtlock(th) ==
  /\ At(th, "ltlock") /\ ltlock[ProcOf[th]] = NoThread
  /\ ltlock' = [ltlock EXCEPT ![ProcOf[th]] = th]
  /\ Goto(th, "next")
  /\ UNCHANGED <<fileVars, open, plocks, ltrans, dirty, syncs, saved, ack, faults>>

NextLinger(th) ==
  LET list == ltrans[ProcOf[th]] IN
  /\ At(th, "next")
  /\ cur' = [cur EXCEPT ![th] =
       IF list = <<>> THEN [@ EXCEPT !.pc = "unlock", !.retval = 0]
       ELSE [@ EXCEPT !.pc = "unlink", !.tid = Head(list)]]
  /\ UNCHANGED <<fileVars, procVars, saved, ack, faults>>

Release(th) ==
  ltlock' = [ltlock EXCEPT ![ProcOf[th]] = IF @ = th THEN NoThread ELSE @]

jsyncReturn(th) ==
  /\ At(th, "unlock") /\ cur[th].kind = "jsync"
  /\ Release(th)
  /\ cur' = [cur EXCEPT ![th] = Idle]
  /\ UNCHANGED <<fileVars, open, plocks, ltrans, dirty, syncs, saved, ack, faults>>

jopen(p) ==
  /\ ~open[p] /\ ~dirty /\ \A th \in ThreadsOf(p) : At(th, "idle")
  /\ open' = [open EXCEPT ![p] = TRUE]
  /\ UNCHANGED <<fileVars, plocks, ltrans, ltlock, cur, dirty, syncs, saved, ack, faults>>

\* The caller has stopped its other threads.
jclose(th) ==
  /\ open[ProcOf[th]] /\ Intact(ProcOf[th])
  /\ syncs < MaxSyncs /\ syncs' = syncs + 1
  /\ \A u \in ThreadsOf(ProcOf[th]) : At(u, "idle")
  /\ open' = [open EXCEPT ![ProcOf[th]] = FALSE]
  /\ cur' = [cur EXCEPT ![th] = SyncFrame("jclose")]
  /\ UNCHANGED <<fileVars, plocks, ltrans, ltlock, dirty, saved, ack, faults>>

\* What jsync could not remove stays in the journal directory.
jcloseReturn(th) ==
  /\ At(th, "unlock") /\ cur[th].kind = "jclose"
  /\ Release(th)
  /\ ltrans' = [ltrans EXCEPT ![ProcOf[th]] = <<>>]
  /\ dirty' = (dirty \/ ltrans[ProcOf[th]] # <<>>)
  /\ cur' = [cur EXCEPT ![th] = Idle]
  /\ UNCHANGED <<fileVars, open, plocks, syncs, saved, ack, faults>>

=============================================================================
