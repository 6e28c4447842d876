------------------------------ MODULE JioCheck ------------------------------
(***************************************************************************)
(* Failures and recovery of libjio (check.c), composed with the            *)
(* transactions: the power fails or a process is killed at any step, and   *)
(* jfsck replays the transaction files it finds before the file is opened  *)
(* again.  jfsck runs jtrans_commit for every complete file and is itself  *)
(* interrupted like any other process.                                     *)
(***************************************************************************)
EXTENDS JioTrans

CONSTANTS
  MaxCrashes,  \* bound: power failures and killed processes in all while the
               \* file is in use,
  MaxFsckCrashes, \* and how many more before each check has ended
  MayKill      \* processes may be killed while the others go on

VARIABLES
  fsck,        \* jfsck: where it is, the file it is at, the greatest id
  crashes,     \* how many failures there have been
  view,        \* history: the value of View
  before       \* history: before[t] is View when t last came into it

memVars == <<open, plocks, ltrans, ltlock, cur, saved>>
vars == <<fileVars, procVars, cur, saved, ack, faults, fsck, crashes, view, before>>

FsckOff == [pc |-> "off", i |-> 0, maxtid |-> 0]

\* What the file would contain if the power failed now and jfsck ran: the
\* operations of the transaction files that are on the disk for certain, in
\* the order of their ids, over the data.  jfsck passes over a file whose name
\* is no int.
OnDisk(i, c) == i <= MaxInt /\ Complete(jf[i]) /\ Covers(jf[i], c) /\ jstable[i] = {jf[i]}

View ==
  [c \in Cells |->
     IF \E i \in Tids : OnDisk(i, c)
     THEN ValueIn(jf[CHOOSE i \in Tids : OnDisk(i, c) /\ \A j \in i + 1 .. MaxTid : ~OnDisk(j, c)], c)
     ELSE cache[c]]

Applied(f, t) == \A c \in WriteSet(t) : f[c] = t

Init ==
  /\ TransInit
  /\ fsck = FsckOff
  /\ crashes = 0
  /\ view = [c \in Cells |-> Zero]
  /\ before = [t \in Txns |-> [c \in Cells |-> Zero]]

-----------------------------------------------------------------------------
(* jfsck.                                                                  *)

InUse(p) == open[p] \/ \E th \in ThreadsOf(p) : ~At(th, "idle")

\* The greatest number that is the name of a file in the journal directory.
\* A name goes through int rv = atoi(name), and is ignored if rv <= 0: that is
\* so of the ids above MaxInt.
GreatestTid ==
  LET found == {i \in Tids : i <= MaxInt /\ jf[i] # NoFile}
  IN  CHOOSE m \in found \cup {0} : \A i \in found : i <= m

\* Mutant: the lock file keeps what it had.
RewriteLockFileMut == UNCHANGED max

RewriteLockFile == max' = GreatestTid

\* It runs when something is wrong and nobody has the file open.
FsckStart ==
  /\ fsck.pc = "off" /\ (dirty \/ broken) /\ \A p \in Procs : ~InUse(p)
  /\ RewriteLockFile
  /\ fsck' = [pc |-> "scan", i |-> 1, maxtid |-> GreatestTid]
  /\ broken' = FALSE
  /\ dirty' = TRUE
  /\ UNCHANGED <<dataVars, dirVars, jlock, memVars, syncs, ack, faults>>

NextFile == [fsck EXCEPT !.pc = "scan", !.i = @ + 1]

FsckSkip ==
  /\ fsck.pc = "scan" /\ fsck.i <= fsck.maxtid /\ jf[fsck.i] = NoFile
  /\ fsck' = NextFile
  /\ UNCHANGED <<fileVars, procVars, cur, saved, ack, faults>>

\* A complete file is committed again, as a new transaction without flags.
FsckCommit ==
  /\ fsck.pc = "scan" /\ fsck.i <= fsck.maxtid /\ Complete(jf[fsck.i])
  /\ fsck' = [fsck EXCEPT !.pc = "commit"]
  /\ cur' = [cur EXCEPT ![Checker] = Frame("redo", "lock", NoTxn, jf[fsck.i], {})]
  /\ UNCHANGED <<fileVars, procVars, saved, ack, faults>>

\* When that fails jfsck returns J_EIO.
FsckCommitReturn ==
  /\ At(Checker, "unlock") /\ cur[Checker].kind = "redo"
  /\ Unlock(Checker)
  /\ cur' = [cur EXCEPT ![Checker] = Idle]
  /\ fsck' = IF cur[Checker].retval < 0 THEN FsckOff ELSE [fsck EXCEPT !.pc = "unlink"]
  /\ UNCHANGED <<fileVars, open, ltrans, ltlock, dirty, syncs, saved, ack, faults>>

\* The file that was committed, or an incomplete one, is removed.
FsckUnlink ==
  /\ \/ fsck.pc = "unlink"
     \/ fsck.pc = "scan" /\ fsck.i <= fsck.maxtid /\ jf[fsck.i] = Partial
  /\ \/ unlink(fsck.i) /\ fsck' = NextFile /\ UNCHANGED faults
     \/ Fault(Checker, "unlink") /\ fsck' = FsckOff /\ UNCHANGED dirVars
  /\ UNCHANGED <<dataVars, tidVars, broken, procVars, cur, saved, ack>>

FsckDone ==
  /\ fsck.pc = "scan" /\ fsck.i > fsck.maxtid
  /\ fsck' = FsckOff
  /\ dirty' = FALSE
  /\ ack' = [t \in Txns |-> IF ack[t] = "running" THEN "lost" ELSE ack[t]]
  /\ crashes' = IF crashes > MaxCrashes THEN MaxCrashes ELSE crashes
  /\ UNCHANGED <<fileVars, memVars, syncs, faults>>

-----------------------------------------------------------------------------
(* Failures.                                                               *)

Crash ==
  /\ crashes < (IF dirty THEN MaxCrashes + MaxFsckCrashes ELSE MaxCrashes)
  /\ crashes' = crashes + 1

\* Each cell and each transaction file is left with one of the contents the
\* disk may have; the mark "broken" was not synced, nor was the lock file,
\* whose value does not matter as jfsck rewrites it.  Memory is lost.
PowerFail ==
  LET unsure == {i \in Tids : Cardinality(jstable[i]) > 1} IN
  /\ Crash
  /\ \E d \in [Cells -> UNION {stable[c] : c \in Cells}] :
       /\ \A c \in Cells : d[c] \in stable[c]
       /\ cache' = d
       /\ stable' = [c \in Cells |-> {d[c]}]
  /\ \E g \in [unsure -> UNION {jstable[i] : i \in unsure}] :
       /\ \A i \in unsure : g[i] \in jstable[i]
       /\ jf' = [i \in Tids |->
                   IF i \in unsure THEN g[i] ELSE CHOOSE x \in jstable[i] : TRUE]
       /\ jstable' = [i \in Tids |-> {jf'[i]}]
  /\ broken' \in {broken, FALSE}
  /\ jlock' = NoProc
  /\ open' = [p \in Procs |-> FALSE]
  /\ plocks' = [p \in Procs |-> {}]
  /\ ltrans' = [p \in Procs |-> <<>>]
  /\ ltlock' = [p \in Procs |-> NoThread]
  /\ cur' = [th \in Threads |-> Idle]
  /\ saved' = [th \in Threads |-> Idle]
  /\ fsck' = FsckOff
  /\ dirty' = TRUE
  /\ max' = 0
  /\ UNCHANGED <<syncs, ack, faults>>

\* A process is killed, or exits without jclose: the kernel drops its locks.
Kill(p) ==
  /\ MayKill /\ Crash
  /\ InUse(p)
  /\ open' = [open EXCEPT ![p] = FALSE]
  /\ plocks' = [plocks EXCEPT ![p] = {}]
  /\ ltrans' = [ltrans EXCEPT ![p] = <<>>]
  /\ ltlock' = [ltlock EXCEPT ![p] = NoThread]
  /\ cur' = [th \in Threads |-> IF ProcOf[th] = p THEN Idle ELSE cur[th]]
  /\ saved' = [th \in Threads |-> IF ProcOf[th] = p THEN Idle ELSE saved[th]]
  /\ jlock' = IF jlock = p THEN NoProc ELSE jlock
  /\ fsck' = IF ProcOf[Checker] = p THEN FsckOff ELSE fsck
  /\ dirty' = TRUE
  /\ UNCHANGED <<dataVars, dirVars, max, broken, syncs, ack, faults>>

-----------------------------------------------------------------------------

Commit(th) ==
  \/ LockRange(th) \/ LockDeadlock(th)
  \/ journal_new_broken(th) \/ get_tid_read(th) \/ get_tid_write(th)
  \/ FillFile(th) \/ OpenFails(th) \/ HeaderFails(th) \/ FillFails(th)
  \/ CommitFile(th) \/ SyncFile(th) \/ SyncFileFails(th)
  \/ ReadOp(th) \/ WriteOp(th) \/ OpFails(th)
  \/ NothingToSync(th) \/ Linger(th) \/ SyncData(th) \/ SyncDataFails(th)
  \/ UnlinkFile(th) \/ SyncDir(th) \/ MarkBroken(th)
  \/ free_tid_read(th) \/ free_tid_write(th)
  \/ CommitReturn(th) \/ UndoReturn(th)

Sync(th) ==
  \/ SyncAll(th) \/ SyncAllFails(th) \/ TakeLtlock(th) \/ NextLinger(th)
  \/ jsyncReturn(th) \/ jcloseReturn(th)

\* A step of a call that a thread is in.
Step(th) == (Commit(th) \/ Sync(th)) /\ UNCHANGED <<fsck, crashes>>

\* A call begins.
Call(th) ==
  /\ \/ \E t \in Txns : jtrans_commit(th, t)
     \/ jsync(th)
     \/ jclose(th)
  /\ UNCHANGED <<fsck, crashes>>

Open(p) == jopen(p) /\ fsck.pc = "off" /\ UNCHANGED <<fsck, crashes>>

Fsck ==
  \/ /\ FsckStart \/ FsckSkip \/ FsckCommit \/ FsckCommitReturn \/ FsckUnlink
     /\ UNCHANGED crashes
  \/ FsckDone

\* History: the contents that a transaction replaces when it comes in.
Remember ==
  /\ view' = View'
  /\ before' = [t \in Txns |->
       IF ack[t] = "running" /\ ~Applied(view, t) /\ Applied(view', t)
       THEN view ELSE before[t]]

Next ==
  /\ \/ \E th \in Threads : Step(th) \/ Call(th)
     \/ \E p \in Procs \ {ProcOf[Checker]} : Open(p)
     \/ Fsck
     \/ PowerFail
     \/ \E p \in Procs : Kill(p)
  /\ Remember

Spec == Init /\ [][Next]_vars

\* A call that can go on does go on: threads are scheduled, and a process
\* that waits for a lock gets it when it is free.
FairSpec == Spec /\ \A th \in Threads : WF_cur(Step(th))

-----------------------------------------------------------------------------

PCs == {"idle", "lock", "get_tid", "get_tid_write", "fill", "trailer", "fsync",
        "apply", "sync", "unlink", "fsync_dir", "free_tid", "free_tid_write",
        "unlock", "fdatasync", "ltlock", "next"}

\* The values of the variables.  A commit that is at its transaction file has
\* an id, which is not 0, although the ids run out.
TypeOK ==
  /\ cache \in [Cells -> Txns \cup {Zero, Garbage}]
  /\ \A c \in Cells : cache[c] \in stable[c]
  /\ \A i \in Tids : jf[i] \in jstable[i]
  /\ max \in 0 .. MaxTid
  /\ jlock \in Procs \cup {NoProc}
  /\ \A th \in Threads :
       /\ cur[th].pc \in PCs /\ cur[th].tid \in 0 .. MaxTid
       /\ cur[th].pc \in {"fill", "trailer", "fsync"} => cur[th].tid \in Tids
       /\ cur[th].retval \in -2 .. 1 /\ cur[th].held \subseteq plocks[ProcOf[th]]
  /\ plocks \in [Procs -> SUBSET Cells]
  /\ ack \in [Txns -> Acks]

Abstract == INSTANCE AtomicFile WITH file <- view

\* Transactions are atomic and durable across faults, power failures and
\* interrupted recoveries: libjio implements AtomicFile (jtrans_commit,
\* jtrans_rollback, jsync and jfsck together).
ImplementsAtomicFile == Abstract!Spec

\* What read() finds in a cell that nobody has locked is what a recovery
\* would leave there: no transaction reads data that may yet be undone
\* (lock_file_ranges is called before the first write and after the last).
NoDirtyReads ==
  (~dirty /\ \A t \in Txns : ack[t] # "severe") =>
    \A c \in Cells : (\A p \in Procs : c \notin plocks[p]) => cache[c] = view[c]

\* What a commit that returned successfully wrote is on the disk, in the file
\* or in a transaction file that recovery will find (libjio.h: "After this
\* function returns successfully, all the data can be trusted to be on the
\* disk"), as long as nothing has been written over it.
CommittedOnDisk ==
  \A t \in Txns : ack[t] = "ok" =>
    \A c \in WriteSet(t) : cache[c] = t =>
      stable[c] = {t} \/ \E i \in Tids : OnDisk(i, c)

\* What a commit that returned successfully wrote stays (libjio.h, as above):
\* it is gone from what a recovery leaves only when a transaction that is under
\* way writes there, never for one that has failed or has been undone.
CommitsStay ==
  [][\A t \in Txns : ack[t] = "ok" /\ Applied(view, t) /\ ~Applied(view', t) =>
       \E u \in Txns : ack[u] \in {"running", "severe"} /\ WriteSet(u) \cap WriteSet(t) # {}]_vars

\* Who has the transaction id i: calls that got it and have not freed it, and
\* lingering transactions.
Owners(i) ==
  {<<"call", th>> : th \in {u \in Threads :
       cur[u].tid = i /\ cur[u].kind \in {"commit", "undo", "redo"}}}
    \cup {<<"saved", th>> : th \in {u \in Threads : saved[u].tid = i}}
    \cup UNION {{<<p, k>> : k \in {j \in DOMAIN ltrans[p] : ltrans[p][j] = i}} : p \in Procs}

\* Two transactions never have the same id (doc/tids.rst: "it's impossible to
\* assign the same tid to two different transactions"), whatever fails in
\* get_tid and free_tid's callers, and whoever is killed in between.
TidsUnique == \A i \in Tids : Cardinality(Owners(i)) <= 1

\* A complete transaction file, which recovery may need, is never truncated
\* by the open(O_CREAT | O_TRUNC) of a later transaction: the greatest id in
\* the lock file stays above the files that failures leave behind.  So it is
\* of the files that jfsck can see, which are those with an id up to MaxInt.
JournalKept ==
  \A th \in Threads :
    At(th, "fill") /\ cur[th].tid <= MaxInt => ~Complete(jf[cur[th].tid])

\* A commit returns: processes that lock ranges in opposite orders do not
\* wait for each other for ever, and no fault makes one keep a lock.
CommitReturns ==
  \A t \in Txns : ack[t] = "running" ~> (ack[t] # "running" \/ dirty)

=============================================================================
