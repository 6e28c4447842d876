------------------------------ MODULE JioProofs ------------------------------
(***************************************************************************)
(* The transaction ids of libjio, for any number of processes of one       *)
(* thread each, whatever fails and whoever is killed: no id has two        *)
(* owners, and no transaction truncates a file that jfsck would replay.    *)
(***************************************************************************)
EXTENDS JioCheck, FiniteSetTheorems, WellFoundedInduction, TLAPS

\* fcntl locks belong to processes: the threads of one process are not kept
\* apart, and share ids.
OneThreadPerProcess == \A th, u \in Threads : ProcOf[th] = ProcOf[u] => th = u

-----------------------------------------------------------------------------
(* The inductive invariant: first what it says of one thread, then of all. *)

CallKinds == {"commit", "undo", "redo"}
SyncKinds == {"jsync", "jclose"}

\* A frame is a record with the fields that Frame gives it.
IsFrame(f) ==
  f = [kind |-> f.kind, pc |-> f.pc, txn |-> f.txn, ops |-> f.ops, flags |-> f.flags,
       prev |-> f.prev, tid |-> f.tid, k |-> f.k, curid |-> f.curid, held |-> f.held,
       retval |-> f.retval]

FrameOK(th) ==
  /\ IsFrame(cur[th]) /\ IsFrame(saved[th])
  /\ cur[th].kind \in CallKinds \cup SyncKinds \cup {"none"}
  /\ cur[th].tid \in 0 .. MaxTid /\ saved[th].tid \in 0 .. MaxTid

\* A thread between calls has an empty frame.  While a rollback is under way,
\* and only then, the frame of the commit that failed is kept, with its id.
CallOK(th) ==
  /\ cur[th].pc = "idle" \/ cur[th].kind = "none" => cur[th] = Idle
  /\ cur[th].kind = "undo" =>
       /\ "ROLLBACKING" \in cur[th].flags
       /\ saved[th].kind \in CallKinds \ {"undo"} /\ saved[th].tid \in Tids
       /\ saved[th].pc # "idle"
  /\ cur[th].kind # "undo" => saved[th] = Idle

\* A call has an id from get_tid to free_tid.
WithId == {"fill", "trailer", "fsync", "unlink", "fsync_dir", "free_tid", "free_tid_write"}
HasId(th) ==
  cur[th].pc \in WithId \/ (cur[th].pc \in {"apply", "sync"} /\ HasWrites(cur[th]))
    => cur[th].tid \in Tids

\* Between the read and the write of the greatest id nobody changes it.
MaxRead(th) ==
  cur[th].pc \in {"get_tid_write", "free_tid_write"} =>
    jlock = ProcOf[th] /\ cur[th].curid = max

\* jsync frees the first of the lingering transactions, and the list has no
\* dangling elements.
Removing == {"unlink", "fsync_dir", "free_tid", "free_tid_write"}
SyncPCs == {"fdatasync", "ltlock", "next"}
SyncOK(th) ==
  /\ cur[th].pc \in SyncPCs => cur[th].kind \in SyncKinds
  /\ cur[th].kind \in SyncKinds =>
       /\ cur[th].pc \in SyncPCs \cup Removing \cup {"unlock"}
       /\ cur[th].pc # "unlock" => Intact(ProcOf[th])
       /\ cur[th].pc \in Removing =>
            ltrans[ProcOf[th]] # <<>> /\ cur[th].tid = Head(ltrans[ProcOf[th]])

\* Only a process that has the file open has transactions that linger.
FlagsOK(th) ==
  "LINGER" \in cur[th].flags \/ "LINGER" \in saved[th].flags => open[ProcOf[th]]

\* A file that jfsck commits again: it is complete, and its name is an int.
Seen(i) == i <= MaxInt /\ Complete(jf[i])

\* The id that a call has just got, or is about to free, has no such file.
Gone(th) ==
  cur[th].pc \in {"fill", "fsync_dir", "free_tid", "free_tid_write"} => ~Seen(cur[th].tid)

ThreadOK(th) ==
  /\ FrameOK(th) /\ CallOK(th) /\ HasId(th) /\ MaxRead(th) /\ SyncOK(th) /\ FlagsOK(th)
  /\ Gone(th)

StateOK ==
  /\ cur = [th \in Threads |-> cur[th]] /\ saved = [th \in Threads |-> saved[th]]
  /\ jf = [i \in Tids |-> jf[i]]
  /\ max \in 0 .. MaxTid
  /\ open = [p \in Procs |-> open[p]]
  /\ ltrans \in [Procs -> Seq(0 .. MaxTid)]

\* The list of a process that does not have the file open is empty, but for
\* one that is closing it; jfsck never opens it.
ClosedInv ==
  /\ open[ProcOf[Checker]] = FALSE
  /\ \A p \in Procs : ~open[p] =>
       ltrans[p] = <<>> \/ \E th \in ThreadsOf(p) : cur[th].kind = "jclose"

\* Between the files that it commits again jfsck runs no call.
FsckInv ==
  /\ fsck = [pc |-> fsck.pc, i |-> fsck.i, maxtid |-> fsck.maxtid]
  /\ fsck.pc \in {"scan", "unlink"} => cur[Checker].pc = "idle"

CallOwns(th, i) == cur[th].tid = i /\ cur[th].kind \in CallKinds
SavedOwns(th, i) == saved[th].tid = i
LingerOwns(p, k, i) == k \in DOMAIN ltrans[p] /\ ltrans[p][k] = i

\* No two of the calls, interrupted calls and lingering transactions have the
\* same id.
DistinctInv == \A i \in Tids :
  /\ \A th, u \in Threads :
       /\ CallOwns(th, i) /\ CallOwns(u, i) => th = u
       /\ SavedOwns(th, i) /\ SavedOwns(u, i) => th = u
       /\ ~ (CallOwns(th, i) /\ SavedOwns(u, i))
  /\ \A th \in Threads, p \in Procs, k \in Nat :
       LingerOwns(p, k, i) => ~CallOwns(th, i) /\ ~SavedOwns(th, i)
  /\ \A p, q \in Procs, k, l \in Nat :
       LingerOwns(p, k, i) /\ LingerOwns(q, l, i) => p = q /\ k = l

\* The next id, one above the greatest, is nobody's.
BelowInv == \A i \in Tids :
  /\ \A th \in Threads : CallOwns(th, i) \/ SavedOwns(th, i) => i <= max
  /\ \A p \in Procs, k \in Nat : LingerOwns(p, k, i) => i <= max

\* And there is no complete file of that id, except after a power failure:
\* then nobody uses the file, or opens it, before jfsck rewrites the lock file.
FilesBelow == \A i \in Tids : Seen(i) => i <= max
FilesInv == FilesBelow \/ (dirty /\ fsck.pc = "off" /\ \A p \in Procs : ~InUse(p))

IdInv ==
  /\ StateOK /\ \A th \in Threads : ThreadOK(th)
  /\ ClosedInv /\ FsckInv /\ DistinctInv /\ BelowInv /\ FilesInv

-----------------------------------------------------------------------------
(* Frames, and the threads that a step leaves alone.                       *)

LEMMA IdleFrame ==
  /\ IsFrame(Idle) /\ Idle.kind = "none" /\ Idle.pc = "idle" /\ Idle.tid = 0
  /\ Idle.flags = {}
  BY DEF IsFrame, Idle, Frame

LEMMA TidsNat == Tids \subseteq Nat /\ 0 \notin Tids /\ Tids \subseteq 0 .. MaxTid
  BY JioAssumption DEF Tids

\* A thread whose frames, list and file are left alone is as well off as it was.
LEMMA OtherThread ==
  ASSUME NEW u \in Threads, ThreadOK(u),
         cur'[u] = cur[u], saved'[u] = saved[u],
         ltrans'[ProcOf[u]] = ltrans[ProcOf[u]],
         open[ProcOf[u]] => open'[ProcOf[u]],
         jlock = ProcOf[u] => jlock' = jlock /\ max' = max,
         cur[u].pc \in WithId /\ Complete(jf'[cur[u].tid]) => Complete(jf[cur[u].tid])
  PROVE  ThreadOK(u)'
<1>1. FrameOK(u)'
  BY DEF ThreadOK, FrameOK, IsFrame
<1>2. CallOK(u)'
  BY DEF ThreadOK, CallOK
<1>3. HasId(u)'
  BY DEF ThreadOK, HasId, HasWrites, Writes
<1>4. MaxRead(u)'
  BY DEF ThreadOK, MaxRead
<1>5. SyncOK(u)'
  BY DEF ThreadOK, SyncOK, Intact
<1>6. FlagsOK(u)'
  BY DEF ThreadOK, FlagsOK
<1>7. Gone(u)'
  BY DEF ThreadOK, Gone, Complete, WithId, Seen
<1> QED  BY <1>1, <1>2, <1>3, <1>4, <1>5, <1>6, <1>7 DEF ThreadOK

\* Whoever is at a step that has an id owns it, or the list of its process does.
LEMMA IdOwner ==
  ASSUME StateOK, NEW u \in Threads, ThreadOK(u), cur[u].pc \in WithId
  PROVE  /\ cur[u].tid \in Tids
         /\ \/ CallOwns(u, cur[u].tid)
            \/ LingerOwns(ProcOf[u], 1, cur[u].tid)
<1>1. cur[u].tid \in Tids
  BY DEF ThreadOK, HasId
<1>2. cur[u].kind # "none"
  BY IdleFrame DEF ThreadOK, CallOK, WithId
<1>3. CASE cur[u].kind \in CallKinds
  BY <1>1, <1>3 DEF CallOwns
<1>4. CASE cur[u].kind \in SyncKinds
  <2>1. ltrans[ProcOf[u]] \in Seq(0 .. MaxTid)
    BY JioAssumption DEF StateOK
  <2>2. cur[u].pc \in Removing
    BY <1>4 DEF ThreadOK, SyncOK, WithId, Removing, SyncPCs
  <2>3. ltrans[ProcOf[u]] # <<>> /\ cur[u].tid = Head(ltrans[ProcOf[u]])
    BY <1>4, <2>2 DEF ThreadOK, SyncOK
  <2>4. 1 \in DOMAIN ltrans[ProcOf[u]] /\ cur[u].tid = ltrans[ProcOf[u]][1]
    BY <2>1, <2>3
  <2> QED  BY <1>1, <2>4 DEF LingerOwns
<1> QED  BY <1>2, <1>3, <1>4 DEF ThreadOK, FrameOK

\* A step of thread th: it changes th's frames, its process's list, and no
\* complete file appears but that of th's own transaction.
StepOf(th) ==
  /\ cur' = [u \in Threads |-> cur'[u]] /\ saved' = [u \in Threads |-> saved'[u]]
  /\ jf' = [i \in Tids |-> jf'[i]]
  /\ \A u \in Threads : u # th => cur'[u] = cur[u] /\ saved'[u] = saved[u]
  /\ max' \in 0 .. MaxTid
  /\ open' = [p \in Procs |-> open'[p]]
  /\ ltrans' \in [Procs -> Seq(0 .. MaxTid)]
  /\ \A p \in Procs : p # ProcOf[th] => ltrans'[p] = ltrans[p] /\ open'[p] = open[p]
  /\ \/ jlock' = jlock /\ max' = max
     \/ jlock \in {NoProc, ProcOf[th]}
  /\ \A i \in Tids : Complete(jf'[i]) => Complete(jf[i]) \/ CallOwns(th, i)

LEMMA OthersOK ==
  ASSUME OneThreadPerProcess, IdInv, NEW th \in Threads, StepOf(th),
         NEW u \in Threads, u # th
  PROVE  ThreadOK(u)'
<1>1. ThreadOK(u) /\ StateOK
  BY DEF IdInv
<1>2. ProcOf[u] \in Procs /\ ProcOf[u] # ProcOf[th] /\ ProcOf[u] # NoProc
  BY JioAssumption DEF OneThreadPerProcess
<1>3. cur'[u] = cur[u] /\ saved'[u] = saved[u]
  BY DEF StepOf
<1>4. ltrans'[ProcOf[u]] = ltrans[ProcOf[u]] /\ open'[ProcOf[u]] = open[ProcOf[u]]
  BY <1>2 DEF StepOf
<1>5. jlock = ProcOf[u] => jlock' = jlock /\ max' = max
  BY <1>2 DEF StepOf
<1>6. ASSUME cur[u].pc \in WithId, Complete(jf'[cur[u].tid])
      PROVE  Complete(jf[cur[u].tid])
  <2> DEFINE i == cur[u].tid
  <2>1. i \in Tids /\ (CallOwns(u, i) \/ LingerOwns(ProcOf[u], 1, i))
    BY <1>1, <1>6, IdOwner
  <2>2. ~CallOwns(th, i)
    BY <1>2, <2>1 DEF IdInv, DistinctInv
  <2> QED  BY <1>6, <2>1, <2>2 DEF StepOf
<1> QED  BY <1>1, <1>3, <1>4, <1>5, <1>6, OtherThread

\* When nobody gets an id, and the greatest does not shrink, ids stay apart.
OwnersShrink == \A i \in Tids :
  /\ \A u \in Threads : CallOwns(u, i)' => CallOwns(u, i)
  /\ \A u \in Threads : SavedOwns(u, i)' => SavedOwns(u, i)
  /\ \A p \in Procs, k \in Nat : LingerOwns(p, k, i)' => LingerOwns(p, k, i)

LEMMA FewerOwners ==
  ASSUME IdInv, OwnersShrink, max' \in Nat, max' >= max
  PROVE  DistinctInv' /\ BelowInv'
<1>1. DistinctInv'
  <2> SUFFICES ASSUME NEW i \in Tids
      PROVE  /\ \A th, u \in Threads :
                  /\ CallOwns(th, i)' /\ CallOwns(u, i)' => th = u
                  /\ SavedOwns(th, i)' /\ SavedOwns(u, i)' => th = u
                  /\ ~ (CallOwns(th, i)' /\ SavedOwns(u, i)')
             /\ \A th \in Threads, p \in Procs, k \in Nat :
                  LingerOwns(p, k, i)' => ~CallOwns(th, i)' /\ ~SavedOwns(th, i)'
             /\ \A p, q \in Procs, k, l \in Nat :
                  LingerOwns(p, k, i)' /\ LingerOwns(q, l, i)' => p = q /\ k = l
    BY DEF DistinctInv
  <2> QED  BY DEF OwnersShrink, IdInv, DistinctInv
<1>2. BelowInv'
  <2> SUFFICES ASSUME NEW i \in Tids
      PROVE  /\ \A th \in Threads : CallOwns(th, i)' \/ SavedOwns(th, i)' => i <= max'
             /\ \A p \in Procs, k \in Nat : LingerOwns(p, k, i)' => i <= max'
    BY DEF BelowInv
  <2>1. i \in Nat /\ max \in Nat
    BY TidsNat, JioAssumption DEF IdInv, StateOK
  <2> QED  BY <2>1 DEF OwnersShrink, IdInv, BelowInv
<1> QED  BY <1>1, <1>2

LEMMA ActiveThread ==
  ASSUME IdInv, NEW th \in Threads, cur[th].pc # "idle"
  PROVE  /\ StateOK /\ ThreadOK(th)
         /\ cur[th].kind # "none" /\ cur[th].kind \in CallKinds \cup SyncKinds
<1>1. StateOK /\ ThreadOK(th)
  BY DEF IdInv
<1>2. cur[th].kind # "none"
  BY <1>1, IdleFrame DEF ThreadOK, CallOK
<1> QED  BY <1>1, <1>2 DEF ThreadOK, FrameOK

\* While a call is under way, no complete file is above the greatest id.
LEMMA BusyFiles ==
  ASSUME IdInv, NEW th \in Threads, cur[th].pc # "idle"
  PROVE  FilesBelow
<1>1. InUse(ProcOf[th]) /\ ProcOf[th] \in Procs
  BY JioAssumption DEF InUse, ThreadsOf, At
<1> QED  BY <1>1 DEF IdInv, FilesInv

LEMMA FilesStayBelow ==
  ASSUME IdInv, FilesBelow, NEW th \in Threads, StepOf(th), max' = max
  PROVE  FilesInv'
<1>1. ASSUME NEW i \in Tids, i <= MaxInt, Complete(jf'[i])
      PROVE  i <= max'
  BY <1>1 DEF StepOf, FilesBelow, IdInv, BelowInv, Seen
<1>2. FilesBelow'
  BY <1>1 DEF FilesBelow, Complete, Seen
<1> QED  BY <1>2 DEF FilesInv

\* A step inside a call: it keeps the kind of call, its flags and its id, or
\* gives the id up, and what else it changes suits the place it goes to.
Plain(th) ==
  /\ StepOf(th)
  /\ cur[th].pc # "idle" /\ cur'[th].pc # "idle"
  /\ IsFrame(cur'[th])
  /\ cur'[th].kind = cur[th].kind /\ cur'[th].flags = cur[th].flags
  /\ cur'[th].tid \in {cur[th].tid, 0}
  /\ saved' = saved /\ max' = max /\ open' = open /\ ltrans' = ltrans /\ fsck' = fsck
  /\ HasId(th)' /\ MaxRead(th)' /\ SyncOK(th)' /\ Gone(th)'

LEMMA PlainStep ==
  ASSUME OneThreadPerProcess, IdInv, NEW th \in Threads, Plain(th)
  PROVE  IdInv'
<1>1. StateOK'
  <2>1. cur' = [u \in Threads |-> cur'[u]] /\ saved' = [u \in Threads |-> saved'[u]]
        /\ jf' = [i \in Tids |-> jf'[i]]
    BY DEF Plain, StepOf
  <2>2. max' \in 0 .. MaxTid /\ open' = [p \in Procs |-> open'[p]]
        /\ ltrans' \in [Procs -> Seq(0 .. MaxTid)]
    BY DEF Plain, StepOf
  <2> QED  BY <2>1, <2>2 DEF StateOK
<1>2. ThreadOK(th)'
  <2>1. ThreadOK(th) /\ cur[th].kind # "none"
    BY ActiveThread DEF Plain
  <2>2. FrameOK(th)'
    BY <2>1, TidsNat, JioAssumption DEF ThreadOK, FrameOK, Plain, IsFrame
  <2>3. CallOK(th)'
    BY <2>1 DEF ThreadOK, CallOK, Plain
  <2>4. FlagsOK(th)'
    BY <2>1 DEF ThreadOK, FlagsOK, Plain
  <2> QED  BY <2>2, <2>3, <2>4 DEF ThreadOK, Plain
<1>3. ASSUME NEW u \in Threads PROVE ThreadOK(u)'
  BY <1>2, OthersOK DEF Plain
<1>4. ASSUME NEW u \in Threads PROVE cur'[u].kind = cur[u].kind
  BY DEF Plain, StepOf
<1>5. ClosedInv'
  BY <1>4 DEF IdInv, ClosedInv, Plain, ThreadsOf
<1>6. FsckInv'
  BY JioAssumption DEF IdInv, FsckInv, Plain, StepOf
<1>7. OwnersShrink
  BY TidsNat DEF OwnersShrink, CallOwns, SavedOwns, LingerOwns, Plain, StepOf
<1>8. max \in Nat /\ max' = max
  BY JioAssumption DEF IdInv, StateOK, Plain
<1>9. DistinctInv' /\ BelowInv'
  BY <1>7, <1>8, FewerOwners
<1>10. FilesInv'
  BY BusyFiles, FilesStayBelow DEF Plain
<1> QED  BY <1>1, <1>3, <1>5, <1>6, <1>9, <1>10 DEF IdInv

-----------------------------------------------------------------------------
(* The steps inside a call.                                                *)

\* A step changes the frame of th alone, and keeps the call it is of.
Moves(th) ==
  /\ cur' = [u \in Threads |-> cur'[u]]
  /\ \A u \in Threads : u # th => cur'[u] = cur[u]
  /\ IsFrame(cur'[th])
  /\ cur'[th].kind = cur[th].kind /\ cur'[th].flags = cur[th].flags
  /\ cur'[th].ops = cur[th].ops

LEMMA GotoMoves ==
  ASSUME StateOK, NEW th \in Threads, ThreadOK(th), NEW pc, Goto(th, pc)
  PROVE  Moves(th) /\ cur'[th].pc = pc /\ cur'[th].tid = cur[th].tid
<1>1. cur = [u \in Threads |-> cur[u]] /\ IsFrame(cur[th])
  BY DEF StateOK, ThreadOK, FrameOK
<1>2. cur' = [cur EXCEPT ![th] = [cur[th] EXCEPT !.pc = pc, !.k = 1]]
  BY <1>1 DEF Goto
<1> QED  BY <1>1, <1>2 DEF Moves, IsFrame

LEMMA ReturnMoves ==
  ASSUME StateOK, NEW th \in Threads, ThreadOK(th), NEW rv, Return(th, rv)
  PROVE  Moves(th) /\ cur'[th].pc = "unlock" /\ cur'[th].tid = cur[th].tid
<1>1. cur = [u \in Threads |-> cur[u]] /\ IsFrame(cur[th])
  BY DEF StateOK, ThreadOK, FrameOK
<1>2. cur' = [cur EXCEPT ![th] = [cur[th] EXCEPT !.pc = "unlock", !.k = 1, !.retval = rv]]
  BY <1>1 DEF Return
<1> QED  BY <1>1, <1>2 DEF Moves, IsFrame

LEMMA NextOpMoves ==
  ASSUME StateOK, NEW th \in Threads, ThreadOK(th), NextOp(th)
  PROVE  Moves(th) /\ cur'[th].pc \in {cur[th].pc, "sync"} /\ cur'[th].tid = cur[th].tid
<1>1. cur = [u \in Threads |-> cur[u]] /\ IsFrame(cur[th])
  BY DEF StateOK, ThreadOK, FrameOK
<1>2. CASE cur' = [cur EXCEPT ![th].k = @ + 1]
  <2>1. cur' = [cur EXCEPT ![th] = [cur[th] EXCEPT !.k = cur[th].k + 1]]
    BY <1>1, <1>2
  <2> QED  BY <1>1, <2>1 DEF Moves, IsFrame
<1>3. CASE Goto(th, "sync")
  BY <1>3, GotoMoves
<1> QED  BY <1>2, <1>3 DEF NextOp

\* The transaction files may change, but no file becomes complete except the
\* one of th's own transaction.
FilesOf(th) ==
  /\ jf' = [i \in Tids |-> jf'[i]]
  /\ \A i \in Tids : Complete(jf'[i]) => Complete(jf[i]) \/ CallOwns(th, i)

LEMMA SameFiles ==
  ASSUME StateOK, NEW th \in Threads, jf' = jf
  PROVE  FilesOf(th)
  BY DEF StateOK, FilesOf

LEMMA OneFile ==
  ASSUME StateOK, NEW th \in Threads, NEW i, NEW x, jf' = [jf EXCEPT ![i] = x],
         Complete(x) => CallOwns(th, i)
  PROVE  FilesOf(th) /\ (i \in Tids => jf'[i] = x)
  BY DEF StateOK, FilesOf

\* What the steps of a call have in common.
LEMMA MovesPlain ==
  ASSUME IdInv, NEW th \in Threads, cur[th].pc # "idle",
         Moves(th), FilesOf(th),
         cur'[th].tid \in {cur[th].tid, 0}, cur'[th].pc # "idle",
         max' = max, jlock' = jlock \/ jlock \in {NoProc, ProcOf[th]},
         saved' = saved, open' = open, ltrans' = ltrans, fsck' = fsck,
         HasId(th)', MaxRead(th)', SyncOK(th)', Gone(th)'
  PROVE  Plain(th)
<1>1. StateOK
  BY DEF IdInv
<1>2. StepOf(th)
  <2>1. saved' = [u \in Threads |-> saved'[u]] /\ open' = [p \in Procs |-> open'[p]]
        /\ max' \in 0 .. MaxTid /\ ltrans' \in [Procs -> Seq(0 .. MaxTid)]
    BY <1>1 DEF StateOK
  <2> QED  BY <2>1 DEF StepOf, Moves, FilesOf
<1> QED  BY <1>2 DEF Plain, Moves

LEMMA ReturnPlain ==
  ASSUME IdInv, NEW th \in Threads, cur[th].pc # "idle",
         Moves(th), FilesOf(th),
         cur'[th].tid \in {cur[th].tid, 0}, cur'[th].pc = "unlock",
         max' = max, jlock' = jlock \/ jlock \in {NoProc, ProcOf[th]},
         saved' = saved, open' = open, ltrans' = ltrans, fsck' = fsck
  PROVE  Plain(th)
<1>1. HasId(th)' /\ MaxRead(th)' /\ Gone(th)'
  BY DEF HasId, WithId, MaxRead, Gone
<1>2. SyncOK(th)'
  BY DEF SyncOK, SyncPCs, Removing
<1> QED  BY <1>1, <1>2, MovesPlain

\* Only the steps of journal_free and of jsync can be of a call of jsync.
CommitPCs == {"lock", "get_tid", "get_tid_write", "fill", "trailer", "fsync", "apply", "sync"}

LEMMA CommitKind ==
  ASSUME IdInv, NEW th \in Threads, cur[th].pc \in CommitPCs
  PROVE  cur[th].kind \in CallKinds
  BY ActiveThread DEF CommitPCs, SyncOK, ThreadOK, SyncPCs, Removing

LEMMA CommitPlain ==
  ASSUME IdInv, NEW th \in Threads, cur[th].pc \in CommitPCs,
         Moves(th), FilesOf(th),
         cur'[th].tid = cur[th].tid, cur'[th].pc \in CommitPCs \cup Removing,
         max' = max, jlock' = jlock \/ jlock \in {NoProc, ProcOf[th]},
         saved' = saved, open' = open, ltrans' = ltrans, fsck' = fsck,
         HasId(th)', MaxRead(th)', Gone(th)'
  PROVE  Plain(th)
<1>1. SyncOK(th)'
  BY CommitKind DEF Moves, SyncOK, CommitPCs, SyncPCs, Removing, CallKinds, SyncKinds
<1> QED  BY <1>1, MovesPlain DEF CommitPCs, Removing

LEMMA SyncPlain ==
  ASSUME IdInv, NEW th \in Threads, cur[th].pc \in SyncPCs,
         Moves(th), cur'[th].tid = cur[th].tid, cur'[th].pc \in SyncPCs,
         jf' = jf, max' = max, jlock' = jlock,
         saved' = saved, open' = open, ltrans' = ltrans, fsck' = fsck
  PROVE  Plain(th)
<1>1. cur[th].pc # "idle" /\ cur'[th].pc # "idle"
  BY DEF SyncPCs
<1>2. SyncOK(th)'
  BY <1>1, ActiveThread DEF Moves, ThreadOK, SyncOK, SyncPCs, Removing, Intact
<1>3. HasId(th)' /\ MaxRead(th)' /\ Gone(th)'
  BY DEF HasId, WithId, MaxRead, Gone, SyncPCs
<1> QED  BY <1>1, <1>2, <1>3, ActiveThread, SameFiles, MovesPlain

LEMMA RemovingPlain ==
  ASSUME IdInv, NEW th \in Threads, cur[th].pc \in Removing,
         Moves(th), FilesOf(th),
         cur'[th].tid = cur[th].tid, cur'[th].pc \in Removing,
         max' = max, jlock' = jlock \/ jlock \in {NoProc, ProcOf[th]},
         saved' = saved, open' = open, ltrans' = ltrans, fsck' = fsck,
         MaxRead(th)', Gone(th)'
  PROVE  Plain(th)
<1>1. cur[th].pc # "idle" /\ cur'[th].pc # "idle"
  BY DEF Removing
<1>2. SyncOK(th)'
  BY <1>1, ActiveThread DEF Moves, ThreadOK, SyncOK, SyncPCs, Removing, Intact
<1>3. HasId(th)'
  BY <1>1, ActiveThread DEF ThreadOK, HasId, WithId, Removing
<1> QED  BY <1>1, <1>2, <1>3, MovesPlain

\* The variables that only some steps touch.
Untouched ==
  /\ saved' = saved /\ open' = open /\ ltrans' = ltrans /\ fsck' = fsck /\ max' = max

LEMMA LockRangePlain ==
  ASSUME IdInv, NEW th \in Threads, LockRange(th), fsck' = fsck
  PROVE  Plain(th)
<1>1. cur[th].pc = "lock" /\ StateOK /\ ThreadOK(th)
  BY DEF LockRange, At, IdInv
<1>2. Moves(th) /\ cur'[th].tid = cur[th].tid
      /\ cur'[th].pc \in {"lock", "get_tid", "apply"}
      /\ (cur'[th].pc = "apply" => ~HasWrites(cur[th]))
  <2>1. cur = [u \in Threads |-> cur[u]] /\ IsFrame(cur[th])
    BY <1>1 DEF StateOK, ThreadOK, FrameOK
  <2> DEFINE h == cur[th].held \cup Wanted(th)
             g1 == [cur[th] EXCEPT !.held = h, !.k = cur[th].k + 1]
             g2 == [cur[th] EXCEPT !.held = h, !.k = 1, !.pc = "get_tid"]
             g3 == [cur[th] EXCEPT !.held = h, !.k = 1, !.pc = "apply"]
  <2>2. \/ cur' = [cur EXCEPT ![th] = g1]
        \/ cur' = [cur EXCEPT ![th] = g2]
        \/ cur' = [cur EXCEPT ![th] = g3] /\ ~HasWrites(cur[th])
    <3>1. cur' = [cur EXCEPT ![th] =
             IF cur[th].k < Len(cur[th].ops)
             THEN [[cur[th] EXCEPT !.held = h] EXCEPT !.k = @ + 1]
             ELSE [[cur[th] EXCEPT !.held = h]
                     EXCEPT !.k = 1, !.pc = IF HasWrites(cur[th]) THEN "get_tid" ELSE "apply"]]
      BY DEF LockRange
    <3> HIDE DEF h
    <3>2. [[cur[th] EXCEPT !.held = h] EXCEPT !.k = @ + 1] = g1
      BY <2>1 DEF IsFrame
    <3>3. [[cur[th] EXCEPT !.held = h] EXCEPT !.k = 1, !.pc = "get_tid"] = g2
      BY <2>1 DEF IsFrame
    <3>4. [[cur[th] EXCEPT !.held = h] EXCEPT !.k = 1, !.pc = "apply"] = g3
      BY <2>1 DEF IsFrame
    <3> HIDE DEF g1, g2, g3
    <3> QED  BY <3>1, <3>2, <3>3, <3>4
  <2> HIDE DEF h
  <2>3. CASE cur' = [cur EXCEPT ![th] = g1]
    BY <1>1, <2>1, <2>3 DEF Moves, IsFrame
  <2>4. CASE cur' = [cur EXCEPT ![th] = g2]
    BY <2>1, <2>4 DEF Moves, IsFrame
  <2>5. CASE cur' = [cur EXCEPT ![th] = g3] /\ ~HasWrites(cur[th])
    BY <2>1, <2>5 DEF Moves, IsFrame
  <2> QED  BY <2>2, <2>3, <2>4, <2>5
<1>3. Untouched /\ jf' = jf /\ jlock' = jlock
  BY DEF LockRange, fileVars, Untouched
<1>4. HasId(th)' /\ MaxRead(th)' /\ Gone(th)'
  BY <1>2 DEF HasId, WithId, MaxRead, Gone, Moves, HasWrites, Writes
<1> QED  BY <1>1, <1>2, <1>3, <1>4, SameFiles, CommitPlain DEF Untouched, CommitPCs

LEMMA ReturnStep ==
  ASSUME IdInv, NEW th \in Threads, cur[th].pc # "idle", NEW rv, Return(th, rv),
         FilesOf(th), jlock' = jlock \/ jlock \in {NoProc, ProcOf[th]}, Untouched
  PROVE  Plain(th)
  BY ActiveThread, ReturnMoves, ReturnPlain DEF Untouched

\* The failures that leave the files alone.
LEMMA FailurePlain ==
  ASSUME IdInv, NEW th \in Threads, fsck' = fsck,
         \/ LockDeadlock(th) \/ journal_new_broken(th) \/ OpenFails(th)
         \/ SyncFileFails(th) \/ SyncAllFails(th)
  PROVE  Plain(th)
<1>1. cur[th].pc # "idle" /\ Return(th, -1) /\ jf' = jf /\ jlock' = jlock /\ Untouched
  <2>1. CASE LockDeadlock(th)
    BY <2>1 DEF LockDeadlock, At, fileVars, procVars, Untouched
  <2>2. CASE journal_new_broken(th)
    BY <2>2 DEF journal_new_broken, At, fileVars, procVars, Untouched
  <2>3. CASE OpenFails(th)
    BY <2>3 DEF OpenFails, At, fileVars, procVars, Untouched
  <2>4. CASE SyncFileFails(th)
    BY <2>4 DEF SyncFileFails, At, fileVars, procVars, Untouched
  <2>5. CASE SyncAllFails(th)
    BY <2>5 DEF SyncAllFails, At, fileVars, procVars, Untouched
  <2> QED  BY <2>1, <2>2, <2>3, <2>4, <2>5
<1>2. FilesOf(th)
  BY <1>1, ActiveThread, SameFiles
<1> DEFINE rv == -1
<1> HIDE DEF rv
<1>3. Return(th, rv)
  BY <1>1 DEF rv
<1> QED  BY <1>1, <1>2, <1>3, ReturnStep

\* The steps that lock the lock file and read the greatest id.
LEMMA TidReadPlain ==
  ASSUME IdInv, NEW th \in Threads, fsck' = fsck, get_tid_read(th) \/ free_tid_read(th)
  PROVE  Plain(th)
<1>1. /\ jlock \in {NoProc, ProcOf[th]} /\ jlock' = ProcOf[th]
      /\ Untouched /\ jf' = jf
  BY DEF get_tid_read, free_tid_read, LockTids, dirVars, procVars, Untouched
<1>2. cur[th].pc \in {"get_tid", "free_tid"}
  BY DEF get_tid_read, free_tid_read, At
<1>3. StateOK /\ ThreadOK(th) /\ FilesOf(th)
  BY <1>1, <1>2, ActiveThread, SameFiles
<1>4. cur = [u \in Threads |-> cur[u]] /\ IsFrame(cur[th])
  BY <1>3 DEF StateOK, ThreadOK, FrameOK
<1>5. CASE get_tid_read(th)
  <2>1. cur[th].pc = "get_tid"
        /\ cur' = [cur EXCEPT ![th] = [cur[th] EXCEPT !.pc = "get_tid_write", !.curid = max]]
    BY <1>4, <1>5 DEF get_tid_read, At
  <2>2. Moves(th) /\ cur'[th].pc = "get_tid_write" /\ cur'[th].tid = cur[th].tid
        /\ cur'[th].curid = max
    BY <1>4, <2>1 DEF Moves, IsFrame
  <2>3. HasId(th)' /\ MaxRead(th)' /\ Gone(th)'
    BY <1>1, <2>2 DEF HasId, WithId, MaxRead, Gone, Untouched
  <2> QED  BY <1>1, <1>3, <2>1, <2>2, <2>3, CommitPlain DEF Untouched, CommitPCs
<1>6. CASE free_tid_read(th)
  <2>1. cur[th].pc = "free_tid"
        /\ cur' = [cur EXCEPT ![th] = [cur[th] EXCEPT !.pc = "free_tid_write", !.curid = max]]
    BY <1>4, <1>6 DEF free_tid_read, At
  <2>2. Moves(th) /\ cur'[th].pc = "free_tid_write" /\ cur'[th].tid = cur[th].tid
        /\ cur'[th].curid = max
    BY <1>4, <2>1 DEF Moves, IsFrame
  <2>3. MaxRead(th)'
    BY <1>1, <2>2 DEF MaxRead, Untouched
  <2>4. Gone(th)'
    BY <1>1, <1>3, <2>1, <2>2 DEF Gone, ThreadOK, Complete, Seen
  <2> QED  BY <1>1, <1>3, <2>1, <2>2, <2>3, <2>4, RemovingPlain DEF Untouched, Removing
<1> QED  BY <1>5, <1>6

\* The steps that write the transaction file.
LEMMA FillPlain ==
  ASSUME IdInv, NEW th \in Threads, fsck' = fsck,
         FillFile(th) \/ HeaderFails(th) \/ FillFails(th) \/ CommitFile(th)
  PROVE  Plain(th)
<1>1. cur[th].pc \in {"fill", "trailer"} /\ Untouched /\ jlock' = jlock
  BY DEF FillFile, HeaderFails, FillFails, CommitFile, At, tidVars, procVars, Untouched
<1>2. StateOK /\ ThreadOK(th)
  BY <1>1, ActiveThread
<1>3. cur[th].kind \in CallKinds
  BY <1>1, CommitKind DEF CommitPCs
<1>4. cur[th].tid \in Tids /\ CallOwns(th, cur[th].tid)
  BY <1>1, <1>2, <1>3 DEF ThreadOK, HasId, WithId, CallOwns
<1>5. ~Complete(Partial) /\ ~Complete(NoFile)
  BY DEF Complete
<1> DEFINE i == cur[th].tid
<1>6. CASE FillFile(th)
  <2>1. jf' = [jf EXCEPT ![i] = Partial]
    BY <1>6 DEF FillFile, CreateFile
  <2>2. FilesOf(th)
    BY <1>2, <1>5, <2>1, OneFile
  <2> DEFINE prev == PrevOf(cur[th])
  <2> HIDE DEF prev
  <2>3. cur' = [cur EXCEPT ![th] = [cur[th] EXCEPT !.pc = "trailer", !.prev = prev]]
        /\ cur = [u \in Threads |-> cur[u]] /\ IsFrame(cur[th])
    BY <1>2, <1>6 DEF FillFile, prev, StateOK, ThreadOK, FrameOK
  <2>4. Moves(th) /\ cur'[th].pc = "trailer" /\ cur'[th].tid = cur[th].tid
    BY <2>3 DEF Moves, IsFrame
  <2>5. HasId(th)' /\ MaxRead(th)' /\ Gone(th)'
    BY <1>4, <2>4 DEF HasId, WithId, MaxRead, Gone
  <2> QED  BY <1>1, <2>2, <2>4, <2>5, CommitPlain DEF Untouched, CommitPCs
<1>7. CASE HeaderFails(th)
  <2>1. jf' = [jf EXCEPT ![i] = NoFile] /\ Goto(th, "free_tid")
    BY <1>7 DEF HeaderFails, CreateAndUnlink
  <2>2. FilesOf(th) /\ jf'[i] = NoFile
    BY <1>2, <1>4, <1>5, <2>1, OneFile
  <2>3. Moves(th) /\ cur'[th].pc = "free_tid" /\ cur'[th].tid = cur[th].tid
    BY <1>2, <2>1, GotoMoves
  <2>4. HasId(th)' /\ MaxRead(th)'
    BY <1>4, <2>3 DEF HasId, WithId, MaxRead
  <2>5. Gone(th)'
    BY <2>2, <2>3 DEF Gone, Complete, Seen
  <2> QED  BY <1>1, <2>2, <2>3, <2>4, <2>5, CommitPlain DEF Untouched, CommitPCs, Removing
<1>8. CASE FillFails(th)
  <2>1. jf' = [jf EXCEPT ![i] = Partial]
    BY <1>8 DEF FillFails, CreateFile
  <2>2. FilesOf(th)
    BY <1>2, <1>5, <2>1, OneFile
  <2> DEFINE rv == -1
  <2>3. Return(th, rv)
    BY <1>8 DEF FillFails
  <2> HIDE DEF rv
  <2> QED  BY <1>1, <2>2, <2>3, ReturnStep
<1>9. CASE CommitFile(th)
  <2>1. jf' = [jf EXCEPT ![i] = Writes(cur[th].ops)] /\ Goto(th, "fsync")
    BY <1>9 DEF CommitFile, WriteTrailer
  <2>2. FilesOf(th)
    BY <1>2, <1>4, <2>1, OneFile
  <2>3. Moves(th) /\ cur'[th].pc = "fsync" /\ cur'[th].tid = cur[th].tid
    BY <1>2, <2>1, GotoMoves
  <2>4. HasId(th)' /\ MaxRead(th)' /\ Gone(th)'
    BY <1>4, <2>3 DEF HasId, WithId, MaxRead, Gone
  <2> QED  BY <1>1, <2>2, <2>3, <2>4, CommitPlain DEF Untouched, CommitPCs
<1> QED  BY <1>6, <1>7, <1>8, <1>9

\* The steps after it, up to the sync of the data.
LEMMA ApplyPlain ==
  ASSUME IdInv, NEW th \in Threads, fsck' = fsck,
         SyncFile(th) \/ ReadOp(th) \/ WriteOp(th) \/ SyncData(th)
  PROVE  Plain(th)
<1>1. cur[th].pc \in {"fsync", "apply", "sync"}
  BY DEF SyncFile, ReadOp, WriteOp, SyncData, At
<1>2. Untouched /\ jlock' = jlock /\ jf' = jf
  BY DEF SyncFile, FsyncFile, ReadOp, WriteOp, SyncData, fileVars, dirVars, tidVars, procVars,
         Untouched
<1>3. StateOK /\ ThreadOK(th) /\ FilesOf(th)
  BY <1>1, <1>2, ActiveThread, SameFiles
<1>4. CASE SyncFile(th)
  <2>1. cur[th].pc = "fsync" /\ Goto(th, "apply")
    BY <1>4 DEF SyncFile, At
  <2>2. Moves(th) /\ cur'[th].pc = "apply" /\ cur'[th].tid = cur[th].tid
    BY <1>3, <2>1, GotoMoves
  <2>3. HasId(th)' /\ MaxRead(th)' /\ Gone(th)'
    BY <1>3, <2>1, <2>2 DEF ThreadOK, HasId, WithId, MaxRead, Gone
  <2> QED  BY <1>2, <1>3, <2>1, <2>2, <2>3, CommitPlain DEF Untouched, CommitPCs
<1>5. CASE ReadOp(th) \/ WriteOp(th)
  <2>1. cur[th].pc = "apply" /\ NextOp(th)
    BY <1>5 DEF ReadOp, WriteOp, At
  <2>2. Moves(th) /\ cur'[th].pc \in {"apply", "sync"} /\ cur'[th].tid = cur[th].tid
    BY <1>3, <2>1, NextOpMoves
  <2>3. HasId(th)' /\ MaxRead(th)' /\ Gone(th)'
    BY <1>3, <2>1, <2>2 DEF ThreadOK, HasId, WithId, MaxRead, Gone, Moves, HasWrites, Writes
  <2> QED  BY <1>2, <1>3, <2>1, <2>2, <2>3, CommitPlain DEF Untouched, CommitPCs
<1>6. CASE SyncData(th)
  <2>1. cur[th].pc = "sync" /\ HasWrites(cur[th])
        /\ cur' = [cur EXCEPT ![th].pc = "unlink", ![th].k = 1, ![th].retval = 1,
                              ![th].tid = cur[th].tid]
    BY <1>6 DEF SyncData, SyncDone, At
  <2>2. cur' = [cur EXCEPT ![th] = [cur[th] EXCEPT !.pc = "unlink", !.k = 1, !.retval = 1,
                                                   !.tid = cur[th].tid]]
        /\ cur = [u \in Threads |-> cur[u]] /\ IsFrame(cur[th])
    BY <1>3, <2>1 DEF StateOK, ThreadOK, FrameOK
  <2>3. Moves(th) /\ cur'[th].pc = "unlink" /\ cur'[th].tid = cur[th].tid
    BY <2>2 DEF Moves, IsFrame
  <2>4. HasId(th)' /\ MaxRead(th)' /\ Gone(th)'
    BY <1>3, <2>1, <2>3 DEF ThreadOK, HasId, WithId, MaxRead, Gone
  <2> QED  BY <1>2, <1>3, <2>1, <2>3, <2>4, CommitPlain DEF Untouched, CommitPCs, Removing
<1> QED  BY <1>4, <1>5, <1>6

LEMMA NothingToSyncPlain ==
  ASSUME IdInv, NEW th \in Threads, fsck' = fsck, NothingToSync(th)
  PROVE  Plain(th)
<1>1. cur[th].pc # "idle" /\ Untouched /\ jlock' = jlock /\ jf' = jf
  BY DEF NothingToSync, At, fileVars, procVars, Untouched
<1>2. StateOK /\ ThreadOK(th) /\ FilesOf(th)
  BY <1>1, ActiveThread, SameFiles
<1>3. cur' = [cur EXCEPT ![th] = [cur[th] EXCEPT !.pc = "unlock", !.k = 1, !.retval = 1,
                                                 !.tid = 0]]
      /\ cur = [u \in Threads |-> cur[u]] /\ IsFrame(cur[th])
  BY <1>2 DEF NothingToSync, SyncDone, StateOK, ThreadOK, FrameOK
<1>4. Moves(th) /\ cur'[th].pc = "unlock" /\ cur'[th].tid = 0
  BY <1>3 DEF Moves, IsFrame
<1> QED  BY <1>1, <1>2, <1>4, ReturnPlain DEF Untouched

\* The steps that remove a transaction file.
LEMMA RemovePlain ==
  ASSUME IdInv, NEW th \in Threads, fsck' = fsck, UnlinkFile(th) \/ SyncDir(th)
  PROVE  Plain(th)
<1>1. cur[th].pc \in {"unlink", "fsync_dir"} /\ Untouched /\ jlock' = jlock
  BY DEF UnlinkFile, SyncDir, At, tidVars, procVars, Untouched
<1>2. StateOK /\ ThreadOK(th)
  BY <1>1, ActiveThread
<1>3. cur[th].tid \in Tids
  BY <1>1, <1>2 DEF ThreadOK, HasId, WithId
<1>4. ~Complete(Partial) /\ ~Complete(NoFile)
  BY DEF Complete
<1>5. CASE UnlinkFile(th)
  <2>1. cur[th].pc = "unlink" /\ Goto(th, "fsync_dir")
    BY <1>5 DEF UnlinkFile, At
  <2>2. \/ jf' = [jf EXCEPT ![cur[th].tid] = NoFile]
        \/ jf' = [jf EXCEPT ![cur[th].tid] = Partial]
    BY <1>5 DEF UnlinkFile, unlink, TruncateFile, corrupt_journal_file
  <2>3. FilesOf(th) /\ ~Complete(jf'[cur[th].tid])
    BY <1>2, <1>3, <1>4, <2>2, OneFile
  <2>4. Moves(th) /\ cur'[th].pc = "fsync_dir" /\ cur'[th].tid = cur[th].tid
    BY <1>2, <2>1, GotoMoves
  <2>5. MaxRead(th)' /\ Gone(th)'
    BY <2>3, <2>4 DEF MaxRead, Gone, Complete, Seen
  <2> QED  BY <1>1, <2>1, <2>3, <2>4, <2>5, RemovingPlain DEF Untouched, Removing
<1>6. CASE SyncDir(th)
  <2>1. cur[th].pc = "fsync_dir" /\ Goto(th, "free_tid") /\ jf' = jf
    BY <1>6 DEF SyncDir, fsync_dir, At
  <2>2. Moves(th) /\ cur'[th].pc = "free_tid" /\ cur'[th].tid = cur[th].tid
    BY <1>2, <2>1, GotoMoves
  <2>3. MaxRead(th)' /\ Gone(th)'
    BY <1>2, <2>1, <2>2 DEF ThreadOK, MaxRead, Gone, Complete, Seen
  <2> QED  BY <1>1, <1>2, <2>1, <2>2, <2>3, SameFiles, RemovingPlain DEF Untouched, Removing
<1> QED  BY <1>5, <1>6

\* The steps of jsync between the files it removes.
LEMMA JsyncPlain ==
  ASSUME IdInv, NEW th \in Threads, fsck' = fsck, SyncAll(th) \/ TakeLtlock(th)
  PROVE  Plain(th)
<1>1. cur[th].pc \in {"fdatasync", "ltlock"} /\ Untouched /\ jlock' = jlock /\ jf' = jf
  BY DEF SyncAll, TakeLtlock, At, fileVars, dirVars, tidVars, procVars, Untouched
<1>2. StateOK /\ ThreadOK(th)
  BY <1>1, ActiveThread
<1>3. PICK pc \in {"ltlock", "next"} : Goto(th, pc)
  BY DEF SyncAll, TakeLtlock
<1>4. Moves(th) /\ cur'[th].pc = pc /\ cur'[th].tid = cur[th].tid
  BY <1>2, <1>3, GotoMoves
<1> QED  BY <1>1, <1>3, <1>4, SyncPlain DEF Untouched, SyncPCs

\* A file that stays: the commit returns with an error.
LEMMA MarkBrokenPlain ==
  ASSUME IdInv, NEW th \in Threads, fsck' = fsck, MarkBroken(th), ~Syncing(th)
  PROVE  Plain(th)
<1>1. cur[th].pc # "idle" /\ Untouched /\ jlock' = jlock /\ jf' = jf
  BY DEF MarkBroken, At, dirVars, tidVars, Untouched
<1> DEFINE rv == -2
<1>2. Return(th, rv)
  BY DEF MarkBroken
<1> HIDE DEF rv
<1> QED  BY <1>1, <1>2, ActiveThread, SameFiles, ReturnStep

\* rollback_exit either returns or begins the rollback.
BeginsUndo(th) ==
  /\ saved' = [saved EXCEPT ![th] = [cur[th] EXCEPT !.k = 1]]
  /\ cur' = [cur EXCEPT ![th] = UndoFrame(cur[th])]
  /\ cur[th].pc \in {"apply", "sync"} /\ HasWrites(cur[th])
  /\ "ROLLBACKING" \notin cur[th].flags
  /\ jf' = jf /\ jlock' = jlock
  /\ open' = open /\ ltrans' = ltrans /\ fsck' = fsck /\ max' = max

LEMMA RollbackPlain ==
  ASSUME IdInv, NEW th \in Threads, fsck' = fsck, OpFails(th) \/ SyncDataFails(th)
  PROVE  Plain(th) \/ BeginsUndo(th)
<1>1. cur[th].pc \in {"apply", "sync"} /\ RollbackExit(th)
  BY DEF OpFails, SyncDataFails, At
<1>2. jf' = jf /\ jlock' = jlock /\ open' = open /\ ltrans' = ltrans /\ max' = max
  BY DEF OpFails, SyncDataFails, fileVars, dirVars, tidVars, procVars
<1>3. CASE \/ Return(th, -1) /\ saved' = saved
           \/ Return(th, -2) /\ saved' = saved
  <2>1. PICK rv \in {-1, -2} : Return(th, rv)
    BY <1>3
  <2>2. Untouched
    BY <1>2, <1>3 DEF Untouched
  <2> QED  BY <1>1, <1>2, <2>1, <2>2, ActiveThread, SameFiles, ReturnStep
<1>4. CASE /\ HasWrites(cur[th]) /\ "ROLLBACKING" \notin cur[th].flags
           /\ saved' = [saved EXCEPT ![th] = [cur[th] EXCEPT !.k = 1]]
           /\ cur' = [cur EXCEPT ![th] = UndoFrame(cur[th])]
  BY <1>1, <1>2, <1>4 DEF BeginsUndo
<1> QED  BY <1>1, <1>3, <1>4 DEF RollbackExit

-----------------------------------------------------------------------------
(* The steps that get an id, give one up, or pass one on.                  *)

LEMMA StepHolds ==
  ASSUME OneThreadPerProcess, IdInv, NEW th \in Threads, StepOf(th), ThreadOK(th)',
         ClosedInv', FsckInv', DistinctInv', BelowInv', FilesInv'
  PROVE  IdInv'
<1>1. StateOK'
  <2>1. cur' = [u \in Threads |-> cur'[u]] /\ saved' = [u \in Threads |-> saved'[u]]
        /\ jf' = [i \in Tids |-> jf'[i]]
    BY DEF StepOf
  <2>2. max' \in 0 .. MaxTid /\ open' = [p \in Procs |-> open'[p]]
        /\ ltrans' \in [Procs -> Seq(0 .. MaxTid)]
    BY DEF StepOf
  <2> QED  BY <2>1, <2>2 DEF StateOK
<1>2. ASSUME NEW u \in Threads PROVE ThreadOK(u)'
  BY OthersOK
<1> QED  BY <1>1, <1>2 DEF IdInv

LEMMA StepClosed ==
  ASSUME IdInv, NEW th \in Threads, StepOf(th), open' = open,
         \/ /\ ltrans[ProcOf[th]] = <<>> => ltrans'[ProcOf[th]] = <<>>
            /\ cur[th].kind = "jclose" => cur'[th].kind = "jclose"
         \/ open[ProcOf[th]]
         \/ ltrans'[ProcOf[th]] = <<>>
  PROVE  ClosedInv'
<1> SUFFICES ASSUME NEW p \in Procs, ~open'[p], ltrans'[p] # <<>>
             PROVE  \E u \in ThreadsOf(p) : cur'[u].kind = "jclose"
  BY DEF IdInv, ClosedInv, ThreadsOf
<1>1. ltrans[p] # <<>>
  BY DEF StepOf
<1>2. PICK u \in Threads : ProcOf[u] = p /\ cur[u].kind = "jclose"
  BY <1>1 DEF IdInv, ClosedInv, ThreadsOf
<1>3. cur'[u].kind = "jclose"
  <2>1. CASE u = th  BY <1>2, <2>1
  <2>2. CASE u # th  BY <1>2, <2>2 DEF StepOf
  <2> QED  BY <2>1, <2>2
<1> QED  BY <1>2, <1>3 DEF ThreadsOf

LEMMA StepFsck ==
  ASSUME IdInv, NEW th \in Threads, StepOf(th), fsck' = fsck,
         cur[th].pc # "idle" \/ th # Checker
  PROVE  FsckInv'
  BY JioAssumption DEF IdInv, FsckInv, StepOf

\* What a step that stays in its call keeps of the frame.
LEMMA MovesThread ==
  ASSUME IdInv, NEW th \in Threads, cur[th].pc # "idle",
         Moves(th), cur'[th].pc # "idle", cur'[th].tid \in 0 .. MaxTid,
         saved' = saved, open' = open
  PROVE  FrameOK(th)' /\ CallOK(th)' /\ FlagsOK(th)'
<1>1. ThreadOK(th) /\ cur[th].kind # "none"
  BY ActiveThread
<1>2. FrameOK(th)'
  BY <1>1 DEF ThreadOK, FrameOK, Moves, IsFrame
<1>3. CallOK(th)'
  BY <1>1 DEF ThreadOK, CallOK, Moves
<1>4. FlagsOK(th)'
  BY <1>1 DEF ThreadOK, FlagsOK, Moves
<1> QED  BY <1>2, <1>3, <1>4

\* get_tid: the new id is nobody's, and has no complete file.
LEMMA GetTid ==
  ASSUME OneThreadPerProcess, IdInv, NEW th \in Threads, fsck' = fsck, get_tid_write(th)
  PROVE  IdInv'
<1>1. cur[th].pc = "get_tid_write" /\ cur[th].pc # "idle"
  BY DEF get_tid_write, At
<1>2. StateOK /\ ThreadOK(th) /\ max \in 0 .. MaxTid
  BY <1>1, ActiveThread DEF StateOK
<1>3. jlock = ProcOf[th] /\ cur[th].curid = max
  BY <1>1, <1>2 DEF ThreadOK, MaxRead
<1>4. jf' = jf /\ saved' = saved /\ open' = open /\ ltrans' = ltrans /\ FilesOf(th)
  BY <1>2, SameFiles DEF get_tid_write, dirVars, procVars
<1>5. CASE cur[th].curid = MaxTid
  <2> DEFINE rv == -1
  <2>1. Return(th, rv) /\ max' = max
    BY <1>5 DEF get_tid_write
  <2> HIDE DEF rv
  <2>2. Plain(th)
    BY <1>1, <1>3, <1>4, <2>1, ReturnStep DEF Untouched
  <2> QED  BY <2>2, PlainStep
<1>6. CASE cur[th].curid # MaxTid
  <2> DEFINE i == max + 1
  <2>1. /\ max' = i
        /\ cur' = [cur EXCEPT ![th] = [cur[th] EXCEPT !.pc = "fill", !.curid = 0, !.tid = i]]
        /\ cur = [u \in Threads |-> cur[u]] /\ IsFrame(cur[th])
    BY <1>2, <1>3, <1>6 DEF get_tid_write, StateOK, ThreadOK, FrameOK
  <2>2. i \in Tids /\ i \in 0 .. MaxTid
    BY <1>2, <1>3, <1>6, JioAssumption DEF Tids
  <2>3. i > max /\ max \in Nat /\ i \in Nat /\ \A j \in Tids : j \in Nat
    BY <1>2, JioAssumption, TidsNat
  <2> HIDE DEF i
  <2>4. Moves(th) /\ cur'[th].pc = "fill" /\ cur'[th].tid = i
    BY <2>1 DEF Moves, IsFrame
  <2>5. StepOf(th)
    <3>1. saved' = [u \in Threads |-> saved'[u]] /\ open' = [p \in Procs |-> open'[p]]
          /\ max' \in 0 .. MaxTid /\ ltrans' \in [Procs -> Seq(0 .. MaxTid)]
      BY <1>2, <1>4, <2>1, <2>2 DEF StateOK
    <3> QED  BY <1>3, <1>4, <2>4, <3>1 DEF StepOf, Moves, FilesOf
  <2>6. FilesBelow
    BY <1>1, BusyFiles
  <2>7. ThreadOK(th)'
    <3>1. FrameOK(th)' /\ CallOK(th)' /\ FlagsOK(th)'
      BY <1>1, <1>4, <2>2, <2>4, MovesThread
    <3>2. HasId(th)' /\ MaxRead(th)'
      BY <2>2, <2>4 DEF HasId, WithId, MaxRead
    <3>3. SyncOK(th)'
      BY <1>1, <2>4, CommitKind
         DEF CommitPCs, Moves, SyncOK, SyncPCs, Removing, CallKinds, SyncKinds
    <3>4. Gone(th)'
      BY <1>4, <2>2, <2>3, <2>4, <2>6 DEF Gone, FilesBelow, Complete, Seen
    <3> QED  BY <3>1, <3>2, <3>3, <3>4 DEF ThreadOK
  <2>8. ClosedInv'
    BY <1>4, <2>4, <2>5, StepClosed DEF Moves
  <2>9. FsckInv'
    BY <1>1, <2>5, StepFsck
  <2>10. ASSUME NEW u \in Threads, NEW j \in Tids
         PROVE  /\ CallOwns(u, j)' => CallOwns(u, j) \/ (u = th /\ j = i)
                /\ SavedOwns(u, j)' => SavedOwns(u, j) /\ j # i
                /\ CallOwns(u, j) => j # i
    BY <1>4, <2>2, <2>3, <2>4 DEF CallOwns, SavedOwns, Moves, IdInv, BelowInv
  <2>11. ASSUME NEW p \in Procs, NEW k \in Nat, NEW j \in Tids, LingerOwns(p, k, j)'
         PROVE  LingerOwns(p, k, j) /\ j # i
    BY <1>4, <2>2, <2>3, <2>11 DEF LingerOwns, IdInv, BelowInv
  <2>12. DistinctInv'
    <3> SUFFICES ASSUME NEW j \in Tids
        PROVE  /\ \A v, u \in Threads :
                    /\ CallOwns(v, j)' /\ CallOwns(u, j)' => v = u
                    /\ SavedOwns(v, j)' /\ SavedOwns(u, j)' => v = u
                    /\ ~ (CallOwns(v, j)' /\ SavedOwns(u, j)')
               /\ \A v \in Threads, p \in Procs, k \in Nat :
                    LingerOwns(p, k, j)' => ~CallOwns(v, j)' /\ ~SavedOwns(v, j)'
               /\ \A p, q \in Procs, k, l \in Nat :
                    LingerOwns(p, k, j)' /\ LingerOwns(q, l, j)' => p = q /\ k = l
      BY DEF DistinctInv
    <3> QED  BY <2>10, <2>11 DEF IdInv, DistinctInv
  <2>13. BelowInv'
    <3> SUFFICES ASSUME NEW j \in Tids
        PROVE  /\ \A u \in Threads : CallOwns(u, j)' \/ SavedOwns(u, j)' => j <= max'
               /\ \A p \in Procs, k \in Nat : LingerOwns(p, k, j)' => j <= max'
      BY DEF BelowInv
    <3> QED  BY <2>1, <2>3, <2>10, <2>11 DEF IdInv, BelowInv
  <2>14. FilesInv'
    <3>1. ASSUME NEW j \in Tids, j <= MaxInt, Complete(jf'[j]) PROVE j <= max'
      BY <1>4, <2>1, <2>3, <2>6, <3>1 DEF FilesBelow, Seen
    <3>2. FilesBelow'
      BY <3>1 DEF FilesBelow, Complete, Seen
    <3> QED  BY <3>2 DEF FilesInv
  <2> QED  BY <2>5, <2>7, <2>8, <2>9, <2>12, <2>13, <2>14, StepHolds
<1> QED  BY <1>5, <1>6

LEMMA TailOfSeq ==
  ASSUME NEW S, NEW s \in Seq(S), s # <<>>
  PROVE  /\ Tail(s) \in Seq(S)
         /\ \A k \in DOMAIN Tail(s) : k \in Nat /\ k >= 1 /\ k + 1 \in DOMAIN s /\ Tail(s)[k] = s[k + 1]
  OBVIOUS

\* free_tid: the greatest id goes down only when the id that is freed is the
\* greatest, so it stays above the ids of the others.
LEMMA FreeTid ==
  ASSUME OneThreadPerProcess, IdInv, NEW th \in Threads, fsck' = fsck, free_tid_write(th)
  PROVE  IdInv'
<1> DEFINE P == ProcOf[th]
           i == cur[th].tid
<1>1. cur[th].pc = "free_tid_write" /\ cur[th].pc # "idle" /\ cur[th].pc \in WithId
  BY DEF free_tid_write, At, WithId
<1>2. StateOK /\ ThreadOK(th) /\ max \in 0 .. MaxTid /\ P \in Procs
      /\ ltrans \in [Procs -> Seq(0 .. MaxTid)] /\ cur[th].kind \in CallKinds \cup SyncKinds
  BY <1>1, ActiveThread, JioAssumption DEF StateOK
<1>3. jlock = ProcOf[th] /\ cur[th].curid = max
  BY <1>1, <1>2 DEF ThreadOK, MaxRead
<1>4. jf' = jf /\ saved' = saved /\ open' = open /\ FilesOf(th)
  BY <1>2, SameFiles DEF free_tid_write, dirVars
<1>5. i \in Tids /\ (CallOwns(th, i) \/ LingerOwns(P, 1, i))
  BY <1>1, <1>2, IdOwner
<1>6. max' = IF i = max THEN max - 1 ELSE max
  BY <1>3 DEF free_tid_write, free_tid, NewMax
<1>7. /\ Moves(th) /\ cur'[th].tid = 0
      /\ cur'[th].pc = IF Syncing(th) THEN "next" ELSE "unlock"
  <2> DEFINE pc == IF Syncing(th) THEN "next" ELSE "unlock"
  <2>1. cur' = [cur EXCEPT ![th] = [cur[th] EXCEPT !.curid = 0, !.tid = 0, !.pc = pc]]
        /\ cur = [u \in Threads |-> cur[u]] /\ IsFrame(cur[th])
    BY <1>2 DEF free_tid_write, StateOK, ThreadOK, FrameOK
  <2> HIDE DEF pc
  <2>2. Moves(th) /\ cur'[th].tid = 0 /\ cur'[th].pc = pc
    BY <2>1 DEF Moves, IsFrame
  <2> QED  BY <2>2 DEF pc
<1>8. /\ ltrans' \in [Procs -> Seq(0 .. MaxTid)]
      /\ \A p \in Procs : p # P \/ ~Syncing(th) => ltrans'[p] = ltrans[p]
      /\ Syncing(th) => ltrans[P] # <<>> /\ ltrans[P] \in Seq(0 .. MaxTid)
                        /\ i = Head(ltrans[P]) /\ ltrans'[P] = Tail(ltrans[P]) /\ Intact(P)
                        /\ LingerOwns(P, 1, i)
  <2>1. CASE Syncing(th)
    <3>1. cur[th].kind \in SyncKinds /\ cur[th].pc \in Removing /\ cur[th].pc # "unlock"
      BY <1>1, <2>1 DEF Syncing, SyncKinds, Removing
    <3>2. ltrans[P] # <<>> /\ i = Head(ltrans[P]) /\ Intact(P)
      BY <1>2, <3>1 DEF ThreadOK, SyncOK
    <3>3. ltrans[P] \in Seq(0 .. MaxTid)
      BY <1>2
    <3>4. Tail(ltrans[P]) \in Seq(0 .. MaxTid)
      BY <3>2, <3>3, TailOfSeq
    <3>5. ltrans' = [ltrans EXCEPT ![P] = Tail(ltrans[P])]
      BY <2>1 DEF free_tid_write
    <3>6. 1 \in DOMAIN ltrans[P] /\ i = ltrans[P][1]
      BY <3>2, <3>3
    <3> QED  BY <1>2, <2>1, <3>2, <3>3, <3>4, <3>5, <3>6 DEF LingerOwns
  <2>2. CASE ~Syncing(th)
    BY <1>2, <2>2 DEF free_tid_write
  <2> QED  BY <2>1, <2>2
<1>9. i \in Nat /\ i >= 1 /\ max \in Nat /\ \A j \in Tids : j \in Nat
  BY <1>2, <1>5, JioAssumption, TidsNat DEF Tids
<1>10. i <= max
  BY <1>2, <1>5 DEF IdInv, BelowInv
<1>11. max' \in 0 .. MaxTid /\ \A j \in Tids : j <= max /\ j # i => j <= max'
  BY <1>2, <1>6, <1>9, <1>10, JioAssumption
<1>12. StepOf(th)
  <2>1. saved' = [u \in Threads |-> saved'[u]] /\ open' = [p \in Procs |-> open'[p]]
    BY <1>2, <1>4 DEF StateOK
  <2> QED  BY <1>3, <1>4, <1>7, <1>8, <1>11, <2>1 DEF StepOf, Moves, FilesOf
<1>13. ThreadOK(th)'
  <2>1. FrameOK(th)' /\ CallOK(th)' /\ FlagsOK(th)'
    BY <1>1, <1>4, <1>7, TidsNat, JioAssumption, MovesThread
  <2>2. HasId(th)' /\ MaxRead(th)' /\ Gone(th)'
    BY <1>7 DEF HasId, WithId, MaxRead, Gone
  <2>3. SyncOK(th)'
    <3>1. CASE Syncing(th)
      <4>1. ASSUME NEW k \in DOMAIN Tail(ltrans[P]) PROVE Tail(ltrans[P])[k] # Dangling
        <5>1. k + 1 \in DOMAIN ltrans[P] /\ Tail(ltrans[P])[k] = ltrans[P][k + 1]
          BY <1>8, <3>1, TailOfSeq
        <5> QED  BY <1>8, <3>1, <5>1 DEF Intact
      <4>2. Intact(P)'
        BY <1>8, <3>1, <4>1 DEF Intact
      <4>3. cur'[th].kind \in SyncKinds
        BY <1>7, <3>1 DEF Moves, Syncing, SyncKinds
      <4> QED  BY <1>7, <3>1, <4>2, <4>3 DEF SyncOK, SyncPCs, Removing
    <3>2. CASE ~Syncing(th)
      BY <1>7, <3>2 DEF SyncOK, SyncPCs, Removing
    <3> QED  BY <3>1, <3>2
  <2> QED  BY <2>1, <2>2, <2>3 DEF ThreadOK
<1>14. ClosedInv'
  BY <1>2, <1>4, <1>7, <1>8, <1>12, StepClosed DEF Moves
<1>15. FsckInv'
  BY <1>1, <1>12, StepFsck
<1>16. ASSUME NEW u \in Threads, NEW j \in Tids
       PROVE  /\ CallOwns(u, j)' => CallOwns(u, j) /\ j # i
              /\ SavedOwns(u, j)' => SavedOwns(u, j) /\ j # i
  <2>1. SavedOwns(u, j)' => SavedOwns(u, j) /\ j # i
    BY <1>2, <1>4, <1>5 DEF SavedOwns, IdInv, DistinctInv
  <2>2. CASE u = th
    BY <1>7, <2>1, <2>2, TidsNat DEF CallOwns
  <2>3. CASE u # th
    <3>1. CallOwns(u, j)' => CallOwns(u, j)
      BY <1>7, <2>3 DEF CallOwns, Moves
    <3>2. CallOwns(u, j) => j # i
      BY <1>2, <1>5, <2>3 DEF IdInv, DistinctInv
    <3> QED  BY <2>1, <3>1, <3>2
  <2> QED  BY <2>2, <2>3
<1> DEFINE Slot(p, k) == IF Syncing(th) /\ p = P THEN k + 1 ELSE k
<1>17. ASSUME NEW p \in Procs, NEW k \in Nat, NEW j \in Tids, LingerOwns(p, k, j)'
       PROVE  Slot(p, k) \in Nat /\ LingerOwns(p, Slot(p, k), j) /\ j # i
  <2>1. CASE Syncing(th) /\ p = P
    <3>1. k \in DOMAIN Tail(ltrans[P]) /\ Tail(ltrans[P])[k] = j
      BY <1>8, <1>17, <2>1 DEF LingerOwns
    <3>2. k >= 1 /\ k + 1 \in DOMAIN ltrans[P] /\ j = ltrans[P][k + 1]
      BY <1>8, <2>1, <3>1, TailOfSeq
    <3>3. LingerOwns(P, k + 1, j) /\ k + 1 \in Nat /\ k + 1 # 1
      BY <3>2 DEF LingerOwns
    <3>4. j # i
      BY <1>2, <1>8, <2>1, <3>3 DEF IdInv, DistinctInv
    <3> QED  BY <2>1, <3>3, <3>4
  <2>2. CASE ~ (Syncing(th) /\ p = P)
    <3>1. LingerOwns(p, k, j)
      BY <1>8, <1>17, <2>2 DEF LingerOwns
    <3>2. CASE p = P
      <4>1. CallOwns(th, i)
        BY <1>2, <2>2, <3>2 DEF CallOwns, Syncing, SyncKinds
      <4> QED  BY <2>2, <3>1, <4>1, <1>2 DEF IdInv, DistinctInv
    <3>3. CASE p # P
      BY <1>2, <1>5, <2>2, <3>1, <3>3 DEF IdInv, DistinctInv
    <3> QED  BY <3>2, <3>3
  <2> QED  BY <2>1, <2>2
<1>18. ASSUME NEW p \in Procs, NEW k \in Nat, NEW l \in Nat, Slot(p, k) = Slot(p, l)
       PROVE  k = l
  BY <1>18
<1> HIDE DEF Slot
<1>19. DistinctInv'
  <2> SUFFICES ASSUME NEW j \in Tids
      PROVE  /\ \A v, u \in Threads :
                  /\ CallOwns(v, j)' /\ CallOwns(u, j)' => v = u
                  /\ SavedOwns(v, j)' /\ SavedOwns(u, j)' => v = u
                  /\ ~ (CallOwns(v, j)' /\ SavedOwns(u, j)')
             /\ \A v \in Threads, p \in Procs, k \in Nat :
                  LingerOwns(p, k, j)' => ~CallOwns(v, j)' /\ ~SavedOwns(v, j)'
             /\ \A p, q \in Procs, k, l \in Nat :
                  LingerOwns(p, k, j)' /\ LingerOwns(q, l, j)' => p = q /\ k = l
    BY DEF DistinctInv
  <2>1. \A v, u \in Threads :
          /\ CallOwns(v, j)' /\ CallOwns(u, j)' => v = u
          /\ SavedOwns(v, j)' /\ SavedOwns(u, j)' => v = u
          /\ ~ (CallOwns(v, j)' /\ SavedOwns(u, j)')
    BY <1>16 DEF IdInv, DistinctInv
  <2>2. ASSUME NEW v \in Threads, NEW p \in Procs, NEW k \in Nat, LingerOwns(p, k, j)'
        PROVE  ~CallOwns(v, j)' /\ ~SavedOwns(v, j)'
    BY <1>16, <1>17, <2>2 DEF IdInv, DistinctInv
  <2>3. ASSUME NEW p \in Procs, NEW q \in Procs, NEW k \in Nat, NEW l \in Nat,
               LingerOwns(p, k, j)', LingerOwns(q, l, j)'
        PROVE  p = q /\ k = l
    <3>1. p = q /\ Slot(p, k) = Slot(q, l)
      BY <1>17, <2>3 DEF IdInv, DistinctInv
    <3> QED  BY <1>18, <3>1
  <2> QED  BY <2>1, <2>2, <2>3
<1>20. BelowInv'
  <2> SUFFICES ASSUME NEW j \in Tids
      PROVE  /\ \A u \in Threads : CallOwns(u, j)' \/ SavedOwns(u, j)' => j <= max'
             /\ \A p \in Procs, k \in Nat : LingerOwns(p, k, j)' => j <= max'
    BY DEF BelowInv
  <2> QED  BY <1>11, <1>16, <1>17 DEF IdInv, BelowInv
<1>21. FilesInv'
  <2>1. FilesBelow
    BY <1>1, BusyFiles
  <2>2. ~Seen(i)
    BY <1>1, <1>2 DEF ThreadOK, Gone
  <2>3. ASSUME NEW j \in Tids, j <= MaxInt, Complete(jf'[j]) PROVE j <= max'
    BY <1>4, <1>11, <2>1, <2>2, <2>3 DEF FilesBelow, Seen
  <2>4. FilesBelow'
    BY <2>3 DEF FilesBelow, Complete, Seen
  <2> QED  BY <2>4 DEF FilesInv
<1> QED  BY <1>12, <1>13, <1>14, <1>15, <1>19, <1>20, <1>21, StepHolds

LEMMA AppendSeq ==
  ASSUME NEW S, NEW s \in Seq(S), NEW e \in S, NEW k \in DOMAIN Append(s, e)
  PROVE  \/ k \in DOMAIN s /\ Append(s, e)[k] = s[k]
         \/ k = Len(s) + 1 /\ Append(s, e)[k] = e
<1>1. Len(s) \in Nat /\ k \in 1 .. Len(s) + 1 /\ DOMAIN s = 1 .. Len(s)
  OBVIOUS
<1>2. CASE k = Len(s) + 1
  BY <1>1, <1>2
<1>3. CASE k # Len(s) + 1
  <2>1. k \in 1 .. Len(s)
    BY <1>1, <1>3
  <2> QED  BY <1>1, <2>1
<1> QED  BY <1>2, <1>3

\* A transaction that lingers passes its id on to the list of its process.
LEMMA LingerHolds ==
  ASSUME OneThreadPerProcess, IdInv, NEW th \in Threads, fsck' = fsck, Linger(th)
  PROVE  IdInv'
<1> DEFINE P == ProcOf[th]
           i == cur[th].tid
           n == Len(ltrans[P]) + 1
<1>1. cur[th].pc = "sync" /\ cur[th].pc # "idle" /\ HasWrites(cur[th])
      /\ "LINGER" \in cur[th].flags
  BY DEF Linger, At
<1>2. StateOK /\ ThreadOK(th) /\ max \in 0 .. MaxTid /\ P \in Procs
      /\ ltrans \in [Procs -> Seq(0 .. MaxTid)]
  BY <1>1, ActiveThread, JioAssumption DEF StateOK
<1>3. jf' = jf /\ saved' = saved /\ open' = open /\ max' = max /\ jlock' = jlock /\ FilesOf(th)
  BY <1>2, SameFiles DEF Linger, fileVars
<1>4. i \in Tids /\ i \in 0 .. MaxTid /\ CallOwns(th, i)
  <2>1. cur[th].kind \in CallKinds
    BY <1>1, CommitKind DEF CommitPCs
  <2> QED  BY <1>1, <1>2, <2>1, TidsNat DEF ThreadOK, HasId, CallOwns
<1>5. open[P]
  BY <1>1, <1>2 DEF ThreadOK, FlagsOK
<1>6. Moves(th) /\ cur'[th].tid = 0 /\ cur'[th].pc = "unlock"
  <2>1. cur' = [cur EXCEPT ![th] = [cur[th] EXCEPT !.pc = "unlock", !.k = 1, !.retval = 1,
                                                   !.tid = 0]]
        /\ cur = [u \in Threads |-> cur[u]] /\ IsFrame(cur[th])
    BY <1>2 DEF Linger, SyncDone, StateOK, ThreadOK, FrameOK
  <2> QED  BY <2>1 DEF Moves, IsFrame
<1>7. ltrans[P] \in Seq(0 .. MaxTid) /\ n \in Nat
  BY <1>2
<1>8. /\ ltrans' \in [Procs -> Seq(0 .. MaxTid)]
      /\ \A p \in Procs : p # P => ltrans'[p] = ltrans[p]
      /\ ltrans'[P] = Append(ltrans[P], i)
  <2>1. Append(ltrans[P], i) \in Seq(0 .. MaxTid)
    BY <1>4, <1>7
  <2>2. ltrans' = [ltrans EXCEPT ![P] = Append(ltrans[P], i)]
    BY DEF Linger
  <2> QED  BY <1>2, <2>1, <2>2
<1>9. StepOf(th)
  <2>1. saved' = [u \in Threads |-> saved'[u]] /\ open' = [p \in Procs |-> open'[p]]
        /\ max' \in 0 .. MaxTid
    BY <1>2, <1>3 DEF StateOK
  <2> QED  BY <1>3, <1>6, <1>8, <2>1 DEF StepOf, Moves, FilesOf
<1>10. ThreadOK(th)'
  <2>1. FrameOK(th)' /\ CallOK(th)' /\ FlagsOK(th)'
    BY <1>1, <1>3, <1>6, TidsNat, JioAssumption, MovesThread
  <2>2. HasId(th)' /\ MaxRead(th)' /\ Gone(th)' /\ SyncOK(th)'
    BY <1>6 DEF HasId, WithId, MaxRead, Gone, SyncOK, SyncPCs, Removing
  <2> QED  BY <2>1, <2>2 DEF ThreadOK
<1>11. ClosedInv'
  BY <1>3, <1>5, <1>9, StepClosed
<1>12. FsckInv'
  BY <1>1, <1>9, StepFsck
<1>13. ASSUME NEW u \in Threads, NEW j \in Tids
       PROVE  /\ CallOwns(u, j)' => CallOwns(u, j) /\ j # i
              /\ SavedOwns(u, j)' => SavedOwns(u, j) /\ j # i
  <2>1. SavedOwns(u, j)' => SavedOwns(u, j) /\ j # i
    BY <1>2, <1>3, <1>4 DEF SavedOwns, IdInv, DistinctInv
  <2>2. CASE u = th
    BY <1>6, <2>1, <2>2, TidsNat DEF CallOwns
  <2>3. CASE u # th
    <3>1. CallOwns(u, j)' => CallOwns(u, j)
      BY <1>6, <2>3 DEF CallOwns, Moves
    <3>2. CallOwns(u, j) => j # i
      BY <1>2, <1>4, <2>3 DEF IdInv, DistinctInv
    <3> QED  BY <2>1, <3>1, <3>2
  <2> QED  BY <2>2, <2>3
<1>14. ASSUME NEW p \in Procs, NEW k \in Nat, NEW j \in Tids, LingerOwns(p, k, j)'
       PROVE  (LingerOwns(p, k, j) /\ j # i) \/ (p = P /\ k = n /\ j = i)
  <2>1. ASSUME LingerOwns(p, k, j) PROVE j # i
    BY <1>4, <2>1 DEF IdInv, DistinctInv
  <2>2. CASE p = P
    <3>1. k \in DOMAIN Append(ltrans[P], i) /\ Append(ltrans[P], i)[k] = j
      BY <1>8, <1>14, <2>2 DEF LingerOwns
    <3>2. \/ k \in DOMAIN ltrans[P] /\ ltrans[P][k] = j
          \/ k = n /\ j = i
      BY <1>4, <1>7, <3>1, AppendSeq
    <3> QED  BY <2>1, <2>2, <3>2 DEF LingerOwns
  <2>3. CASE p # P
    BY <1>8, <1>14, <2>1, <2>3 DEF LingerOwns
  <2> QED  BY <2>2, <2>3
<1> HIDE DEF n
<1>15. DistinctInv'
  <2> SUFFICES ASSUME NEW j \in Tids
      PROVE  /\ \A v, u \in Threads :
                  /\ CallOwns(v, j)' /\ CallOwns(u, j)' => v = u
                  /\ SavedOwns(v, j)' /\ SavedOwns(u, j)' => v = u
                  /\ ~ (CallOwns(v, j)' /\ SavedOwns(u, j)')
             /\ \A v \in Threads, p \in Procs, k \in Nat :
                  LingerOwns(p, k, j)' => ~CallOwns(v, j)' /\ ~SavedOwns(v, j)'
             /\ \A p, q \in Procs, k, l \in Nat :
                  LingerOwns(p, k, j)' /\ LingerOwns(q, l, j)' => p = q /\ k = l
    BY DEF DistinctInv
  <2> QED  BY <1>13, <1>14 DEF IdInv, DistinctInv
<1>16. BelowInv'
  <2> SUFFICES ASSUME NEW j \in Tids
      PROVE  /\ \A u \in Threads : CallOwns(u, j)' \/ SavedOwns(u, j)' => j <= max'
             /\ \A p \in Procs, k \in Nat : LingerOwns(p, k, j)' => j <= max'
    BY DEF BelowInv
  <2>1. i <= max
    BY <1>4 DEF IdInv, BelowInv
  <2> QED  BY <1>3, <1>13, <1>14, <2>1 DEF IdInv, BelowInv
<1>17. FilesInv'
  BY <1>1, <1>3, <1>9, BusyFiles, FilesStayBelow
<1> QED  BY <1>9, <1>10, <1>11, <1>12, <1>15, <1>16, <1>17, StepHolds

\* The rollback keeps the frame, and the id, of the commit that failed.
LEMMA BeginUndo ==
  ASSUME OneThreadPerProcess, IdInv, NEW th \in Threads, BeginsUndo(th)
  PROVE  IdInv'
<1>1. cur[th].pc \in {"apply", "sync"} /\ cur[th].pc # "idle" /\ HasWrites(cur[th])
      /\ "ROLLBACKING" \notin cur[th].flags
  BY DEF BeginsUndo
<1>2. jf' = jf /\ jlock' = jlock /\ open' = open /\ ltrans' = ltrans /\ fsck' = fsck /\ max' = max
  BY DEF BeginsUndo
<1>3. StateOK /\ ThreadOK(th) /\ max \in 0 .. MaxTid
  BY <1>1, ActiveThread DEF StateOK
<1>4. cur[th].kind \in CallKinds /\ cur[th].kind # "undo" /\ cur[th].tid \in Tids
  BY <1>1, <1>3, CommitKind DEF CommitPCs, ThreadOK, CallOK, HasId
<1>5. /\ saved' = [u \in Threads |-> saved'[u]]
      /\ \A u \in Threads : u # th => saved'[u] = saved[u]
      /\ IsFrame(saved'[th]) /\ saved'[th].kind = cur[th].kind /\ saved'[th].pc = cur[th].pc
      /\ saved'[th].tid = cur[th].tid /\ saved'[th].flags = cur[th].flags
  <2>1. saved' = [saved EXCEPT ![th] = [cur[th] EXCEPT !.k = 1]]
        /\ saved = [u \in Threads |-> saved[u]] /\ IsFrame(cur[th])
    BY <1>3 DEF BeginsUndo, StateOK, ThreadOK, FrameOK
  <2> QED  BY <2>1 DEF IsFrame
<1>6. /\ cur' = [u \in Threads |-> cur'[u]]
      /\ \A u \in Threads : u # th => cur'[u] = cur[u]
      /\ IsFrame(cur'[th]) /\ cur'[th].kind = "undo" /\ cur'[th].pc = "get_tid"
      /\ cur'[th].tid = 0 /\ cur'[th].flags = cur[th].flags \cup {"NOLOCK", "ROLLBACKING"}
  <2> DEFINE undo == UndoOps(cur[th])
             flags == cur[th].flags \cup {"NOLOCK", "ROLLBACKING"}
  <2>1. cur' = [cur EXCEPT ![th] = Frame("undo", "get_tid", cur[th].txn, undo, flags)]
        /\ cur = [u \in Threads |-> cur[u]]
    BY <1>3 DEF BeginsUndo, StateOK, UndoFrame
  <2> HIDE DEF undo, flags
  <2>2. /\ cur' = [u \in Threads |-> cur'[u]]
        /\ \A u \in Threads : u # th => cur'[u] = cur[u]
        /\ IsFrame(cur'[th]) /\ cur'[th].kind = "undo" /\ cur'[th].pc = "get_tid"
        /\ cur'[th].tid = 0 /\ cur'[th].flags = flags
    BY <2>1 DEF IsFrame, Frame
  <2> QED  BY <2>2 DEF flags
<1>7. StepOf(th)
  <2>1. /\ open' = [p \in Procs |-> open'[p]] /\ max' \in 0 .. MaxTid
        /\ ltrans' \in [Procs -> Seq(0 .. MaxTid)] /\ FilesOf(th)
    BY <1>2, <1>3, SameFiles DEF StateOK
  <2> QED  BY <1>2, <1>5, <1>6, <2>1 DEF StepOf, FilesOf
<1>8. ThreadOK(th)'
  <2>1. FrameOK(th)'
    BY <1>4, <1>5, <1>6, TidsNat, JioAssumption DEF FrameOK, CallKinds
  <2>2. CallOK(th)'
    BY <1>1, <1>4, <1>5, <1>6 DEF CallOK
  <2>3. HasId(th)' /\ MaxRead(th)' /\ Gone(th)' /\ SyncOK(th)'
    BY <1>6 DEF HasId, WithId, MaxRead, Gone, SyncOK, SyncPCs, SyncKinds
  <2>4. FlagsOK(th)'
    BY <1>2, <1>3, <1>5, <1>6 DEF ThreadOK, FlagsOK
  <2> QED  BY <2>1, <2>2, <2>3, <2>4 DEF ThreadOK
<1>9. ClosedInv'
  BY <1>2, <1>4, <1>7, StepClosed DEF CallKinds
<1>10. FsckInv'
  BY <1>1, <1>2, <1>7, StepFsck
<1>11. ASSUME NEW u \in Threads, NEW j \in Tids
       PROVE  /\ CallOwns(u, j)' => CallOwns(u, j) /\ u # th
              /\ SavedOwns(u, j)' => SavedOwns(u, j) \/ (u = th /\ CallOwns(u, j))
  BY <1>4, <1>5, <1>6, TidsNat DEF CallOwns, SavedOwns
<1>12. ASSUME NEW p \in Procs, NEW k \in Nat, NEW j \in Tids, LingerOwns(p, k, j)'
       PROVE  LingerOwns(p, k, j)
  BY <1>2, <1>12 DEF LingerOwns
<1>13. DistinctInv'
  <2> SUFFICES ASSUME NEW j \in Tids
      PROVE  /\ \A v, u \in Threads :
                  /\ CallOwns(v, j)' /\ CallOwns(u, j)' => v = u
                  /\ SavedOwns(v, j)' /\ SavedOwns(u, j)' => v = u
                  /\ ~ (CallOwns(v, j)' /\ SavedOwns(u, j)')
             /\ \A v \in Threads, p \in Procs, k \in Nat :
                  LingerOwns(p, k, j)' => ~CallOwns(v, j)' /\ ~SavedOwns(v, j)'
             /\ \A p, q \in Procs, k, l \in Nat :
                  LingerOwns(p, k, j)' /\ LingerOwns(q, l, j)' => p = q /\ k = l
    BY DEF DistinctInv
  <2> QED  BY <1>11, <1>12 DEF IdInv, DistinctInv
<1>14. BelowInv'
  <2> SUFFICES ASSUME NEW j \in Tids
      PROVE  /\ \A u \in Threads : CallOwns(u, j)' \/ SavedOwns(u, j)' => j <= max'
             /\ \A p \in Procs, k \in Nat : LingerOwns(p, k, j)' => j <= max'
    BY DEF BelowInv
  <2> QED  BY <1>2, <1>11, <1>12 DEF IdInv, BelowInv
<1>15. FilesInv'
  BY <1>1, <1>2, <1>7, BusyFiles, FilesStayBelow
<1> QED  BY <1>7, <1>8, <1>9, <1>10, <1>13, <1>14, <1>15, StepHolds

\* The commit that failed gets its id back from the rollback.
LEMMA EndUndo ==
  ASSUME OneThreadPerProcess, IdInv, NEW th \in Threads, fsck' = fsck, UndoReturn(th)
  PROVE  IdInv'
<1>1. cur[th].pc = "unlock" /\ cur[th].pc # "idle" /\ cur[th].kind = "undo"
  BY DEF UndoReturn, At
<1>2. jf' = jf /\ jlock' = jlock /\ open' = open /\ ltrans' = ltrans /\ max' = max
  BY DEF UndoReturn, fileVars, procVars
<1>3. StateOK /\ ThreadOK(th) /\ max \in 0 .. MaxTid
  BY <1>1, ActiveThread DEF StateOK
<1>4. /\ saved[th].kind \in CallKinds \ {"undo"} /\ saved[th].tid \in Tids
      /\ IsFrame(saved[th])
  BY <1>1, <1>3 DEF ThreadOK, CallOK, FrameOK
<1>5. /\ saved' = [u \in Threads |-> saved'[u]]
      /\ \A u \in Threads : u # th => saved'[u] = saved[u]
      /\ saved'[th] = Idle
  BY <1>3 DEF UndoReturn, StateOK
<1>6. /\ cur' = [u \in Threads |-> cur'[u]]
      /\ \A u \in Threads : u # th => cur'[u] = cur[u]
      /\ IsFrame(cur'[th]) /\ cur'[th].kind = saved[th].kind
      /\ cur'[th].tid = saved[th].tid /\ cur'[th].flags = saved[th].flags
      /\ cur'[th].pc \in {"unlink", "unlock"}
  <2> DEFINE g1 == [saved[th] EXCEPT !.pc = "unlink", !.retval = -1]
             g2 == [saved[th] EXCEPT !.pc = "unlock", !.retval = -2]
  <2>1. \/ cur' = [cur EXCEPT ![th] = g1]
        \/ cur' = [cur EXCEPT ![th] = g2]
    BY DEF UndoReturn
  <2>2. cur = [u \in Threads |-> cur[u]]
    BY <1>3 DEF StateOK
  <2>3. CASE cur' = [cur EXCEPT ![th] = g1]
    BY <1>4, <2>2, <2>3 DEF IsFrame
  <2>4. CASE cur' = [cur EXCEPT ![th] = g2]
    BY <1>4, <2>2, <2>4 DEF IsFrame
  <2> QED  BY <2>1, <2>3, <2>4
<1>7. StepOf(th)
  <2>1. /\ open' = [p \in Procs |-> open'[p]] /\ max' \in 0 .. MaxTid
        /\ ltrans' \in [Procs -> Seq(0 .. MaxTid)] /\ FilesOf(th)
    BY <1>2, <1>3, SameFiles DEF StateOK
  <2> QED  BY <1>2, <1>5, <1>6, <2>1 DEF StepOf, FilesOf
<1>8. ThreadOK(th)'
  <2>1. FrameOK(th)'
    BY <1>4, <1>5, <1>6, TidsNat, JioAssumption, IdleFrame DEF FrameOK
  <2>2. CallOK(th)'
    BY <1>4, <1>5, <1>6 DEF CallOK, CallKinds
  <2>3. HasId(th)' /\ MaxRead(th)' /\ Gone(th)'
    BY <1>4, <1>6 DEF HasId, WithId, MaxRead, Gone
  <2>4. SyncOK(th)'
    BY <1>4, <1>6 DEF SyncOK, SyncPCs, SyncKinds, CallKinds
  <2>5. FlagsOK(th)'
    BY <1>2, <1>3, <1>5, <1>6, IdleFrame DEF ThreadOK, FlagsOK
  <2> QED  BY <2>1, <2>2, <2>3, <2>4, <2>5 DEF ThreadOK
<1>9. ClosedInv'
  BY <1>1, <1>2, <1>7, StepClosed
<1>10. FsckInv'
  BY <1>1, <1>7, StepFsck
<1>11. ASSUME NEW u \in Threads, NEW j \in Tids
       PROVE  /\ CallOwns(u, j)' => CallOwns(u, j) \/ (u = th /\ SavedOwns(u, j))
              /\ SavedOwns(u, j)' => SavedOwns(u, j) /\ u # th
  BY <1>4, <1>5, <1>6, TidsNat, IdleFrame DEF CallOwns, SavedOwns
<1>12. ASSUME NEW p \in Procs, NEW k \in Nat, NEW j \in Tids, LingerOwns(p, k, j)'
       PROVE  LingerOwns(p, k, j)
  BY <1>2, <1>12 DEF LingerOwns
<1>13. DistinctInv'
  <2> SUFFICES ASSUME NEW j \in Tids
      PROVE  /\ \A v, u \in Threads :
                  /\ CallOwns(v, j)' /\ CallOwns(u, j)' => v = u
                  /\ SavedOwns(v, j)' /\ SavedOwns(u, j)' => v = u
                  /\ ~ (CallOwns(v, j)' /\ SavedOwns(u, j)')
             /\ \A v \in Threads, p \in Procs, k \in Nat :
                  LingerOwns(p, k, j)' => ~CallOwns(v, j)' /\ ~SavedOwns(v, j)'
             /\ \A p, q \in Procs, k, l \in Nat :
                  LingerOwns(p, k, j)' /\ LingerOwns(q, l, j)' => p = q /\ k = l
    BY DEF DistinctInv
  <2> QED  BY <1>11, <1>12 DEF IdInv, DistinctInv
<1>14. BelowInv'
  <2> SUFFICES ASSUME NEW j \in Tids
      PROVE  /\ \A u \in Threads : CallOwns(u, j)' \/ SavedOwns(u, j)' => j <= max'
             /\ \A p \in Procs, k \in Nat : LingerOwns(p, k, j)' => j <= max'
    BY DEF BelowInv
  <2> QED  BY <1>2, <1>11, <1>12 DEF IdInv, BelowInv
<1>15. FilesInv'
  BY <1>1, <1>2, <1>7, BusyFiles, FilesStayBelow
<1> QED  BY <1>7, <1>8, <1>9, <1>10, <1>13, <1>14, <1>15, StepHolds

LEMMA HeadOfSeq ==
  ASSUME NEW S, NEW s \in Seq(S), s # <<>>
  PROVE  1 \in DOMAIN s /\ Head(s) = s[1] /\ Head(s) \in S
  OBVIOUS

LEMMA ExceptSeq ==
  ASSUME NEW S, NEW s \in Seq(S), NEW e \in S, NEW k
  PROVE  [s EXCEPT ![k] = e] \in Seq(S)
<1>1. Len(s) \in Nat /\ s \in [1 .. Len(s) -> S]
  OBVIOUS
<1>2. [s EXCEPT ![k] = e] \in [1 .. Len(s) -> S]
  BY <1>1
<1> QED  BY <1>1, <1>2

\* jsync takes up the first transaction of its list, or is done with it.
LEMMA NextLingerHolds ==
  ASSUME OneThreadPerProcess, IdInv, NEW th \in Threads, fsck' = fsck, NextLinger(th)
  PROVE  IdInv'
<1> DEFINE P == ProcOf[th]
<1>1. cur[th].pc = "next" /\ cur[th].pc # "idle"
  BY DEF NextLinger, At
<1>2. StateOK /\ ThreadOK(th) /\ max \in 0 .. MaxTid /\ P \in Procs
  BY <1>1, ActiveThread, JioAssumption DEF StateOK
<1>3. jf' = jf /\ saved' = saved /\ open' = open /\ max' = max /\ jlock' = jlock
      /\ ltrans' = ltrans /\ FilesOf(th)
  BY <1>2, SameFiles DEF NextLinger, fileVars, procVars
<1>4. cur[th].kind \in SyncKinds /\ Intact(P)
  BY <1>1, <1>2 DEF ThreadOK, SyncOK, SyncPCs
<1>5. cur = [u \in Threads |-> cur[u]] /\ IsFrame(cur[th])
  BY <1>2 DEF StateOK, ThreadOK, FrameOK
<1>6. CASE ltrans[P] = <<>>
  <2>1. cur' = [cur EXCEPT ![th] = [cur[th] EXCEPT !.pc = "unlock", !.retval = 0]]
    BY <1>6 DEF NextLinger
  <2>2. Moves(th) /\ cur'[th].pc = "unlock" /\ cur'[th].tid = cur[th].tid
    BY <1>5, <2>1 DEF Moves, IsFrame
  <2>3. Plain(th)
    BY <1>1, <1>3, <2>2, ReturnPlain
  <2> QED  BY <2>3, PlainStep
<1>7. CASE ltrans[P] # <<>>
  <2> DEFINE i == Head(ltrans[P])
  <2>1. ltrans[P] \in Seq(0 .. MaxTid)
    BY <1>2 DEF StateOK
  <2>2. 1 \in DOMAIN ltrans[P] /\ i = ltrans[P][1] /\ i \in 0 .. MaxTid
    BY <1>7, <2>1, HeadOfSeq
  <2>3. i # 0
    BY <1>4, <2>2 DEF Intact, Dangling
  <2>4. i \in Tids /\ i \in 0 .. MaxTid
    BY <2>2, <2>3, JioAssumption DEF Tids
  <2>5. cur' = [cur EXCEPT ![th] = [cur[th] EXCEPT !.pc = "unlink", !.tid = i]]
    BY <1>7 DEF NextLinger
  <2> HIDE DEF i
  <2>6. Moves(th) /\ cur'[th].pc = "unlink" /\ cur'[th].tid = i
    BY <1>5, <2>5 DEF Moves, IsFrame
  <2>7. StepOf(th)
    <3>1. /\ saved' = [u \in Threads |-> saved'[u]] /\ open' = [p \in Procs |-> open'[p]]
          /\ max' \in 0 .. MaxTid /\ ltrans' \in [Procs -> Seq(0 .. MaxTid)]
      BY <1>2, <1>3 DEF StateOK
    <3> QED  BY <1>3, <2>6, <3>1 DEF StepOf, Moves, FilesOf
  <2>8. ThreadOK(th)'
    <3>1. FrameOK(th)' /\ CallOK(th)' /\ FlagsOK(th)'
      BY <1>1, <1>3, <2>4, <2>6, MovesThread
    <3>2. HasId(th)' /\ MaxRead(th)' /\ Gone(th)'
      BY <2>4, <2>6 DEF HasId, WithId, MaxRead, Gone
    <3>3. SyncOK(th)'
      BY <1>3, <1>4, <1>7, <2>6 DEF SyncOK, SyncPCs, Removing, Intact, Moves, i
    <3> QED  BY <3>1, <3>2, <3>3 DEF ThreadOK
  <2>9. ClosedInv'
    BY <1>3, <1>7, <2>6, <2>7, StepClosed DEF Moves
  <2>10. FsckInv'
    BY <1>1, <2>7, StepFsck
  <2>11. OwnersShrink
    BY <1>3, <1>4, <2>6
       DEF OwnersShrink, CallOwns, SavedOwns, LingerOwns, Moves, CallKinds, SyncKinds
  <2>12. DistinctInv' /\ BelowInv'
    BY <1>2, <1>3, <2>11, FewerOwners, JioAssumption
  <2>13. FilesInv'
    BY <1>1, <1>3, <2>7, BusyFiles, FilesStayBelow
  <2> QED  BY <2>7, <2>8, <2>9, <2>10, <2>12, <2>13, StepHolds
<1> QED  BY <1>6, <1>7

\* A file that jsync cannot remove: its entry in the list dangles.
LEMMA DanglingHolds ==
  ASSUME OneThreadPerProcess, IdInv, NEW th \in Threads, fsck' = fsck, MarkBroken(th),
         Syncing(th)
  PROVE  IdInv'
<1> DEFINE P == ProcOf[th]
           rv == -1
<1>1. cur[th].pc \in Removing /\ cur[th].pc # "idle" /\ cur[th].pc # "unlock"
      /\ cur[th].kind \in SyncKinds
  BY DEF MarkBroken, At, Removing, Syncing, SyncKinds
<1>2. StateOK /\ ThreadOK(th) /\ max \in 0 .. MaxTid /\ P \in Procs
      /\ ltrans \in [Procs -> Seq(0 .. MaxTid)] /\ ltrans[P] \in Seq(0 .. MaxTid)
  BY <1>1, ActiveThread, JioAssumption DEF StateOK
<1>3. jf' = jf /\ saved' = saved /\ open' = open /\ max' = max /\ jlock' = jlock /\ FilesOf(th)
  BY <1>2, SameFiles DEF MarkBroken, dirVars, tidVars
<1>4. Return(th, rv) /\ ltrans' = [ltrans EXCEPT ![P] = [ltrans[P] EXCEPT ![1] = 0]]
  BY <1>2 DEF MarkBroken, Dangling
<1> HIDE DEF rv
<1>5. Moves(th) /\ cur'[th].pc = "unlock" /\ cur'[th].tid = cur[th].tid
  BY <1>2, <1>4, ReturnMoves
<1>6. ltrans[P] # <<>>
  BY <1>1, <1>2 DEF ThreadOK, SyncOK
<1>7. /\ ltrans' \in [Procs -> Seq(0 .. MaxTid)]
      /\ \A p \in Procs : p # P => ltrans'[p] = ltrans[p]
      /\ ltrans'[P] = [ltrans[P] EXCEPT ![1] = 0]
  <2>1. 0 \in 0 .. MaxTid
    BY JioAssumption
  <2>2. [ltrans[P] EXCEPT ![1] = 0] \in Seq(0 .. MaxTid)
    BY <1>2, <2>1, ExceptSeq
  <2> QED  BY <1>2, <1>4, <2>2
<1>8. StepOf(th)
  <2>1. saved' = [u \in Threads |-> saved'[u]] /\ open' = [p \in Procs |-> open'[p]]
        /\ max' \in 0 .. MaxTid
    BY <1>2, <1>3 DEF StateOK
  <2> QED  BY <1>3, <1>5, <1>7, <2>1 DEF StepOf, Moves, FilesOf
<1>9. ThreadOK(th)'
  <2>1. FrameOK(th)' /\ CallOK(th)' /\ FlagsOK(th)'
    <3>1. cur'[th].tid \in 0 .. MaxTid
      BY <1>2, <1>5 DEF ThreadOK, FrameOK
    <3> QED  BY <1>1, <1>3, <1>5, <3>1, MovesThread
  <2>2. HasId(th)' /\ MaxRead(th)' /\ Gone(th)' /\ SyncOK(th)'
    BY <1>5 DEF HasId, WithId, MaxRead, Gone, SyncOK, SyncPCs, Removing
  <2> QED  BY <2>1, <2>2 DEF ThreadOK
<1>10. ClosedInv'
  BY <1>3, <1>5, <1>6, <1>8, StepClosed DEF Moves
<1>11. FsckInv'
  BY <1>1, <1>8, StepFsck
<1>12. OwnersShrink
  <2>1. ASSUME NEW u \in Threads, NEW j \in Tids
        PROVE  (CallOwns(u, j)' => CallOwns(u, j)) /\ (SavedOwns(u, j)' => SavedOwns(u, j))
    BY <1>3, <1>5 DEF CallOwns, SavedOwns, Moves
  <2>2. ASSUME NEW p \in Procs, NEW k \in Nat, NEW j \in Tids, LingerOwns(p, k, j)'
        PROVE  LingerOwns(p, k, j)
    <3>1. CASE p = P
      <4>1. k \in DOMAIN ltrans[P] /\ j = [ltrans[P] EXCEPT ![1] = 0][k]
        BY <1>7, <2>2, <3>1 DEF LingerOwns
      <4>2. k # 1
        BY <4>1, TidsNat
      <4> QED  BY <3>1, <4>1, <4>2 DEF LingerOwns
    <3>2. CASE p # P
      BY <1>7, <2>2, <3>2 DEF LingerOwns
    <3> QED  BY <3>1, <3>2
  <2> QED  BY <2>1, <2>2 DEF OwnersShrink
<1>13. DistinctInv' /\ BelowInv'
  BY <1>2, <1>3, <1>12, FewerOwners, JioAssumption
<1>14. FilesInv'
  BY <1>1, <1>3, <1>8, BusyFiles, FilesStayBelow
<1> QED  BY <1>8, <1>9, <1>10, <1>11, <1>13, <1>14, StepHolds

-----------------------------------------------------------------------------
(* The ends and the beginnings of calls.                                   *)

LEMMA IdleThread ==
  ASSUME NEW th \in Threads, cur'[th] = Idle, saved'[th] = Idle
  PROVE  ThreadOK(th)' /\ \A i \in Tids : ~CallOwns(th, i)' /\ ~SavedOwns(th, i)'
<1>1. 0 \in 0 .. MaxTid
  BY JioAssumption
<1>2. FrameOK(th)'
  BY <1>1, IdleFrame DEF FrameOK
<1>3. CallOK(th)'
  BY IdleFrame DEF CallOK
<1>4. HasId(th)' /\ MaxRead(th)' /\ Gone(th)'
  BY IdleFrame DEF HasId, WithId, MaxRead, Gone
<1>5. SyncOK(th)' /\ FlagsOK(th)'
  BY IdleFrame DEF SyncOK, SyncPCs, SyncKinds, FlagsOK
<1>6. \A i \in Tids : ~CallOwns(th, i)' /\ ~SavedOwns(th, i)'
  BY IdleFrame, TidsNat DEF CallOwns, SavedOwns
<1> QED  BY <1>2, <1>3, <1>4, <1>5, <1>6 DEF ThreadOK

\* A call that returns leaves its process's list as it is; jclose leaves it empty.
LEMMA CallEnds ==
  ASSUME OneThreadPerProcess, IdInv, NEW th \in Threads,
         cur[th].pc # "idle", cur[th].kind # "undo",
         cur' = [cur EXCEPT ![th] = Idle], saved' = saved, open' = open, jf' = jf,
         max' = max, jlock' = jlock, FsckInv',
         \/ ltrans' = ltrans /\ cur[th].kind # "jclose"
         \/ ltrans' = [ltrans EXCEPT ![ProcOf[th]] = <<>>]
  PROVE  IdInv'
<1> DEFINE P == ProcOf[th]
<1>1. StateOK /\ ThreadOK(th) /\ max \in 0 .. MaxTid /\ P \in Procs
      /\ ltrans \in [Procs -> Seq(0 .. MaxTid)]
  BY ActiveThread, JioAssumption DEF StateOK
<1>2. saved'[th] = Idle
  BY <1>1 DEF ThreadOK, CallOK
<1>3. /\ ltrans' \in [Procs -> Seq(0 .. MaxTid)]
      /\ \A p \in Procs : p # P => ltrans'[p] = ltrans[p]
      /\ ltrans'[P] = ltrans[P] \/ ltrans'[P] = <<>>
  <2>1. <<>> \in Seq(0 .. MaxTid)
    OBVIOUS
  <2>2. CASE ltrans' = ltrans
    BY <1>1, <2>2
  <2>3. CASE ltrans' = [ltrans EXCEPT ![P] = <<>>]
    BY <1>1, <2>1, <2>3
  <2> QED  BY <2>2, <2>3
<1>4. /\ cur' = [u \in Threads |-> cur'[u]] /\ cur'[th] = Idle
      /\ \A u \in Threads : u # th => cur'[u] = cur[u]
  BY <1>1 DEF StateOK
<1>5. StepOf(th)
  <2>1. saved' = [u \in Threads |-> saved'[u]] /\ open' = [p \in Procs |-> open'[p]]
        /\ max' \in 0 .. MaxTid /\ FilesOf(th)
    BY <1>1, SameFiles DEF StateOK
  <2> QED  BY <1>3, <1>4, <2>1 DEF StepOf, FilesOf
<1>6. ThreadOK(th)'
  BY <1>2, <1>4, IdleThread
<1>7. ClosedInv'
  BY <1>1, <1>3, <1>5, StepClosed
<1>8. OwnersShrink
  <2>1. ASSUME NEW u \in Threads, NEW j \in Tids
        PROVE  (CallOwns(u, j)' => CallOwns(u, j)) /\ (SavedOwns(u, j)' => SavedOwns(u, j))
    <3>1. CASE u = th
      BY <1>2, <1>4, <3>1, IdleThread
    <3>2. CASE u # th
      BY <1>4, <3>2 DEF CallOwns, SavedOwns
    <3> QED  BY <3>1, <3>2
  <2>2. ASSUME NEW p \in Procs, NEW k \in Nat, NEW j \in Tids, LingerOwns(p, k, j)'
        PROVE  LingerOwns(p, k, j)
    <3>1. ltrans'[p] # <<>>
      BY <2>2 DEF LingerOwns
    <3> QED  BY <1>3, <2>2, <3>1 DEF LingerOwns
  <2> QED  BY <2>1, <2>2 DEF OwnersShrink
<1>9. DistinctInv' /\ BelowInv'
  BY <1>1, <1>8, FewerOwners, JioAssumption
<1>10. FilesInv'
  BY <1>5, BusyFiles, FilesStayBelow
<1> QED  BY <1>5, <1>6, <1>7, <1>9, <1>10, StepHolds

LEMMA ReturnsHold ==
  ASSUME OneThreadPerProcess, IdInv, NEW th \in Threads, fsck' = fsck,
         CommitReturn(th) \/ jsyncReturn(th) \/ jcloseReturn(th)
  PROVE  IdInv'
<1>1. /\ cur[th].pc # "idle" /\ cur[th].kind # "undo"
      /\ cur' = [cur EXCEPT ![th] = Idle] /\ saved' = saved /\ open' = open /\ jf' = jf
      /\ max' = max /\ jlock' = jlock
  BY DEF CommitReturn, jsyncReturn, jcloseReturn, At, fileVars
<1>2. \/ ltrans' = ltrans /\ cur[th].kind # "jclose"
      \/ ltrans' = [ltrans EXCEPT ![ProcOf[th]] = <<>>]
  BY DEF CommitReturn, jsyncReturn, jcloseReturn
<1>3. FsckInv'
  <2>1. cur[Checker].pc = "idle" => cur'[Checker].pc = "idle"
    BY <1>1, JioAssumption, IdleFrame DEF IdInv, StateOK
  <2> QED  BY <2>1 DEF IdInv, FsckInv
<1> QED  BY <1>1, <1>2, <1>3, CallEnds

LEMMA FsckCommitReturnHolds ==
  ASSUME OneThreadPerProcess, IdInv, FsckCommitReturn
  PROVE  IdInv'
<1>1. /\ cur[Checker].pc # "idle" /\ cur[Checker].kind \notin {"undo", "jclose"}
      /\ cur' = [cur EXCEPT ![Checker] = Idle] /\ saved' = saved /\ open' = open /\ jf' = jf
      /\ max' = max /\ jlock' = jlock /\ ltrans' = ltrans
  BY DEF FsckCommitReturn, At, fileVars
<1>2. FsckInv'
  <2>1. cur'[Checker].pc = "idle"
    BY <1>1, JioAssumption, IdleFrame DEF IdInv, StateOK
  <2>2. fsck = [pc |-> fsck.pc, i |-> fsck.i, maxtid |-> fsck.maxtid]
    BY DEF IdInv, FsckInv
  <2>3. fsck' = FsckOff \/ fsck' = [fsck EXCEPT !.pc = "unlink"]
    BY DEF FsckCommitReturn
  <2>4. fsck' = [pc |-> fsck'.pc, i |-> fsck'.i, maxtid |-> fsck'.maxtid]
    BY <2>2, <2>3 DEF FsckOff
  <2> QED  BY <2>1, <2>4 DEF FsckInv
<1> QED  BY <1>1, <1>2, CallEnds, JioAssumption

\* A call begins with an empty frame, while the greatest id is right.
LEMMA CallBegins ==
  ASSUME OneThreadPerProcess, IdInv, FilesBelow, NEW th \in Threads,
         cur[th].pc = "idle", NEW kind, NEW pc, NEW t, NEW ops, NEW flags,
         cur' = [cur EXCEPT ![th] = Frame(kind, pc, t, ops, flags)],
         \/ kind \in {"commit", "redo"} /\ pc = "lock"
         \/ kind \in SyncKinds /\ pc = "fdatasync" /\ Intact(ProcOf[th]),
         "LINGER" \in flags => open'[ProcOf[th]],
         saved' = saved, jf' = jf, max' = max, jlock' = jlock, ltrans' = ltrans,
         open' = [p \in Procs |-> open'[p]],
         \A p \in Procs : p # ProcOf[th] => open'[p] = open[p],
         ClosedInv', FsckInv'
  PROVE  IdInv'
<1>1. StateOK /\ ThreadOK(th) /\ max \in 0 .. MaxTid
      /\ ltrans \in [Procs -> Seq(0 .. MaxTid)]
  BY DEF IdInv, StateOK
<1>2. cur[th] = Idle /\ saved[th] = Idle
  BY <1>1, IdleFrame DEF ThreadOK, CallOK
<1>3. /\ cur' = [u \in Threads |-> cur'[u]]
      /\ \A u \in Threads : u # th => cur'[u] = cur[u]
      /\ IsFrame(cur'[th]) /\ cur'[th].kind = kind /\ cur'[th].pc = pc
      /\ cur'[th].tid = 0 /\ cur'[th].flags = flags
  BY <1>1 DEF StateOK, Frame, IsFrame
<1>4. StepOf(th)
  <2>1. saved' = [u \in Threads |-> saved'[u]] /\ max' \in 0 .. MaxTid /\ FilesOf(th)
    BY <1>1, SameFiles DEF StateOK
  <2> QED  BY <1>1, <1>3, <2>1 DEF StepOf, FilesOf
<1>5. ThreadOK(th)'
  <2>1. FrameOK(th)'
    BY <1>2, <1>3, IdleFrame, JioAssumption DEF FrameOK, CallKinds, SyncKinds
  <2>2. CallOK(th)'
    BY <1>2, <1>3 DEF CallOK, SyncKinds
  <2>3. HasId(th)' /\ MaxRead(th)' /\ Gone(th)'
    BY <1>3 DEF HasId, WithId, MaxRead, Gone
  <2>4. SyncOK(th)'
    BY <1>3 DEF SyncOK, SyncPCs, SyncKinds, Removing, Intact
  <2>5. FlagsOK(th)'
    BY <1>2, <1>3, IdleFrame DEF FlagsOK
  <2> QED  BY <2>1, <2>2, <2>3, <2>4, <2>5 DEF ThreadOK
<1>6. OwnersShrink
  BY <1>3, TidsNat DEF OwnersShrink, CallOwns, SavedOwns, LingerOwns
<1>7. DistinctInv' /\ BelowInv'
  BY <1>1, <1>6, FewerOwners, JioAssumption
<1>8. FilesInv'
  BY <1>4, FilesStayBelow
<1> QED  BY <1>4, <1>5, <1>7, <1>8, StepHolds

LEMMA OpenFiles ==
  ASSUME IdInv, NEW th \in Threads, open[ProcOf[th]]
  PROVE  FilesBelow /\ th # Checker
<1>1. InUse(ProcOf[th]) /\ ProcOf[th] \in Procs
  BY JioAssumption DEF InUse
<1> QED  BY <1>1 DEF IdInv, FilesInv, ClosedInv

LEMMA CallHolds ==
  ASSUME OneThreadPerProcess, IdInv, NEW th \in Threads, Call(th)
  PROVE  IdInv'
<1> DEFINE P == ProcOf[th]
<1>1. fsck' = fsck
  BY DEF Call
<1>2. cur[th].pc = "idle" /\ open[P]
  BY DEF Call, jtrans_commit, jsync, jclose, At, ThreadsOf
<1>3. FilesBelow /\ th # Checker /\ P \in Procs
  BY <1>2, OpenFiles, JioAssumption
<1>4. StateOK
  BY DEF IdInv
<1>5. saved' = saved /\ jf' = jf /\ max' = max /\ jlock' = jlock /\ ltrans' = ltrans
  BY DEF Call, jtrans_commit, jsync, jclose, fileVars, procVars
<1>6. ASSUME NEW g, cur' = [cur EXCEPT ![th] = g] PROVE FsckInv'
  BY <1>1, <1>3, <1>4, <1>6, JioAssumption DEF IdInv, FsckInv, StateOK
<1>7. ASSUME open' = open, NEW g, cur' = [cur EXCEPT ![th] = g] PROVE ClosedInv'
  <2>1. StepOf(th)
    <3>1. /\ saved' = [u \in Threads |-> saved'[u]] /\ max' \in 0 .. MaxTid /\ FilesOf(th)
          /\ cur' = [u \in Threads |-> cur'[u]] /\ open' = [p \in Procs |-> open'[p]]
          /\ \A u \in Threads : u # th => cur'[u] = cur[u]
          /\ ltrans' \in [Procs -> Seq(0 .. MaxTid)]
      BY <1>4, <1>5, <1>7, SameFiles DEF StateOK
    <3> QED  BY <1>5, <1>7, <3>1 DEF StepOf, FilesOf
  <2> QED  BY <1>2, <1>7, <2>1, StepClosed
<1>8. CASE \E t \in Txns : jtrans_commit(th, t)
  <2>1. PICK t \in Txns : jtrans_commit(th, t)
    BY <1>8
  <2>2. cur' = [cur EXCEPT ![th] = Frame("commit", "lock", t, Ops[t], Flags[t])]
        /\ open' = open
    BY <2>1 DEF jtrans_commit, procVars
  <2>3. ClosedInv' /\ FsckInv'
    BY <1>6, <1>7, <2>2
  <2>4. open' = [p \in Procs |-> open'[p]]
    BY <1>4, <2>2 DEF StateOK
  <2> QED  BY <1>2, <1>3, <1>5, <2>2, <2>3, <2>4, CallBegins
<1>9. CASE jsync(th)
  <2>1. cur' = [cur EXCEPT ![th] = Frame("jsync", "fdatasync", NoTxn, <<>>, {})]
        /\ open' = open /\ Intact(P)
    BY <1>9 DEF jsync, SyncFrame
  <2>2. ClosedInv' /\ FsckInv'
    BY <1>6, <1>7, <2>1
  <2>3. open' = [p \in Procs |-> open'[p]]
    BY <1>4, <2>1 DEF StateOK
  <2> QED  BY <1>2, <1>3, <1>5, <2>1, <2>2, <2>3, CallBegins DEF SyncKinds
<1>10. CASE jclose(th)
  <2>1. cur' = [cur EXCEPT ![th] = Frame("jclose", "fdatasync", NoTxn, <<>>, {})]
        /\ open' = [open EXCEPT ![P] = FALSE] /\ Intact(P)
    BY <1>10 DEF jclose, SyncFrame
  <2>2. open' = [p \in Procs |-> open'[p]] /\ ~open'[P]
        /\ \A p \in Procs : p # P => open'[p] = open[p]
    BY <1>3, <1>4, <2>1 DEF StateOK
  <2>3. FsckInv'
    BY <1>6, <2>1
  <2>4. ClosedInv'
    <3>1. cur'[th].kind = "jclose"
          /\ \A u \in Threads : u # th => cur'[u] = cur[u]
      BY <1>4, <2>1 DEF StateOK, Frame
    <3>2. ProcOf[Checker] \in Procs /\ ProcOf[Checker] # P
      BY <1>3, JioAssumption DEF OneThreadPerProcess
    <3>3. open'[ProcOf[Checker]] = FALSE
      BY <2>2, <3>2 DEF IdInv, ClosedInv
    <3>4. ASSUME NEW p \in Procs, ~open'[p], ltrans'[p] # <<>>
          PROVE  \E u \in ThreadsOf(p) : cur'[u].kind = "jclose"
      <4>1. CASE p = P
        BY <3>1, <4>1 DEF ThreadsOf
      <4>2. CASE p # P
        <5>1. PICK u \in Threads : ProcOf[u] = p /\ cur[u].kind = "jclose"
          BY <1>5, <2>2, <3>4, <4>2 DEF IdInv, ClosedInv, ThreadsOf
        <5> QED  BY <3>1, <4>2, <5>1 DEF ThreadsOf
      <4> QED  BY <4>1, <4>2
    <3> QED  BY <3>3, <3>4 DEF ClosedInv, ThreadsOf
  <2> DEFINE kind == "jclose"
             pc == "fdatasync"
             ops == <<>>
             flags == {}
  <2>5. /\ cur' = [cur EXCEPT ![th] = Frame(kind, pc, NoTxn, ops, flags)]
        /\ kind \in SyncKinds /\ pc = "fdatasync" /\ Intact(ProcOf[th])
        /\ "LINGER" \in flags => open'[ProcOf[th]]
    BY <2>1 DEF SyncKinds
  <2> HIDE DEF kind, pc, ops, flags
  <2> QED  BY <1>2, <1>3, <1>5, <2>2, <2>3, <2>4, <2>5, CallBegins
<1> QED  BY <1>8, <1>9, <1>10 DEF Call

-----------------------------------------------------------------------------
(* jopen, jfsck and failures.                                              *)

\* A step that no call takes, and that at most opens the file or removes
\* transaction files.
LEMMA QuietStep ==
  ASSUME IdInv, UNCHANGED <<cur, saved, ltrans, max, jlock>>,
         jf' = [i \in Tids |-> jf'[i]],
         \A i \in Tids : Complete(jf'[i]) => Complete(jf[i]),
         open' = [p \in Procs |-> open'[p]],
         \A p \in Procs : open[p] => open'[p],
         open'[ProcOf[Checker]] = FALSE, FsckInv', FilesInv'
  PROVE  IdInv'
<1>1. StateOK'
  BY DEF IdInv, StateOK
<1>2. ASSUME NEW u \in Threads PROVE ThreadOK(u)'
  <2>1. ThreadOK(u) /\ StateOK /\ ProcOf[u] \in Procs
    BY JioAssumption DEF IdInv
  <2>2. cur[u].pc \in WithId /\ Complete(jf'[cur[u].tid]) => Complete(jf[cur[u].tid])
    BY <2>1 DEF ThreadOK, HasId
  <2> QED  BY <2>1, <2>2, OtherThread
<1>3. ClosedInv'
  BY DEF IdInv, ClosedInv, ThreadsOf
<1>4. OwnersShrink
  BY DEF OwnersShrink, CallOwns, SavedOwns, LingerOwns
<1>5. DistinctInv' /\ BelowInv'
  <2>1. max \in Nat /\ max' = max
    BY JioAssumption DEF IdInv, StateOK
  <2> QED  BY <1>4, <2>1, FewerOwners
<1> QED  BY <1>1, <1>2, <1>3, <1>5 DEF IdInv

LEMMA FilesShrink ==
  ASSUME FilesBelow, max' = max, \A i \in Tids : Complete(jf'[i]) => Complete(jf[i])
  PROVE  FilesInv'
<1>1. ASSUME NEW i \in Tids, i <= MaxInt, Complete(jf'[i]) PROVE i <= max'
  BY <1>1 DEF FilesBelow, Seen
<1>2. FilesBelow'
  BY <1>1 DEF FilesBelow, Complete, Seen
<1> QED  BY <1>2 DEF FilesInv

LEMMA StutterHolds ==
  ASSUME IdInv, UNCHANGED vars
  PROVE  IdInv'
<1>1. UNCHANGED <<cur, saved, ltrans, max, jlock, jf, open, fsck, dirty>>
  BY DEF vars, fileVars, procVars
<1>2. FsckInv'
  BY <1>1 DEF IdInv, FsckInv
<1>3. FilesInv'
  BY <1>1 DEF IdInv, FilesInv, FilesBelow, Complete, InUse, ThreadsOf, At, Seen
<1>4. StateOK /\ ClosedInv
  BY DEF IdInv
<1>5. jf' = [i \in Tids |-> jf'[i]] /\ open' = [p \in Procs |-> open'[p]]
      /\ open'[ProcOf[Checker]] = FALSE
  BY <1>1, <1>4 DEF StateOK, ClosedInv
<1> QED  BY <1>1, <1>2, <1>3, <1>5, QuietStep DEF Complete

LEMMA OpenHolds ==
  ASSUME OneThreadPerProcess, IdInv, NEW p \in Procs \ {ProcOf[Checker]}, Open(p)
  PROVE  IdInv'
<1>1. UNCHANGED <<cur, saved, ltrans, max, jlock, jf, fsck, dirty>>
      /\ open' = [open EXCEPT ![p] = TRUE] /\ ~dirty
  BY DEF Open, jopen, fileVars
<1>2. StateOK /\ ClosedInv /\ FilesBelow
  BY <1>1 DEF IdInv, FilesInv
<1>3. /\ open' = [q \in Procs |-> open'[q]] /\ open'[ProcOf[Checker]] = FALSE
      /\ \A q \in Procs : open[q] => open'[q]
  BY <1>1, <1>2, JioAssumption DEF StateOK, ClosedInv
<1>4. FsckInv'
  BY <1>1 DEF IdInv, FsckInv
<1>5. jf' = [i \in Tids |-> jf'[i]] /\ \A i \in Tids : Complete(jf'[i]) => Complete(jf[i])
  BY <1>1, <1>2 DEF StateOK, Complete
<1>6. FilesInv'
  BY <1>1, <1>2, <1>5, FilesShrink
<1>7. UNCHANGED <<cur, saved, ltrans, max, jlock>>
  BY <1>1
<1> QED  BY <1>3, <1>4, <1>5, <1>6, <1>7, QuietStep

\* jfsck skips a file, removes one, or is done.
LEMMA FsckStepHolds ==
  ASSUME OneThreadPerProcess, IdInv, FsckSkip \/ FsckUnlink \/ FsckDone
  PROVE  IdInv'
<1>1. UNCHANGED <<cur, saved, ltrans, max, jlock, open>> /\ fsck.pc \in {"scan", "unlink"}
  BY DEF FsckSkip, FsckUnlink, FsckDone, fileVars, procVars, tidVars, memVars
<1>2. StateOK /\ ClosedInv
  BY DEF IdInv
<1>3. FilesBelow
  BY <1>1 DEF IdInv, FilesInv
<1>4. jf' = jf \/ jf' = [jf EXCEPT ![fsck.i] = NoFile]
  BY DEF FsckSkip, FsckUnlink, FsckDone, fileVars, dirVars, unlink
<1>5. jf' = [i \in Tids |-> jf'[i]] /\ \A i \in Tids : Complete(jf'[i]) => Complete(jf[i])
  BY <1>2, <1>4 DEF StateOK, Complete
<1>6. FsckInv'
  <2>1. cur'[Checker].pc = "idle"
    BY <1>1 DEF IdInv, FsckInv
  <2>2. fsck = [pc |-> fsck.pc, i |-> fsck.i, maxtid |-> fsck.maxtid]
    BY DEF IdInv, FsckInv
  <2>3. fsck' = [fsck EXCEPT !.pc = "scan", !.i = fsck.i + 1] \/ fsck' = FsckOff
    BY <2>2 DEF FsckSkip, FsckUnlink, FsckDone, NextFile
  <2>4. fsck' = [pc |-> fsck'.pc, i |-> fsck'.i, maxtid |-> fsck'.maxtid]
    BY <2>2, <2>3 DEF FsckOff
  <2> QED  BY <2>1, <2>4 DEF FsckInv
<1>7. open' = [q \in Procs |-> open'[q]] /\ open'[ProcOf[Checker]] = FALSE
  BY <1>1, <1>2 DEF StateOK, ClosedInv
<1> QED  BY <1>1, <1>3, <1>5, <1>6, <1>7, FilesShrink, QuietStep

LEMMA FsckCommitHolds ==
  ASSUME OneThreadPerProcess, IdInv, FsckCommit
  PROVE  IdInv'
<1>1. /\ UNCHANGED <<saved, ltrans, max, jlock, jf, open>> /\ fsck.pc = "scan"
      /\ fsck' = [fsck EXCEPT !.pc = "commit"]
      /\ cur' = [cur EXCEPT ![Checker] = Frame("redo", "lock", NoTxn, jf[fsck.i], {})]
  BY DEF FsckCommit, fileVars, procVars
<1>2. StateOK /\ ClosedInv /\ FilesBelow /\ Checker \in Threads /\ ThreadOK(Checker)
  BY <1>1, JioAssumption DEF IdInv, FilesInv
<1>3. cur[Checker].pc = "idle" /\ cur[Checker] = Idle
  BY <1>1, <1>2 DEF IdInv, FsckInv, ThreadOK, CallOK
<1>4. FsckInv'
  BY <1>1 DEF IdInv, FsckInv
<1>5. open' = [p \in Procs |-> open'[p]]
  BY <1>1, <1>2 DEF StateOK
<1>6. ClosedInv'
  <2>1. \A u \in Threads : u # Checker => cur'[u] = cur[u]
    BY <1>1, <1>2 DEF StateOK
  <2>2. cur[Checker].kind # "jclose"
    BY <1>3, IdleFrame
  <2>3. ASSUME NEW p \in Procs, ~open'[p], ltrans'[p] # <<>>
        PROVE  \E u \in ThreadsOf(p) : cur'[u].kind = "jclose"
    <3>1. PICK u \in Threads : ProcOf[u] = p /\ cur[u].kind = "jclose"
      BY <1>1, <1>2, <2>3 DEF ClosedInv, ThreadsOf
    <3> QED  BY <2>1, <2>2, <3>1 DEF ThreadsOf
  <2> QED  BY <1>1, <1>2, <2>3 DEF ClosedInv, ThreadsOf
<1> DEFINE kind == "redo"
           pc == "lock"
           ops == jf[fsck.i]
           flags == {}
<1>7. /\ cur' = [cur EXCEPT ![Checker] = Frame(kind, pc, NoTxn, ops, flags)]
      /\ kind \in {"commit", "redo"} /\ pc = "lock"
      /\ "LINGER" \in flags => open'[ProcOf[Checker]]
  BY <1>1
<1> HIDE DEF kind, pc, ops, flags
<1>8. /\ saved' = saved /\ ltrans' = ltrans /\ max' = max /\ jlock' = jlock /\ jf' = jf
      /\ \A p \in Procs : p # ProcOf[Checker] => open'[p] = open[p]
  BY <1>1
<1>9. FilesBelow /\ Checker \in Threads /\ cur[Checker].pc = "idle"
  BY <1>2, <1>3
<1> QED  BY <1>4, <1>5, <1>6, <1>7, <1>8, <1>9, CallBegins

\* Nobody uses the file.
Fresh ==
  /\ cur = [th \in Threads |-> Idle] /\ saved = [th \in Threads |-> Idle]
  /\ jf = [i \in Tids |-> jf[i]]
  /\ max \in 0 .. MaxTid
  /\ open = [p \in Procs |-> open[p]] /\ open[ProcOf[Checker]] = FALSE
  /\ ltrans = [p \in Procs |-> <<>>]
  /\ FsckInv /\ FilesInv

LEMMA FreshHolds == Fresh => IdInv
<1> SUFFICES ASSUME Fresh PROVE IdInv
  OBVIOUS
<1>1. \A th \in Threads : cur[th] = Idle /\ saved[th] = Idle
  BY DEF Fresh
<1>2. \A p \in Procs : ltrans[p] = <<>>
  BY DEF Fresh
<1>3. StateOK
  <2>1. <<>> \in Seq(0 .. MaxTid)
    OBVIOUS
  <2> QED  BY <2>1 DEF Fresh, StateOK
<1>4. ASSUME NEW th \in Threads PROVE ThreadOK(th)
  <2>1. cur[th] = Idle /\ saved[th] = Idle /\ 0 \in 0 .. MaxTid
    BY <1>1, JioAssumption
  <2>2. FrameOK(th)
    BY <2>1, IdleFrame DEF FrameOK
  <2>3. CallOK(th)
    BY <2>1, IdleFrame DEF CallOK
  <2>4. HasId(th) /\ MaxRead(th) /\ Gone(th)
    BY <2>1, IdleFrame DEF HasId, WithId, MaxRead, Gone
  <2>5. SyncOK(th) /\ FlagsOK(th)
    BY <2>1, IdleFrame DEF SyncOK, SyncPCs, SyncKinds, FlagsOK
  <2> QED  BY <2>2, <2>3, <2>4, <2>5 DEF ThreadOK
<1>5. ClosedInv
  BY <1>2 DEF Fresh, ClosedInv
<1>6. ASSUME NEW i \in Tids
      PROVE  /\ \A th \in Threads : ~CallOwns(th, i) /\ ~SavedOwns(th, i)
             /\ \A p \in Procs, k \in Nat : ~LingerOwns(p, k, i)
  BY <1>1, <1>2, IdleFrame, TidsNat DEF CallOwns, SavedOwns, LingerOwns
<1>7. DistinctInv /\ BelowInv
  BY <1>6 DEF DistinctInv, BelowInv
<1> QED  BY <1>3, <1>4, <1>5, <1>7 DEF IdInv, Fresh

LEMMA FreshNext == Fresh' => IdInv'
  BY FreshHolds, PTL

LEMMA InitHolds == Init => IdInv
<1> SUFFICES ASSUME Init PROVE Fresh
  BY FreshHolds
<1>1. /\ cur = [th \in Threads |-> Idle] /\ saved = [th \in Threads |-> Idle]
      /\ jf = [i \in Tids |-> NoFile] /\ max = 0
      /\ open = [p \in Procs |-> FALSE] /\ ltrans = [p \in Procs |-> <<>>]
      /\ fsck = FsckOff
  BY DEF Init, TransInit, FileInit
<1>2. max \in 0 .. MaxTid
  BY <1>1, JioAssumption
<1>3. FsckInv
  BY <1>1 DEF FsckInv, FsckOff
<1>4. FilesInv
  BY <1>1 DEF FilesInv, FilesBelow, Complete, Seen
<1> QED  BY <1>1, <1>2, <1>3, <1>4, JioAssumption DEF Fresh

\* After a power failure nobody uses the file until jfsck has run.
LEMMA PowerFailHolds ==
  ASSUME PowerFail
  PROVE  IdInv'
<1>1. /\ cur' = [th \in Threads |-> Idle] /\ saved' = [th \in Threads |-> Idle]
      /\ max' = 0 /\ dirty' = TRUE
      /\ open' = [p \in Procs |-> FALSE] /\ ltrans' = [p \in Procs |-> <<>>]
      /\ fsck' = FsckOff
  BY DEF PowerFail
<1>2. max' \in 0 .. MaxTid
  BY <1>1, JioAssumption
<1>3. jf' = [i \in Tids |-> jf'[i]]
  BY DEF PowerFail
<1>4. FsckInv'
  BY <1>1 DEF FsckInv, FsckOff
<1>5. FilesInv'
  BY <1>1, IdleFrame DEF FilesInv, FsckOff, InUse, ThreadsOf, At
<1>6. /\ open' = [p \in Procs |-> open'[p]] /\ open'[ProcOf[Checker]] = FALSE
  BY <1>1, JioAssumption
<1> QED  BY <1>1, <1>2, <1>3, <1>4, <1>5, <1>6, FreshNext DEF Fresh

\* jfsck finds the greatest id that has a file and is an int.
LEMMA GreatestTidIs ==
  /\ GreatestTid \in 0 .. MaxTid
  /\ \A i \in Tids : i <= MaxInt /\ jf[i] # NoFile => i <= GreatestTid
<1> DEFINE found == {i \in Tids : i <= MaxInt /\ jf[i] # NoFile}
           down == {n \in 0 .. MaxTid : MaxTid - n \in found \cup {0}}
<1>1. found \cup {0} \subseteq 0 .. MaxTid /\ MaxTid \in Nat
  <2>1. found \subseteq Tids /\ MaxTid \in Nat /\ 0 \in 0 .. MaxTid
    BY JioAssumption
  <2> QED  BY <2>1, TidsNat
<1>2. MaxTid \in down /\ down \subseteq Nat
  BY <1>1
<1>3. PICK n \in down : \A k \in down : ~ (k < n)
  <2>1. PICK n \in down : \A k \in down : ~ (<<k, n>> \in OpToRel(<, Nat))
    <3> HIDE DEF down
    <3> QED  BY <1>2, WFMin, NatLessThanWellFounded
  <2> QED  BY <1>2, <2>1 DEF OpToRel
<1>4. MaxTid - n \in found \cup {0} /\ \A i \in found : i <= MaxTid - n
  <2>1. ASSUME NEW i \in found PROVE i <= MaxTid - n
    <3>1. i \in 0 .. MaxTid /\ MaxTid - i \in 0 .. MaxTid /\ MaxTid - (MaxTid - i) = i
      BY <1>1
    <3>2. MaxTid - i \in down
      BY <3>1
    <3> QED  BY <1>1, <1>3, <3>1, <3>2
  <2> QED  BY <2>1
<1>5. \E m \in found \cup {0} : \A i \in found : i <= m
  BY <1>4
<1>6. GreatestTid = CHOOSE m \in found \cup {0} : \A i \in found : i <= m
  BY DEF GreatestTid
<1> HIDE DEF found
<1>7. GreatestTid \in found \cup {0} /\ \A i \in found : i <= GreatestTid
  BY <1>5, <1>6
<1> QED  BY <1>1, <1>7 DEF found

\* Nobody uses the file when jfsck starts, and it rewrites the lock file.
LEMMA FsckStartHolds ==
  ASSUME IdInv, FsckStart
  PROVE  IdInv'
<1>1. /\ UNCHANGED <<cur, saved, ltrans, open, jf>> /\ max' = GreatestTid
      /\ fsck' = [pc |-> "scan", i |-> 1, maxtid |-> GreatestTid]
      /\ \A p \in Procs : ~InUse(p)
  BY DEF FsckStart, RewriteLockFile, dirVars, memVars
<1>2. StateOK /\ ClosedInv /\ \A th \in Threads : ThreadOK(th)
  BY DEF IdInv
<1>3. ASSUME NEW th \in Threads PROVE cur[th] = Idle /\ saved[th] = Idle
  <2>1. cur[th].pc = "idle"
    BY <1>1, JioAssumption DEF InUse, ThreadsOf, At
  <2> QED  BY <1>2, <2>1, IdleFrame DEF ThreadOK, CallOK
<1>4. ASSUME NEW p \in Procs PROVE ltrans[p] = <<>>
  <2>1. ~open[p]
    BY <1>1 DEF InUse
  <2>2. \A th \in ThreadsOf(p) : cur[th].kind # "jclose"
    BY <1>3, IdleFrame DEF ThreadsOf
  <2> QED  BY <1>2, <2>1, <2>2 DEF ClosedInv
<1>5. /\ cur' = [th \in Threads |-> Idle] /\ saved' = [th \in Threads |-> Idle]
      /\ ltrans' = [p \in Procs |-> <<>>]
  <2>1. cur = [th \in Threads |-> cur[th]] /\ saved = [th \in Threads |-> saved[th]]
        /\ ltrans = [p \in Procs |-> ltrans[p]]
    BY <1>2 DEF StateOK
  <2> QED  BY <1>1, <1>3, <1>4, <2>1
<1>6. jf' = [i \in Tids |-> jf'[i]] /\ open' = [p \in Procs |-> open'[p]]
      /\ open'[ProcOf[Checker]] = FALSE
  BY <1>1, <1>2 DEF StateOK, ClosedInv
<1>7. max' \in 0 .. MaxTid
  BY <1>1, GreatestTidIs
<1>8. FsckInv'
  BY <1>1, <1>5, IdleFrame, JioAssumption DEF FsckInv
<1>9. FilesInv'
  <2>1. ASSUME NEW i \in Tids, i <= MaxInt, Complete(jf'[i]) PROVE i <= max'
    BY <1>1, <2>1, GreatestTidIs DEF Complete
  <2>2. FilesBelow'
    BY <2>1 DEF FilesBelow, Complete, Seen
  <2> QED  BY <2>2 DEF FilesInv
<1> QED  BY <1>5, <1>6, <1>7, <1>8, <1>9, FreshNext DEF Fresh

\* A process that is killed gives up all it had; the files stay below max.
LEMMA KillHolds ==
  ASSUME IdInv, NEW p \in Procs, Kill(p)
  PROVE  IdInv'
<1>1. /\ open' = [open EXCEPT ![p] = FALSE] /\ ltrans' = [ltrans EXCEPT ![p] = <<>>]
      /\ cur' = [th \in Threads |-> IF ProcOf[th] = p THEN Idle ELSE cur[th]]
      /\ saved' = [th \in Threads |-> IF ProcOf[th] = p THEN Idle ELSE saved[th]]
      /\ jlock' = (IF jlock = p THEN NoProc ELSE jlock)
      /\ fsck' = (IF ProcOf[Checker] = p THEN FsckOff ELSE fsck)
      /\ jf' = jf /\ max' = max /\ InUse(p)
  BY DEF Kill, dirVars
<1>2. StateOK /\ ClosedInv /\ FsckInv /\ \A th \in Threads : ThreadOK(th)
  BY DEF IdInv
<1>3. max \in 0 .. MaxTid /\ ltrans \in [Procs -> Seq(0 .. MaxTid)]
      /\ open = [q \in Procs |-> open[q]] /\ jf = [i \in Tids |-> jf[i]]
  BY <1>2 DEF StateOK
<1>4. /\ open' = [q \in Procs |-> open'[q]] /\ ~open'[p] /\ ltrans'[p] = <<>>
      /\ \A q \in Procs : q # p => open'[q] = open[q] /\ ltrans'[q] = ltrans[q]
      /\ ltrans' \in [Procs -> Seq(0 .. MaxTid)]
  <2>1. <<>> \in Seq(0 .. MaxTid)
    OBVIOUS
  <2> QED  BY <1>1, <1>3, <2>1
<1>5. \A u \in Threads :
        IF ProcOf[u] = p THEN cur'[u] = Idle /\ saved'[u] = Idle
        ELSE cur'[u] = cur[u] /\ saved'[u] = saved[u]
  BY <1>1
<1>6. StateOK'
  <2>1. cur' = [u \in Threads |-> cur'[u]] /\ saved' = [u \in Threads |-> saved'[u]]
    BY <1>1
  <2> QED  BY <1>1, <1>3, <1>4, <2>1 DEF StateOK
<1>7. ASSUME NEW u \in Threads PROVE ThreadOK(u)'
  <2>1. CASE ProcOf[u] = p
    BY <1>5, <2>1, IdleThread
  <2>2. CASE ProcOf[u] # p
    <3>1. ProcOf[u] \in Procs
      BY JioAssumption
    <3>2. cur'[u] = cur[u] /\ saved'[u] = saved[u]
      BY <1>5, <2>2
    <3>3. ltrans'[ProcOf[u]] = ltrans[ProcOf[u]] /\ open'[ProcOf[u]] = open[ProcOf[u]]
      BY <1>4, <2>2, <3>1
    <3>4. jlock = ProcOf[u] => jlock' = jlock /\ max' = max
      BY <1>1, <2>2
    <3>5. Complete(jf'[cur[u].tid]) => Complete(jf[cur[u].tid])
      BY <1>1
    <3> QED  BY <1>2, <3>2, <3>3, <3>4, <3>5, OtherThread
  <2> QED  BY <2>1, <2>2
<1>8. ClosedInv'
  <2>1. open'[ProcOf[Checker]] = FALSE
    <3>1. ProcOf[Checker] \in Procs
      BY JioAssumption
    <3> QED  BY <1>1, <1>2, <1>3, <3>1 DEF ClosedInv
  <2>2. ASSUME NEW q \in Procs, ~open'[q], ltrans'[q] # <<>>
        PROVE  \E u \in ThreadsOf(q) : cur'[u].kind = "jclose"
    <3>1. q # p /\ ~open[q] /\ ltrans[q] # <<>>
      BY <1>4, <2>2
    <3>2. PICK u \in Threads : ProcOf[u] = q /\ cur[u].kind = "jclose"
      BY <1>2, <3>1 DEF ClosedInv, ThreadsOf
    <3> QED  BY <1>5, <3>1, <3>2 DEF ThreadsOf
  <2> QED  BY <2>1, <2>2 DEF ClosedInv, ThreadsOf
<1>9. FsckInv'
  <2>1. CASE ProcOf[Checker] = p
    BY <1>1, <2>1 DEF FsckInv, FsckOff
  <2>2. CASE ProcOf[Checker] # p
    BY <1>1, <1>2, <1>5, <2>2, JioAssumption DEF FsckInv
  <2> QED  BY <2>1, <2>2
<1>10. OwnersShrink
  <2>1. ASSUME NEW u \in Threads, NEW j \in Tids
        PROVE  (CallOwns(u, j)' => CallOwns(u, j)) /\ (SavedOwns(u, j)' => SavedOwns(u, j))
    <3>1. CASE ProcOf[u] = p
      BY <1>5, <3>1, IdleThread
    <3>2. CASE ProcOf[u] # p
      BY <1>5, <3>2 DEF CallOwns, SavedOwns
    <3> QED  BY <3>1, <3>2
  <2>2. ASSUME NEW q \in Procs, NEW k \in Nat, NEW j \in Tids, LingerOwns(q, k, j)'
        PROVE  LingerOwns(q, k, j)
    <3>1. ltrans'[q] # <<>>
      BY <2>2 DEF LingerOwns
    <3> QED  BY <1>4, <2>2, <3>1 DEF LingerOwns
  <2> QED  BY <2>1, <2>2 DEF OwnersShrink
<1>11. DistinctInv' /\ BelowInv'
  BY <1>1, <1>3, <1>10, FewerOwners, JioAssumption
<1>12. FilesInv'
  <2>1. FilesBelow
    BY <1>1 DEF IdInv, FilesInv
  <2> QED  BY <1>1, <2>1, FilesShrink
<1> QED  BY <1>6, <1>7, <1>8, <1>9, <1>11, <1>12 DEF IdInv

-----------------------------------------------------------------------------
(* The theorems.                                                           *)

LEMMA CommitHolds ==
  ASSUME OneThreadPerProcess, IdInv, NEW th \in Threads, Commit(th), fsck' = fsck
  PROVE  IdInv'
<1>1. CASE \/ LockRange(th) \/ LockDeadlock(th) \/ journal_new_broken(th)
           \/ get_tid_read(th) \/ free_tid_read(th)
           \/ FillFile(th) \/ OpenFails(th) \/ HeaderFails(th) \/ FillFails(th)
           \/ CommitFile(th) \/ SyncFile(th) \/ SyncFileFails(th)
           \/ ReadOp(th) \/ WriteOp(th) \/ SyncData(th) \/ NothingToSync(th)
           \/ UnlinkFile(th) \/ SyncDir(th)
  <2>1. Plain(th)
    BY <1>1, LockRangePlain, FailurePlain, TidReadPlain, FillPlain, ApplyPlain,
       NothingToSyncPlain, RemovePlain
  <2> QED  BY <2>1, PlainStep
<1>2. CASE get_tid_write(th)
  BY <1>2, GetTid
<1>3. CASE free_tid_write(th)
  BY <1>3, FreeTid
<1>4. CASE OpFails(th) \/ SyncDataFails(th)
  BY <1>4, RollbackPlain, PlainStep, BeginUndo
<1>5. CASE Linger(th)
  BY <1>5, LingerHolds
<1>6. CASE MarkBroken(th)
  BY <1>6, MarkBrokenPlain, PlainStep, DanglingHolds
<1>7. CASE CommitReturn(th)
  BY <1>7, ReturnsHold
<1>8. CASE UndoReturn(th)
  BY <1>8, EndUndo
<1> QED  BY <1>1, <1>2, <1>3, <1>4, <1>5, <1>6, <1>7, <1>8 DEF Commit

LEMMA SyncHolds ==
  ASSUME OneThreadPerProcess, IdInv, NEW th \in Threads, Sync(th), fsck' = fsck
  PROVE  IdInv'
<1>1. CASE SyncAll(th) \/ TakeLtlock(th) \/ SyncAllFails(th)
  BY <1>1, JsyncPlain, FailurePlain, PlainStep
<1>2. CASE NextLinger(th)
  BY <1>2, NextLingerHolds
<1>3. CASE jsyncReturn(th) \/ jcloseReturn(th)
  BY <1>3, ReturnsHold
<1> QED  BY <1>1, <1>2, <1>3 DEF Sync

LEMMA IdInvHolds == ASSUME OneThreadPerProcess PROVE Spec => []IdInv
<1>1. IdInv /\ [Next]_vars => IdInv'
  <2> SUFFICES ASSUME IdInv, [Next]_vars PROVE IdInv'
    OBVIOUS
  <2>1. CASE UNCHANGED vars
    BY <2>1, StutterHolds
  <2>2. ASSUME NEW th \in Threads, Step(th) PROVE IdInv'
    BY <2>2, CommitHolds, SyncHolds DEF Step
  <2>3. ASSUME NEW th \in Threads, Call(th) PROVE IdInv'
    BY <2>3, CallHolds
  <2>4. ASSUME NEW p \in Procs \ {ProcOf[Checker]}, Open(p) PROVE IdInv'
    BY <2>4, OpenHolds
  <2>5. CASE Fsck
    BY <2>5, FsckStartHolds, FsckStepHolds, FsckCommitHolds, FsckCommitReturnHolds DEF Fsck
  <2>6. CASE PowerFail
    BY <2>6, PowerFailHolds
  <2>7. ASSUME NEW p \in Procs, Kill(p) PROVE IdInv'
    BY <2>7, KillHolds
  <2> QED  BY <2>1, <2>2, <2>3, <2>4, <2>5, <2>6, <2>7 DEF Next
<1> QED  BY <1>1, InitHolds, PTL DEF Spec

\* Whatever fails, and whoever is killed, no id belongs to two transactions:
\* get_tid never returns one that a call, a commit interrupted by its rollback
\* or a lingering transaction still has, for any number of processes of one
\* thread each.
THEOREM IdsUnique == ASSUME OneThreadPerProcess PROVE Spec => []TidsUnique
<1>1. IdInv => TidsUnique
  <2> SUFFICES ASSUME IdInv, NEW i \in Tids PROVE Cardinality(Owners(i)) <= 1
    BY DEF TidsUnique
  <2>1. ASSUME NEW x \in Owners(i)
        PROVE  \/ \E th \in Threads : x = <<"call", th>> /\ CallOwns(th, i)
               \/ \E th \in Threads : x = <<"saved", th>> /\ SavedOwns(th, i)
               \/ \E p \in Procs, k \in Nat : x = <<p, k>> /\ LingerOwns(p, k, i)
    <3>1. CASE \E th \in Threads : x = <<"call", th>> /\ CallOwns(th, i)
      BY <3>1
    <3>2. CASE \E th \in Threads : x = <<"saved", th>> /\ SavedOwns(th, i)
      BY <3>2
    <3>3. ASSUME NEW p \in Procs, NEW k \in DOMAIN ltrans[p], ltrans[p][k] = i, x = <<p, k>>
          PROVE  \E q \in Procs, l \in Nat : x = <<q, l>> /\ LingerOwns(q, l, i)
      <4>1. ltrans[p] \in Seq(0 .. MaxTid)
        BY DEF IdInv, StateOK
      <4>2. k \in Nat
        BY <4>1
      <4> QED  BY <3>3, <4>2 DEF LingerOwns
    <3> QED  BY <2>1, <3>1, <3>2, <3>3 DEF Owners, CallOwns, SavedOwns, CallKinds
  <2>2. ASSUME NEW x \in Owners(i), NEW y \in Owners(i) PROVE x = y
    BY <2>1, <2>2 DEF IdInv, DistinctInv
  <2>3. CASE Owners(i) = {}
    BY <2>3, FS_EmptySet
  <2>4. CASE Owners(i) # {}
    <3>1. PICK x \in Owners(i) : TRUE
      BY <2>4
    <3>2. Owners(i) = {x}
      BY <2>2, <3>1
    <3>3. Cardinality({x}) = 1
      BY FS_Singleton
    <3> QED  BY <3>2, <3>3
  <2> QED  BY <2>3, <2>4
<1> QED  BY <1>1, IdInvHolds, PTL

\* No commit whose id is an int truncates a complete transaction file when it
\* creates its own: the greatest id in the lock file stays above every file,
\* of those that jfsck can see, that failures and calls of jsync that could
\* not remove it leave behind.  Of greater ids it does not hold: jfsck passes
\* over their files and may write a smaller id into the lock file.
THEOREM FilesKept == ASSUME OneThreadPerProcess PROVE Spec => []JournalKept
<1>1. IdInv => JournalKept
  BY DEF IdInv, ThreadOK, Gone, JournalKept, At, Seen
<1> QED  BY <1>1, IdInvHolds, PTL

=============================================================================
