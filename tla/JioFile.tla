------------------------------ MODULE JioFile ------------------------------
(***************************************************************************)
(* What libjio (Alien-Libjio) keeps in the file system: the data file, and *)
(* the journal directory with one transaction file per transaction and the *)
(* lock file that holds the greatest transaction id.                       *)
(*                                                                         *)
(* A call of the kernel changes the page cache at once.  The disk follows  *)
(* at some time before the next sync: for every cell and every transaction *)
(* file the model keeps the set of contents that a power failure may       *)
(* leave (doc/assumptions: what was being written may be garbage, nothing  *)
(* else is touched, and a sync returns when the data is on the disk).      *)
(***************************************************************************)
EXTENDS Integers, FiniteSets, Sequences

CONSTANTS
  NCells,   \* length of the data file; operations stay within it
  MaxTid,   \* the greatest unsigned int: transaction ids are unsigned
  MaxInt,   \* the greatest int: jfsck reads the names of files as ints
  Zero,     \* what the data file contains at first
  Garbage,  \* what an interrupted write may leave in a cell
  NoFile,   \* a transaction file that does not exist
  Partial   \* one that fill_trans rejects: empty, incomplete or corrupt

\* A file that recovery rejects is still a file.
ASSUME FileAssumption == NoFile # Partial

VARIABLES
  cache,    \* the data file, as read() sees it
  stable,   \* for each cell, what a power failure may leave in it
  jf,       \* the transaction files: NoFile, Partial or their operations
  jstable,  \* for each id, what a power failure may leave of its file
  max,      \* the integer in the lock file, mapped by every process
  jlock,    \* the process that holds the fcntl lock on the lock file
  broken    \* the file "broken" exists

dataVars == <<cache, stable>>
dirVars == <<jf, jstable>>
tidVars == <<max, jlock>>

Cells == 0 .. NCells - 1
Tids == 1 .. MaxTid

NoProc == "none"

Complete(content) == content \notin {NoFile, Partial}

\* An operation is a direction, an offset and a buffer.
CellsOf(op) == op.off .. op.off + Len(op.buf) - 1

Covers(ops, c) == \E k \in DOMAIN ops : c \in CellsOf(ops[k])

\* Operations are applied in order: the last one that covers a cell prevails.
ValueIn(ops, c) ==
  LET last == CHOOSE k \in DOMAIN ops :
                /\ c \in CellsOf(ops[k])
                /\ \A j \in k + 1 .. Len(ops) : c \notin CellsOf(ops[j])
  IN  ops[last].buf[c - ops[last].off + 1]

AppliedOps(ops, f) == [c \in Cells |-> IF Covers(ops, c) THEN ValueIn(ops, c) ELSE f[c]]

FileInit ==
  /\ cache = [c \in Cells |-> Zero]
  /\ stable = [c \in Cells |-> {Zero}]
  /\ jf = [i \in Tids |-> NoFile]
  /\ jstable = [i \in Tids |-> {NoFile}]
  /\ max = 0
  /\ jlock = NoProc
  /\ broken = FALSE

-----------------------------------------------------------------------------
(* The data file.                                                          *)

\* jfsck opens the data file with O_SYNC, jopen does not.
pwrite(op, osync) ==
  /\ cache' = AppliedOps(<<op>>, cache)
  /\ stable' = [c \in Cells |->
       IF c \notin CellsOf(op) THEN stable[c]
       ELSE IF osync THEN {cache'[c]} ELSE stable[c] \cup {cache'[c], Garbage}]

fdatasync ==
  /\ stable' = [c \in Cells |-> {cache[c]}]
  /\ UNCHANGED cache

\* sync_file_range: a length of 0 means up to the end of the file.  A cell
\* that another process writes between the submission and the wait counts as
\* synced too.
sync_file_range(ranges) ==
  /\ stable' = [c \in Cells |->
       IF \E r \in ranges : c >= r.offset /\ (r.nbytes = 0 \/ c < r.offset + r.nbytes)
       THEN {cache[c]} ELSE stable[c]]
  /\ UNCHANGED cache

-----------------------------------------------------------------------------
(* The journal directory.                                                  *)

\* open(O_CREAT | O_TRUNC), the header and the operations: until its trailer
\* is there the file is of no use.
CreateFile(i) ==
  /\ jf' = [jf EXCEPT ![i] = Partial]
  /\ jstable' = [jstable EXCEPT ![i] = @ \cup {Partial}]

\* The file is created, and removed again when its header cannot be written.
CreateAndUnlink(i) ==
  /\ jf' = [jf EXCEPT ![i] = NoFile]
  /\ jstable' = [jstable EXCEPT ![i] = @ \cup {Partial, NoFile}]

\* The end marker and the trailer with the checksum.
WriteTrailer(i, ops) ==
  /\ jf' = [jf EXCEPT ![i] = ops]
  /\ jstable' = [jstable EXCEPT ![i] = @ \cup {ops}]

unlink(i) ==
  /\ jf' = [jf EXCEPT ![i] = NoFile]
  /\ jstable' = [jstable EXCEPT ![i] = @ \cup {NoFile}]

\* What fsync() of the directory leaves open about the file of id i.
Linked(i) == IF jf[i] = NoFile THEN {NoFile} ELSE jstable[i] \ {NoFile}

fsync_dir ==
  /\ jstable' = [i \in Tids |-> Linked(i)]
  /\ UNCHANGED jf

\* Mutant: the directory is not synced, so the file may not be found.
FsyncFileMut(i) ==
  /\ jstable' = [jstable EXCEPT ![i] = {jf[i]} \cup (@ \cap {NoFile})]
  /\ UNCHANGED jf

\* fsync of the transaction file, then of the directory.
FsyncFile(i) ==
  /\ jstable' = [j \in Tids |-> IF j = i THEN {jf[i]} ELSE Linked(j)]
  /\ UNCHANGED jf

\* When unlink fails the file is truncated, or else a second trailer is
\* appended, which makes the checksum fail, and synced.
TruncateFile(i) ==
  /\ jf' = [jf EXCEPT ![i] = Partial]
  /\ jstable' = [jstable EXCEPT ![i] = @ \cup {Partial}]

corrupt_journal_file(i) ==
  /\ jf' = [jf EXCEPT ![i] = Partial]
  /\ jstable' = [jstable EXCEPT ![i] = (@ \cap {NoFile}) \cup {Partial}]

-----------------------------------------------------------------------------
(* The lock file.  fcntl locks belong to processes: a thread gets the lock *)
(* its process already has, and any thread's unlock releases it.           *)

LockTids(p) == jlock \in {NoProc, p} /\ jlock' = p

\* free_tid looks for a smaller id in use, but stops at the first one that
\* access() does not find: its errno is ENOENT, not EACCES.
NewMax(cur) == cur - 1

\* Mutant: the id freed is not compared with the greatest one.
free_tidMut(i, cur) ==
  /\ max' = NewMax(cur)
  /\ jlock' = NoProc

free_tid(i, cur) ==
  /\ max' = IF i = cur THEN NewMax(cur) ELSE max
  /\ jlock' = NoProc

=============================================================================
