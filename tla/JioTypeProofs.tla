---------------------------- MODULE JioTypeProofs ----------------------------
(***************************************************************************)
(* The type invariant of libjio's model, with all faults, kills, power     *)
(* failures and interrupted recoveries, and the lemmas about lists of      *)
(* operations that it and the proof of isolation need: what the write      *)
(* operations of a list are, and which of them prevails in a cell.         *)
(***************************************************************************)
EXTENDS JioProofs

-----------------------------------------------------------------------------
(* Induction, for a set instead of an operator.                            *)

LEMMA SetInduction ==
  ASSUME NEW A, 0 \in A, \A n \in Nat : n \in A => n + 1 \in A
  PROVE  Nat \subseteq A
<1> SUFFICES ASSUME NEW b \in Nat, b \notin A PROVE FALSE
  OBVIOUS
<1> DEFINE Bad == {n \in Nat : n \notin A}
<1>1. Bad \subseteq Nat /\ b \in Bad
  OBVIOUS
<1>2. PICK n \in Bad : \A k \in Bad : ~ (k < n)
  <2>1. PICK n \in Bad : \A k \in Bad : ~ (<<k, n>> \in OpToRel(<, Nat))
    <3> HIDE DEF Bad
    <3> QED  BY <1>1, WFMin, NatLessThanWellFounded
  <2> QED  BY <1>1, <2>1 DEF OpToRel
<1>3. n \in Nat /\ n # 0 /\ n \notin A
  BY <1>2
<1>4. n - 1 \in Nat /\ n - 1 < n /\ (n - 1) + 1 = n
  BY <1>3
<1>5. n - 1 \in A
  BY <1>2, <1>4
<1> QED  BY <1>3, <1>4, <1>5

\* A set of numbers up to n that has an element has a greatest one.
LEMMA Greatest ==
  ASSUME NEW n \in Nat, NEW A \in SUBSET (1 .. n), A # {}
  PROVE  \E m \in A : \A k \in A : k <= m
<1> DEFINE Up == {i \in Nat : (\E a \in A : a <= i) => \E m \in A : m <= i /\ \A k \in A : k <= i => k <= m}
<1>0. \A a \in A : a \in Nat /\ 1 <= a /\ a <= n
  OBVIOUS
<1>1. 0 \in Up
  BY <1>0
<1>2. ASSUME NEW i \in Nat, i \in Up PROVE i + 1 \in Up
  <2> SUFFICES ASSUME \E a \in A : a <= i + 1
               PROVE  \E m \in A : m <= i + 1 /\ \A k \in A : k <= i + 1 => k <= m
    OBVIOUS
  <2>1. CASE i + 1 \in A
    BY <2>1
  <2>2. CASE i + 1 \notin A
    <3>1. ASSUME NEW a \in A, a <= i + 1 PROVE a <= i
      <4>1. a \in Nat /\ a # i + 1
        BY <1>0, <2>2
      <4> QED  BY <3>1, <4>1
    <3>2. \E a \in A : a <= i
      BY <3>1
    <3>3. PICK m \in A : m <= i /\ \A k \in A : k <= i => k <= m
      BY <1>2, <3>2
    <3> QED  BY <3>1, <3>3
  <2> QED  BY <2>1, <2>2
<1>3. Nat \subseteq Up
  <2> HIDE DEF Up
  <2> QED  BY <1>1, <1>2, SetInduction
<1>4. n \in Up
  BY <1>3
<1> QED  BY <1>0, <1>4

-----------------------------------------------------------------------------
(* The write operations of a list.                                         *)

\* The recursive function of Writes, for the first n operations.
WritesTo(s, n, w) ==
  w = [k \in 0 .. n |->
         IF k = 0 THEN <<>>
         ELSE IF IsWrite(s[k]) THEN Append(w[k - 1], s[k]) ELSE w[k - 1]]

LEMMA WritesToExists ==
  ASSUME NEW s, NEW m \in Nat
  PROVE  \E w : WritesTo(s, m, w)
<1> DEFINE A == {n \in Nat : \E w : WritesTo(s, n, w)}
<1>1. 0 \in A
  <2>1. WritesTo(s, 0, [k \in 0 .. 0 |-> <<>>])
    BY DEF WritesTo
  <2> QED  BY <2>1
<1>2. ASSUME NEW n \in Nat, n \in A PROVE n + 1 \in A
  <2>1. PICK w : WritesTo(s, n, w)
    BY <1>2
  <2> DEFINE last == IF IsWrite(s[n + 1]) THEN Append(w[n], s[n + 1]) ELSE w[n]
             v == [k \in 0 .. n + 1 |-> IF k = n + 1 THEN last ELSE w[k]]
  <2>2. ASSUME NEW k \in 0 .. n + 1
        PROVE  v[k] = IF k = 0 THEN <<>>
                      ELSE IF IsWrite(s[k]) THEN Append(v[k - 1], s[k]) ELSE v[k - 1]
    <3> HIDE DEF last
    <3>1. CASE k = n + 1
      <4>1. k # 0 /\ k - 1 \in 0 .. n + 1 /\ k - 1 = n /\ k - 1 # n + 1
        BY <3>1
      <4>2. v[k] = last /\ v[k - 1] = w[n]
        BY <3>1, <4>1
      <4> QED  BY <3>1, <4>1, <4>2 DEF last
    <3>2. CASE k # n + 1
      <4>1. k \in 0 .. n /\ v[k] = w[k]
        BY <3>2
      <4>2. w[k] = IF k = 0 THEN <<>>
                   ELSE IF IsWrite(s[k]) THEN Append(w[k - 1], s[k]) ELSE w[k - 1]
        BY <2>1, <4>1 DEF WritesTo
      <4>3. k # 0 => k - 1 \in 0 .. n + 1 /\ k - 1 # n + 1 /\ v[k - 1] = w[k - 1]
        BY <4>1
      <4> QED  BY <4>1, <4>2, <4>3
    <3> QED  BY <3>1, <3>2
  <2>3. v = [k \in 0 .. n + 1 |-> v[k]]
    OBVIOUS
  <2>4. WritesTo(s, n + 1, v)
    <3> HIDE DEF v
    <3> QED  BY <2>2, <2>3 DEF WritesTo
  <2> QED  BY <2>4
<1>3. Nat \subseteq A
  <2> HIDE DEF A
  <2> QED  BY <1>1, <1>2, SetInduction
<1> QED  BY <1>3

LEMMA WritesIs ==
  ASSUME NEW s, Len(s) \in Nat
  PROVE  \E w : WritesTo(s, Len(s), w) /\ Writes(s) = w[Len(s)]
<1> DEFINE w == CHOOSE v : WritesTo(s, Len(s), v)
<1>1. WritesTo(s, Len(s), w)
  BY WritesToExists
<1>2. Writes(s) = w[Len(s)]
  BY DEF Writes, WritesTo
<1> HIDE DEF w
<1> QED  BY <1>1, <1>2

\* v is the sequence of the writes among the first n elements of s, and e
\* says where they are: in the same order.
Picks(s, n, v, e) ==
  /\ e \in [1 .. Len(v) -> 1 .. n]
  /\ \A j \in 1 .. Len(v) : v[j] = s[e[j]] /\ IsWrite(s[e[j]])
  /\ \A i, j \in 1 .. Len(v) : i < j => e[i] < e[j]
  /\ \A k \in 1 .. n : IsWrite(s[k]) => \E j \in 1 .. Len(v) : e[j] = k
LEMMA AppendIs ==
  ASSUME NEW S, NEW s \in Seq(S), NEW x \in S
  PROVE  /\ Append(s, x) \in Seq(S) /\ Len(Append(s, x)) = Len(s) + 1
         /\ \A j \in 1 .. Len(s) : Append(s, x)[j] = s[j]
         /\ Append(s, x)[Len(s) + 1] = x
  OBVIOUS

LEMMA PicksNext ==
  ASSUME NEW S, NEW s \in Seq(S), NEW n \in Nat, n + 1 <= Len(s),
         NEW v \in Seq(S), NEW e, Picks(s, n, v, e), IsWrite(s[n + 1])
  PROVE  \E f : Picks(s, n + 1, Append(v, s[n + 1]), f)
<1>1. n + 1 \in 1 .. Len(s) /\ s[n + 1] \in S
  OBVIOUS
<1> DEFINE u == Append(v, s[n + 1])
           f == [j \in 1 .. Len(u) |-> IF j = Len(v) + 1 THEN n + 1 ELSE e[j]]
<1>2. /\ u \in Seq(S) /\ Len(u) = Len(v) + 1 /\ Len(v) \in Nat
      /\ \A j \in 1 .. Len(v) : u[j] = v[j]
      /\ u[Len(v) + 1] = s[n + 1]
  BY <1>1, AppendIs
<1> HIDE DEF u
<1>3. \A j \in 1 .. Len(v) : e[j] \in 1 .. n /\ v[j] = s[e[j]] /\ IsWrite(s[e[j]])
  BY DEF Picks
<1>4. /\ f[Len(v) + 1] = n + 1
      /\ \A j \in 1 .. Len(v) : f[j] = e[j]
  BY <1>2
<1>9. f = [j \in 1 .. Len(u) |-> f[j]]
  OBVIOUS
<1> HIDE DEF f
<1>5. ASSUME NEW j \in 1 .. Len(u)
      PROVE  f[j] \in 1 .. n + 1 /\ u[j] = s[f[j]] /\ IsWrite(s[f[j]])
  <2>1. CASE j = Len(v) + 1
    BY <1>2, <1>4, <2>1
  <2>2. CASE j \in 1 .. Len(v)
    <3>1. f[j] = e[j] /\ u[j] = v[j] /\ e[j] \in 1 .. n
      BY <1>2, <1>3, <1>4, <2>2
    <3>2. v[j] = s[e[j]] /\ IsWrite(s[e[j]])
      BY <1>3, <2>2
    <3> QED  BY <3>1, <3>2
  <2> QED  BY <1>2, <2>1, <2>2
<1>6. ASSUME NEW i \in 1 .. Len(u), NEW j \in 1 .. Len(u), i < j PROVE f[i] < f[j]
  <2>0. i \in 1 .. Len(v)
    BY <1>2, <1>6
  <2>1. f[i] = e[i] /\ e[i] \in 1 .. n
    BY <1>3, <1>4, <2>0
  <2>2. CASE j = Len(v) + 1
    BY <1>4, <2>1, <2>2
  <2>3. CASE j \in 1 .. Len(v)
    BY <1>4, <1>6, <2>1, <2>3 DEF Picks
  <2> QED  BY <1>2, <2>2, <2>3
<1>7. ASSUME NEW k \in 1 .. n + 1, IsWrite(s[k]) PROVE \E j \in 1 .. Len(u) : f[j] = k
  <2>1. CASE k = n + 1
    BY <1>2, <1>4, <2>1
  <2>2. CASE k \in 1 .. n
    <3>1. PICK j \in 1 .. Len(v) : e[j] = k
      BY <1>7, <2>2 DEF Picks
    <3>2. f[j] = k /\ j \in 1 .. Len(u)
      BY <1>2, <1>4, <3>1
    <3> QED  BY <3>2
  <2> QED  BY <2>1, <2>2
<1>8. f \in [1 .. Len(u) -> 1 .. n + 1]
  BY <1>5, <1>9
<1> QED  BY <1>5, <1>6, <1>7, <1>8 DEF Picks, u

LEMMA PicksSkip ==
  ASSUME NEW S, NEW s \in Seq(S), NEW n \in Nat, NEW v \in Seq(S), NEW e,
         Picks(s, n, v, e), ~IsWrite(s[n + 1])
  PROVE  Picks(s, n + 1, v, e)
<1>1. e \in [1 .. Len(v) -> 1 .. n + 1]
  BY DEF Picks
<1>2. \A k \in 1 .. n + 1 : k = n + 1 \/ k \in 1 .. n
  OBVIOUS
<1> QED  BY <1>1, <1>2 DEF Picks

\* Writes(s) has the write operations of s, all of them, in their order.
LEMMA WritesPick ==
  ASSUME NEW S, NEW s \in Seq(S)
  PROVE  Writes(s) \in Seq(S) /\ \E e : Picks(s, Len(s), Writes(s), e)
<1>1. Len(s) \in Nat
  OBVIOUS
<1>2. PICK w : WritesTo(s, Len(s), w) /\ Writes(s) = w[Len(s)]
  BY <1>1, WritesIs
<1> DEFINE A == {n \in Nat : n <= Len(s) => w[n] \in Seq(S) /\ \E e : Picks(s, n, w[n], e)}
<1>3. 0 \in A
  <2>1. w[0] = <<>>
    BY <1>1, <1>2 DEF WritesTo
  <2>2. <<>> \in Seq(S) /\ Len(<<>>) = 0
    OBVIOUS
  <2>3. Picks(s, 0, <<>>, <<>>)
    BY <2>2 DEF Picks
  <2> QED  BY <2>1, <2>2, <2>3
<1>4. ASSUME NEW n \in Nat, n \in A PROVE n + 1 \in A
  <2> SUFFICES ASSUME n + 1 <= Len(s)
               PROVE  w[n + 1] \in Seq(S) /\ \E e : Picks(s, n + 1, w[n + 1], e)
    OBVIOUS
  <2>1. w[n] \in Seq(S) /\ \E e : Picks(s, n, w[n], e)
    BY <1>1, <1>4
  <2>2. n + 1 \in 0 .. Len(s) /\ n + 1 # 0 /\ (n + 1) - 1 = n /\ s[n + 1] \in S
    BY <1>1
  <2>3. w[n + 1] = IF IsWrite(s[n + 1]) THEN Append(w[n], s[n + 1]) ELSE w[n]
    BY <1>2, <2>2 DEF WritesTo
  <2>4. CASE IsWrite(s[n + 1])
    <3>1. w[n + 1] = Append(w[n], s[n + 1]) /\ w[n + 1] \in Seq(S)
      BY <2>1, <2>2, <2>3, <2>4, AppendIs
    <3> QED  BY <2>1, <2>4, <3>1, PicksNext
  <2>5. CASE ~IsWrite(s[n + 1])
    BY <2>1, <2>3, <2>5, PicksSkip
  <2> QED  BY <2>4, <2>5
<1>5. Nat \subseteq A
  <2> HIDE DEF A
  <2> QED  BY <1>3, <1>4, SetInduction
<1>6. Len(s) \in A
  BY <1>1, <1>5
<1> QED  BY <1>1, <1>2, <1>6

-----------------------------------------------------------------------------
(* What is in a cell when the operations of a list have been applied.      *)

LEMMA LastCovers ==
  ASSUME NEW S, NEW ops \in Seq(S), NEW c, Covers(ops, c)
  PROVE  \E m \in 1 .. Len(ops) :
           /\ c \in CellsOf(ops[m])
           /\ \A j \in m + 1 .. Len(ops) : c \notin CellsOf(ops[j])
           /\ ValueIn(ops, c) = ops[m].buf[c - ops[m].off + 1]
<1>1. Len(ops) \in Nat /\ DOMAIN ops = 1 .. Len(ops)
  OBVIOUS
<1> DEFINE A == {k \in 1 .. Len(ops) : c \in CellsOf(ops[k])}
           P(k) == /\ c \in CellsOf(ops[k])
                   /\ \A j \in k + 1 .. Len(ops) : c \notin CellsOf(ops[j])
           last == CHOOSE k \in DOMAIN ops : P(k)
<1>2. \E k \in DOMAIN ops : P(k)
  <2>1. A \in SUBSET (1 .. Len(ops)) /\ A # {}
    BY <1>1 DEF Covers
  <2>2. PICK m \in A : \A k \in A : k <= m
    <3> HIDE DEF A
    <3> QED  BY <1>1, <2>1, Greatest
  <2>3. ASSUME NEW j \in m + 1 .. Len(ops) PROVE c \notin CellsOf(ops[j])
    <3>1. j \in 1 .. Len(ops) /\ ~ (j <= m)
      BY <1>1, <2>2
    <3> QED  BY <2>2, <3>1
  <2> QED  BY <1>1, <2>2, <2>3
<1>3. last \in DOMAIN ops /\ P(last)
  BY <1>2
<1>4. ValueIn(ops, c) = ops[last].buf[c - ops[last].off + 1]
  BY DEF ValueIn
<1> HIDE DEF last
<1> QED  BY <1>1, <1>3, <1>4

\* In Writes(s), the last write operation of s prevails.
LEMMA WritesCover ==
  ASSUME NEW S, NEW s \in Seq(S), NEW c, Covers(Writes(s), c)
  PROVE  \E m \in 1 .. Len(s) :
           /\ IsWrite(s[m]) /\ c \in CellsOf(s[m])
           /\ \A l \in m + 1 .. Len(s) : IsWrite(s[l]) => c \notin CellsOf(s[l])
           /\ ValueIn(Writes(s), c) = s[m].buf[c - s[m].off + 1]
<1>1. PICK v \in Seq(S) : v = Writes(s)
  BY WritesPick
<1>2. PICK e : Picks(s, Len(s), v, e)
  BY <1>1, WritesPick
<1>3. PICK j \in 1 .. Len(v) :
        /\ c \in CellsOf(v[j])
        /\ \A k \in j + 1 .. Len(v) : c \notin CellsOf(v[k])
        /\ ValueIn(v, c) = v[j].buf[c - v[j].off + 1]
  BY <1>1, LastCovers
<1>4. PICK m : m = e[j]
  OBVIOUS
<1>5. Len(s) \in Nat /\ Len(v) \in Nat
  OBVIOUS
<1>6. m \in 1 .. Len(s) /\ v[j] = s[m] /\ IsWrite(s[m])
  BY <1>2, <1>4 DEF Picks
<1>7. ASSUME NEW l \in m + 1 .. Len(s), IsWrite(s[l]) PROVE c \notin CellsOf(s[l])
  <2>1. l \in 1 .. Len(s)
    BY <1>5, <1>6
  <2>2. PICK i \in 1 .. Len(v) : e[i] = l
    BY <1>2, <1>7, <2>1 DEF Picks
  <2>3. e[j] \in Nat /\ e[i] \in Nat /\ ~ (e[i] <= e[j])
    BY <1>4, <1>5, <1>6, <2>1, <2>2
  <2>4. ~ (i < j) /\ i # j
    BY <1>2, <2>3 DEF Picks
  <2>5. i \in j + 1 .. Len(v)
    BY <1>5, <2>4
  <2>6. v[i] = s[l]
    BY <1>2, <2>2 DEF Picks
  <2> QED  BY <1>3, <2>5, <2>6
<1> QED  BY <1>1, <1>3, <1>6, <1>7

-----------------------------------------------------------------------------
(* The type invariant.                                                     *)

Values == Txns \cup {Zero, Garbage}
Op == {op \in [dir : {"R", "W"}, off : Nat, buf : Seq(Values)] : CellsOf(op) \subseteq Cells}
OpLists == Seq(Op) \ {<<>>}
Contents == {NoFile, Partial} \cup OpLists

\* The previous data of each operation, as long as its buffer.
PrevOK(f) ==
  /\ f.prev = [k \in 1 .. Len(f.ops) |-> f.prev[k]]
  /\ \A k \in 1 .. Len(f.ops) : f.prev[k] \in Seq(Values) /\ Len(f.prev[k]) = Len(f.ops[k].buf)

\* A commit has operations, is at one of them, has a transaction file only when
\* some of them are writes, and has read the previous data when it may have to
\* roll back.
Filling == {"get_tid", "get_tid_write", "fill"}
Recording == {"trailer", "fsync"}
Applying == {"apply", "sync"}
OpsOK(f) ==
  /\ f.ops \in OpLists /\ f.k \in 1 .. Len(f.ops)
  /\ f.pc \in Filling \cup Recording => HasWrites(f)
  /\ /\ f.pc \in Recording \/ (f.pc \in Applying /\ HasWrites(f))
     /\ "NOROLLBACK" \notin f.flags
     => PrevOK(f)

TypedThread(th) ==
  /\ cur[th].pc \in PCs /\ cur[th].retval \in -2 .. 1
  /\ cur[th].held \subseteq plocks[ProcOf[th]] /\ saved[th].held \subseteq plocks[ProcOf[th]]
  /\ cur[th].kind \in CallKinds => OpsOK(cur[th])
  /\ cur[th].kind = "undo" => saved[th].ops \in OpLists /\ saved[th].k = 1

TypedData ==
  /\ cache \in [Cells -> Values] /\ stable \in [Cells -> SUBSET Values]
  /\ \A c \in Cells : cache[c] \in stable[c]

TypedFiles ==
  /\ jf \in [Tids -> Contents] /\ jstable \in [Tids -> SUBSET Contents]
  /\ \A i \in Tids : jf[i] \in jstable[i]

\* No cell is locked by two processes.
TypedLocks ==
  /\ plocks \in [Procs -> SUBSET Cells]
  /\ \A p, q \in Procs : p # q => plocks[p] \cap plocks[q] = {}

\* jfsck is at one of the ids it has to scan, and is the only one that commits
\* the operations of a file again.
Redoing(th) == cur[th].kind = "redo" \/ saved[th].kind = "redo"
TypedFsck ==
  /\ fsck.pc \in {"off", "scan", "commit", "unlink"}
  /\ fsck.i \in Nat /\ fsck.maxtid \in 0 .. MaxTid
  /\ fsck.pc # "off" => fsck.i >= 1
  /\ fsck.pc \in {"commit", "unlink"} => fsck.i <= fsck.maxtid
  /\ \A th \in Threads : Redoing(th) => th = Checker /\ fsck.pc = "commit"

TypedInv ==
  /\ TypedData /\ TypedFiles /\ TypedLocks /\ TypedFsck
  /\ jlock \in Procs \cup {NoProc} /\ ack \in [Txns -> Acks]
  /\ \A th \in Threads : TypedThread(th)

LEMMA ValueTyped ==
  ASSUME NEW op \in Op, NEW c \in CellsOf(op)
  PROVE  op.buf[c - op.off + 1] \in Values /\ c \in Cells
<1>1. op.off \in Nat /\ op.buf \in Seq(Values) /\ CellsOf(op) \subseteq Cells
  BY DEF Op
<1>2. c \in op.off .. op.off + Len(op.buf) - 1 /\ Len(op.buf) \in Nat
  BY <1>1 DEF CellsOf
<1>3. c - op.off + 1 \in 1 .. Len(op.buf)
  BY <1>1, <1>2
<1> QED  BY <1>1, <1>3

\* One operation: its cells get its buffer, the others stay.
LEMMA AppliedOne ==
  ASSUME NEW op, NEW f
  PROVE  AppliedOps(<<op>>, f) =
           [c \in Cells |-> IF c \in CellsOf(op) THEN op.buf[c - op.off + 1] ELSE f[c]]
<1>1. DOMAIN <<op>> = {1} /\ <<op>>[1] = op /\ Len(<<op>>) = 1
  OBVIOUS
<1>2. ASSUME NEW c PROVE Covers(<<op>>, c) <=> c \in CellsOf(op)
  BY <1>1 DEF Covers
<1>3. ASSUME NEW c, c \in CellsOf(op)
      PROVE  ValueIn(<<op>>, c) = op.buf[c - op.off + 1]
  <2> DEFINE last == CHOOSE k \in DOMAIN <<op>> :
                       /\ c \in CellsOf(<<op>>[k])
                       /\ \A j \in k + 1 .. Len(<<op>>) : c \notin CellsOf(<<op>>[j])
  <2>1. \E k \in DOMAIN <<op>> :
          /\ c \in CellsOf(<<op>>[k])
          /\ \A j \in k + 1 .. Len(<<op>>) : c \notin CellsOf(<<op>>[j])
    BY <1>1, <1>3
  <2>2. last \in {1}
    BY <1>1, <2>1
  <2>3. ValueIn(<<op>>, c) = <<op>>[last].buf[c - <<op>>[last].off + 1]
    BY DEF ValueIn
  <2> HIDE DEF last
  <2> QED  BY <1>1, <2>2, <2>3
<1> QED  BY <1>2, <1>3 DEF AppliedOps

-----------------------------------------------------------------------------
(* What the steps do to the frame of their thread.                         *)

LEMMA Framed ==
  ASSUME IdInv, NEW th \in Threads
  PROVE  /\ cur = [u \in Threads |-> cur[u]] /\ saved = [u \in Threads |-> saved[u]]
         /\ IsFrame(cur[th]) /\ IsFrame(saved[th])
  BY DEF IdInv, StateOK, ThreadOK, FrameOK

\* The step stays in its call and its transaction, and touches neither the
\* previous data it has read nor the locks it has.
Stays(th) ==
  /\ Moves(th)
  /\ cur'[th].txn = cur[th].txn /\ cur'[th].prev = cur[th].prev /\ cur'[th].held = cur[th].held

LEMMA GotoStays ==
  ASSUME IdInv, NEW th \in Threads, NEW pc, Goto(th, pc)
  PROVE  /\ Stays(th) /\ cur'[th].pc = pc /\ cur'[th].k = 1
         /\ cur'[th].tid = cur[th].tid /\ cur'[th].retval = cur[th].retval
<1>0. cur = [u \in Threads |-> cur[u]] /\ IsFrame(cur[th])
  BY Framed
<1>1. cur' = [cur EXCEPT ![th] = [cur[th] EXCEPT !.pc = pc, !.k = 1]]
  BY <1>0 DEF Goto
<1> QED  BY <1>1, <1>0 DEF Stays, Moves, IsFrame

LEMMA ReturnStays ==
  ASSUME IdInv, NEW th \in Threads, NEW rv, Return(th, rv)
  PROVE  /\ Stays(th) /\ cur'[th].pc = "unlock" /\ cur'[th].k = 1
         /\ cur'[th].tid = cur[th].tid /\ cur'[th].retval = rv
<1>0. cur = [u \in Threads |-> cur[u]] /\ IsFrame(cur[th])
  BY Framed
<1>1. cur' = [cur EXCEPT ![th] = [cur[th] EXCEPT !.pc = "unlock", !.k = 1, !.retval = rv]]
  BY <1>0 DEF Return
<1> QED  BY <1>1, <1>0 DEF Stays, Moves, IsFrame

LEMMA SyncDoneStays ==
  ASSUME IdInv, NEW th \in Threads, NEW pc, SyncDone(th, pc)
  PROVE  /\ Stays(th) /\ cur'[th].pc = pc /\ cur'[th].k = 1 /\ cur'[th].retval = 1
         /\ cur'[th].tid = (IF pc = "unlock" THEN 0 ELSE cur[th].tid)
<1>0. cur = [u \in Threads |-> cur[u]] /\ IsFrame(cur[th])
  BY Framed
<1> DEFINE tid == IF pc = "unlock" THEN 0 ELSE cur[th].tid
<1>1. cur' = [cur EXCEPT ![th] = [cur[th] EXCEPT !.pc = pc, !.k = 1, !.retval = 1, !.tid = tid]]
  BY <1>0 DEF SyncDone
<1> HIDE DEF tid
<1>2. /\ Stays(th) /\ cur'[th].pc = pc /\ cur'[th].k = 1 /\ cur'[th].retval = 1
      /\ cur'[th].tid = tid
  BY <1>1, <1>0 DEF Stays, Moves, IsFrame
<1> QED  BY <1>2 DEF tid

LEMMA NextOpStays ==
  ASSUME IdInv, NEW th \in Threads, NextOp(th)
  PROVE  /\ Stays(th) /\ cur'[th].tid = cur[th].tid /\ cur'[th].retval = cur[th].retval
         /\ \/ /\ cur[th].k < Len(cur[th].ops)
               /\ cur'[th].pc = cur[th].pc /\ cur'[th].k = cur[th].k + 1
            \/ /\ ~ (cur[th].k < Len(cur[th].ops))
               /\ cur'[th].pc = "sync" /\ cur'[th].k = 1
<1>0. cur = [u \in Threads |-> cur[u]] /\ IsFrame(cur[th])
  BY Framed
<1>1. CASE cur[th].k < Len(cur[th].ops)
  <2> DEFINE k == cur[th].k + 1
  <2>1. cur' = [cur EXCEPT ![th] = [cur[th] EXCEPT !.k = k]]
    BY <1>1, <1>0 DEF NextOp
  <2> HIDE DEF k
  <2>2. /\ Stays(th) /\ cur'[th].tid = cur[th].tid /\ cur'[th].retval = cur[th].retval
        /\ cur'[th].pc = cur[th].pc /\ cur'[th].k = k
    BY <2>1, <1>0 DEF Stays, Moves, IsFrame
  <2> QED  BY <1>1, <2>2 DEF k
<1>2. CASE ~ (cur[th].k < Len(cur[th].ops))
  BY <1>2, GotoStays DEF NextOp
<1> QED  BY <1>1, <1>2

\* The steps of get_tid and free_tid.
LEMMA TidStays ==
  ASSUME IdInv, NEW th \in Threads,
         get_tid_read(th) \/ get_tid_write(th) \/ free_tid_read(th) \/ free_tid_write(th)
  PROVE  /\ Stays(th)
         /\ \/ /\ cur[th].pc = "get_tid" /\ cur'[th].pc = "get_tid_write"
               /\ cur'[th].tid = cur[th].tid
            \/ /\ cur[th].pc = "get_tid_write" /\ cur'[th].pc = "fill"
            \/ /\ cur[th].pc = "free_tid" /\ cur'[th].pc = "free_tid_write"
               /\ cur'[th].tid = cur[th].tid
            \/ /\ cur[th].pc = "free_tid_write" /\ cur'[th].tid = 0
               /\ cur'[th].pc = (IF Syncing(th) THEN "next" ELSE "unlock")
            \/ /\ cur[th].pc = "get_tid_write" /\ Return(th, -1) /\ cur'[th].pc = "unlock"
         /\ cur'[th].pc # "unlock" \/ cur[th].pc = "free_tid_write" =>
              cur'[th].k = cur[th].k /\ cur'[th].retval = cur[th].retval
<1>0. cur = [u \in Threads |-> cur[u]] /\ IsFrame(cur[th])
  BY Framed
<1>1. CASE get_tid_read(th)
  <2>1. cur' = [cur EXCEPT ![th] = [cur[th] EXCEPT !.pc = "get_tid_write", !.curid = max]]
    BY <1>1, <1>0 DEF get_tid_read
  <2>2. /\ Stays(th) /\ cur'[th].pc = "get_tid_write" /\ cur'[th].tid = cur[th].tid
        /\ cur'[th].k = cur[th].k /\ cur'[th].retval = cur[th].retval
    BY <2>1, <1>0 DEF Stays, Moves, IsFrame
  <2> QED  BY <1>1, <2>2 DEF get_tid_read, At
<1>2. CASE free_tid_read(th)
  <2>1. cur' = [cur EXCEPT ![th] = [cur[th] EXCEPT !.pc = "free_tid_write", !.curid = max]]
    BY <1>2, <1>0 DEF free_tid_read
  <2>2. /\ Stays(th) /\ cur'[th].pc = "free_tid_write" /\ cur'[th].tid = cur[th].tid
        /\ cur'[th].k = cur[th].k /\ cur'[th].retval = cur[th].retval
    BY <2>1, <1>0 DEF Stays, Moves, IsFrame
  <2> QED  BY <1>2, <2>2 DEF free_tid_read, At
<1>3. CASE free_tid_write(th)
  <2> DEFINE pc == IF Syncing(th) THEN "next" ELSE "unlock"
  <2>1. cur' = [cur EXCEPT ![th] = [cur[th] EXCEPT !.curid = 0, !.tid = 0, !.pc = pc]]
    BY <1>3, <1>0 DEF free_tid_write
  <2> HIDE DEF pc
  <2>2. /\ Stays(th) /\ cur'[th].pc = pc /\ cur'[th].tid = 0
        /\ cur'[th].k = cur[th].k /\ cur'[th].retval = cur[th].retval
    BY <2>1, <1>0 DEF Stays, Moves, IsFrame
  <2> QED  BY <1>3, <2>2 DEF free_tid_write, At, pc
<1>4. CASE get_tid_write(th) /\ cur[th].curid = MaxTid
  <2> DEFINE rv == -1
  <2>1. Return(th, rv)
    BY <1>4 DEF get_tid_write
  <2> HIDE DEF rv
  <2>2. Stays(th) /\ cur'[th].pc = "unlock"
    BY <2>1, ReturnStays
  <2>3. Return(th, -1)
    BY <2>1 DEF rv
  <2> QED  BY <1>4, <2>2, <2>3 DEF get_tid_write, At
<1>5. CASE get_tid_write(th) /\ cur[th].curid # MaxTid
  <2> DEFINE tid == cur[th].curid + 1
  <2>1. cur' = [cur EXCEPT ![th] = [cur[th] EXCEPT !.pc = "fill", !.curid = 0, !.tid = tid]]
    BY <1>5, <1>0 DEF get_tid_write
  <2> HIDE DEF tid
  <2>2. /\ Stays(th) /\ cur'[th].pc = "fill"
        /\ cur'[th].k = cur[th].k /\ cur'[th].retval = cur[th].retval
    BY <2>1, <1>0 DEF Stays, Moves, IsFrame
  <2> QED  BY <1>5, <2>2 DEF get_tid_write, At
<1> QED  BY <1>1, <1>2, <1>3, <1>4, <1>5

-----------------------------------------------------------------------------
(* The frames.                                                             *)

LEMMA SameWrites ==
  ASSUME NEW th \in Threads, cur'[th].ops = cur[th].ops
  PROVE  HasWrites(cur[th])' <=> HasWrites(cur[th])
  BY DEF HasWrites, Writes

LEMMA SamePrev ==
  ASSUME NEW th \in Threads, cur'[th].ops = cur[th].ops, cur'[th].prev = cur[th].prev
  PROVE  PrevOK(cur[th])' <=> PrevOK(cur[th])
  BY DEF PrevOK

LEMMA FirstOp ==
  ASSUME NEW ops \in OpLists
  PROVE  /\ ops \in Seq(Op) /\ Len(ops) \in Nat /\ 1 \in 1 .. Len(ops)
         /\ \A k \in 1 .. Len(ops) : ops[k] \in Op
<1>1. ops \in Seq(Op) /\ ops # <<>>
  BY DEF OpLists
<1> QED  BY <1>1

LEMMA TypedStays ==
  ASSUME TypedInv, NEW th \in Threads, Stays(th), saved' = saved, plocks' = plocks,
         cur'[th].pc \in PCs, cur'[th].retval \in -2 .. 1,
         cur[th].kind \in CallKinds => cur'[th].k \in 1 .. Len(cur[th].ops),
         cur'[th].pc \in Filling => cur[th].pc \in Filling,
         cur'[th].pc \in Recording => cur[th].pc \in Recording,
         cur'[th].pc \in Applying /\ HasWrites(cur[th]) => cur[th].pc \in Recording \cup Applying
  PROVE  TypedThread(th)'
<1>1. TypedThread(th)
  BY DEF TypedInv
<1>2. /\ cur'[th].kind = cur[th].kind /\ cur'[th].flags = cur[th].flags
      /\ cur'[th].ops = cur[th].ops /\ cur'[th].prev = cur[th].prev
      /\ cur'[th].held = cur[th].held
  BY DEF Stays, Moves
<1>3. ASSUME cur[th].kind \in CallKinds PROVE OpsOK(cur[th])'
  <2>1. OpsOK(cur[th])
    BY <1>1, <1>3 DEF TypedThread
  <2>2. HasWrites(cur[th])' <=> HasWrites(cur[th])
    BY <1>2, SameWrites
  <2>3. PrevOK(cur[th])' <=> PrevOK(cur[th])
    BY <1>2, SamePrev
  <2>4. cur'[th].ops \in OpLists /\ cur'[th].k \in 1 .. Len(cur'[th].ops)
    BY <1>2, <1>3, <2>1 DEF OpsOK
  <2>5. ASSUME cur'[th].pc \in Recording \/ (cur'[th].pc \in Applying /\ HasWrites(cur[th])'),
               "NOROLLBACK" \notin cur'[th].flags
        PROVE  PrevOK(cur[th])'
    <3>1. cur[th].pc \in Recording \/ (cur[th].pc \in Applying /\ HasWrites(cur[th]))
      BY <2>2, <2>5
    <3> QED  BY <1>2, <2>1, <2>3, <2>5, <3>1 DEF OpsOK
  <2>6. cur'[th].pc \in Filling \cup Recording => HasWrites(cur[th])'
    BY <2>1, <2>2 DEF OpsOK
  <2> QED  BY <2>4, <2>5, <2>6 DEF OpsOK
<1>4. saved'[th].held = saved[th].held /\ saved'[th].ops = saved[th].ops /\ saved'[th].k = saved[th].k
      /\ plocks'[ProcOf[th]] = plocks[ProcOf[th]]
  OBVIOUS
<1> QED  BY <1>1, <1>2, <1>3, <1>4 DEF TypedThread

LEMMA TypedIdle ==
  ASSUME NEW th \in Threads, cur'[th] = Idle, saved'[th] = Idle
  PROVE  TypedThread(th)'
<1>1. /\ Idle.kind = "none" /\ Idle.pc = "idle" /\ Idle.retval = -1 /\ Idle.held = {}
  BY DEF Idle, Frame
<1> QED  BY <1>1 DEF TypedThread, PCs, CallKinds

\* The threads that a step leaves alone.
LEMMA TypedOther ==
  ASSUME NEW u \in Threads, TypedThread(u), cur'[u] = cur[u], saved'[u] = saved[u],
         plocks'[ProcOf[u]] = plocks[ProcOf[u]]
  PROVE  TypedThread(u)'
<1>1. HasWrites(cur[u])' <=> HasWrites(cur[u])
  BY SameWrites
<1>2. PrevOK(cur[u])' <=> PrevOK(cur[u])
  BY SamePrev
<1>3. OpsOK(cur[u]) => OpsOK(cur[u])'
  BY <1>1, <1>2 DEF OpsOK
<1> QED  BY <1>3 DEF TypedThread

LEMMA CallOps ==
  ASSUME TypedInv, NEW th \in Threads, cur[th].kind \in CallKinds
  PROVE  /\ cur[th].ops \in OpLists /\ cur[th].ops \in Seq(Op)
         /\ Len(cur[th].ops) \in Nat /\ 1 \in 1 .. Len(cur[th].ops)
         /\ cur[th].k \in 1 .. Len(cur[th].ops) /\ cur[th].ops[cur[th].k] \in Op
<1>1. cur[th].ops \in OpLists /\ cur[th].k \in 1 .. Len(cur[th].ops)
  BY DEF TypedInv, TypedThread, OpsOK
<1>2. PICK ops \in OpLists : ops = cur[th].ops
  BY <1>1
<1> QED  BY <1>1, <1>2, FirstOp

LEMMA ReturnTyped ==
  ASSUME IdInv, TypedInv, NEW th \in Threads, NEW rv \in -2 .. 1, Return(th, rv),
         saved' = saved, plocks' = plocks
  PROVE  TypedThread(th)'
<1>1. Stays(th) /\ cur'[th].pc = "unlock" /\ cur'[th].k = 1 /\ cur'[th].retval = rv
  BY ReturnStays
<1>2. cur[th].kind \in CallKinds => cur'[th].k \in 1 .. Len(cur[th].ops)
  BY <1>1, CallOps
<1> QED  BY <1>1, <1>2, TypedStays DEF PCs, Filling, Recording, Applying

LEMMA GotoTyped ==
  ASSUME IdInv, TypedInv, NEW th \in Threads, NEW pc \in PCs, Goto(th, pc),
         saved' = saved, plocks' = plocks,
         pc \notin Filling, pc \in Recording => cur[th].pc \in Recording,
         pc \in Applying => cur[th].pc \in Recording \cup Applying
  PROVE  TypedThread(th)'
<1>1. Stays(th) /\ cur'[th].pc = pc /\ cur'[th].k = 1 /\ cur'[th].retval = cur[th].retval
  BY GotoStays
<1>2. cur[th].kind \in CallKinds => cur'[th].k \in 1 .. Len(cur[th].ops)
  BY <1>1, CallOps
<1>3. cur[th].retval \in -2 .. 1
  BY DEF TypedInv, TypedThread
<1> QED  BY <1>1, <1>2, <1>3, TypedStays

LEMMA FailuresTyped ==
  ASSUME IdInv, TypedInv, NEW th \in Threads,
         \/ LockDeadlock(th) \/ journal_new_broken(th) \/ OpenFails(th) \/ FillFails(th)
         \/ SyncFileFails(th) \/ SyncAllFails(th) \/ MarkBroken(th)
  PROVE  TypedThread(th)'
<1>1. saved' = saved /\ plocks' = plocks
  BY DEF LockDeadlock, journal_new_broken, OpenFails, FillFails, SyncFileFails, SyncAllFails,
         MarkBroken, procVars
<1>2. PICK rv \in {-1, -2} : Return(th, rv)
  BY DEF LockDeadlock, journal_new_broken, OpenFails, FillFails, SyncFileFails, SyncAllFails,
         MarkBroken
<1>3. rv \in -2 .. 1
  OBVIOUS
<1> QED  BY <1>1, <1>2, <1>3, ReturnTyped

LEMMA GotosTyped ==
  ASSUME IdInv, TypedInv, NEW th \in Threads,
         \/ HeaderFails(th) \/ CommitFile(th) \/ SyncFile(th) \/ UnlinkFile(th) \/ SyncDir(th)
         \/ SyncAll(th) \/ TakeLtlock(th)
  PROVE  TypedThread(th)'
<1>1. saved' = saved /\ plocks' = plocks
  BY DEF HeaderFails, CommitFile, SyncFile, UnlinkFile, SyncDir, SyncAll, TakeLtlock, procVars
<1>2. \/ Goto(th, "fsync") /\ cur[th].pc = "trailer"
      \/ Goto(th, "apply") /\ cur[th].pc = "fsync"
      \/ \E pc \in {"free_tid", "fsync_dir", "ltlock", "next"} : Goto(th, pc)
  BY DEF HeaderFails, CommitFile, SyncFile, UnlinkFile, SyncDir, SyncAll, TakeLtlock, At
<1>3. PICK pc \in PCs : /\ Goto(th, pc) /\ pc \notin Filling
                        /\ pc \in Recording => cur[th].pc \in Recording
                        /\ pc \in Applying => cur[th].pc \in Recording \cup Applying
  BY <1>2 DEF PCs, Filling, Recording, Applying
<1> QED  BY <1>1, <1>3, GotoTyped

LEMMA TidsTyped ==
  ASSUME IdInv, TypedInv, NEW th \in Threads,
         get_tid_read(th) \/ get_tid_write(th) \/ free_tid_read(th) \/ free_tid_write(th)
  PROVE  TypedThread(th)'
<1>1. saved' = saved /\ plocks' = plocks
  BY DEF get_tid_read, get_tid_write, free_tid_read, free_tid_write, procVars
<1>2. CASE Return(th, -1)
  <2> DEFINE rv == -1
  <2>1. Return(th, rv) /\ rv \in -2 .. 1
    BY <1>2
  <2> HIDE DEF rv
  <2> QED  BY <1>1, <2>1, ReturnTyped
<1>3. CASE ~Return(th, -1)
  <2>1. /\ Stays(th) /\ cur'[th].pc \in PCs \ (Recording \cup Applying)
        /\ (cur'[th].pc \in Filling => cur[th].pc \in Filling)
        /\ cur'[th].k = cur[th].k /\ cur'[th].retval = cur[th].retval
    BY <1>3, TidStays DEF PCs, Filling, Recording, Applying
  <2>2. cur[th].retval \in -2 .. 1
    BY DEF TypedInv, TypedThread
  <2> QED  BY <1>1, <2>1, <2>2, CallOps, TypedStays
<1> QED  BY <1>2, <1>3

LEMMA OpsTyped ==
  ASSUME IdInv, TypedInv, NEW th \in Threads, ReadOp(th) \/ WriteOp(th)
  PROVE  TypedThread(th)'
<1>1. saved' = saved /\ plocks' = plocks /\ cur[th].pc = "apply" /\ NextOp(th)
  BY DEF ReadOp, WriteOp, procVars, At
<1>2. cur[th].kind \in CallKinds
  BY <1>1, CommitKind DEF CommitPCs
<1>3. Stays(th) /\ cur'[th].retval = cur[th].retval /\ cur'[th].pc \in Applying
      /\ cur'[th].k \in 1 .. Len(cur[th].ops)
  <2>1. Stays(th) /\ cur'[th].retval = cur[th].retval /\ cur'[th].pc \in Applying
        /\ (cur'[th].k = 1 \/ (cur[th].k < Len(cur[th].ops) /\ cur'[th].k = cur[th].k + 1))
    BY <1>1, NextOpStays DEF Applying
  <2> QED  BY <1>1, <1>2, <2>1, CallOps, NextOpStays DEF Applying
<1>4. cur[th].retval \in -2 .. 1
  BY DEF TypedInv, TypedThread
<1> QED  BY <1>1, <1>3, <1>4, TypedStays DEF PCs, Filling, Recording, Applying

LEMMA SyncsTyped ==
  ASSUME IdInv, TypedInv, NEW th \in Threads, NothingToSync(th) \/ Linger(th) \/ SyncData(th)
  PROVE  TypedThread(th)'
<1>1. saved' = saved /\ plocks' = plocks
  BY DEF NothingToSync, Linger, SyncData, procVars
<1>2. PICK pc \in {"unlock", "unlink"} : SyncDone(th, pc)
  BY DEF NothingToSync, Linger, SyncData
<1>3. Stays(th) /\ cur'[th].pc = pc /\ cur'[th].k = 1 /\ cur'[th].retval = 1
  BY <1>2, SyncDoneStays
<1>4. cur[th].kind \in CallKinds => cur'[th].k \in 1 .. Len(cur[th].ops)
  BY <1>3, CallOps
<1> QED  BY <1>1, <1>3, <1>4, TypedStays DEF PCs, Filling, Recording, Applying

LEMMA NextLingerStays ==
  ASSUME IdInv, NEW th \in Threads, NextLinger(th)
  PROVE  /\ Stays(th) /\ cur[th].pc = "next" /\ cur[th].kind \in SyncKinds
         /\ \/ /\ ltrans[ProcOf[th]] = <<>> /\ cur'[th].pc = "unlock" /\ cur'[th].retval = 0
            \/ /\ ltrans[ProcOf[th]] # <<>> /\ cur'[th].pc = "unlink"
               /\ cur'[th].retval = cur[th].retval
               /\ cur'[th].tid = Head(ltrans[ProcOf[th]])
<1>1. cur = [u \in Threads |-> cur[u]] /\ IsFrame(cur[th])
  BY Framed
<1> DEFINE list == ltrans[ProcOf[th]]
           head == Head(list)
<1>2. cur[th].pc = "next" /\ cur[th].kind \in SyncKinds
  BY DEF NextLinger, At, IdInv, ThreadOK, SyncOK, SyncPCs
<1>3. cur' = [cur EXCEPT ![th] =
          IF list = <<>> THEN [cur[th] EXCEPT !.pc = "unlock", !.retval = 0]
          ELSE [cur[th] EXCEPT !.pc = "unlink", !.tid = head]]
  BY <1>1 DEF NextLinger
<1>4. CASE list = <<>>
  <2>1. cur' = [cur EXCEPT ![th] = [cur[th] EXCEPT !.pc = "unlock", !.retval = 0]]
    BY <1>3, <1>4
  <2>2. Stays(th) /\ cur'[th].pc = "unlock" /\ cur'[th].retval = 0
    BY <1>1, <2>1 DEF Stays, Moves, IsFrame
  <2> QED  BY <1>2, <1>4, <2>2
<1>5. CASE list # <<>>
  <2> HIDE DEF head
  <2>1. cur' = [cur EXCEPT ![th] = [cur[th] EXCEPT !.pc = "unlink", !.tid = head]]
    BY <1>3, <1>5
  <2>2. /\ Stays(th) /\ cur'[th].pc = "unlink" /\ cur'[th].retval = cur[th].retval
        /\ cur'[th].tid = head
    BY <1>1, <2>1 DEF Stays, Moves, IsFrame
  <2> QED  BY <1>2, <1>5, <2>2 DEF head
<1> QED  BY <1>4, <1>5

LEMMA NextLingerTyped ==
  ASSUME IdInv, TypedInv, NEW th \in Threads, NextLinger(th)
  PROVE  TypedThread(th)'
<1>1. saved' = saved /\ plocks' = plocks
  BY DEF NextLinger, procVars
<1>2. cur[th].retval \in -2 .. 1
  BY DEF TypedInv, TypedThread
<1>3. /\ Stays(th) /\ cur'[th].pc \in {"unlock", "unlink"} /\ cur'[th].retval \in -2 .. 1
      /\ cur[th].kind \notin CallKinds
  BY <1>2, NextLingerStays DEF SyncKinds, CallKinds
<1> QED  BY <1>1, <1>3, TypedStays DEF PCs, Filling, Recording, Applying

\* One more range is locked.
LEMMA LockRangeDoes ==
  ASSUME IdInv, TypedInv, NEW th \in Threads, LockRange(th)
  PROVE  /\ Moves(th) /\ cur[th].kind \in CallKinds /\ cur[th].pc = "lock"
         /\ cur'[th].txn = cur[th].txn /\ cur'[th].prev = cur[th].prev
         /\ cur'[th].tid = cur[th].tid /\ cur'[th].retval = cur[th].retval
         /\ cur'[th].held = cur[th].held \cup Wanted(th) /\ Wanted(th) \subseteq Cells
         /\ \/ cur'[th].pc = "lock" /\ cur[th].k < Len(cur[th].ops) /\ cur'[th].k = cur[th].k + 1
            \/ /\ ~ (cur[th].k < Len(cur[th].ops)) /\ cur'[th].k = 1
               /\ \/ cur'[th].pc = "get_tid" /\ HasWrites(cur[th])
                  \/ cur'[th].pc = "apply" /\ ~HasWrites(cur[th])
<1>1. cur = [u \in Threads |-> cur[u]] /\ IsFrame(cur[th])
  BY Framed
<1>2. cur[th].pc = "lock" /\ cur[th].kind \in CallKinds
  BY CommitKind DEF LockRange, At, CommitPCs
<1>3. Wanted(th) \subseteq Cells
  BY <1>2, CallOps DEF Wanted, Op
<1> DEFINE h == cur[th].held \cup Wanted(th)
           k == cur[th].k + 1
           pc == IF HasWrites(cur[th]) THEN "get_tid" ELSE "apply"
<1>4. cur' = [cur EXCEPT ![th] =
           IF cur[th].k < Len(cur[th].ops)
           THEN [[cur[th] EXCEPT !.held = h] EXCEPT !.k = @ + 1]
           ELSE [[cur[th] EXCEPT !.held = h] EXCEPT !.k = 1, !.pc = pc]]
  BY DEF LockRange
<1>5. CASE cur[th].k < Len(cur[th].ops)
  <2>1. cur' = [cur EXCEPT ![th] = [cur[th] EXCEPT !.held = h, !.k = k]]
    <3> HIDE DEF h
    <3>1. [[cur[th] EXCEPT !.held = h] EXCEPT !.k = @ + 1] = [cur[th] EXCEPT !.held = h, !.k = k]
      BY <1>1 DEF IsFrame
    <3> QED  BY <1>4, <1>5, <3>1
  <2> HIDE DEF h, k
  <2>2. /\ Moves(th) /\ cur'[th].txn = cur[th].txn /\ cur'[th].prev = cur[th].prev
        /\ cur'[th].tid = cur[th].tid /\ cur'[th].retval = cur[th].retval
        /\ cur'[th].held = h /\ cur'[th].pc = cur[th].pc /\ cur'[th].k = k
    BY <1>1, <2>1 DEF Moves, IsFrame
  <2> QED  BY <1>2, <1>3, <1>5, <2>2 DEF h, k
<1>6. CASE ~ (cur[th].k < Len(cur[th].ops))
  <2>1. cur' = [cur EXCEPT ![th] = [cur[th] EXCEPT !.held = h, !.k = 1, !.pc = pc]]
    <3> HIDE DEF h, pc
    <3>1. [[cur[th] EXCEPT !.held = h] EXCEPT !.k = 1, !.pc = pc]
            = [cur[th] EXCEPT !.held = h, !.k = 1, !.pc = pc]
      BY <1>1 DEF IsFrame
    <3> QED  BY <1>4, <1>6, <3>1
  <2> HIDE DEF h, pc
  <2>2. /\ Moves(th) /\ cur'[th].txn = cur[th].txn /\ cur'[th].prev = cur[th].prev
        /\ cur'[th].tid = cur[th].tid /\ cur'[th].retval = cur[th].retval
        /\ cur'[th].held = h /\ cur'[th].pc = pc /\ cur'[th].k = 1
    BY <1>1, <2>1 DEF Moves, IsFrame
  <2> QED  BY <1>2, <1>3, <1>6, <2>2 DEF h, pc
<1> QED  BY <1>5, <1>6

LEMMA LockRangeTyped ==
  ASSUME OneThreadPerProcess, IdInv, TypedInv, NEW th \in Threads, LockRange(th)
  PROVE  TypedLocks' /\ TypedThread(th)'
<1> DEFINE P == ProcOf[th]
<1>1. P \in Procs /\ TypedLocks /\ TypedThread(th) /\ plocks \in [Procs -> SUBSET Cells]
  BY JioAssumption DEF TypedInv, TypedLocks
<1>2. plocks' = [plocks EXCEPT ![P] = plocks[P] \cup Wanted(th)] /\ Blockers(th) = {}
      /\ saved' = saved
  BY DEF LockRange
<1>3. /\ Moves(th) /\ cur[th].kind \in CallKinds
      /\ cur'[th].held = cur[th].held \cup Wanted(th) /\ Wanted(th) \subseteq Cells
      /\ cur'[th].retval = cur[th].retval
      /\ cur'[th].pc \in {"lock", "get_tid", "apply"}
      /\ (cur'[th].pc = "apply" => ~HasWrites(cur[th]))
      /\ (cur'[th].pc = "get_tid" => HasWrites(cur[th]))
      /\ (cur'[th].k = 1 \/ (cur[th].k < Len(cur[th].ops) /\ cur'[th].k = cur[th].k + 1))
  BY LockRangeDoes
<1>4. TypedLocks'
  <2> PICK W : W = Wanted(th)
    OBVIOUS
  <2>1. \A q \in Procs \ {P} : plocks[q] \cap W = {}
    BY <1>2 DEF Blockers
  <2>2. /\ plocks' \in [Procs -> SUBSET Cells] /\ plocks'[P] = plocks[P] \cup W
        /\ \A q \in Procs : q # P => plocks'[q] = plocks[q]
    BY <1>1, <1>2, <1>3
  <2>3. ASSUME NEW p \in Procs, NEW q \in Procs, p # q PROVE plocks'[p] \cap plocks'[q] = {}
    <3>1. plocks[p] \cap plocks[q] = {}
      BY <1>1, <2>3 DEF TypedLocks
    <3>2. CASE p = P
      <4>1. plocks'[q] = plocks[q] /\ plocks[q] \cap W = {}
        BY <2>1, <2>2, <2>3, <3>2
      <4> QED  BY <2>2, <3>1, <3>2, <4>1
    <3>3. CASE q = P
      <4>1. plocks'[p] = plocks[p] /\ plocks[p] \cap W = {}
        BY <2>1, <2>2, <2>3, <3>3
      <4> QED  BY <2>2, <3>1, <3>3, <4>1
    <3>4. CASE p # P /\ q # P
      BY <2>2, <3>1, <3>4
    <3> QED  BY <3>2, <3>3, <3>4
  <2> QED  BY <2>2, <2>3 DEF TypedLocks
<1>5. OpsOK(cur[th])'
  <2>1. cur'[th].ops = cur[th].ops
    BY <1>3 DEF Moves
  <2>2. HasWrites(cur[th])' <=> HasWrites(cur[th])
    BY <2>1, SameWrites
  <2>3. cur'[th].ops \in OpLists /\ cur'[th].k \in 1 .. Len(cur'[th].ops)
    BY <1>3, <2>1, CallOps
  <2> QED  BY <1>3, <2>2, <2>3 DEF OpsOK, Filling, Recording, Applying
<1>6. plocks'[P] = plocks[P] \cup Wanted(th)
  BY <1>1, <1>2
<1>7. /\ cur'[th].held \subseteq plocks'[P] /\ saved'[th].held \subseteq plocks'[P]
      /\ cur'[th].pc \in PCs /\ cur'[th].retval \in -2 .. 1
      /\ cur'[th].kind = "undo" => saved'[th].ops \in OpLists /\ saved'[th].k = 1
  BY <1>1, <1>2, <1>3, <1>6 DEF TypedThread, PCs, Moves
<1> QED  BY <1>4, <1>5, <1>7 DEF TypedThread

\* fill_trans reads the previous data of every operation, as much as it writes.
LEMMA FillFileDoes ==
  ASSUME IdInv, TypedInv, NEW th \in Threads, FillFile(th)
  PROVE  /\ Moves(th) /\ cur[th].kind \in CallKinds /\ cur[th].pc = "fill"
         /\ cur'[th].txn = cur[th].txn /\ cur'[th].held = cur[th].held
         /\ cur'[th].tid = cur[th].tid /\ cur'[th].retval = cur[th].retval
         /\ cur'[th].pc = "trailer" /\ cur'[th].k = cur[th].k
         /\ cur'[th].prev = PrevOf(cur[th])
<1>1. cur = [u \in Threads |-> cur[u]] /\ IsFrame(cur[th])
  BY Framed
<1>2. cur[th].pc = "fill" /\ cur[th].kind \in CallKinds
  BY CommitKind DEF FillFile, At, CommitPCs
<1> DEFINE prev == PrevOf(cur[th])
<1>3. cur' = [cur EXCEPT ![th] = [cur[th] EXCEPT !.pc = "trailer", !.prev = prev]]
  BY <1>1 DEF FillFile
<1> HIDE DEF prev
<1>4. /\ Moves(th) /\ cur'[th].txn = cur[th].txn /\ cur'[th].held = cur[th].held
      /\ cur'[th].tid = cur[th].tid /\ cur'[th].retval = cur[th].retval
      /\ cur'[th].pc = "trailer" /\ cur'[th].k = cur[th].k /\ cur'[th].prev = prev
  BY <1>1, <1>3 DEF Moves, IsFrame
<1> QED  BY <1>2, <1>4 DEF prev

LEMMA ReadCells ==
  ASSUME TypedData, NEW op \in Op
  PROVE  /\ [j \in DOMAIN op.buf |-> cache[op.off + j - 1]] \in Seq(Values)
         /\ Len([j \in DOMAIN op.buf |-> cache[op.off + j - 1]]) = Len(op.buf)
<1>1. op.off \in Nat /\ op.buf \in Seq(Values) /\ CellsOf(op) \subseteq Cells
  BY DEF Op
<1>2. PICK off \in Nat : off = op.off
  BY <1>1
<1>3. PICK n \in Nat : n = Len(op.buf) /\ DOMAIN op.buf = 1 .. n
  BY <1>1
<1>4. ASSUME NEW j \in 1 .. n PROVE cache[off + j - 1] \in Values
  <2>1. off + j - 1 \in CellsOf(op)
    BY <1>2, <1>3 DEF CellsOf
  <2> QED  BY <1>1, <2>1 DEF TypedData
<1>5. [j \in 1 .. n |-> cache[off + j - 1]] \in Seq(Values)
      /\ Len([j \in 1 .. n |-> cache[off + j - 1]]) = n
  BY <1>4
<1> QED  BY <1>2, <1>3, <1>5

LEMMA PrevOfIs ==
  ASSUME TypedData, NEW f, f.ops \in OpLists, "NOROLLBACK" \notin f.flags
  PROVE  /\ PrevOf(f) = [k \in 1 .. Len(f.ops) |-> PrevOf(f)[k]]
         /\ \A k \in 1 .. Len(f.ops) :
              /\ PrevOf(f)[k] = [j \in DOMAIN f.ops[k].buf |-> cache[f.ops[k].off + j - 1]]
              /\ PrevOf(f)[k] \in Seq(Values) /\ Len(PrevOf(f)[k]) = Len(f.ops[k].buf)
<1>1. PICK ops \in OpLists : ops = f.ops
  OBVIOUS
<1>2. DOMAIN ops = 1 .. Len(ops)
  BY FirstOp
<1>3. PrevOf(f) = [k \in 1 .. Len(ops) |->
                     [j \in DOMAIN ops[k].buf |-> cache[ops[k].off + j - 1]]]
  BY <1>1, <1>2 DEF PrevOf
<1>4. PICK prev : prev = PrevOf(f)
  OBVIOUS
<1>5. prev = [k \in 1 .. Len(ops) |-> prev[k]]
  BY <1>3, <1>4
<1>6. ASSUME NEW k \in 1 .. Len(ops)
      PROVE  /\ prev[k] = [j \in DOMAIN ops[k].buf |-> cache[ops[k].off + j - 1]]
             /\ prev[k] \in Seq(Values) /\ Len(prev[k]) = Len(ops[k].buf)
  <2>1. PICK op \in Op : op = ops[k]
    BY FirstOp
  <2>2. prev[k] = [j \in DOMAIN op.buf |-> cache[op.off + j - 1]]
    BY <1>3, <1>4, <2>1
  <2>3. prev[k] \in Seq(Values) /\ Len(prev[k]) = Len(op.buf)
    BY <2>2, ReadCells
  <2>4. prev[k] = [j \in DOMAIN ops[k].buf |-> cache[ops[k].off + j - 1]]
    BY <1>3, <1>4
  <2>5. Len(op.buf) = Len(ops[k].buf)
    BY <2>1
  <2>6. prev[k] \in Seq(Values)
    BY <2>3
  <2>7. Len(prev[k]) = Len(ops[k].buf)
    BY <2>3, <2>5, Zenon
  <2> QED  BY <2>4, <2>6, <2>7, Zenon
<1>7. PrevOf(f) = [k \in 1 .. Len(f.ops) |-> PrevOf(f)[k]]
  BY <1>1, <1>4, <1>5
<1>8. ASSUME NEW k \in 1 .. Len(f.ops)
      PROVE  /\ PrevOf(f)[k] = [j \in DOMAIN f.ops[k].buf |-> cache[f.ops[k].off + j - 1]]
             /\ PrevOf(f)[k] \in Seq(Values) /\ Len(PrevOf(f)[k]) = Len(f.ops[k].buf)
  <2>1. k \in 1 .. Len(ops) /\ PrevOf(f)[k] = prev[k] /\ f.ops[k] = ops[k]
    BY <1>1, <1>4
  <2> QED  BY <1>6, <2>1, Zenon
<1> QED  BY <1>7, <1>8, Zenon

LEMMA FillFileTyped ==
  ASSUME IdInv, TypedInv, NEW th \in Threads, FillFile(th)
  PROVE  TypedThread(th)'
<1>1. /\ Moves(th) /\ cur[th].kind \in CallKinds /\ cur'[th].held = cur[th].held
      /\ cur'[th].retval = cur[th].retval /\ cur'[th].pc = "trailer" /\ cur'[th].k = cur[th].k
      /\ cur'[th].prev = PrevOf(cur[th])
  BY FillFileDoes
<1>2. saved' = saved /\ plocks' = plocks
  BY DEF FillFile, procVars
<1>3. PICK f : f = cur[th]
  OBVIOUS
<1>4. f.ops \in OpLists /\ f.k \in 1 .. Len(f.ops) /\ TypedData
  BY <1>1, <1>3, CallOps DEF TypedInv
<1>5. "NOROLLBACK" \notin f.flags => PrevOK(cur[th])'
  <2> SUFFICES ASSUME "NOROLLBACK" \notin f.flags PROVE PrevOK(cur[th])'
    OBVIOUS
  <2>1. PICK prev : prev = PrevOf(f)
    OBVIOUS
  <2>2. /\ prev = [k \in 1 .. Len(f.ops) |-> prev[k]]
        /\ \A k \in 1 .. Len(f.ops) : prev[k] \in Seq(Values) /\ Len(prev[k]) = Len(f.ops[k].buf)
    BY <1>4, <2>1, PrevOfIs
  <2>3. cur'[th].prev = prev /\ cur'[th].ops = f.ops
    BY <1>1, <1>3, <2>1 DEF Moves
  <2> QED  BY <2>2, <2>3 DEF PrevOK
<1>6. OpsOK(cur[th])'
  <2>1. cur[th].pc = "fill" /\ OpsOK(cur[th])
    BY <1>1, FillFileDoes DEF TypedInv, TypedThread
  <2>2. HasWrites(cur[th])
    BY <2>1 DEF OpsOK, Filling
  <2>3. cur'[th].ops = cur[th].ops /\ cur'[th].flags = cur[th].flags
    BY <1>1 DEF Moves
  <2>4. HasWrites(cur[th])'
    BY <2>2, <2>3, SameWrites
  <2>5. cur'[th].ops \in OpLists /\ cur'[th].k \in 1 .. Len(cur'[th].ops)
    BY <1>1, <1>3, <1>4, <2>3
  <2>6. "NOROLLBACK" \notin cur'[th].flags => PrevOK(cur[th])'
    BY <1>3, <1>5, <2>3
  <2> QED  BY <2>4, <2>5, <2>6 DEF OpsOK
<1>7. TypedThread(th)
  BY DEF TypedInv
<1>8. saved'[th] = saved[th] /\ plocks'[ProcOf[th]] = plocks[ProcOf[th]] /\ cur'[th].kind = cur[th].kind
  BY <1>1, <1>2 DEF Moves
<1>9. cur'[th].pc \in PCs
  BY <1>1 DEF PCs
<1> QED  BY <1>1, <1>6, <1>7, <1>8, <1>9 DEF TypedThread

-----------------------------------------------------------------------------
(* The rollback.                                                           *)

\* A list has writes when it has a write operation.
LEMMA WritesSome ==
  ASSUME NEW S, NEW s \in Seq(S)
  PROVE  Writes(s) # <<>> <=> \E m \in 1 .. Len(s) : IsWrite(s[m])
<1>1. PICK v \in Seq(S) : v = Writes(s)
  BY WritesPick
<1>2. PICK e : Picks(s, Len(s), v, e)
  BY <1>1, WritesPick
<1>3. ASSUME v # <<>> PROVE \E m \in 1 .. Len(s) : IsWrite(s[m])
  <2>1. 1 \in 1 .. Len(v)
    BY <1>3
  <2>2. e[1] \in 1 .. Len(s) /\ IsWrite(s[e[1]])
    BY <1>2, <2>1 DEF Picks
  <2> QED  BY <2>2
<1>4. ASSUME NEW m \in 1 .. Len(s), IsWrite(s[m]) PROVE v # <<>>
  <2>1. PICK j \in 1 .. Len(v) : e[j] = m
    BY <1>2, <1>4 DEF Picks
  <2> QED  BY <2>1
<1> QED  BY <1>1, <1>3, <1>4

\* All that is in Writes(s) is a write.
LEMMA WritesAgain ==
  ASSUME NEW S, NEW s \in Seq(S), Writes(s) # <<>>
  PROVE  Writes(Writes(s)) # <<>>
<1>1. PICK v \in Seq(S) : v = Writes(s)
  BY WritesPick
<1>2. PICK e : Picks(s, Len(s), v, e)
  BY <1>1, WritesPick
<1>3. 1 \in 1 .. Len(v)
  BY <1>1
<1>4. IsWrite(v[1])
  BY <1>2, <1>3 DEF Picks
<1> QED  BY <1>1, <1>3, <1>4, WritesSome

LEMMA WritesTyped ==
  ASSUME NEW ops \in OpLists, Writes(ops) # <<>>
  PROVE  Writes(ops) \in OpLists
  BY FirstOp, WritesPick DEF OpLists

\* The operations of the rollback, before the reads are left out: operation k
\* puts back what operation n + 1 - k has replaced.
Undo(f) ==
  [k \in 1 .. Len(f.ops) |->
     [f.ops[Len(f.ops) + 1 - k] EXCEPT !.buf = f.prev[Len(f.ops) + 1 - k]]]

LEMMA UndoIs ==
  ASSUME NEW f, f.ops \in OpLists, PrevOK(f)
  PROVE  /\ UndoOps(f) = Writes(Undo(f))
         /\ Undo(f) \in Seq(Op) /\ Len(Undo(f)) = Len(f.ops) /\ Len(f.ops) \in Nat
         /\ \A k \in 1 .. Len(f.ops) :
              LET m == Len(f.ops) + 1 - k IN
              /\ m \in 1 .. Len(f.ops)
              /\ Undo(f)[k].dir = f.ops[m].dir /\ Undo(f)[k].off = f.ops[m].off
              /\ Undo(f)[k].buf = f.prev[m] /\ CellsOf(Undo(f)[k]) = CellsOf(f.ops[m])
<1>1. PICK n \in Nat : n = Len(f.ops)
  BY FirstOp
<1>2. ASSUME NEW m \in 1 .. n
      PROVE  /\ f.ops[m] \in Op /\ f.prev[m] \in Seq(Values)
             /\ Len(f.prev[m]) = Len(f.ops[m].buf)
  BY <1>1, FirstOp DEF PrevOK
<1>3. PICK u : u = Undo(f)
  OBVIOUS
<1>4. u = [k \in 1 .. n |-> [f.ops[n + 1 - k] EXCEPT !.buf = f.prev[n + 1 - k]]]
  BY <1>1, <1>3 DEF Undo
<1>5. ASSUME NEW k \in 1 .. n, NEW m, m = n + 1 - k
      PROVE  /\ m \in 1 .. n /\ u[k] \in Op
             /\ u[k].dir = f.ops[m].dir /\ u[k].off = f.ops[m].off /\ u[k].buf = f.prev[m]
             /\ CellsOf(u[k]) = CellsOf(f.ops[m])
  <2>1. m \in 1 .. n
    BY <1>5
  <2>2. PICK op \in Op : op = f.ops[m]
    BY <1>2, <2>1
  <2>3. PICK buf \in Seq(Values) : buf = f.prev[m] /\ Len(buf) = Len(op.buf)
    BY <1>2, <2>1, <2>2
  <2>4. u[k] = [op EXCEPT !.buf = buf]
    BY <1>4, <1>5, <2>2, <2>3
  <2>5. /\ u[k] \in [dir : {"R", "W"}, off : Nat, buf : Seq(Values)]
        /\ u[k].dir = op.dir /\ u[k].off = op.off /\ u[k].buf = buf
    BY <2>4 DEF Op
  <2>6. CellsOf(u[k]) = CellsOf(op) /\ CellsOf(op) \subseteq Cells
    BY <2>3, <2>5 DEF CellsOf, Op
  <2> QED  BY <2>1, <2>2, <2>3, <2>5, <2>6 DEF Op
<1>6. u \in Seq(Op) /\ Len(u) = n
  <2>1. u = [k \in 1 .. n |-> u[k]]
    BY <1>4
  <2>2. \A k \in 1 .. n : u[k] \in Op
    BY <1>5
  <2>3. u \in [1 .. n -> Op]
    BY <2>1, <2>2
  <2> QED  BY <2>3
<1>7. UndoOps(f) = Writes(u)
  BY <1>3 DEF UndoOps, Undo
<1> QED  BY <1>1, <1>3, <1>5, <1>6, <1>7

LEMMA UndoTyped ==
  ASSUME NEW f, f.ops \in OpLists, PrevOK(f), HasWrites(f)
  PROVE  UndoOps(f) \in OpLists /\ Writes(UndoOps(f)) # <<>>
<1>1. PICK ops \in Seq(Op) : ops = f.ops /\ Len(ops) \in Nat
  BY FirstOp
<1>2. PICK m \in 1 .. Len(ops) : IsWrite(ops[m])
  BY <1>1, WritesSome DEF HasWrites
<1>3. PICK u \in Seq(Op) : u = Undo(f) /\ Len(u) = Len(ops)
  BY <1>1, UndoIs
<1>4. PICK k \in 1 .. Len(ops) : m = Len(ops) + 1 - k
  <2>1. Len(ops) + 1 - m \in 1 .. Len(ops) /\ m = Len(ops) + 1 - (Len(ops) + 1 - m)
    BY <1>1
  <2> QED  BY <2>1
<1>5. IsWrite(u[k])
  BY <1>1, <1>2, <1>3, <1>4, UndoIs DEF IsWrite
<1>6. Writes(u) # <<>> /\ Writes(u) \in Seq(Op)
  BY <1>3, <1>5, WritesSome, WritesPick
<1>7. UndoOps(f) = Writes(u)
  BY <1>3, UndoIs
<1>8. Writes(Writes(u)) # <<>>
  BY <1>3, <1>6, WritesAgain
<1> QED  BY <1>6, <1>7, <1>8 DEF OpLists

\* rollback_exit, whatever has failed.
LEMMA RollbackCases ==
  ASSUME NEW th \in Threads, RollbackExit(th)
  PROVE  \/ /\ ~HasWrites(cur[th]) \/ "ROLLBACKING" \in cur[th].flags
            /\ Return(th, -1) /\ saved' = saved
         \/ /\ HasWrites(cur[th]) /\ "NOROLLBACK" \in cur[th].flags
            /\ Return(th, -2) /\ saved' = saved
         \/ /\ HasWrites(cur[th]) /\ "ROLLBACKING" \notin cur[th].flags
            /\ "NOROLLBACK" \notin cur[th].flags
            /\ saved' = [saved EXCEPT ![th] = [cur[th] EXCEPT !.k = 1]]
            /\ cur' = [cur EXCEPT ![th] = UndoFrame(cur[th])]
  BY DEF RollbackExit

\* The rollback is a commit of the undo operations, and keeps the frame.
LEMMA UndoDoes ==
  ASSUME IdInv, NEW th \in Threads,
         saved' = [saved EXCEPT ![th] = [cur[th] EXCEPT !.k = 1]],
         cur' = [cur EXCEPT ![th] = UndoFrame(cur[th])]
  PROVE  /\ cur' = [u \in Threads |-> cur'[u]] /\ saved' = [u \in Threads |-> saved'[u]]
         /\ \A u \in Threads : u # th => cur'[u] = cur[u] /\ saved'[u] = saved[u]
         /\ cur'[th].kind = "undo" /\ cur'[th].pc = "get_tid" /\ cur'[th].txn = cur[th].txn
         /\ cur'[th].ops = UndoOps(cur[th]) /\ cur'[th].tid = 0 /\ cur'[th].k = 1
         /\ cur'[th].flags = cur[th].flags \cup {"NOLOCK", "ROLLBACKING"}
         /\ cur'[th].held = {} /\ cur'[th].retval = -1
         /\ saved'[th].kind = cur[th].kind /\ saved'[th].txn = cur[th].txn
         /\ saved'[th].ops = cur[th].ops /\ saved'[th].flags = cur[th].flags
         /\ saved'[th].tid = cur[th].tid /\ saved'[th].held = cur[th].held /\ saved'[th].k = 1
<1>1. /\ cur = [u \in Threads |-> cur[u]] /\ saved = [u \in Threads |-> saved[u]]
      /\ IsFrame(cur[th])
  BY Framed
<1> DEFINE undo == UndoOps(cur[th])
           flags == cur[th].flags \cup {"NOLOCK", "ROLLBACKING"}
<1>2. cur' = [cur EXCEPT ![th] = Frame("undo", "get_tid", cur[th].txn, undo, flags)]
  BY DEF UndoFrame
<1> HIDE DEF undo, flags
<1>3. /\ cur' = [u \in Threads |-> cur'[u]]
      /\ \A u \in Threads : u # th => cur'[u] = cur[u]
      /\ cur'[th].kind = "undo" /\ cur'[th].pc = "get_tid" /\ cur'[th].txn = cur[th].txn
      /\ cur'[th].ops = undo /\ cur'[th].tid = 0 /\ cur'[th].k = 1
      /\ cur'[th].flags = flags /\ cur'[th].held = {} /\ cur'[th].retval = -1
  BY <1>1, <1>2 DEF Frame
<1>4. /\ saved' = [u \in Threads |-> saved'[u]]
      /\ \A u \in Threads : u # th => saved'[u] = saved[u]
      /\ saved'[th].kind = cur[th].kind /\ saved'[th].txn = cur[th].txn
      /\ saved'[th].ops = cur[th].ops /\ saved'[th].flags = cur[th].flags
      /\ saved'[th].tid = cur[th].tid /\ saved'[th].held = cur[th].held /\ saved'[th].k = 1
  BY <1>1 DEF IsFrame
<1> QED  BY <1>3, <1>4 DEF undo, flags

LEMMA RollbackTyped ==
  ASSUME IdInv, TypedInv, NEW th \in Threads, OpFails(th) \/ SyncDataFails(th)
  PROVE  TypedThread(th)'
<1>1. cur[th].pc \in {"apply", "sync"} /\ RollbackExit(th) /\ plocks' = plocks
  BY DEF OpFails, SyncDataFails, At, procVars
<1>2. cur[th].kind \in CallKinds /\ TypedThread(th)
  BY <1>1, CommitKind DEF CommitPCs, TypedInv
<1>3. ASSUME NEW rv \in {-1, -2}, Return(th, rv), saved' = saved PROVE TypedThread(th)'
  <2>1. rv \in -2 .. 1
    OBVIOUS
  <2> QED  BY <1>1, <1>3, <2>1, ReturnTyped
<1>4. ASSUME HasWrites(cur[th]), "NOROLLBACK" \notin cur[th].flags,
             saved' = [saved EXCEPT ![th] = [cur[th] EXCEPT !.k = 1]],
             cur' = [cur EXCEPT ![th] = UndoFrame(cur[th])]
      PROVE  TypedThread(th)'
  <2>1. cur[th].ops \in OpLists /\ PrevOK(cur[th])
    BY <1>1, <1>2, <1>4 DEF TypedThread, OpsOK, Applying
  <2>2. /\ cur'[th].kind = "undo" /\ cur'[th].pc = "get_tid"
        /\ cur'[th].ops = UndoOps(cur[th]) /\ cur'[th].k = 1
        /\ cur'[th].held = {} /\ cur'[th].retval = -1
        /\ saved'[th].ops = cur[th].ops /\ saved'[th].held = cur[th].held /\ saved'[th].k = 1
    BY <1>4, UndoDoes
  <2>3. cur'[th].ops \in OpLists /\ cur'[th].k \in 1 .. Len(cur'[th].ops)
    <3>1. PICK ops \in OpLists : ops = UndoOps(cur[th])
      BY <1>4, <2>1, UndoTyped
    <3> QED  BY <2>2, <3>1, FirstOp
  <2>4. OpsOK(cur[th])'
    <3>1. PICK ops : ops = UndoOps(cur[th]) /\ Writes(ops) # <<>>
      BY <1>4, <2>1, UndoTyped
    <3>2. cur'[th].ops = ops
      BY <2>2, <3>1
    <3>3. HasWrites(cur[th])'
      BY <3>1, <3>2 DEF HasWrites, Writes
    <3> QED  BY <2>2, <2>3, <3>3 DEF OpsOK, Recording, Applying
  <2>5. plocks'[ProcOf[th]] = plocks[ProcOf[th]] /\ cur'[th].pc \in PCs /\ cur'[th].retval \in -2 .. 1
    BY <1>1, <2>2 DEF PCs
  <2> QED  BY <1>2, <2>1, <2>2, <2>4, <2>5 DEF TypedThread
<1>5. ASSUME Return(th, -1), saved' = saved PROVE TypedThread(th)'
  <2> DEFINE rv == -1
  <2>1. Return(th, rv) /\ rv \in {-1, -2}
    BY <1>5
  <2> HIDE DEF rv
  <2> QED  BY <1>3, <1>5, <2>1
<1>6. ASSUME Return(th, -2), saved' = saved PROVE TypedThread(th)'
  <2> DEFINE rv == -2
  <2>1. Return(th, rv) /\ rv \in {-1, -2}
    BY <1>6
  <2> HIDE DEF rv
  <2> QED  BY <1>3, <1>6, <2>1
<1> QED  BY <1>1, <1>4, <1>5, <1>6, RollbackCases

\* The commit that failed goes on where its rollback has left it.
LEMMA UndoReturnDoes ==
  ASSUME IdInv, NEW th \in Threads, UndoReturn(th)
  PROVE  /\ cur' = [u \in Threads |-> cur'[u]] /\ saved' = [u \in Threads |-> saved'[u]]
         /\ \A u \in Threads : u # th => cur'[u] = cur[u] /\ saved'[u] = saved[u]
         /\ cur[th].kind = "undo" /\ cur[th].pc = "unlock"
         /\ \/ cur[th].retval >= 0 /\ cur'[th].pc = "unlink" /\ cur'[th].retval = -1
            \/ ~ (cur[th].retval >= 0) /\ cur'[th].pc = "unlock" /\ cur'[th].retval = -2
         /\ cur'[th].kind = saved[th].kind /\ cur'[th].txn = saved[th].txn
         /\ cur'[th].ops = saved[th].ops /\ cur'[th].flags = saved[th].flags
         /\ cur'[th].tid = saved[th].tid /\ cur'[th].held = saved[th].held
         /\ cur'[th].k = saved[th].k /\ saved'[th] = Idle
         /\ saved[th].kind \in CallKinds \ {"undo"}
<1>1. /\ cur = [u \in Threads |-> cur[u]] /\ saved = [u \in Threads |-> saved[u]]
      /\ IsFrame(saved[th])
  BY Framed
<1>2. cur[th].kind = "undo" /\ cur[th].pc = "unlock" /\ saved[th].kind \in CallKinds \ {"undo"}
  BY DEF UndoReturn, At, IdInv, ThreadOK, CallOK
<1>3. /\ saved' = [u \in Threads |-> saved'[u]] /\ saved'[th] = Idle
      /\ \A u \in Threads : u # th => saved'[u] = saved[u]
  BY <1>1 DEF UndoReturn
<1> DEFINE pc == IF cur[th].retval >= 0 THEN "unlink" ELSE "unlock"
           rv == IF cur[th].retval >= 0 THEN -1 ELSE -2
<1>4. cur' = [cur EXCEPT ![th] = [saved[th] EXCEPT !.pc = pc, !.retval = rv]]
  BY DEF UndoReturn
<1> HIDE DEF pc, rv
<1>5. /\ cur' = [u \in Threads |-> cur'[u]]
      /\ \A u \in Threads : u # th => cur'[u] = cur[u]
      /\ cur'[th].pc = pc /\ cur'[th].retval = rv
      /\ cur'[th].kind = saved[th].kind /\ cur'[th].txn = saved[th].txn
      /\ cur'[th].ops = saved[th].ops /\ cur'[th].flags = saved[th].flags
      /\ cur'[th].tid = saved[th].tid /\ cur'[th].held = saved[th].held
      /\ cur'[th].k = saved[th].k
  BY <1>1, <1>4 DEF IsFrame
<1>6. \/ cur[th].retval >= 0 /\ cur'[th].pc = "unlink" /\ cur'[th].retval = -1
      \/ ~ (cur[th].retval >= 0) /\ cur'[th].pc = "unlock" /\ cur'[th].retval = -2
  BY <1>5 DEF pc, rv
<1> QED  BY <1>2, <1>3, <1>5, <1>6

LEMMA UndoReturnTyped ==
  ASSUME IdInv, TypedInv, NEW th \in Threads, UndoReturn(th)
  PROVE  TypedThread(th)'
<1>1. /\ cur[th].kind = "undo" /\ cur'[th].pc \in {"unlink", "unlock"} /\ cur'[th].retval \in {-1, -2}
      /\ cur'[th].kind = saved[th].kind /\ saved[th].kind # "undo"
      /\ cur'[th].ops = saved[th].ops /\ cur'[th].held = saved[th].held
      /\ cur'[th].k = saved[th].k /\ saved'[th] = Idle
  BY UndoReturnDoes
<1>2. TypedThread(th) /\ saved[th].ops \in OpLists /\ saved[th].k = 1
  BY <1>1 DEF TypedInv, TypedThread
<1>3. cur'[th].ops \in OpLists /\ cur'[th].k \in 1 .. Len(cur'[th].ops)
  <2>1. PICK ops \in OpLists : ops = saved[th].ops
    BY <1>2
  <2> QED  BY <1>1, <1>2, <2>1, FirstOp
<1>4. OpsOK(cur[th])'
  BY <1>1, <1>3 DEF OpsOK, Filling, Recording, Applying
<1>5. plocks' = plocks /\ Idle.held = {}
  BY DEF UndoReturn, procVars, Idle, Frame
<1> QED  BY <1>1, <1>2, <1>4, <1>5 DEF TypedThread, PCs

-----------------------------------------------------------------------------
(* The ends and the beginnings of calls.                                   *)

LEMMA ReturnsDo ==
  ASSUME IdInv, NEW th \in Threads, cur[th].kind # "undo", cur[th].pc # "idle",
         cur' = [cur EXCEPT ![th] = Idle], saved' = saved
  PROVE  /\ cur'[th] = Idle /\ saved'[th] = Idle /\ saved[th] = Idle
         /\ \A u \in Threads : u # th => cur'[u] = cur[u] /\ saved'[u] = saved[u]
<1>1. cur = [u \in Threads |-> cur[u]]
  BY Framed
<1>2. saved[th] = Idle
  BY DEF IdInv, ThreadOK, CallOK
<1> QED  BY <1>1, <1>2

LEMMA ReturnsTyped ==
  ASSUME IdInv, TypedInv, NEW th \in Threads,
         \/ CommitReturn(th) \/ jsyncReturn(th) \/ jcloseReturn(th)
         \/ FsckCommitReturn /\ th = Checker
  PROVE  /\ TypedThread(th)' /\ cur'[th] = Idle /\ saved'[th] = Idle
         /\ \A u \in Threads : u # th => cur'[u] = cur[u] /\ saved'[u] = saved[u]
<1>1. /\ cur[th].kind # "undo" /\ cur[th].pc # "idle"
      /\ cur' = [cur EXCEPT ![th] = Idle] /\ saved' = saved
  BY DEF CommitReturn, jsyncReturn, jcloseReturn, FsckCommitReturn, At
<1> QED  BY <1>1, ReturnsDo, TypedIdle

\* A call begins with its operations, if any, at the first of them.
LEMMA NewFrame ==
  ASSUME NEW kind, NEW pc, NEW t, NEW ops, NEW flags, NEW f,
         f = Frame(kind, pc, t, ops, flags)
  PROVE  /\ f.kind = kind /\ f.pc = pc /\ f.txn = t /\ f.ops = ops /\ f.flags = flags
         /\ f.tid = 0 /\ f.k = 1 /\ f.held = {} /\ f.retval = -1
  BY DEF Frame

LEMMA NewCall ==
  ASSUME IdInv, NEW th \in Threads, NEW f, cur' = [cur EXCEPT ![th] = f]
  PROVE  cur'[th] = f /\ \A u \in Threads : u # th => cur'[u] = cur[u]
<1>1. cur = [u \in Threads |-> cur[u]]
  BY Framed
<1> QED  BY <1>1

LEMMA CallTyped ==
  ASSUME IdInv, TypedInv, NEW th \in Threads, cur[th].pc = "idle",
         NEW kind, NEW pc, NEW t, NEW ops, NEW flags,
         cur'[th] = Frame(kind, pc, t, ops, flags), saved' = saved,
         \/ kind \in {"commit", "redo"} /\ pc = "lock" /\ ops \in OpLists
         \/ kind \in SyncKinds /\ pc = "fdatasync"
  PROVE  TypedThread(th)' /\ cur'[th].kind = kind
<1>0. PICK f : f = Frame(kind, pc, t, ops, flags) /\ cur'[th] = f
  OBVIOUS
<1>1. /\ cur'[th].kind = kind /\ cur'[th].pc = pc /\ cur'[th].ops = ops /\ cur'[th].k = 1
      /\ cur'[th].held = {} /\ cur'[th].retval = -1
  BY <1>0, NewFrame
<1>2. saved'[th].held = {}
  <2>1. cur[th].kind # "undo"
    BY IdleFrame DEF IdInv, ThreadOK, CallOK
  <2>2. saved[th] = Idle
    BY <2>1 DEF IdInv, ThreadOK, CallOK
  <2> QED  BY <2>2 DEF Idle, Frame
<1>3. CASE kind \in {"commit", "redo"} /\ pc = "lock" /\ ops \in OpLists
  <2>1. 1 \in 1 .. Len(ops)
    BY <1>3, FirstOp
  <2>2. OpsOK(cur[th])'
    BY <1>1, <1>3, <2>1 DEF OpsOK, Filling, Recording, Applying
  <2> QED  BY <1>1, <1>2, <1>3, <2>2 DEF TypedThread, PCs
<1>4. CASE kind \in SyncKinds /\ pc = "fdatasync"
  BY <1>1, <1>2, <1>4 DEF TypedThread, PCs, SyncKinds, CallKinds
<1> QED  BY <1>3, <1>4

LEMMA SeqWider ==
  ASSUME NEW S, NEW T, S \subseteq T, NEW s \in Seq(S)
  PROVE  s \in Seq(T)
<1>1. Len(s) \in Nat /\ s \in [1 .. Len(s) -> S]
  OBVIOUS
<1>2. s \in [1 .. Len(s) -> T]
  BY <1>1
<1> QED  BY <1>1, <1>2

\* The operations of a transaction.
LEMMA TxnOps ==
  ASSUME NEW t \in Txns
  PROVE  Ops[t] \in OpLists /\ Flags[t] \subseteq {"LINGER", "NOROLLBACK"}
<1>1. PICK ops : ops = Ops[t]
  OBVIOUS
<1>2. /\ ops \in Seq([dir : {"R", "W"}, off : Nat, buf : Seq(Txns)]) /\ ops # <<>>
      /\ \A k \in DOMAIN ops : CellsOf(ops[k]) \subseteq Cells
      /\ Flags[t] \subseteq {"LINGER", "NOROLLBACK"}
  BY <1>1, OpsAssumption
<1>3. Len(ops) \in Nat /\ DOMAIN ops = 1 .. Len(ops)
  BY <1>2
<1>4. ASSUME NEW k \in 1 .. Len(ops) PROVE ops[k] \in Op
  <2>1. PICK op \in [dir : {"R", "W"}, off : Nat, buf : Seq(Txns)] : op = ops[k]
    <3> DEFINE S == [dir : {"R", "W"}, off : Nat, buf : Seq(Txns)]
    <3>1. ops \in Seq(S)
      BY <1>2
    <3> HIDE DEF S
    <3>2. ops[k] \in S
      BY <3>1
    <3> QED  BY <3>2 DEF S
  <2>2. op.buf \in Seq(Values)
    BY <2>1, SeqWider DEF Values
  <2>3. CellsOf(op) \subseteq Cells
    BY <1>2, <1>3, <2>1
  <2>4. op \in [dir : {"R", "W"}, off : Nat, buf : Seq(Values)]
    BY <2>1, <2>2
  <2> QED  BY <2>1, <2>3, <2>4 DEF Op
<1>5. ops = [k \in 1 .. Len(ops) |-> ops[k]]
  BY <1>2
<1>6. ops \in [1 .. Len(ops) -> Op]
  BY <1>4, <1>5
<1>7. ops \in Seq(Op)
  BY <1>3, <1>6
<1> QED  BY <1>1, <1>2, <1>7 DEF OpLists

LEMMA CallsTyped ==
  ASSUME IdInv, TypedInv, NEW th \in Threads, Call(th)
  PROVE  /\ TypedThread(th)' /\ cur'[th].kind # "redo" /\ cur[th].pc = "idle"
         /\ saved' = saved /\ \A u \in Threads : u # th => cur'[u] = cur[u]
<1>1. ASSUME NEW t \in Txns, jtrans_commit(th, t)
      PROVE  /\ TypedThread(th)' /\ cur'[th].kind # "redo" /\ cur[th].pc = "idle"
             /\ saved' = saved /\ \A u \in Threads : u # th => cur'[u] = cur[u]
  <2> DEFINE kind == "commit"
             pc == "lock"
  <2>1. /\ cur[th].pc = "idle" /\ saved' = saved
        /\ cur' = [cur EXCEPT ![th] = Frame(kind, pc, t, Ops[t], Flags[t])]
        /\ kind \in {"commit", "redo"} /\ pc = "lock" /\ kind # "redo"
    BY <1>1 DEF jtrans_commit, At
  <2> HIDE DEF kind, pc
  <2>2. /\ cur'[th] = Frame(kind, pc, t, Ops[t], Flags[t])
        /\ \A u \in Threads : u # th => cur'[u] = cur[u]
    BY <2>1, NewCall
  <2>3. Ops[t] \in OpLists
    BY TxnOps
  <2> QED  BY <2>1, <2>2, <2>3, CallTyped
<1>2. ASSUME jsync(th) \/ jclose(th)
      PROVE  /\ TypedThread(th)' /\ cur'[th].kind # "redo" /\ cur[th].pc = "idle"
             /\ saved' = saved /\ \A u \in Threads : u # th => cur'[u] = cur[u]
  <2> DEFINE pc == "fdatasync"
             ops == <<>>
             flags == {}
  <2>1. PICK kind \in SyncKinds : cur' = [cur EXCEPT ![th] = Frame(kind, pc, NoTxn, ops, flags)]
    BY <1>2 DEF jsync, jclose, SyncFrame, SyncKinds
  <2>2. cur[th].pc = "idle" /\ saved' = saved /\ pc = "fdatasync" /\ kind # "redo"
    <3>1. CASE jsync(th)
      BY <3>1 DEF jsync, At, SyncKinds
    <3>2. CASE jclose(th)
      BY <3>2 DEF jclose, At, ThreadsOf, SyncKinds
    <3> QED  BY <1>2, <3>1, <3>2
  <2> HIDE DEF pc, ops, flags
  <2>3. /\ cur'[th] = Frame(kind, pc, NoTxn, ops, flags)
        /\ \A u \in Threads : u # th => cur'[u] = cur[u]
    BY <2>1, NewCall
  <2> QED  BY <2>2, <2>3, CallTyped
<1> QED  BY <1>1, <1>2 DEF Call

\* What a step does to the frames: it goes on in the call, begins a rollback,
\* returns from one, or returns from the call.
LEMMA StepKinds ==
  ASSUME IdInv, TypedInv, NEW th \in Threads, Step(th)
  PROVE  \/ Moves(th) /\ saved' = saved
         \/ /\ cur[th].kind \in CallKinds
            /\ saved' = [saved EXCEPT ![th] = [cur[th] EXCEPT !.k = 1]]
            /\ cur' = [cur EXCEPT ![th] = UndoFrame(cur[th])]
         \/ UndoReturn(th)
         \/ CommitReturn(th) \/ jsyncReturn(th) \/ jcloseReturn(th)
<1>1. CASE LockRange(th)
  <2>1. saved' = saved
    BY <1>1 DEF LockRange
  <2> QED  BY <1>1, <2>1, LockRangeDoes
<1>2. CASE OpFails(th) \/ SyncDataFails(th)
  <2>1. RollbackExit(th) /\ cur[th].kind \in CallKinds
    BY <1>2, CommitKind DEF OpFails, SyncDataFails, At, CommitPCs
  <2>2. CASE saved' = saved /\ \E rv \in {-1, -2} : Return(th, rv)
    BY <2>2, ReturnStays DEF Stays
  <2>3. CASE ~ (saved' = saved /\ \E rv \in {-1, -2} : Return(th, rv))
    BY <2>1, <2>3, RollbackCases
  <2> QED  BY <2>2, <2>3
<1>3. CASE FillFile(th)
  <2>1. saved' = saved
    BY <1>3 DEF FillFile
  <2> QED  BY <1>3, <2>1, FillFileDoes
<1>4. CASE \/ get_tid_read(th) \/ get_tid_write(th) \/ free_tid_read(th) \/ free_tid_write(th)
           \/ NextLinger(th)
  <2>1. saved' = saved
    BY <1>4 DEF get_tid_read, get_tid_write, free_tid_read, free_tid_write, NextLinger
  <2> QED  BY <1>4, <2>1, TidStays, NextLingerStays DEF Stays
<1>5. CASE ReadOp(th) \/ WriteOp(th)
  <2>1. saved' = saved /\ NextOp(th)
    BY <1>5 DEF ReadOp, WriteOp
  <2> QED  BY <2>1, NextOpStays DEF Stays
<1>6. CASE NothingToSync(th) \/ Linger(th) \/ SyncData(th)
  <2>1. saved' = saved /\ \E pc \in {"unlock", "unlink"} : SyncDone(th, pc)
    BY <1>6 DEF NothingToSync, Linger, SyncData
  <2> QED  BY <2>1, SyncDoneStays DEF Stays
<1>7. CASE \/ LockDeadlock(th) \/ journal_new_broken(th) \/ OpenFails(th) \/ FillFails(th)
           \/ SyncFileFails(th) \/ SyncAllFails(th) \/ MarkBroken(th)
  <2>1. saved' = saved /\ \E rv \in {-1, -2} : Return(th, rv)
    BY <1>7 DEF LockDeadlock, journal_new_broken, OpenFails, FillFails, SyncFileFails,
         SyncAllFails, MarkBroken
  <2> QED  BY <2>1, ReturnStays DEF Stays
<1>8. CASE \/ HeaderFails(th) \/ CommitFile(th) \/ SyncFile(th) \/ UnlinkFile(th) \/ SyncDir(th)
           \/ SyncAll(th) \/ TakeLtlock(th)
  <2>1. saved' = saved /\ \E pc \in PCs : Goto(th, pc)
    BY <1>8 DEF HeaderFails, CommitFile, SyncFile, UnlinkFile, SyncDir, SyncAll, TakeLtlock, PCs
  <2> QED  BY <2>1, GotoStays DEF Stays
<1> QED  BY <1>1, <1>2, <1>3, <1>4, <1>5, <1>6, <1>7, <1>8 DEF Step, Commit, Sync

LEMMA StepPlocks ==
  ASSUME NEW th \in Threads, Step(th)
  PROVE  \/ plocks' = plocks
         \/ LockRange(th)
         \/ CommitReturn(th) /\ plocks' = [plocks EXCEPT ![ProcOf[th]] = @ \ cur[th].held]
<1>1. CASE CommitReturn(th)
  BY <1>1 DEF CommitReturn, Unlock
<1>2. ASSUME \/ LockDeadlock(th)
             \/ journal_new_broken(th) \/ get_tid_read(th) \/ get_tid_write(th)
             \/ FillFile(th) \/ OpenFails(th) \/ HeaderFails(th) \/ FillFails(th)
             \/ CommitFile(th) \/ SyncFile(th) \/ SyncFileFails(th)
             \/ ReadOp(th) \/ WriteOp(th) \/ OpFails(th)
             \/ NothingToSync(th) \/ Linger(th) \/ SyncData(th) \/ SyncDataFails(th)
      PROVE  plocks' = plocks
  BY <1>2 DEF LockDeadlock, journal_new_broken, get_tid_read, get_tid_write, FillFile,
       OpenFails, HeaderFails, FillFails, CommitFile, SyncFile, SyncFileFails, ReadOp, WriteOp,
       OpFails, NothingToSync, Linger, SyncData, SyncDataFails, procVars
<1>3. ASSUME \/ UnlinkFile(th) \/ SyncDir(th) \/ MarkBroken(th)
             \/ free_tid_read(th) \/ free_tid_write(th) \/ UndoReturn(th)
             \/ SyncAll(th) \/ SyncAllFails(th) \/ TakeLtlock(th) \/ NextLinger(th)
             \/ jsyncReturn(th) \/ jcloseReturn(th)
      PROVE  plocks' = plocks
  BY <1>3 DEF UnlinkFile, SyncDir, MarkBroken, free_tid_read, free_tid_write, UndoReturn, SyncAll,
       SyncAllFails, TakeLtlock, NextLinger, jsyncReturn, jcloseReturn, procVars
<1> QED  BY <1>1, <1>2, <1>3 DEF Step, Commit, Sync

\* The threads of other processes, and their locks, are left alone.
Elsewhere(th) ==
  /\ \A u \in Threads : u # th => cur'[u] = cur[u] /\ saved'[u] = saved[u]
  /\ \A p \in Procs : p # ProcOf[th] => plocks'[p] = plocks[p]

LEMMA StepElsewhere ==
  ASSUME IdInv, TypedInv, NEW th \in Threads, Step(th)
  PROVE  Elsewhere(th)
<1>1. \A u \in Threads : u # th => cur'[u] = cur[u] /\ saved'[u] = saved[u]
  <2>1. CASE Moves(th) /\ saved' = saved
    BY <2>1 DEF Moves
  <2>2. CASE /\ saved' = [saved EXCEPT ![th] = [cur[th] EXCEPT !.k = 1]]
             /\ cur' = [cur EXCEPT ![th] = UndoFrame(cur[th])]
    BY <2>2, UndoDoes
  <2>3. CASE UndoReturn(th)
    BY <2>3, UndoReturnDoes
  <2>4. CASE CommitReturn(th) \/ jsyncReturn(th) \/ jcloseReturn(th)
    BY <2>4, ReturnsTyped
  <2> QED  BY <2>1, <2>2, <2>3, <2>4, StepKinds
<1>2. \A p \in Procs : p # ProcOf[th] => plocks'[p] = plocks[p]
  <2>1. plocks \in [Procs -> SUBSET Cells]
    BY DEF TypedInv, TypedLocks
  <2>2. CASE LockRange(th)
    <3>1. plocks' = [plocks EXCEPT ![ProcOf[th]] = plocks[ProcOf[th]] \cup Wanted(th)]
      BY <2>2 DEF LockRange
    <3> QED  BY <2>1, <3>1
  <2>3. CASE plocks' = [plocks EXCEPT ![ProcOf[th]] = @ \ cur[th].held]
    BY <2>1, <2>3
  <2> QED  BY <2>2, <2>3, StepPlocks
<1> QED  BY <1>1, <1>2 DEF Elsewhere

-----------------------------------------------------------------------------
(* The data.                                                               *)

\* What a write does to each cell.
LEMMA WriteDoes ==
  ASSUME TypedData, NEW op \in Op, NEW osync, pwrite(op, osync)
  PROVE  /\ cache' = [c \in Cells |-> cache'[c]] /\ stable' = [c \in Cells |-> stable'[c]]
         /\ \A c \in Cells :
              IF c \in CellsOf(op)
              THEN /\ cache'[c] = op.buf[c - op.off + 1] /\ cache'[c] \in Values
                   /\ \/ stable'[c] = {cache'[c]}
                      \/ stable'[c] = stable[c] \cup {cache'[c], Garbage}
              ELSE cache'[c] = cache[c] /\ stable'[c] = stable[c]
<1>1. cache' = AppliedOps(<<op>>, cache)
  BY DEF pwrite
<1>2. cache' = [c \in Cells |-> IF c \in CellsOf(op) THEN op.buf[c - op.off + 1] ELSE cache[c]]
  BY <1>1, AppliedOne
<1>3. stable' = [c \in Cells |->
         IF c \notin CellsOf(op) THEN stable[c]
         ELSE IF osync THEN {cache'[c]} ELSE stable[c] \cup {cache'[c], Garbage}]
  BY DEF pwrite
<1>4. ASSUME NEW c \in Cells
      PROVE  IF c \in CellsOf(op)
             THEN /\ cache'[c] = op.buf[c - op.off + 1] /\ cache'[c] \in Values
                  /\ \/ stable'[c] = {cache'[c]}
                     \/ stable'[c] = stable[c] \cup {cache'[c], Garbage}
             ELSE cache'[c] = cache[c] /\ stable'[c] = stable[c]
  <2>1. CASE c \in CellsOf(op)
    <3>1. cache'[c] = op.buf[c - op.off + 1] /\ op.buf[c - op.off + 1] \in Values
      BY <1>2, <2>1, ValueTyped
    <3>2. stable'[c] = IF osync THEN {cache'[c]} ELSE stable[c] \cup {cache'[c], Garbage}
      BY <1>3, <2>1
    <3> QED  BY <2>1, <3>1, <3>2
  <2>2. CASE c \notin CellsOf(op)
    <3>1. cache'[c] = cache[c]
      BY <1>2, <2>2
    <3>2. stable'[c] = stable[c]
      BY <1>3, <2>2
    <3> QED  BY <2>2, <3>1, <3>2
  <2> QED  BY <2>1, <2>2
<1>5. cache' = [c \in Cells |-> cache'[c]]
  BY <1>2
<1>6. stable' = [c \in Cells |-> stable'[c]]
  BY <1>3
<1> QED  BY <1>4, <1>5, <1>6

LEMMA WriteTyped ==
  ASSUME TypedData, NEW op \in Op, NEW osync, pwrite(op, osync)
  PROVE  TypedData'
<1>1. Garbage \in Values
  BY DEF Values
<1>2. ASSUME NEW c \in Cells
      PROVE  cache'[c] \in Values /\ stable'[c] \subseteq Values /\ cache'[c] \in stable'[c]
  <2>1. cache[c] \in Values /\ stable[c] \subseteq Values /\ cache[c] \in stable[c]
    BY DEF TypedData
  <2>2. CASE c \in CellsOf(op)
    <3>1. cache'[c] \in Values /\ (stable'[c] = {cache'[c]} \/ stable'[c] = stable[c] \cup {cache'[c], Garbage})
      BY <2>2, WriteDoes
    <3> QED  BY <1>1, <2>1, <3>1
  <2>3. CASE c \notin CellsOf(op)
    <3>1. cache'[c] = cache[c] /\ stable'[c] = stable[c]
      BY <2>3, WriteDoes
    <3> QED  BY <2>1, <3>1
  <2> QED  BY <2>2, <2>3
<1>3. cache' = [c \in Cells |-> cache'[c]] /\ stable' = [c \in Cells |-> stable'[c]]
  BY WriteDoes
<1>4. cache' \in [Cells -> Values]
  BY <1>2, <1>3
<1>5. stable' \in [Cells -> SUBSET Values]
  BY <1>2, <1>3
<1> QED  BY <1>2, <1>4, <1>5 DEF TypedData

LEMMA FirstPart ==
  ASSUME NEW S, NEW s \in Seq(S), NEW n \in Nat, n <= Len(s)
  PROVE  SubSeq(s, 1, n) \in Seq(S) /\ Len(SubSeq(s, 1, n)) = n
  OBVIOUS

\* What a write that fails has written: the first n bytes.
LEMMA PartOfOp ==
  ASSUME NEW op \in Op, NEW n \in 0 .. Len(op.buf) - 1
  PROVE  /\ [op EXCEPT !.buf = SubSeq(@, 1, n)] \in Op
         /\ CellsOf([op EXCEPT !.buf = SubSeq(@, 1, n)]) \subseteq CellsOf(op)
<1>1. op.off \in Nat /\ op.buf \in Seq(Values) /\ CellsOf(op) \subseteq Cells
      /\ op \in [dir : {"R", "W"}, off : Nat, buf : Seq(Values)]
  BY DEF Op
<1>3. PICK m \in Nat : m = Len(op.buf)
  BY <1>1
<1>2. PICK buf \in Seq(Values) : buf = SubSeq(op.buf, 1, n) /\ Len(buf) = n
  <2>1. PICK b \in Seq(Values) : b = op.buf
    BY <1>1
  <2>2. n \in Nat /\ n <= Len(b)
    BY <1>3, <2>1
  <2>3. SubSeq(b, 1, n) \in Seq(Values) /\ Len(SubSeq(b, 1, n)) = n
    BY <2>2, FirstPart
  <2> QED  BY <2>1, <2>3
<1>4. PICK part : part = [op EXCEPT !.buf = buf]
  OBVIOUS
<1>5. part \in [dir : {"R", "W"}, off : Nat, buf : Seq(Values)] /\ part.off = op.off /\ part.buf = buf
  BY <1>1, <1>4
<1>6. CellsOf(part) \subseteq CellsOf(op)
  BY <1>1, <1>2, <1>3, <1>5 DEF CellsOf
<1>7. [op EXCEPT !.buf = SubSeq(@, 1, n)] = part
  BY <1>1, <1>2, <1>4
<1> QED  BY <1>1, <1>5, <1>6, <1>7 DEF Op

\* A sync takes what is in the cache, in some cells.
LEMMA SyncTyped ==
  ASSUME TypedData, fdatasync \/ \E ranges : sync_file_range(ranges)
  PROVE  /\ TypedData' /\ cache' = cache
         /\ \A c \in Cells : stable'[c] \in {stable[c], {cache[c]}}
<1>1. /\ cache' = cache /\ stable' = [c \in Cells |-> stable'[c]]
      /\ \A c \in Cells : stable'[c] \in {stable[c], {cache[c]}}
  <2>1. CASE fdatasync
    BY <2>1 DEF fdatasync
  <2>2. ASSUME NEW ranges, sync_file_range(ranges)
        PROVE  /\ cache' = cache /\ stable' = [c \in Cells |-> stable'[c]]
               /\ \A c \in Cells : stable'[c] \in {stable[c], {cache[c]}}
    <3> DEFINE Synced(c) == \E r \in ranges : c >= r.offset /\ (r.nbytes = 0 \/ c < r.offset + r.nbytes)
    <3>1. cache' = cache /\ stable' = [c \in Cells |-> IF Synced(c) THEN {cache[c]} ELSE stable[c]]
      BY <2>2 DEF sync_file_range
    <3> HIDE DEF Synced
    <3>2. stable' = [c \in Cells |-> stable'[c]]
      BY <3>1
    <3>3. \A c \in Cells : stable'[c] \in {stable[c], {cache[c]}}
      BY <3>1
    <3> QED  BY <3>1, <3>2, <3>3
  <2> QED  BY <2>1, <2>2
<1>2. ASSUME NEW c \in Cells PROVE stable'[c] \subseteq Values /\ cache[c] \in stable'[c]
  BY <1>1 DEF TypedData
<1>3. stable' \in [Cells -> SUBSET Values]
  BY <1>1, <1>2
<1> QED  BY <1>1, <1>2, <1>3 DEF TypedData

LEMMA SameData ==
  ASSUME TypedData, UNCHANGED dataVars
  PROVE  TypedData'
  BY DEF TypedData, dataVars

\* The operation that a call is at.
LEMMA OpAt ==
  ASSUME IdInv, TypedInv, NEW th \in Threads, cur[th].pc \in CommitPCs
  PROVE  cur[th].ops[cur[th].k] \in Op
  BY CommitKind, CallOps

LEMMA StepData ==
  ASSUME IdInv, TypedInv, NEW th \in Threads, Step(th)
  PROVE  TypedData'
<1>1. TypedData
  BY DEF TypedInv
<1>2. CASE WriteOp(th)
  <2>1. cur[th].ops[cur[th].k] \in Op
    BY <1>2, OpAt DEF WriteOp, At, CommitPCs
  <2> QED  BY <1>1, <1>2, <2>1, WriteTyped DEF WriteOp
<1>3. CASE OpFails(th)
  <2>1. PICK op \in Op : op = cur[th].ops[cur[th].k]
    BY <1>3, OpAt DEF OpFails, At, CommitPCs
  <2>2. CASE \E n \in 0 .. Len(op.buf) - 1 : pwrite([op EXCEPT !.buf = SubSeq(@, 1, n)], th = Checker)
    <3>1. PICK n \in 0 .. Len(op.buf) - 1 : pwrite([op EXCEPT !.buf = SubSeq(@, 1, n)], th = Checker)
      BY <2>2
    <3>2. PICK part \in Op : part = [op EXCEPT !.buf = SubSeq(@, 1, n)]
      BY PartOfOp
    <3>3. pwrite(part, th = Checker)
      BY <3>1, <3>2
    <3> QED  BY <1>1, <3>3, WriteTyped
  <2>3. CASE UNCHANGED dataVars
    BY <1>1, <2>3, SameData
  <2> QED  BY <1>3, <2>1, <2>2, <2>3 DEF OpFails
<1>4. CASE SyncData(th) \/ SyncAll(th)
  <2>1. fdatasync \/ \E ranges : sync_file_range(ranges)
    BY <1>4 DEF SyncData, SyncAll
  <2> QED  BY <1>1, <2>1, SyncTyped
<1>5. ASSUME \/ LockRange(th) \/ LockDeadlock(th)
             \/ journal_new_broken(th) \/ get_tid_read(th) \/ get_tid_write(th)
             \/ FillFile(th) \/ OpenFails(th) \/ HeaderFails(th) \/ FillFails(th)
             \/ CommitFile(th) \/ SyncFile(th) \/ SyncFileFails(th)
             \/ ReadOp(th) \/ NothingToSync(th) \/ Linger(th) \/ SyncDataFails(th)
      PROVE  UNCHANGED dataVars
  BY <1>5 DEF LockRange, LockDeadlock, journal_new_broken, get_tid_read, get_tid_write, FillFile,
       OpenFails, HeaderFails, FillFails, CommitFile, SyncFile, SyncFileFails, ReadOp,
       NothingToSync, Linger, SyncDataFails, fileVars, dataVars
<1>6. ASSUME \/ UnlinkFile(th) \/ SyncDir(th) \/ MarkBroken(th)
             \/ free_tid_read(th) \/ free_tid_write(th) \/ CommitReturn(th) \/ UndoReturn(th)
             \/ SyncAllFails(th) \/ TakeLtlock(th) \/ NextLinger(th)
             \/ jsyncReturn(th) \/ jcloseReturn(th)
      PROVE  UNCHANGED dataVars
  BY <1>6 DEF UnlinkFile, SyncDir, MarkBroken, free_tid_read, free_tid_write, CommitReturn,
       UndoReturn, SyncAllFails, TakeLtlock, NextLinger, jsyncReturn, jcloseReturn, fileVars, dataVars
<1> QED  BY <1>1, <1>2, <1>3, <1>4, <1>5, <1>6, SameData DEF Step, Commit, Sync

-----------------------------------------------------------------------------
(* The transaction files.                                                  *)

\* One file changes, and the sets of what may be left of it or of others.
LEMMA OneFileTyped ==
  ASSUME TypedFiles, NEW i, NEW x \in Contents, jf' = [jf EXCEPT ![i] = x],
         jstable' = [j \in Tids |-> jstable'[j]],
         \A j \in Tids : j # i => jstable'[j] = jstable[j],
         i \in Tids => x \in jstable'[i] /\ jstable'[i] \subseteq Contents
  PROVE  TypedFiles'
<1>1. jf' \in [Tids -> Contents] /\ \A j \in Tids : jf'[j] = IF j = i THEN x ELSE jf[j]
  BY DEF TypedFiles
<1>2. \A j \in Tids : jstable'[j] \subseteq Contents /\ jf'[j] \in jstable'[j]
  BY <1>1 DEF TypedFiles
<1> QED  BY <1>1, <1>2 DEF TypedFiles

LEMMA AddedTyped ==
  ASSUME TypedFiles, NEW i, NEW x \in Contents, NEW S \in SUBSET Contents, x \in S,
         jf' = [jf EXCEPT ![i] = x], jstable' = [jstable EXCEPT ![i] = @ \cup S]
  PROVE  TypedFiles'
<1>1. /\ jstable' = [j \in Tids |-> jstable'[j]]
      /\ \A j \in Tids : jstable'[j] = IF j = i THEN jstable[j] \cup S ELSE jstable[j]
  BY DEF TypedFiles
<1>2. i \in Tids => x \in jstable'[i] /\ jstable'[i] \subseteq Contents
  BY <1>1 DEF TypedFiles
<1> QED  BY <1>1, <1>2, OneFileTyped

LEMMA FileOpsTyped ==
  ASSUME TypedFiles, NEW i,
         \/ CreateFile(i) \/ CreateAndUnlink(i) \/ unlink(i) \/ TruncateFile(i)
         \/ corrupt_journal_file(i)
         \/ \E ops \in OpLists : WriteTrailer(i, ops)
  PROVE  TypedFiles'
<1>0. Partial \in Contents /\ NoFile \in Contents /\ OpLists \subseteq Contents
  BY DEF Contents
<1>1. CASE CreateFile(i) \/ TruncateFile(i)
  <2>1. PICK S \in SUBSET Contents : S = {Partial}
    BY <1>0
  <2>2. jf' = [jf EXCEPT ![i] = Partial] /\ jstable' = [jstable EXCEPT ![i] = @ \cup S]
    BY <1>1, <2>1 DEF CreateFile, TruncateFile
  <2> QED  BY <1>0, <2>1, <2>2, AddedTyped
<1>2. CASE CreateAndUnlink(i)
  <2>1. PICK S \in SUBSET Contents : S = {Partial, NoFile} /\ NoFile \in S
    <3>1. {Partial, NoFile} \in SUBSET Contents /\ NoFile \in {Partial, NoFile}
      BY <1>0
    <3> QED  BY <3>1, Zenon
  <2>2. jf' = [jf EXCEPT ![i] = NoFile] /\ jstable' = [jstable EXCEPT ![i] = @ \cup S]
    <3>1. /\ jf' = [jf EXCEPT ![i] = NoFile]
          /\ jstable' = [jstable EXCEPT ![i] = jstable[i] \cup {Partial, NoFile}]
      BY <1>2 DEF CreateAndUnlink
    <3>2. jstable' = [jstable EXCEPT ![i] = jstable[i] \cup S]
      BY <2>1, <3>1, Zenon
    <3> QED  BY <3>1, <3>2
  <2> QED  BY <1>0, <2>1, <2>2, AddedTyped
<1>3. CASE unlink(i)
  <2>1. PICK S \in SUBSET Contents : S = {NoFile}
    BY <1>0
  <2>2. jf' = [jf EXCEPT ![i] = NoFile] /\ jstable' = [jstable EXCEPT ![i] = @ \cup S]
    BY <1>3, <2>1 DEF unlink
  <2> QED  BY <1>0, <2>1, <2>2, AddedTyped
<1>4. ASSUME NEW ops \in OpLists, WriteTrailer(i, ops) PROVE TypedFiles'
  <2>1. PICK S \in SUBSET Contents : S = {ops}
    BY <1>0
  <2>2. jf' = [jf EXCEPT ![i] = ops] /\ jstable' = [jstable EXCEPT ![i] = @ \cup S]
    BY <1>4, <2>1 DEF WriteTrailer
  <2> QED  BY <1>0, <2>1, <2>2, AddedTyped
<1>5. CASE corrupt_journal_file(i)
  <2>1. /\ jf' = [jf EXCEPT ![i] = Partial]
        /\ jstable' = [jstable EXCEPT ![i] = (@ \cap {NoFile}) \cup {Partial}]
    BY <1>5 DEF corrupt_journal_file
  <2>2. /\ jstable' = [j \in Tids |-> jstable'[j]]
        /\ \A j \in Tids : j # i => jstable'[j] = jstable[j]
        /\ i \in Tids => jstable'[i] = (jstable[i] \cap {NoFile}) \cup {Partial}
    BY <2>1 DEF TypedFiles
  <2>3. i \in Tids => Partial \in jstable'[i] /\ jstable'[i] \subseteq Contents
    BY <1>0, <2>2
  <2> QED  BY <1>0, <2>1, <2>2, <2>3, OneFileTyped
<1> QED  BY <1>1, <1>2, <1>3, <1>4, <1>5

\* fsync of a file and of the directory.
LEMMA SyncsFilesTyped ==
  ASSUME TypedFiles, fsync_dir \/ \E i \in Tids : FsyncFile(i)
  PROVE  TypedFiles'
<1>1. ASSUME NEW j \in Tids PROVE Linked(j) \subseteq Contents /\ jf[j] \in Linked(j)
  <2>1. jf[j] \in Contents /\ jstable[j] \subseteq Contents /\ jf[j] \in jstable[j]
    BY DEF TypedFiles
  <2> QED  BY <2>1 DEF Linked
<1>2. jf' = jf /\ jstable' = [j \in Tids |-> jstable'[j]]
      /\ \A j \in Tids : jstable'[j] \in {Linked(j), {jf[j]}}
  <2>1. CASE fsync_dir
    BY <2>1 DEF fsync_dir
  <2>2. ASSUME NEW i \in Tids, FsyncFile(i)
        PROVE  jf' = jf /\ jstable' = [j \in Tids |-> jstable'[j]]
               /\ \A j \in Tids : jstable'[j] \in {Linked(j), {jf[j]}}
    BY <2>2 DEF FsyncFile
  <2> QED  BY <2>1, <2>2
<1>3. \A j \in Tids : jstable'[j] \subseteq Contents /\ jf[j] \in jstable'[j]
  BY <1>1, <1>2 DEF TypedFiles
<1> QED  BY <1>2, <1>3 DEF TypedFiles

LEMMA SameFilesTyped ==
  ASSUME TypedFiles, UNCHANGED dirVars
  PROVE  TypedFiles'
  BY DEF TypedFiles, dirVars

LEMMA StepFiles ==
  ASSUME IdInv, TypedInv, NEW th \in Threads, Step(th)
  PROVE  TypedFiles'
<1>1. TypedFiles
  BY DEF TypedInv
<1>2. CASE FillFile(th) \/ HeaderFails(th) \/ FillFails(th) \/ UnlinkFile(th)
  <2>1. \E i : \/ CreateFile(i) \/ CreateAndUnlink(i) \/ unlink(i) \/ TruncateFile(i)
               \/ corrupt_journal_file(i)
    BY <1>2 DEF FillFile, HeaderFails, FillFails, UnlinkFile
  <2> QED  BY <1>1, <2>1, FileOpsTyped
<1>3. CASE CommitFile(th)
  <2>1. cur[th].pc = "trailer" /\ WriteTrailer(cur[th].tid, Writes(cur[th].ops))
    BY <1>3 DEF CommitFile, At
  <2>2. cur[th].ops \in OpLists /\ HasWrites(cur[th])
    <3>1. cur[th].kind \in CallKinds
      BY <2>1, CommitKind DEF CommitPCs
    <3> QED  BY <2>1, <3>1 DEF TypedInv, TypedThread, OpsOK, Recording
  <2>3. PICK ops \in OpLists : ops = Writes(cur[th].ops)
    BY <2>2, WritesTyped DEF HasWrites
  <2> QED  BY <1>1, <2>1, <2>3, FileOpsTyped
<1>4. CASE SyncFile(th) \/ SyncDir(th)
  <2>1. CASE SyncFile(th)
    <3>1. cur[th].tid \in Tids /\ FsyncFile(cur[th].tid)
      BY <2>1 DEF SyncFile, At, IdInv, ThreadOK, HasId, WithId
    <3> QED  BY <1>1, <3>1, SyncsFilesTyped
  <2>2. CASE SyncDir(th)
    BY <1>1, <2>2, SyncsFilesTyped DEF SyncDir
  <2> QED  BY <1>4, <2>1, <2>2
<1>5. ASSUME \/ LockRange(th) \/ LockDeadlock(th)
             \/ journal_new_broken(th) \/ get_tid_read(th) \/ get_tid_write(th)
             \/ OpenFails(th) \/ SyncFileFails(th)
             \/ ReadOp(th) \/ WriteOp(th) \/ OpFails(th)
             \/ NothingToSync(th) \/ Linger(th) \/ SyncData(th) \/ SyncDataFails(th)
      PROVE  UNCHANGED dirVars
  BY <1>5 DEF LockRange, LockDeadlock, journal_new_broken, get_tid_read, get_tid_write,
       OpenFails, SyncFileFails, ReadOp, WriteOp, OpFails,
       NothingToSync, Linger, SyncData, SyncDataFails, fileVars, dirVars
<1>6. ASSUME \/ MarkBroken(th) \/ free_tid_read(th) \/ free_tid_write(th)
             \/ CommitReturn(th) \/ UndoReturn(th)
             \/ SyncAll(th) \/ SyncAllFails(th) \/ TakeLtlock(th) \/ NextLinger(th)
             \/ jsyncReturn(th) \/ jcloseReturn(th)
      PROVE  UNCHANGED dirVars
  BY <1>6 DEF MarkBroken, free_tid_read, free_tid_write, CommitReturn, UndoReturn, SyncAll,
       SyncAllFails, TakeLtlock, NextLinger, jsyncReturn, jcloseReturn, fileVars, dirVars
<1> QED  BY <1>1, <1>2, <1>3, <1>4, <1>5, <1>6, SameFilesTyped DEF Step, Commit, Sync
-----------------------------------------------------------------------------
(* The locks, the threads and the results of calls.                        *)

LEMMA ReleaseTyped ==
  ASSUME TypedLocks, NEW p \in Procs, NEW S, plocks' = [plocks EXCEPT ![p] = @ \ S]
  PROVE  TypedLocks'
<1>1. /\ plocks' \in [Procs -> SUBSET Cells]
      /\ \A q \in Procs : plocks'[q] \subseteq plocks[q]
  BY DEF TypedLocks
<1>2. ASSUME NEW q \in Procs, NEW r \in Procs, q # r PROVE plocks'[q] \cap plocks'[r] = {}
  BY <1>1, <1>2 DEF TypedLocks
<1> QED  BY <1>1, <1>2 DEF TypedLocks

LEMMA SameLocksTyped ==
  ASSUME TypedLocks, plocks' = plocks
  PROVE  TypedLocks'
  BY DEF TypedLocks

LEMMA StepLocks ==
  ASSUME OneThreadPerProcess, IdInv, TypedInv, NEW th \in Threads, Step(th)
  PROVE  TypedLocks'
<1>1. TypedLocks /\ ProcOf[th] \in Procs
  BY JioAssumption DEF TypedInv
<1>2. CASE LockRange(th)
  BY <1>2, LockRangeTyped
<1>3. CASE plocks' = plocks
  BY <1>1, <1>3, SameLocksTyped
<1>4. CASE plocks' = [plocks EXCEPT ![ProcOf[th]] = @ \ cur[th].held]
  BY <1>1, <1>4, ReleaseTyped
<1> QED  BY <1>2, <1>3, <1>4, StepPlocks

LEMMA StepThreads ==
  ASSUME OneThreadPerProcess, IdInv, TypedInv, NEW th \in Threads, Step(th)
  PROVE  \A u \in Threads : TypedThread(u)'
<1>1. TypedThread(th)'
  <2>1. CASE LockRange(th)
    BY <2>1, LockRangeTyped
  <2>2. CASE CommitReturn(th) \/ jsyncReturn(th) \/ jcloseReturn(th)
    BY <2>2, ReturnsTyped
  <2>3. CASE UndoReturn(th)
    BY <2>3, UndoReturnTyped
  <2>4. CASE OpFails(th) \/ SyncDataFails(th)
    BY <2>4, RollbackTyped
  <2>5. CASE FillFile(th)
    BY <2>5, FillFileTyped
  <2>6. CASE get_tid_read(th) \/ get_tid_write(th) \/ free_tid_read(th) \/ free_tid_write(th)
    BY <2>6, TidsTyped
  <2>7. CASE ReadOp(th) \/ WriteOp(th) \/ NothingToSync(th) \/ Linger(th) \/ SyncData(th)
    BY <2>7, OpsTyped, SyncsTyped
  <2>8. CASE \/ LockDeadlock(th) \/ journal_new_broken(th) \/ OpenFails(th) \/ FillFails(th)
             \/ SyncFileFails(th) \/ SyncAllFails(th) \/ MarkBroken(th) \/ NextLinger(th)
    BY <2>8, FailuresTyped, NextLingerTyped
  <2>9. CASE \/ HeaderFails(th) \/ CommitFile(th) \/ SyncFile(th) \/ UnlinkFile(th) \/ SyncDir(th)
             \/ SyncAll(th) \/ TakeLtlock(th)
    BY <2>9, GotosTyped
  <2> QED  BY <2>1, <2>2, <2>3, <2>4, <2>5, <2>6, <2>7, <2>8, <2>9 DEF Step, Commit, Sync
<1>2. ASSUME NEW u \in Threads, u # th PROVE TypedThread(u)'
  <2>1. ProcOf[u] \in Procs /\ ProcOf[u] # ProcOf[th]
    BY <1>2, JioAssumption DEF OneThreadPerProcess
  <2>2. cur'[u] = cur[u] /\ saved'[u] = saved[u] /\ plocks'[ProcOf[u]] = plocks[ProcOf[u]]
    BY <1>2, <2>1, StepElsewhere DEF Elsewhere
  <2>3. TypedThread(u)
    BY DEF TypedInv
  <2> QED  BY <2>2, <2>3, TypedOther
<1> QED  BY <1>1, <1>2

\* Only jfsck commits the operations of a file again.
LEMMA StepRedoing ==
  ASSUME IdInv, TypedInv, NEW th \in Threads, Step(th), NEW u \in Threads, Redoing(u)'
  PROVE  Redoing(u)
<1>1. CASE u # th
  BY <1>1, StepElsewhere DEF Elsewhere, Redoing
<1>2. CASE u = th
  <2>1. CASE Moves(th) /\ saved' = saved
    BY <1>2, <2>1 DEF Moves, Redoing
  <2>2. CASE /\ saved' = [saved EXCEPT ![th] = [cur[th] EXCEPT !.k = 1]]
             /\ cur' = [cur EXCEPT ![th] = UndoFrame(cur[th])]
    BY <1>2, <2>2, UndoDoes DEF Redoing
  <2>3. CASE UndoReturn(th)
    BY <1>2, <2>3, UndoReturnDoes, IdleFrame DEF Redoing
  <2>4. CASE CommitReturn(th) \/ jsyncReturn(th) \/ jcloseReturn(th)
    BY <1>2, <2>4, ReturnsTyped, IdleFrame DEF Redoing
  <2> QED  BY <2>1, <2>2, <2>3, <2>4, StepKinds
<1> QED  BY <1>1, <1>2

LEMMA OutcomeTyped ==
  ASSUME NEW rv \in -2 .. 1
  PROVE  /\ Outcome(rv) \in {"ok", "failed", "severe"}
         /\ Outcome(rv) = "ok" <=> rv >= 0
         /\ Outcome(rv) = "severe" <=> rv = -2
<1>1. CASE rv >= 0
  <2>1. rv # -1 /\ rv # -2
    BY <1>1
  <2>2. Outcome(rv) = "ok"
    BY <1>1, <2>1 DEF Outcome
  <2> QED  BY <1>1, <2>1, <2>2
<1>2. CASE rv = -1
  <2>1. ~ (rv >= 0) /\ rv # -2
    BY <1>2
  <2>2. Outcome(rv) = "failed"
    BY <1>2, <2>1 DEF Outcome
  <2> QED  BY <2>1, <2>2
<1>3. CASE rv = -2
  <2>1. ~ (rv >= 0) /\ rv # -1
    BY <1>3
  <2>2. Outcome(rv) = "severe"
    BY <1>3, <2>1 DEF Outcome
  <2> QED  BY <1>3, <2>1, <2>2
<1> QED  BY <1>1, <1>2, <1>3

LEMMA StepAck ==
  ASSUME IdInv, TypedInv, NEW th \in Threads, Step(th)
  PROVE  ack' \in [Txns -> Acks]
<1>1. ack \in [Txns -> Acks]
  BY DEF TypedInv
<1>2. CASE CommitReturn(th)
  <2>1. cur[th].retval \in -2 .. 1
    BY DEF TypedInv, TypedThread
  <2>2. PICK x \in Acks : x = Outcome(cur[th].retval)
    BY <2>1, OutcomeTyped DEF Acks
  <2>3. ack' = [ack EXCEPT ![cur[th].txn] = x]
    BY <1>2, <2>2 DEF CommitReturn
  <2> QED  BY <1>1, <2>3
<1>3. ASSUME \/ LockRange(th) \/ LockDeadlock(th)
             \/ journal_new_broken(th) \/ get_tid_read(th) \/ get_tid_write(th)
             \/ FillFile(th) \/ OpenFails(th) \/ HeaderFails(th) \/ FillFails(th)
             \/ CommitFile(th) \/ SyncFile(th) \/ SyncFileFails(th)
             \/ ReadOp(th) \/ WriteOp(th) \/ OpFails(th)
             \/ NothingToSync(th) \/ Linger(th) \/ SyncData(th) \/ SyncDataFails(th)
      PROVE  ack' = ack
  BY <1>3 DEF LockRange, LockDeadlock, journal_new_broken, get_tid_read, get_tid_write, FillFile,
       OpenFails, HeaderFails, FillFails, CommitFile, SyncFile, SyncFileFails, ReadOp, WriteOp,
       OpFails, NothingToSync, Linger, SyncData, SyncDataFails
<1>4. ASSUME \/ UnlinkFile(th) \/ SyncDir(th) \/ MarkBroken(th)
             \/ free_tid_read(th) \/ free_tid_write(th) \/ UndoReturn(th)
             \/ SyncAll(th) \/ SyncAllFails(th) \/ TakeLtlock(th) \/ NextLinger(th)
             \/ jsyncReturn(th) \/ jcloseReturn(th)
      PROVE  ack' = ack
  BY <1>4 DEF UnlinkFile, SyncDir, MarkBroken, free_tid_read, free_tid_write, UndoReturn, SyncAll,
       SyncAllFails, TakeLtlock, NextLinger, jsyncReturn, jcloseReturn
<1> QED  BY <1>1, <1>2, <1>3, <1>4 DEF Step, Commit, Sync

LEMMA StepJlock ==
  ASSUME IdInv, TypedInv, NEW th \in Threads, Step(th)
  PROVE  jlock' \in Procs \cup {NoProc}
<1>1. jlock \in Procs \cup {NoProc} /\ ProcOf[th] \in Procs
  BY JioAssumption DEF TypedInv
<1>2. CASE get_tid_read(th) \/ free_tid_read(th) \/ get_tid_write(th) \/ free_tid_write(th)
  BY <1>1, <1>2 DEF get_tid_read, free_tid_read, get_tid_write, free_tid_write, LockTids, free_tid
<1>3. ASSUME \/ LockRange(th) \/ LockDeadlock(th) \/ journal_new_broken(th)
             \/ FillFile(th) \/ OpenFails(th) \/ HeaderFails(th) \/ FillFails(th)
             \/ CommitFile(th) \/ SyncFile(th) \/ SyncFileFails(th)
             \/ ReadOp(th) \/ WriteOp(th) \/ OpFails(th)
             \/ NothingToSync(th) \/ Linger(th) \/ SyncData(th) \/ SyncDataFails(th)
      PROVE  jlock' = jlock
  BY <1>3 DEF LockRange, LockDeadlock, journal_new_broken, FillFile,
       OpenFails, HeaderFails, FillFails, CommitFile, SyncFile, SyncFileFails, ReadOp, WriteOp,
       OpFails, NothingToSync, Linger, SyncData, SyncDataFails, fileVars, tidVars
<1>4. ASSUME \/ UnlinkFile(th) \/ SyncDir(th) \/ MarkBroken(th)
             \/ CommitReturn(th) \/ UndoReturn(th)
             \/ SyncAll(th) \/ SyncAllFails(th) \/ TakeLtlock(th) \/ NextLinger(th)
             \/ jsyncReturn(th) \/ jcloseReturn(th)
      PROVE  jlock' = jlock
  BY <1>4 DEF UnlinkFile, SyncDir, MarkBroken, CommitReturn, UndoReturn, SyncAll,
       SyncAllFails, TakeLtlock, NextLinger, jsyncReturn, jcloseReturn, fileVars, tidVars
<1> QED  BY <1>1, <1>2, <1>3, <1>4 DEF Step, Commit, Sync

LEMMA StepTyped ==
  ASSUME OneThreadPerProcess, IdInv, TypedInv, NEW th \in Threads, Step(th)
  PROVE  TypedInv'
<1>1. fsck' = fsck
  BY DEF Step
<1>2. TypedFsck'
  BY <1>1, StepRedoing DEF TypedInv, TypedFsck
<1> QED  BY <1>2, StepData, StepFiles, StepLocks, StepThreads, StepAck, StepJlock DEF TypedInv
-----------------------------------------------------------------------------
(* Calls, jopen, and the steps of jfsck.                                   *)

\* Steps that leave the frames, the locks and the files alone.
LEMMA SameThreads ==
  ASSUME TypedInv, cur' = cur, saved' = saved, plocks' = plocks
  PROVE  TypedLocks' /\ \A u \in Threads : TypedThread(u)' /\ (Redoing(u)' => Redoing(u))
<1>1. TypedLocks' /\ \A u \in Threads : TypedThread(u)'
  BY SameLocksTyped, TypedOther DEF TypedInv
<1>2. \A u \in Threads : Redoing(u)' => Redoing(u)
  BY DEF Redoing
<1> QED  BY <1>1, <1>2

LEMMA SameRest ==
  ASSUME TypedInv, UNCHANGED fileVars
  PROVE  TypedData' /\ TypedFiles' /\ jlock' \in Procs \cup {NoProc}
<1>1. UNCHANGED dataVars /\ UNCHANGED dirVars /\ jlock' = jlock
  BY DEF fileVars, dataVars, dirVars
<1> QED  BY <1>1, SameData, SameFilesTyped DEF TypedInv

LEMMA CallHoldsTypes ==
  ASSUME IdInv, TypedInv, NEW th \in Threads, Call(th)
  PROVE  TypedInv'
<1>1. /\ UNCHANGED fileVars /\ plocks' = plocks /\ fsck' = fsck
      /\ ack' = ack \/ \E t \in Txns : ack' = [ack EXCEPT ![t] = "running"]
  <2>1. CASE \E t \in Txns : jtrans_commit(th, t)
    BY <2>1 DEF Call, jtrans_commit, procVars
  <2>2. CASE jsync(th) \/ jclose(th)
    BY <2>2 DEF Call, jsync, jclose
  <2> QED  BY <2>1, <2>2 DEF Call
<1>2. /\ TypedThread(th)' /\ cur'[th].kind # "redo" /\ cur[th].pc = "idle"
      /\ saved' = saved /\ \A u \in Threads : u # th => cur'[u] = cur[u]
  BY CallsTyped
<1>3. \A u \in Threads : TypedThread(u)'
  BY <1>1, <1>2, TypedOther DEF TypedInv
<1>4. TypedFsck'
  <2>1. saved'[th].kind # "redo"
    BY <1>2, IdleFrame DEF IdInv, ThreadOK, CallOK
  <2>2. \A u \in Threads : Redoing(u)' => Redoing(u)
    BY <1>2, <2>1 DEF Redoing
  <2> QED  BY <1>1, <2>2 DEF TypedInv, TypedFsck
<1>5. TypedLocks'
  BY <1>1, SameLocksTyped DEF TypedInv
<1>6. ack' \in [Txns -> Acks]
  BY <1>1 DEF TypedInv, Acks
<1> QED  BY <1>1, <1>3, <1>4, <1>5, <1>6, SameRest DEF TypedInv

LEMMA QuietTypes ==
  ASSUME IdInv, TypedInv, NEW p, Open(p) \/ UNCHANGED vars
  PROVE  TypedInv'
<1>1. UNCHANGED fileVars /\ UNCHANGED <<cur, saved, plocks, fsck, ack>>
  BY DEF Open, jopen, vars, procVars
<1>2. TypedFsck'
  BY <1>1, SameThreads DEF TypedInv, TypedFsck
<1>3. ack' \in [Txns -> Acks]
  BY <1>1 DEF TypedInv
<1> QED  BY <1>1, <1>2, <1>3, SameThreads, SameRest DEF TypedInv

\* Nobody commits a file again unless jfsck does.
LEMMA NotRedoing ==
  ASSUME TypedInv, cur' = cur, saved' = saved, fsck.pc # "commit"
  PROVE  \A u \in Threads : ~Redoing(u)'
  BY DEF TypedInv, TypedFsck, Redoing

LEMMA FsckStartTypes ==
  ASSUME IdInv, TypedInv, FsckStart
  PROVE  TypedInv'
<1>1. /\ UNCHANGED dataVars /\ UNCHANGED dirVars /\ UNCHANGED <<jlock, cur, saved, plocks, ack>>
      /\ fsck.pc = "off" /\ fsck' = [pc |-> "scan", i |-> 1, maxtid |-> GreatestTid]
  BY DEF FsckStart, memVars
<1>2. fsck'.pc = "scan" /\ fsck'.i = 1 /\ fsck'.maxtid \in 0 .. MaxTid
  BY <1>1, GreatestTidIs
<1>3. TypedFsck'
  BY <1>1, <1>2, NotRedoing DEF TypedFsck
<1>4. jlock' \in Procs \cup {NoProc} /\ ack' \in [Txns -> Acks]
  BY <1>1 DEF TypedInv
<1> QED  BY <1>1, <1>3, <1>4, SameThreads, SameData, SameFilesTyped DEF TypedInv

\* The file that jfsck is at.
LEMMA FsckFile ==
  ASSUME TypedInv, fsck.pc = "unlink" \/ (fsck.pc = "scan" /\ fsck.i <= fsck.maxtid)
  PROVE  fsck.i \in Tids /\ fsck.i <= fsck.maxtid /\ jf[fsck.i] \in Contents
<1>1. fsck.i \in Nat /\ fsck.i >= 1 /\ fsck.i <= fsck.maxtid /\ fsck.maxtid \in 0 .. MaxTid
  BY DEF TypedInv, TypedFsck
<1>2. fsck.i \in Tids
  BY <1>1, JioAssumption DEF Tids
<1> QED  BY <1>1, <1>2 DEF TypedInv, TypedFiles

LEMMA NextFileIs ==
  ASSUME IdInv, TypedInv, fsck' = NextFile, fsck.pc # "off"
  PROVE  /\ fsck'.pc = "scan" /\ fsck'.i = fsck.i + 1 /\ fsck'.maxtid = fsck.maxtid
         /\ fsck'.i \in Nat /\ fsck'.i >= 1 /\ fsck'.maxtid \in 0 .. MaxTid
<1>1. fsck = [pc |-> fsck.pc, i |-> fsck.i, maxtid |-> fsck.maxtid]
  BY DEF IdInv, FsckInv
<1>2. fsck.i \in Nat /\ fsck.maxtid \in 0 .. MaxTid
  BY DEF TypedInv, TypedFsck
<1>3. fsck' = [fsck EXCEPT !.pc = "scan", !.i = fsck.i + 1]
  BY <1>1 DEF NextFile
<1> DEFINE i == fsck.i + 1
<1>4. i \in Nat /\ i >= 1
  BY <1>2
<1>5. fsck' = [fsck EXCEPT !.pc = "scan", !.i = i]
  BY <1>3
<1> HIDE DEF i
<1>6. fsck'.pc = "scan" /\ fsck'.i = i /\ fsck'.maxtid = fsck.maxtid
  BY <1>1, <1>5
<1>7. i = fsck.i + 1
  BY DEF i
<1> QED  BY <1>2, <1>4, <1>6, <1>7

LEMMA FsckScanTypes ==
  ASSUME IdInv, TypedInv, FsckSkip \/ FsckUnlink \/ FsckDone
  PROVE  TypedInv'
<1>1. /\ UNCHANGED dataVars /\ UNCHANGED <<jlock, cur, saved, plocks>>
      /\ fsck.pc \in {"scan", "unlink"}
      /\ fsck' = NextFile \/ fsck' = FsckOff
  BY DEF FsckSkip, FsckUnlink, FsckDone, fileVars, dataVars, tidVars, procVars, memVars
<1>2. TypedFsck'
  <2>1. CASE fsck' = NextFile
    BY <1>1, <2>1, NextFileIs, NotRedoing DEF TypedFsck
  <2>2. CASE fsck' = FsckOff
    <3>1. fsck'.pc = "off" /\ fsck'.i = 0 /\ fsck'.maxtid = 0
      BY <2>2 DEF FsckOff
    <3>2. 0 \in 0 .. MaxTid
      BY JioAssumption
    <3> QED  BY <1>1, <3>1, <3>2, NotRedoing DEF TypedFsck
  <2> QED  BY <1>1, <2>1, <2>2
<1>3. TypedFiles'
  <2>1. CASE UNCHANGED dirVars
    BY <2>1, SameFilesTyped DEF TypedInv
  <2>2. CASE unlink(fsck.i)
    BY <2>2, FileOpsTyped DEF TypedInv
  <2> QED  BY <2>1, <2>2 DEF FsckSkip, FsckUnlink, FsckDone, fileVars, dirVars
<1>4. ack' \in [Txns -> Acks]
  <2>1. ack \in [Txns -> Acks]
    BY DEF TypedInv
  <2>2. CASE ack' = ack
    BY <2>1, <2>2
  <2>3. CASE FsckDone
    <3>1. ack' = [t \in Txns |-> IF ack[t] = "running" THEN "lost" ELSE ack[t]]
      BY <2>3 DEF FsckDone
    <3>2. "lost" \in Acks
      BY DEF Acks
    <3> QED  BY <2>1, <3>1, <3>2
  <2> QED  BY <2>2, <2>3 DEF FsckSkip, FsckUnlink
<1>5. jlock' \in Procs \cup {NoProc}
  BY <1>1 DEF TypedInv
<1> QED  BY <1>1, <1>2, <1>3, <1>4, <1>5, SameThreads, SameData DEF TypedInv

LEMMA FsckCommitTypes ==
  ASSUME IdInv, TypedInv, FsckCommit
  PROVE  TypedInv'
<1> DEFINE kind == "redo"
           pc == "lock"
           flags == {}
<1>1. /\ UNCHANGED fileVars /\ UNCHANGED <<plocks, saved, ack>>
      /\ fsck.pc = "scan" /\ fsck.i <= fsck.maxtid /\ Complete(jf[fsck.i])
      /\ fsck' = [fsck EXCEPT !.pc = "commit"]
      /\ cur' = [cur EXCEPT ![Checker] = Frame(kind, pc, NoTxn, jf[fsck.i], flags)]
      /\ kind \in {"commit", "redo"} /\ pc = "lock"
  BY DEF FsckCommit, procVars
<1> HIDE DEF kind, pc, flags
<1>2. fsck.i \in Tids /\ jf[fsck.i] \in OpLists
  BY <1>1, FsckFile DEF Contents, Complete
<1>3. Checker \in Threads /\ cur[Checker].pc = "idle"
  BY <1>1, JioAssumption DEF IdInv, FsckInv
<1>4. /\ cur'[Checker] = Frame(kind, pc, NoTxn, jf[fsck.i], flags)
      /\ \A u \in Threads : u # Checker => cur'[u] = cur[u]
  BY <1>1, <1>3, NewCall
<1>5. TypedThread(Checker)'
  BY <1>1, <1>2, <1>3, <1>4, CallTyped
<1>6. \A u \in Threads : TypedThread(u)'
  BY <1>1, <1>4, <1>5, TypedOther DEF TypedInv
<1>7. TypedFsck'
  <2>1. fsck = [pc |-> fsck.pc, i |-> fsck.i, maxtid |-> fsck.maxtid]
    BY DEF IdInv, FsckInv
  <2>2. fsck'.pc = "commit" /\ fsck'.i = fsck.i /\ fsck'.maxtid = fsck.maxtid
    BY <1>1, <2>1
  <2>3. ASSUME NEW u \in Threads, Redoing(u)' PROVE u = Checker
    BY <1>1, <1>4, <2>3 DEF TypedInv, TypedFsck, Redoing
  <2> QED  BY <1>1, <2>2, <2>3 DEF TypedInv, TypedFsck
<1>8. TypedLocks' /\ ack' \in [Txns -> Acks]
  BY <1>1, SameLocksTyped DEF TypedInv
<1> QED  BY <1>1, <1>6, <1>7, <1>8, SameRest DEF TypedInv

LEMMA FsckCommitReturnTypes ==
  ASSUME OneThreadPerProcess, IdInv, TypedInv, FsckCommitReturn
  PROVE  TypedInv'
<1>1. /\ UNCHANGED fileVars /\ ack' = ack /\ cur[Checker].kind = "redo"
      /\ plocks' = [plocks EXCEPT ![ProcOf[Checker]] = @ \ cur[Checker].held]
      /\ fsck' = FsckOff \/ fsck' = [fsck EXCEPT !.pc = "unlink"]
  BY DEF FsckCommitReturn, Unlock
<1>2. Checker \in Threads /\ ProcOf[Checker] \in Procs
  BY JioAssumption
<1>3. /\ TypedThread(Checker)' /\ cur'[Checker] = Idle /\ saved'[Checker] = Idle
      /\ \A u \in Threads : u # Checker => cur'[u] = cur[u] /\ saved'[u] = saved[u]
  BY <1>2, ReturnsTyped
<1>4. TypedLocks'
  BY <1>1, <1>2, ReleaseTyped DEF TypedInv
<1>5. ASSUME NEW u \in Threads PROVE TypedThread(u)'
  <2>1. CASE u = Checker
    BY <1>3, <2>1
  <2>2. CASE u # Checker
    <3>1. ProcOf[u] \in Procs /\ ProcOf[u] # ProcOf[Checker]
      BY <1>2, <2>2, JioAssumption DEF OneThreadPerProcess
    <3>2. plocks'[ProcOf[u]] = plocks[ProcOf[u]]
      BY <1>1, <3>1 DEF TypedInv, TypedLocks
    <3> QED  BY <1>3, <2>2, <3>2, TypedOther DEF TypedInv
  <2> QED  BY <2>1, <2>2
<1>6. TypedFsck'
  <2>1. \A u \in Threads : ~Redoing(u)'
    BY <1>3, IdleFrame DEF TypedInv, TypedFsck, Redoing
  <2>2. fsck.pc = "commit"
    BY <1>1, <1>2 DEF TypedInv, TypedFsck, Redoing
  <2>3. CASE fsck' = FsckOff
    <3>1. fsck'.pc = "off" /\ fsck'.i = 0 /\ fsck'.maxtid = 0
      BY <2>3 DEF FsckOff
    <3>2. 0 \in 0 .. MaxTid
      BY JioAssumption
    <3> QED  BY <2>1, <3>1, <3>2 DEF TypedFsck
  <2>4. CASE fsck' = [fsck EXCEPT !.pc = "unlink"]
    <3>1. fsck = [pc |-> fsck.pc, i |-> fsck.i, maxtid |-> fsck.maxtid]
      BY DEF IdInv, FsckInv
    <3>2. fsck'.pc = "unlink" /\ fsck'.i = fsck.i /\ fsck'.maxtid = fsck.maxtid
      BY <2>4, <3>1
    <3> QED  BY <2>1, <2>2, <3>2 DEF TypedInv, TypedFsck
  <2> QED  BY <1>1, <2>3, <2>4
<1>7. ack' \in [Txns -> Acks]
  BY <1>1 DEF TypedInv
<1> QED  BY <1>1, <1>4, <1>5, <1>6, <1>7, SameRest DEF TypedInv

-----------------------------------------------------------------------------
(* Power failures, processes that are killed, and the beginning.           *)

LEMMA PowerFailTypes ==
  ASSUME IdInv, TypedInv, PowerFail
  PROVE  TypedInv'
<1>1. /\ plocks' = [p \in Procs |-> {}] /\ jlock' = NoProc /\ ack' = ack /\ fsck' = FsckOff
      /\ cur' = [th \in Threads |-> Idle] /\ saved' = [th \in Threads |-> Idle]
  BY DEF PowerFail
<1>2. TypedData'
  <2>1. PICK d \in [Cells -> UNION {stable[c] : c \in Cells}] :
          /\ \A c \in Cells : d[c] \in stable[c]
          /\ cache' = d /\ stable' = [c \in Cells |-> {d[c]}]
    BY DEF PowerFail
  <2>2. \A c \in Cells : d[c] \in Values
    BY <2>1 DEF TypedInv, TypedData
  <2>3. cache' \in [Cells -> Values]
    BY <2>1, <2>2
  <2>4. stable' \in [Cells -> SUBSET Values] /\ \A c \in Cells : cache'[c] \in stable'[c]
    BY <2>1, <2>2
  <2> QED  BY <2>3, <2>4 DEF TypedData
<1>3. TypedFiles'
  <2> DEFINE unsure == {i \in Tids : Cardinality(jstable[i]) > 1}
             Sure(i) == CHOOSE x \in jstable[i] : TRUE
  <2>1. PICK g \in [unsure -> UNION {jstable[i] : i \in unsure}] :
          /\ \A i \in unsure : g[i] \in jstable[i]
          /\ jf' = [i \in Tids |-> IF i \in unsure THEN g[i] ELSE Sure(i)]
    BY DEF PowerFail
  <2>2. jstable' = [i \in Tids |-> {jf'[i]}]
    BY DEF PowerFail
  <2>3. ASSUME NEW i \in Tids PROVE Sure(i) \in jstable[i]
    BY DEF TypedInv, TypedFiles
  <2> HIDE DEF unsure, Sure
  <2>4. ASSUME NEW i \in Tids PROVE jf'[i] \in jstable[i]
    BY <2>1, <2>3
  <2>5. \A i \in Tids : jf'[i] \in Contents
    BY <2>4 DEF TypedInv, TypedFiles
  <2>6. jf' \in [Tids -> Contents]
    BY <2>1, <2>5
  <2>7. jstable' \in [Tids -> SUBSET Contents] /\ \A i \in Tids : jf'[i] \in jstable'[i]
    BY <2>2, <2>5
  <2> QED  BY <2>6, <2>7 DEF TypedFiles
<1>4. TypedLocks'
  BY <1>1 DEF TypedLocks
<1>5. \A u \in Threads : TypedThread(u)'
  BY <1>1, TypedIdle
<1>6. TypedFsck'
  <2>1. fsck'.pc = "off" /\ fsck'.i = 0 /\ fsck'.maxtid = 0
    BY <1>1 DEF FsckOff
  <2>2. 0 \in 0 .. MaxTid
    BY JioAssumption
  <2>3. \A u \in Threads : ~Redoing(u)'
    BY <1>1, IdleFrame DEF Redoing
  <2> QED  BY <2>1, <2>2, <2>3 DEF TypedFsck
<1>7. jlock' \in Procs \cup {NoProc} /\ ack' \in [Txns -> Acks]
  BY <1>1 DEF TypedInv
<1> QED  BY <1>2, <1>3, <1>4, <1>5, <1>6, <1>7 DEF TypedInv

LEMMA KillTypes ==
  ASSUME IdInv, TypedInv, NEW p \in Procs, Kill(p)
  PROVE  TypedInv'
<1>1. /\ UNCHANGED dataVars /\ UNCHANGED dirVars /\ ack' = ack
      /\ plocks' = [plocks EXCEPT ![p] = {}]
      /\ cur' = [th \in Threads |-> IF ProcOf[th] = p THEN Idle ELSE cur[th]]
      /\ saved' = [th \in Threads |-> IF ProcOf[th] = p THEN Idle ELSE saved[th]]
      /\ jlock' = (IF jlock = p THEN NoProc ELSE jlock)
      /\ fsck' = (IF ProcOf[Checker] = p THEN FsckOff ELSE fsck)
  BY DEF Kill
<1>2. /\ plocks' \in [Procs -> SUBSET Cells] /\ plocks'[p] = {}
      /\ \A q \in Procs : q # p => plocks'[q] = plocks[q]
  BY <1>1 DEF TypedInv, TypedLocks
<1>3. TypedLocks'
  BY <1>2 DEF TypedInv, TypedLocks
<1>4. ASSUME NEW u \in Threads PROVE TypedThread(u)' /\ (Redoing(u)' => Redoing(u) /\ ProcOf[u] # p)
  <2>1. CASE ProcOf[u] = p
    BY <1>1, <2>1, TypedIdle, IdleFrame DEF Redoing
  <2>2. CASE ProcOf[u] # p
    <3>1. ProcOf[u] \in Procs
      BY JioAssumption
    <3>2. cur'[u] = cur[u] /\ saved'[u] = saved[u] /\ plocks'[ProcOf[u]] = plocks[ProcOf[u]]
      BY <1>1, <1>2, <2>2, <3>1
    <3> QED  BY <2>2, <3>2, TypedOther DEF TypedInv, Redoing
  <2> QED  BY <2>1, <2>2
<1>5. TypedFsck'
  <2>1. CASE ProcOf[Checker] = p
    <3>1. fsck'.pc = "off" /\ fsck'.i = 0 /\ fsck'.maxtid = 0
      BY <1>1, <2>1 DEF FsckOff
    <3>2. 0 \in 0 .. MaxTid
      BY JioAssumption
    <3>3. \A u \in Threads : ~Redoing(u)'
      BY <1>4, <2>1 DEF TypedInv, TypedFsck
    <3> QED  BY <3>1, <3>2, <3>3 DEF TypedFsck
  <2>2. CASE ProcOf[Checker] # p
    BY <1>1, <1>4, <2>2 DEF TypedInv, TypedFsck
  <2> QED  BY <2>1, <2>2
<1>6. jlock' \in Procs \cup {NoProc} /\ ack' \in [Txns -> Acks]
  BY <1>1 DEF TypedInv
<1> QED  BY <1>1, <1>3, <1>4, <1>5, <1>6, SameData, SameFilesTyped DEF TypedInv

LEMMA InitTypes == Init => TypedInv
<1> SUFFICES ASSUME Init PROVE TypedInv
  OBVIOUS
<1>1. /\ cache = [c \in Cells |-> Zero] /\ stable = [c \in Cells |-> {Zero}]
      /\ jf = [i \in Tids |-> NoFile] /\ jstable = [i \in Tids |-> {NoFile}]
      /\ jlock = NoProc /\ plocks = [p \in Procs |-> {}] /\ ack = [t \in Txns |-> "new"]
      /\ cur = [th \in Threads |-> Idle] /\ saved = [th \in Threads |-> Idle] /\ fsck = FsckOff
  BY DEF Init, TransInit, FileInit
<1>2. TypedData
  BY <1>1 DEF TypedData, Values
<1>3. TypedFiles
  <2>1. NoFile \in Contents
    BY DEF Contents
  <2> QED  BY <1>1, <2>1 DEF TypedFiles
<1>4. TypedLocks
  BY <1>1 DEF TypedLocks
<1>5. ASSUME NEW u \in Threads PROVE TypedThread(u) /\ ~Redoing(u)
  <2>1. /\ Idle.kind = "none" /\ Idle.pc = "idle" /\ Idle.retval = -1 /\ Idle.held = {}
    BY DEF Idle, Frame
  <2>2. cur[u] = Idle /\ saved[u] = Idle
    BY <1>1
  <2> QED  BY <2>1, <2>2 DEF TypedThread, Redoing, PCs, CallKinds
<1>6. TypedFsck
  <2>1. fsck.pc = "off" /\ fsck.i = 0 /\ fsck.maxtid = 0
    BY <1>1 DEF FsckOff
  <2>2. 0 \in 0 .. MaxTid
    BY JioAssumption
  <2> QED  BY <1>5, <2>1, <2>2 DEF TypedFsck
<1>7. jlock \in Procs \cup {NoProc} /\ ack \in [Txns -> Acks]
  BY <1>1 DEF Acks
<1> QED  BY <1>2, <1>3, <1>4, <1>5, <1>6, <1>7 DEF TypedInv

-----------------------------------------------------------------------------

LEMMA TypedInvHolds == ASSUME OneThreadPerProcess PROVE Spec => [](IdInv /\ TypedInv)
<1>1. IdInv /\ TypedInv /\ [Next]_vars => TypedInv'
  <2> SUFFICES ASSUME IdInv, TypedInv, [Next]_vars PROVE TypedInv'
    OBVIOUS
  <2>1. CASE UNCHANGED vars
    BY <2>1, QuietTypes
  <2>2. ASSUME NEW th \in Threads, Step(th) PROVE TypedInv'
    BY <2>2, StepTyped
  <2>3. ASSUME NEW th \in Threads, Call(th) PROVE TypedInv'
    BY <2>3, CallHoldsTypes
  <2>4. ASSUME NEW p \in Procs \ {ProcOf[Checker]}, Open(p) PROVE TypedInv'
    BY <2>4, QuietTypes
  <2>5. CASE Fsck
    BY <2>5, FsckStartTypes, FsckScanTypes, FsckCommitTypes, FsckCommitReturnTypes DEF Fsck
  <2>6. CASE PowerFail
    BY <2>6, PowerFailTypes
  <2>7. ASSUME NEW p \in Procs, Kill(p) PROVE TypedInv'
    BY <2>7, KillTypes
  <2> QED  BY <2>1, <2>2, <2>3, <2>4, <2>5, <2>6, <2>7 DEF Next
<1> QED  BY <1>1, InitTypes, IdInvHolds, PTL DEF Spec

\* The variables of libjio's model have the values they are meant to have,
\* whatever fails: a cell holds what a transaction wrote, the first contents or
\* garbage that a power failure left, a call is at a place of its kind of call,
\* at one of its operations, and has the locks it remembers to release, and
\* jtrans_commit returns success, -1 or -2.  A commit at its transaction file
\* has an id that is not 0, although get_tid may run out of them.
THEOREM TypesCorrect == ASSUME OneThreadPerProcess PROVE Spec => []TypeOK
<1>1. IdInv /\ TypedInv => TypeOK
  <2> SUFFICES ASSUME IdInv, TypedInv PROVE TypeOK
    OBVIOUS
  <2>1. max \in 0 .. MaxTid /\ \A th \in Threads : cur[th].tid \in 0 .. MaxTid
    BY DEF IdInv, StateOK, ThreadOK, FrameOK
  <2>2. cache \in [Cells -> Txns \cup {Zero, Garbage}]
    BY DEF TypedInv, TypedData, Values
  <2>3. \A th \in Threads : cur[th].pc \in {"fill", "trailer", "fsync"} => cur[th].tid \in Tids
    BY DEF IdInv, ThreadOK, HasId, WithId
  <2> QED  BY <2>1, <2>2, <2>3 DEF TypeOK, TypedInv, TypedData, TypedFiles, TypedLocks, TypedThread
<1> QED  BY <1>1, TypedInvHolds, PTL

=============================================================================
