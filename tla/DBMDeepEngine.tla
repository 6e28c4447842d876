--------------------------- MODULE DBMDeepEngine ---------------------------
(***************************************************************************)
(* The transactional core of DBM::Deep (Engine.pm and the bucket lists of  *)
(* Engine/Sector/BucketList.pm and Reference.pm): one hash in one file,    *)
(* shared by several engines, each an open handle with its own trans_id    *)
(* and its own in-memory list of modified buckets.                         *)
(*                                                                         *)
(* A bucket holds a key, the location of its value in the HEAD and, for    *)
(* each transaction id, the location of that transaction's value with the  *)
(* staleness counter it was written under.  Location 0 is "never written", *)
(* location 1 is "deleted", a larger one is the offset of a data sector.   *)
(*                                                                         *)
(* Every method of DBM/Deep.pm runs under flock(), and here it is one      *)
(* action: methods that write exclude the others, and FETCH, which writes  *)
(* under the shared lock when a key has no value, is taken not to overlap  *)
(* (DBMDeepSharedFetch takes that apart).  When a method dies inside the   *)
(* engine the lock is not released; that leftover lock is the variable     *)
(* held.  Splitting a full bucket list (reindexing) and values that are    *)
(* references are left out here.                                           *)
(***************************************************************************)
EXTENDS Naturals, Functions

CONSTANTS
  Engines,     \* the open handles (processes) on the file
  Keys,        \* the keys of the hash
  Values,      \* the scalars that can be stored
  Undef,       \* the value of a Null sector
  NumTxns,     \* num_txns of the file header: the HEAD and NumTxns - 1 others
  StaleMod,    \* a staleness counter is packed into 16 bits: 2^16
  MaxBuckets,  \* buckets of a bucket list
  Sectors,     \* offsets of data sectors the file may grow to: the bound of TLC
  NoKey,       \* the blank_md5 of an unused bucket
  NoLoc,       \* location 0
  Deleted,     \* location 1
  Free         \* content of a sector that is on the free chain or not yet cut

ASSUME ConstantsAssumption ==
  /\ NumTxns \in Nat \ {0}
  /\ StaleMod \in Nat \ {0}
  /\ MaxBuckets \in Nat \ {0}
  /\ NoKey \notin Keys
  /\ NoLoc \notin Sectors /\ Deleted \notin Sectors /\ NoLoc # Deleted
  /\ Free \notin Values \cup {Undef}

VARIABLES
  slots,    \* file header: ids whose bit is set in the activeness bitfield
  counter,  \* file header: the staleness counter of each transaction id
  intact,   \* nothing has been written in front of the bucket list
  blist,    \* has the hash a bucket list yet?
  md5,      \* bucket -> the key stored in it
  loc,      \* bucket -> id -> location
  tag,      \* bucket -> id -> staleness written beside the location
  sector,   \* data sector -> its content
  transId,  \* engine -> trans_id (in memory)
  entries,  \* engine -> id -> buckets recorded by add_entry (in memory)
  held      \* engine -> flock left behind by a method that died

file == <<slots, counter, intact, blist, md5, loc, tag, sector>>
vars ==
  <<slots, counter, intact, blist, md5, loc, tag, sector, transId, entries, held>>

HEAD == 0
Ids == 0 .. NumTxns - 1
TxnIds == Ids \ {HEAD}
Buckets == 0 .. MaxBuckets - 1
Staleness == 0 .. StaleMod - 1
Locations == Sectors \cup {NoLoc, Deleted}

\* txn_bitfield_len * 8: the bitfield is a whole number of bytes.
BitfieldIds == 1 .. 8 * ((NumTxns + 7) \div 8)

TypeOK ==
  /\ slots \in SUBSET BitfieldIds
  /\ counter \in [TxnIds -> Staleness]
  /\ intact \in BOOLEAN
  /\ blist \in BOOLEAN
  /\ md5 \in [Buckets -> Keys \cup {NoKey}]
  /\ loc \in [Buckets -> [Ids -> Locations]]
  /\ tag \in [Buckets -> [Ids -> Staleness]]
  /\ sector \in [Sectors -> Values \cup {Undef, Free}]
  /\ transId \in [Engines -> {HEAD} \cup BitfieldIds]
  /\ entries \in [Engines -> [TxnIds -> SUBSET Buckets]]
  /\ held \in [Engines -> {"none", "shared", "exclusive"}]

Init ==
  /\ slots = {}
  /\ counter = [t \in TxnIds |-> 0]
  /\ intact = TRUE
  /\ blist = FALSE
  /\ md5 = [i \in Buckets |-> NoKey]
  /\ loc = [i \in Buckets |-> [t \in Ids |-> NoLoc]]
  /\ tag = [i \in Buckets |-> [t \in Ids |-> 0]]
  /\ sector = [s \in Sectors |-> Free]
  /\ transId = [e \in Engines |-> HEAD]
  /\ entries = [e \in Engines |-> [t \in TxnIds |-> {}]]
  /\ held = [e \in Engines |-> "none"]

-----------------------------------------------------------------------------
(* Locks.  An engine that still holds a lock does not call flock() again.  *)

lock_exclusive(e) ==
  held[e] # "none" \/ \A f \in Engines \ {e} : held[f] = "none"

lock_shared(e) ==
  held[e] # "none" \/ \A f \in Engines \ {e} : held[f] # "exclusive"

\* A die between lock and unlock: the flock of the outermost lock stays.
LeaveLocked(e, type) ==
  held' = [held EXCEPT ![e] = IF @ = "none" THEN type ELSE @]

-----------------------------------------------------------------------------
(* Bucket lists.                                                           *)

\* Mutant: the scan does not stop at the first candidate.
find_md5_AnyCandidate(k, i) == md5[i] \in {k, NoKey}

\* The scan stops at the first bucket that is blank or holds the key.  When
\* there is none, the list is full and write_data would reindex it.
find_md5(k, i) ==
  /\ md5[i] \in {k, NoKey}
  /\ \A j \in Buckets : j < i => md5[j] \notin {k, NoKey}

IsStale(i, t) == t # HEAD /\ tag[i][t] # counter[t]

SlotLoc(i, t) == IF IsStale(i, t) THEN NoLoc ELSE loc[i][t]

\* Mutant: allow_head defaults to 1.
get_data_location_for_HeadAllowed(i, t) ==
  IF SlotLoc(i, t) \in Sectors THEN SlotLoc(i, t)
  ELSE IF loc[i][HEAD] \in Sectors THEN loc[i][HEAD] ELSE NoLoc

\* allow_head => 0.  The marker of a deletion is not a location.
get_data_location_for(i, t) ==
  IF SlotLoc(i, t) \in Sectors THEN SlotLoc(i, t) ELSE NoLoc

\* allow_head => 1: the HEAD stands in only for a slot never written.
LocationOrHead(i, t) ==
  IF SlotLoc(i, t) = NoLoc
  THEN get_data_location_for(i, HEAD) ELSE get_data_location_for(i, t)

\* The write get_data_location_for makes when it meets a stale slot.
Scrub(i, t) ==
  /\ loc' = IF IsStale(i, t) THEN [loc EXCEPT ![i][t] = NoLoc] ELSE loc
  /\ tag' = IF IsStale(i, t) THEN [tag EXCEPT ![i][t] = 0] ELSE tag

FreeSectors == {s \in Sectors : sector[s] = Free}

\* Mutant: write_data and delete_key forget the running transactions.
Unprotected_None(i) == {}

\* Mutant: the "next if" of their loops is lost.
Unprotected_All(i) == slots

\* The running transactions that have no value of their own in bucket i.
Unprotected(i) == {t \in slots : get_data_location_for(i, t) = NoLoc}

\* The first of them the loops of write_data and delete_key come to.
FirstUnprotected(i, t) ==
  t \in Unprotected(i) /\ \A u \in Unprotected(i) : t <= u

\* begin_work may hand out an id for which the buckets and the header have no
\* room, and delete_key may write in front of the bucket list.  From then on
\* slots, counters or buckets overlap other data, and this module does not
\* follow the file any further.
LayoutSound == intact /\ slots \subseteq TxnIds

-----------------------------------------------------------------------------
(* write_data: the value sector n has been cut before it is called.        *)

WriteInTxn(e, k, i, v) ==
  LET t == transId[e]
      own == get_data_location_for(i, t)
  IN  /\ t # HEAD
      /\ \E n \in FreeSectors :
           /\ loc' = [loc EXCEPT ![i] = [u \in Ids |->
                        CASE u = t -> n
                          [] u = HEAD /\ md5[i] # k -> Deleted
                          [] OTHER -> loc[i][u]]]
           /\ sector' = [s \in Sectors |->
                        CASE s = n -> v
                          [] s = own /\ s # n -> Free
                          [] OTHER -> sector[s]]
      /\ tag' = [tag EXCEPT ![i][t] = counter[t]]
      /\ md5' = [md5 EXCEPT ![i] = k]
      /\ entries' = [entries EXCEPT ![e][t] = @ \cup {i}]
      /\ blist' = TRUE
      /\ UNCHANGED <<slots, counter, intact, transId, held>>

\* The HEAD first gives its old value to every running transaction that has
\* none (or tells it that the key does not exist), then overwrites it.
WriteInHead(e, k, i, v) ==
  LET old == get_data_location_for(i, HEAD)
      bare == Unprotected(i)
      cloning == IF md5[i] = k THEN bare ELSE {}
  IN  /\ transId[e] = HEAD
      /\ cloning = {} \/ old # NoLoc
      /\ \E n \in FreeSectors : \E c \in Injection(cloning, FreeSectors \ {n}) :
           /\ loc' = [loc EXCEPT ![i] = [u \in Ids |->
                        CASE u = HEAD -> n
                          [] u \in cloning -> c[u]
                          [] u \in bare \ cloning -> Deleted
                          [] OTHER -> loc[i][u]]]
           /\ sector' = [s \in Sectors |->
                        CASE s = n -> v
                          [] s # n /\ (\E u \in cloning : c[u] = s) -> sector[old]
                          [] s = old -> Free
                          [] OTHER -> sector[s]]
      /\ tag' = [tag EXCEPT ![i] = [u \in Ids |->
                   IF u \in bare THEN counter[u] ELSE tag[i][u]]]
      /\ md5' = [md5 EXCEPT ![i] = k]
      /\ entries' = [entries EXCEPT ![e] = [u \in TxnIds |->
                       IF u \in bare THEN entries[e][u] \cup {i} ELSE entries[e][u]]]
      /\ blist' = TRUE
      /\ UNCHANGED <<slots, counter, intact, transId, held>>

\* The bucket holds the key but the HEAD has no value to clone: undef->clone
\* dies at the first unprotected transaction, the new sector is lost.
WriteDies(e, k, i, v, type) ==
  /\ transId[e] = HEAD
  /\ md5[i] = k
  /\ get_data_location_for(i, HEAD) = NoLoc
  /\ \E t \in Unprotected(i) : FirstUnprotected(i, t) /\ Scrub(i, t)
  /\ \E n \in FreeSectors : sector' = [sector EXCEPT ![n] = v]
  /\ LeaveLocked(e, type)
  /\ UNCHANGED <<slots, counter, intact, blist, md5, transId, entries>>

write_data(e, k, i, v, type) ==
  \/ WriteInTxn(e, k, i, v)
  \/ WriteInHead(e, k, i, v)
  \/ WriteDies(e, k, i, v, type)

-----------------------------------------------------------------------------
(* The methods of the tied hash.                                           *)

STORE(e, k, v) ==
  /\ lock_exclusive(e)
  /\ LayoutSound
  /\ \E i \in Buckets : find_md5(k, i) /\ write_data(e, k, i, v, "exclusive")

\* Looking at a bucket writes to the file only to scrub a stale slot.
LookAt(e, i) ==
  /\ Scrub(i, transId[e])
  /\ UNCHANGED <<slots, counter, intact, blist, md5, sector, transId, entries, held>>

EXISTS(e, k) ==
  /\ lock_shared(e)
  /\ LayoutSound
  /\ \E i \in Buckets : find_md5(k, i) /\ md5[i] = k /\ LookAt(e, i)

HasValue(e, k, i) == md5[i] = k /\ LocationOrHead(i, transId[e]) # NoLoc

\* A read of a key that does not exist stores a Null under the shared lock.
FETCH(e, k) ==
  /\ lock_shared(e)
  /\ LayoutSound
  /\ \E i \in Buckets :
       /\ find_md5(k, i)
       /\ \/ HasValue(e, k, i) /\ LookAt(e, i)
          \/ ~HasValue(e, k, i) /\ write_data(e, k, i, Undef, "shared")

\* No transaction runs: the buckets behind i move up and the sector is freed;
\* a bucket without a value in the HEAD makes the method die after the move.
delete_md5(e, k, i) ==
  LET old == get_data_location_for(i, HEAD)
      MoveUp(f, blank) == [j \in Buckets |->
        CASE j < i -> f[j]
          [] j >= i /\ j + 1 \in Buckets -> f[j + 1]
          [] OTHER -> blank]
  IN  /\ slots = {}
      /\ md5[i] = k
      /\ md5' = MoveUp(md5, NoKey)
      /\ loc' = MoveUp(loc, [t \in Ids |-> NoLoc])
      /\ tag' = MoveUp(tag, [t \in Ids |-> 0])
      /\ sector' = [s \in Sectors |-> IF s = old THEN Free ELSE sector[s]]
      /\ IF old = NoLoc THEN LeaveLocked(e, "exclusive") ELSE held' = held
      /\ UNCHANGED <<slots, counter, intact, blist, transId, entries>>

\* Mutant: mark_deleted without the trans_id.
DeleteInTxn_MarksHead(e, i) ==
  /\ transId[e] # HEAD
  /\ loc' = [loc EXCEPT ![i][HEAD] = Deleted]
  /\ UNCHANGED <<slots, counter, intact, blist, md5, tag, sector, transId, entries, held>>

\* A transaction only marks the key deleted for itself; the key need not
\* exist, and then the marker goes into the blank bucket.
DeleteInTxn(e, i) ==
  LET t == transId[e]
      own == get_data_location_for(i, t)
  IN  /\ t # HEAD
      /\ loc' = [loc EXCEPT ![i][t] = Deleted]
      /\ tag' = [tag EXCEPT ![i][t] = counter[t]]
      /\ sector' = [s \in Sectors |-> IF s = own THEN Free ELSE sector[s]]
      /\ entries' = [entries EXCEPT ![e][t] = @ \cup {i}]
      /\ UNCHANGED <<slots, counter, intact, blist, md5, transId, held>>

\* The HEAD, while transactions run: clone for them, then mark and free.
DeleteInHead(e, i) ==
  LET old == get_data_location_for(i, HEAD)
      bare == Unprotected(i)
  IN  /\ transId[e] = HEAD
      /\ slots # {}
      /\ bare = {} \/ old # NoLoc
      /\ \E c \in Injection(bare, FreeSectors) :
           /\ loc' = [loc EXCEPT ![i] = [u \in Ids |->
                        CASE u = HEAD -> Deleted
                          [] u # HEAD /\ u \in bare -> c[u]
                          [] OTHER -> loc[i][u]]]
           /\ sector' = [s \in Sectors |->
                        CASE \E u \in bare : c[u] = s -> sector[old]
                          [] s = old -> Free
                          [] OTHER -> sector[s]]
      /\ tag' = [tag EXCEPT ![i] = [u \in Ids |->
                   IF u \in bare THEN counter[u] ELSE tag[i][u]]]
      /\ entries' = [entries EXCEPT ![e] = [u \in TxnIds |->
                       IF u \in bare THEN entries[e][u] \cup {i} ELSE entries[e][u]]]
      /\ UNCHANGED <<slots, counter, intact, blist, md5, transId, held>>

\* The HEAD deletes a key it does not have while some transaction has none
\* either: there is no old value to clone, and the method dies.
DeleteDies(e, i) ==
  /\ transId[e] = HEAD
  /\ get_data_location_for(i, HEAD) = NoLoc
  /\ \E t \in Unprotected(i) : FirstUnprotected(i, t) /\ Scrub(i, t)
  /\ LeaveLocked(e, "exclusive")
  /\ UNCHANGED <<slots, counter, intact, blist, md5, sector, transId, entries>>

\* The list is full and does not hold the key, so idx is -1: the bytes in front
\* of the list are read as a bucket, whose location may or may not make
\* _load_sector die, and marked deleted if a transaction runs.
DeleteOutside(e, k) ==
  /\ \A i \in Buckets : ~find_md5(k, i)
  /\ \/ intact' = intact /\ LeaveLocked(e, "exclusive")
     \/ slots # {} /\ intact' = FALSE /\ LeaveLocked(e, "exclusive")
     \/ slots # {} /\ intact' = FALSE /\ held' = held
  /\ UNCHANGED <<slots, counter, blist, md5, loc, tag, sector, transId, entries>>

DELETE(e, k) ==
  /\ lock_exclusive(e)
  /\ LayoutSound
  /\ blist
  /\ \/ DeleteOutside(e, k)
     \/ \E i \in Buckets :
          /\ find_md5(k, i)
          /\ \/ delete_md5(e, k, i)
             \/ DeleteInTxn(e, i)
             \/ DeleteInHead(e, i)
             \/ DeleteDies(e, i)

-----------------------------------------------------------------------------
(* Transactions.                                                           *)

\* The lowest clear bit; Perl's list runs over every bit of the bitfield.
\* Without a clear bit the method reports an error and changes nothing.
begin_work(e) ==
  /\ lock_exclusive(e)
  /\ LayoutSound
  /\ transId[e] = HEAD
  /\ \E t \in BitfieldIds \ slots :
       /\ \A u \in BitfieldIds : u < t => u \in slots
       /\ slots' = slots \cup {t}
       /\ transId' = [transId EXCEPT ![e] = t]
  /\ UNCHANGED <<counter, intact, blist, md5, loc, tag, sector, entries, held>>

\* Mutant: the counter is not cut to 16 bits.
inc_txn_staleness_counter_NoWrap(n) == n + 1

inc_txn_staleness_counter(n) == (n + 1) % StaleMod

\* Mutant: $slots[trans_id] instead of $slots[trans_id - 1].
ReleaseSlot_OffByOne(t) == slots \ {t + 1}

ReleaseSlot(t) == slots \ {t}

\* The common end of commit and rollback.
EndTransaction(e) ==
  LET t == transId[e]
  IN  /\ entries' = [entries EXCEPT ![e][t] = {}]
      /\ slots' = ReleaseSlot(t)
      /\ counter' = [counter EXCEPT ![t] = inc_txn_staleness_counter(@)]
      /\ transId' = [transId EXCEPT ![e] = HEAD]
      /\ UNCHANGED <<intact, blist, md5, held>>

\* Every recorded bucket: the slot becomes the HEAD, the old HEAD is freed.
\* The staleness of the slot is not looked at.
commit(e) ==
  LET t == transId[e]
      todo == entries[e][t]
  IN  /\ lock_exclusive(e)
      /\ LayoutSound
      /\ t # HEAD
      /\ loc' = [i \in Buckets |->
           IF i \in todo
           THEN [loc[i] EXCEPT ![HEAD] = loc[i][t], ![t] = NoLoc] ELSE loc[i]]
      /\ tag' = [i \in Buckets |->
           IF i \in todo THEN [tag[i] EXCEPT ![t] = 0] ELSE tag[i]]
      /\ sector' = [s \in Sectors |->
           IF \E i \in todo : loc[i][HEAD] = s THEN Free ELSE sector[s]]
      /\ EndTransaction(e)

\* Mutant: the HEAD's location is read and cleared instead of the slot's.
rollback_ClearsHead(e) ==
  LET t == transId[e]
      todo == entries[e][t]
  IN  /\ lock_exclusive(e)
      /\ LayoutSound
      /\ t # HEAD
      /\ loc' = [i \in Buckets |->
           IF i \in todo THEN [loc[i] EXCEPT ![HEAD] = NoLoc] ELSE loc[i]]
      /\ sector' = [s \in Sectors |->
           IF \E i \in todo : loc[i][HEAD] = s THEN Free ELSE sector[s]]
      /\ tag' = tag
      /\ EndTransaction(e)

\* Every recorded bucket: the slot is emptied and its sector freed.
rollback(e) ==
  LET t == transId[e]
      todo == entries[e][t]
  IN  /\ lock_exclusive(e)
      /\ LayoutSound
      /\ t # HEAD
      /\ loc' = [i \in Buckets |->
           IF i \in todo THEN [loc[i] EXCEPT ![t] = NoLoc] ELSE loc[i]]
      /\ sector' = [s \in Sectors |->
           IF \E i \in todo : loc[i][t] = s THEN Free ELSE sector[s]]
      /\ tag' = tag
      /\ EndTransaction(e)

\* The process ends, or is killed between two methods, and is started again:
\* the kernel drops its flock, its memory is gone, the file stays as it is.
Exit(e) ==
  /\ LayoutSound
  /\ transId' = [transId EXCEPT ![e] = HEAD]
  /\ entries' = [entries EXCEPT ![e] = [t \in TxnIds |-> {}]]
  /\ held' = [held EXCEPT ![e] = "none"]
  /\ UNCHANGED file

DataStep(e) ==
  \E k \in Keys :
    \/ \E v \in Values \cup {Undef} : STORE(e, k, v)
    \/ FETCH(e, k)
    \/ EXISTS(e, k)
    \/ DELETE(e, k)

Next == \E e \in Engines :
  \/ DataStep(e)
  \/ begin_work(e)
  \/ commit(e)
  \/ rollback(e)
  \/ Exit(e)

Spec == Init /\ [][Next]_vars

-----------------------------------------------------------------------------
(* Properties.                                                             *)

\* What a reader under id t gets for key k: one value, or none.
Seen(t, k) ==
  {sector[LocationOrHead(i, t)] :
     i \in {j \in Buckets : md5[j] = k /\ LocationOrHead(j, t) # NoLoc}}

\* A running transaction has its bit set in the header, and no two engines run
\* under the same id: what get_running_txn_ids reads covers every engine.
TxnIdsExclusive ==
  \A e \in Engines : transId[e] # HEAD =>
    /\ transId[e] \in slots
    /\ \A f \in Engines \ {e} : transId[f] # transId[e]

\* No location in any bucket, stale or not, leads to a freed sector.
NotDangling ==
  \A i \in Buckets, t \in Ids :
    loc[i][t] \in Sectors => sector[loc[i][t]] # Free

\* No two locations lead to the same sector.
NotShared ==
  \A i, j \in Buckets : \A t, u \in Ids :
    loc[i][t] = loc[j][u] /\ loc[i][t] \in Sectors => i = j /\ t = u

\* The frees of write_data, delete_key, commit and rollback never free a sector
\* twice or one that some slot still names, so _load_sector(..)->free never
\* meets undef half-way through a commit.
HeapIntegrity == NotDangling /\ NotShared

\* The used buckets come first.
BlanksLast == \A i, j \in Buckets : i < j /\ md5[i] = NoKey => md5[j] = NoKey

\* No key is in two buckets.
KeysOnce == \A i, j \in Buckets : md5[i] = md5[j] /\ md5[i] # NoKey => i = j

\* A blank bucket may hold the marker of a deletion but no value.
BlanksEmpty ==
  \A i \in Buckets : md5[i] = NoKey => \A t \in Ids : loc[i][t] \notin Sectors

\* find_md5 stops at the first blank bucket: what write_md5 puts in and
\* delete_md5 closes up must never hide a key behind a blank, give it a second
\* bucket, or leave a value in a bucket that nobody can find.
BucketListCompact == BlanksLast /\ KeysOnce /\ BlanksEmpty

\* A dirty read never happens: what an engine does inside its transaction, and
\* its rollback, change nothing for the HEAD or for another transaction.
UncommittedInvisible ==
  [][\A t \in {HEAD} \cup slots, k \in Keys :
       Seen(t, k)' # Seen(t, k) =>
         \A e \in Engines : transId[e] \notin {HEAD, t} =>
           ~DataStep(e) /\ ~rollback(e)]_vars

\* What write_data and delete_key clone for: a write to the HEAD does not
\* change what a running transaction reads, unless its slot says that the key
\* is deleted.
HeadWritesIsolated ==
  [][\A t \in slots, k \in Keys :
       /\ Seen(t, k)' # Seen(t, k)
       /\ \A i \in Buckets : md5[i] = k => SlotLoc(i, t) # Deleted
       => \A e \in Engines : transId[e] = HEAD => ~DataStep(e)]_vars

\* The value a transaction stored stays what it reads, whatever the other
\* engines do, commits and exits included, until the transaction ends.
OwnStoresSurvive ==
  [][\A e \in Engines, i \in Buckets :
       /\ transId[e] # HEAD /\ transId'[e] = transId[e]
       /\ get_data_location_for(i, transId[e]) # NoLoc
       /\ Seen(transId[e], md5[i])' # Seen(transId[e], md5[i])
       => DataStep(e)]_vars

-----------------------------------------------------------------------------
(* What the documentation says and the code does not do.                   *)

\* Deep.pod: commit() "applies the changes done within the transaction to the
\* mainline".  For every key the HEAD keeps its value or takes the one the
\* transaction was reading, never a third one.
CommitAppliesChanges ==
  [][\A e \in Engines, k \in Keys :
       Seen(HEAD, k)' \notin {Seen(HEAD, k), Seen(transId[e], k)} => ~commit(e)]_vars

=============================================================================
