------------------------ MODULE DBMDeepEngineProofs ------------------------
(***************************************************************************)
(* The transactional core of DBM::Deep, for any number of engines, keys,   *)
(* transactions, buckets and sectors: types, exclusive transaction ids and *)
(* the integrity of the data sectors.                                      *)
(***************************************************************************)
EXTENDS DBMDeepEngine, TLAPS

LEMMA IdFacts ==
  /\ HEAD \in Ids
  /\ TxnIds \subseteq Ids
  /\ HEAD \notin TxnIds
  /\ HEAD \notin BitfieldIds
  /\ Ids = TxnIds \cup {HEAD}
  /\ 0 \in Staleness
  /\ \A n \in Staleness : inc_txn_staleness_counter(n) \in Staleness
BY ConstantsAssumption
   DEF HEAD, Ids, TxnIds, BitfieldIds, Staleness, inc_txn_staleness_counter

\* What the types say about the locations and the unprotected transactions.
LEMMA LocationTypes ==
  ASSUME TypeOK, NEW i \in Buckets, NEW t \in Ids
  PROVE  /\ get_data_location_for(i, t) \in Sectors \cup {NoLoc}
         /\ get_data_location_for(i, t) # NoLoc =>
              get_data_location_for(i, t) = loc[i][t]
BY ConstantsAssumption
   DEF TypeOK, get_data_location_for, SlotLoc, Locations

\* An engine inside a transaction runs under an id the file has room for.
LEMMA RunningId ==
  ASSUME TypeOK, TxnIdsExclusive, LayoutSound, NEW e \in Engines, transId[e] # HEAD
  PROVE  transId[e] \in TxnIds
BY DEF TypeOK, TxnIdsExclusive, LayoutSound

LEMMA ScrubType ==
  ASSUME TypeOK, NEW i \in Buckets, NEW t \in Ids, Scrub(i, t)
  PROVE  /\ loc' \in [Buckets -> [Ids -> Locations]]
         /\ tag' \in [Buckets -> [Ids -> Staleness]]
BY IdFacts DEF TypeOK, Scrub, Locations

LEMMA WriteType ==
  ASSUME TypeOK, TxnIdsExclusive, LayoutSound,
         NEW e \in Engines, NEW k \in Keys, NEW i \in Buckets,
         NEW v \in Values \cup {Undef}, NEW type \in {"shared", "exclusive"},
         write_data(e, k, i, v, type)
  PROVE  TypeOK'
<1> USE IdFacts
<1>1. CASE WriteInTxn(e, k, i, v)
  <2> DEFINE t == transId[e]
  <2>1. t \in TxnIds
    BY <1>1, RunningId DEF WriteInTxn
  <2>2. PICK n \in FreeSectors :
          /\ loc' = [loc EXCEPT ![i] = [u \in Ids |->
                        CASE u = t -> n
                          [] u = HEAD /\ md5[i] # k -> Deleted
                          [] OTHER -> loc[i][u]]]
          /\ sector' = [s \in Sectors |->
                        CASE s = n -> v
                          [] s = get_data_location_for(i, t) /\ s # n -> Free
                          [] OTHER -> sector[s]]
    BY <1>1 DEF WriteInTxn
  <2>3. loc' \in [Buckets -> [Ids -> Locations]]
    BY <2>1, <2>2 DEF TypeOK, FreeSectors, Locations
  <2>4. sector' \in [Sectors -> Values \cup {Undef, Free}]
    BY <2>2 DEF TypeOK
  <2>5. tag' \in [Buckets -> [Ids -> Staleness]]
    BY <1>1, <2>1 DEF WriteInTxn, TypeOK
  <2>6. entries' \in [Engines -> [TxnIds -> SUBSET Buckets]]
    BY <1>1, <2>1 DEF WriteInTxn, TypeOK
  <2> QED
    BY <1>1, <2>3, <2>4, <2>5, <2>6 DEF WriteInTxn, TypeOK
<1>2. CASE WriteInHead(e, k, i, v)
  <2> DEFINE old == get_data_location_for(i, HEAD)
             bare == Unprotected(i)
             cloning == IF md5[i] = k THEN bare ELSE {}
  <2>1. bare \subseteq TxnIds /\ cloning \subseteq bare
    BY DEF Unprotected, LayoutSound
  <2>2. cloning = {} \/ old \in Sectors
    BY <1>2, LocationTypes DEF WriteInHead
  <2>3. PICK n \in FreeSectors : \E c \in Injection(cloning, FreeSectors \ {n}) :
          /\ loc' = [loc EXCEPT ![i] = [u \in Ids |->
                        CASE u = HEAD -> n
                          [] u \in cloning -> c[u]
                          [] u \in bare \ cloning -> Deleted
                          [] OTHER -> loc[i][u]]]
          /\ sector' = [s \in Sectors |->
                        CASE s = n -> v
                          [] s # n /\ (\E u \in cloning : c[u] = s) -> sector[old]
                          [] s = old -> Free
                          [] OTHER -> sector[s]]
    BY <1>2 DEF WriteInHead
  <2>3a. PICK c \in Injection(cloning, FreeSectors \ {n}) :
          /\ loc' = [loc EXCEPT ![i] = [u \in Ids |->
                        CASE u = HEAD -> n
                          [] u \in cloning -> c[u]
                          [] u \in bare \ cloning -> Deleted
                          [] OTHER -> loc[i][u]]]
          /\ sector' = [s \in Sectors |->
                        CASE s = n -> v
                          [] s # n /\ (\E u \in cloning : c[u] = s) -> sector[old]
                          [] s = old -> Free
                          [] OTHER -> sector[s]]
    BY <2>3
  <2>4. c \in [cloning -> FreeSectors \ {n}]
    BY <2>3a DEF Injection
  <2> HIDE DEF old, bare, cloning
  <2>5. loc' \in [Buckets -> [Ids -> Locations]]
    <3>1. ASSUME NEW u \in Ids
          PROVE (CASE u = HEAD -> n
                   [] u \in cloning -> c[u]
                   [] u \in bare \ cloning -> Deleted
                   [] OTHER -> loc[i][u]) \in Locations
      BY <2>1, <2>3, <2>3a, <2>4 DEF TypeOK, FreeSectors, Locations
    <3> QED BY <2>3a, <3>1 DEF TypeOK
  <2>6. sector' \in [Sectors -> Values \cup {Undef, Free}]
    BY <2>2, <2>3, <2>3a DEF TypeOK
  <2>7. /\ tag' \in [Buckets -> [Ids -> Staleness]]
        /\ entries' \in [Engines -> [TxnIds -> SUBSET Buckets]]
    BY <1>2, <2>1 DEF WriteInHead, TypeOK, bare
  <2> QED
    BY <1>2, <2>5, <2>6, <2>7 DEF WriteInHead, TypeOK
<1>3. CASE WriteDies(e, k, i, v, type)
  <2>1. PICK t \in Unprotected(i) : Scrub(i, t)
    BY <1>3 DEF WriteDies
  <2>2. t \in Ids
    BY <2>1 DEF Unprotected, LayoutSound
  <2>3. sector' \in [Sectors -> Values \cup {Undef, Free}]
    BY <1>3 DEF WriteDies, TypeOK, FreeSectors
  <2>4. held' \in [Engines -> {"none", "shared", "exclusive"}]
    BY <1>3 DEF WriteDies, LeaveLocked, TypeOK
  <2>5. /\ loc' \in [Buckets -> [Ids -> Locations]]
        /\ tag' \in [Buckets -> [Ids -> Staleness]]
    BY <2>1, <2>2, ScrubType
  <2> QED
    BY <1>3, <2>3, <2>4, <2>5 DEF WriteDies, TypeOK
<1> QED
  BY <1>1, <1>2, <1>3 DEF write_data

LEMMA DeleteType ==
  ASSUME TypeOK, TxnIdsExclusive, LayoutSound,
         NEW e \in Engines, NEW k \in Keys, DELETE(e, k)
  PROVE  TypeOK'
<1> USE IdFacts
<1>a. CASE DeleteOutside(e, k)
  BY <1>a DEF DeleteOutside, LeaveLocked, TypeOK
<1> SUFFICES ASSUME ~DeleteOutside(e, k) PROVE TypeOK'
  BY <1>a
<1>0. PICK i \in Buckets :
        \/ delete_md5(e, k, i)
        \/ DeleteInTxn(e, i)
        \/ DeleteInHead(e, i)
        \/ DeleteDies(e, i)
  BY DEF DELETE
<1>1. CASE delete_md5(e, k, i)
  <2>1. /\ md5' \in [Buckets -> Keys \cup {NoKey}]
        /\ loc' \in [Buckets -> [Ids -> Locations]]
        /\ tag' \in [Buckets -> [Ids -> Staleness]]
    BY <1>1 DEF delete_md5, TypeOK, Locations
  <2>2. sector' \in [Sectors -> Values \cup {Undef, Free}]
    BY <1>1 DEF delete_md5, TypeOK
  <2>3. held' \in [Engines -> {"none", "shared", "exclusive"}]
    BY <1>1 DEF delete_md5, LeaveLocked, TypeOK
  <2> QED
    BY <1>1, <2>1, <2>2, <2>3 DEF delete_md5, TypeOK
<1>2. CASE DeleteInTxn(e, i)
  <2>1. transId[e] \in TxnIds
    BY <1>2, RunningId DEF DeleteInTxn
  <2>2. /\ loc' \in [Buckets -> [Ids -> Locations]]
        /\ tag' \in [Buckets -> [Ids -> Staleness]]
    BY <1>2, <2>1 DEF DeleteInTxn, TypeOK, Locations
  <2>3. /\ sector' \in [Sectors -> Values \cup {Undef, Free}]
        /\ entries' \in [Engines -> [TxnIds -> SUBSET Buckets]]
    BY <1>2, <2>1 DEF DeleteInTxn, TypeOK
  <2> QED
    BY <1>2, <2>2, <2>3 DEF DeleteInTxn, TypeOK
<1>3. CASE DeleteInHead(e, i)
  <2> DEFINE old == get_data_location_for(i, HEAD)
             bare == Unprotected(i)
  <2>1. bare \subseteq TxnIds
    BY DEF Unprotected, LayoutSound
  <2>2. bare = {} \/ old \in Sectors
    BY <1>3, LocationTypes DEF DeleteInHead
  <2>3. PICK c \in Injection(bare, FreeSectors) :
          /\ loc' = [loc EXCEPT ![i] = [u \in Ids |->
                        CASE u = HEAD -> Deleted
                          [] u # HEAD /\ u \in bare -> c[u]
                          [] OTHER -> loc[i][u]]]
          /\ sector' = [s \in Sectors |->
                        CASE \E u \in bare : c[u] = s -> sector[old]
                          [] s = old -> Free
                          [] OTHER -> sector[s]]
    BY <1>3 DEF DeleteInHead
  <2>4. c \in [bare -> FreeSectors]
    BY <2>3 DEF Injection
  <2> HIDE DEF old, bare
  <2>5. loc' \in [Buckets -> [Ids -> Locations]]
    <3>1. ASSUME NEW u \in Ids
          PROVE (CASE u = HEAD -> Deleted
                   [] u # HEAD /\ u \in bare -> c[u]
                   [] OTHER -> loc[i][u]) \in Locations
      BY <2>4 DEF TypeOK, FreeSectors, Locations
    <3> QED BY <2>3, <3>1 DEF TypeOK
  <2>6. sector' \in [Sectors -> Values \cup {Undef, Free}]
    BY <2>2, <2>3 DEF TypeOK
  <2>7. /\ tag' \in [Buckets -> [Ids -> Staleness]]
        /\ entries' \in [Engines -> [TxnIds -> SUBSET Buckets]]
    BY <1>3, <2>1 DEF DeleteInHead, TypeOK, bare
  <2> QED
    BY <1>3, <2>5, <2>6, <2>7 DEF DeleteInHead, TypeOK
<1>4. CASE DeleteDies(e, i)
  <2>1. PICK t \in Unprotected(i) : Scrub(i, t)
    BY <1>4 DEF DeleteDies
  <2>2. t \in Ids
    BY <2>1 DEF Unprotected, LayoutSound
  <2>3. held' \in [Engines -> {"none", "shared", "exclusive"}]
    BY <1>4 DEF DeleteDies, LeaveLocked, TypeOK
  <2>4. /\ loc' \in [Buckets -> [Ids -> Locations]]
        /\ tag' \in [Buckets -> [Ids -> Staleness]]
    BY <2>1, <2>2, ScrubType
  <2> QED
    BY <1>4, <2>3, <2>4 DEF DeleteDies, TypeOK
<1> QED
  BY <1>0, <1>1, <1>2, <1>3, <1>4

LEMMA LookType ==
  ASSUME TypeOK, TxnIdsExclusive, LayoutSound,
         NEW e \in Engines, NEW i \in Buckets, LookAt(e, i)
  PROVE  TypeOK'
<1>1. transId[e] \in Ids
  BY IdFacts, RunningId
<1>2. /\ loc' \in [Buckets -> [Ids -> Locations]]
      /\ tag' \in [Buckets -> [Ids -> Staleness]]
  BY <1>1, ScrubType DEF LookAt
<1> QED
  BY <1>2 DEF LookAt, TypeOK

LEMMA DataStepType ==
  ASSUME TypeOK, TxnIdsExclusive, NEW e \in Engines, DataStep(e)
  PROVE  TypeOK'
<1>0. PICK k \in Keys :
        \/ \E v \in Values \cup {Undef} : STORE(e, k, v)
        \/ FETCH(e, k)
        \/ EXISTS(e, k)
        \/ DELETE(e, k)
  BY DEF DataStep
<1>1. CASE \E v \in Values \cup {Undef} : STORE(e, k, v)
  BY <1>1, WriteType DEF STORE
<1>2. CASE FETCH(e, k)
  BY <1>2, WriteType, LookType DEF FETCH
<1>3. CASE EXISTS(e, k)
  BY <1>3, LookType DEF EXISTS
<1>4. CASE DELETE(e, k)
  BY <1>4, DeleteType DEF DELETE
<1> QED
  BY <1>0, <1>1, <1>2, <1>3, <1>4

LEMMA EndType ==
  ASSUME TypeOK, NEW e \in Engines, transId[e] \in TxnIds, EndTransaction(e)
  PROVE  /\ slots' \in SUBSET BitfieldIds
         /\ counter' \in [TxnIds -> Staleness]
         /\ transId' \in [Engines -> {HEAD} \cup BitfieldIds]
         /\ entries' \in [Engines -> [TxnIds -> SUBSET Buckets]]
         /\ UNCHANGED <<intact, blist, md5, held>>
BY IdFacts DEF TypeOK, EndTransaction, ReleaseSlot

LEMMA CommitType ==
  ASSUME TypeOK, TxnIdsExclusive, NEW e \in Engines, commit(e)
  PROVE  TypeOK'
<1> USE IdFacts
<1>1. transId[e] \in TxnIds /\ EndTransaction(e)
  BY RunningId DEF commit
<1>2a. loc' \in [Buckets -> [Ids -> Locations]]
  <2>1. ASSUME NEW i \in Buckets
        PROVE  [loc[i] EXCEPT ![HEAD] = loc[i][transId[e]], ![transId[e]] = NoLoc]
                 \in [Ids -> Locations]
    BY <1>1 DEF TypeOK, Locations
  <2> QED
    BY <2>1 DEF commit, TypeOK
<1>2. tag' \in [Buckets -> [Ids -> Staleness]]
  BY <1>1 DEF commit, TypeOK
<1>3. sector' \in [Sectors -> Values \cup {Undef, Free}]
  BY DEF commit, TypeOK
<1> QED
  BY <1>1, <1>2, <1>2a, <1>3, EndType DEF TypeOK

LEMMA RollbackType ==
  ASSUME TypeOK, TxnIdsExclusive, NEW e \in Engines, rollback(e)
  PROVE  TypeOK'
<1> USE IdFacts
<1>1. transId[e] \in TxnIds /\ EndTransaction(e)
  BY RunningId DEF rollback
<1>2. /\ loc' \in [Buckets -> [Ids -> Locations]]
      /\ tag' \in [Buckets -> [Ids -> Staleness]]
  BY <1>1 DEF rollback, TypeOK, Locations
<1>3. sector' \in [Sectors -> Values \cup {Undef, Free}]
  BY DEF rollback, TypeOK
<1> QED
  BY <1>1, <1>2, <1>3, EndType DEF TypeOK

-----------------------------------------------------------------------------
(* The types and the exclusive use of transaction ids are inductive only   *)
(* together: an engine whose id were not in the header's bitfield could    *)
(* commit into a slot the buckets do not have, and an id with its bit      *)
(* cleared by another engine could be handed out twice.                    *)

TypedIds == TypeOK /\ TxnIdsExclusive

LEMMA IdsUnchanged ==
  ASSUME TxnIdsExclusive, UNCHANGED <<slots, transId>>
  PROVE  TxnIdsExclusive'
BY DEF TxnIdsExclusive

LEMMA DataStepIds ==
  ASSUME NEW e \in Engines, DataStep(e)
  PROVE  UNCHANGED <<slots, transId, counter>>
BY DEF DataStep, STORE, FETCH, EXISTS, DELETE, LookAt, write_data, WriteInTxn,
       WriteInHead, WriteDies, delete_md5, DeleteInTxn, DeleteInHead, DeleteDies,
       DeleteOutside

LEMMA EndIds ==
  ASSUME TypeOK, TxnIdsExclusive, NEW e \in Engines, transId[e] # HEAD,
         EndTransaction(e)
  PROVE  TxnIdsExclusive'
BY DEF TypeOK, TxnIdsExclusive, EndTransaction, ReleaseSlot

LEMMA TypedIdsStep ==
  ASSUME TypedIds, [Next]_vars
  PROVE  TypedIds'
<1> USE DEF TypedIds
<1>1. ASSUME NEW e \in Engines, DataStep(e) PROVE TypedIds'
  BY <1>1, DataStepType, DataStepIds, IdsUnchanged
<1>2. ASSUME NEW e \in Engines, begin_work(e) PROVE TypedIds'
  <2>1. PICK t \in BitfieldIds \ slots :
          slots' = slots \cup {t} /\ transId' = [transId EXCEPT ![e] = t]
    BY <1>2 DEF begin_work
  <2>2. TypeOK'
    BY <1>2, <2>1 DEF begin_work, TypeOK
  <2>3. TxnIdsExclusive'
    BY <2>1 DEF TypeOK, TxnIdsExclusive
  <2> QED
    BY <2>2, <2>3
<1>3. ASSUME NEW e \in Engines, commit(e) PROVE TypedIds'
  BY <1>3, CommitType, EndIds DEF commit
<1>4. ASSUME NEW e \in Engines, rollback(e) PROVE TypedIds'
  BY <1>4, RollbackType, EndIds DEF rollback
<1>5. ASSUME NEW e \in Engines, Exit(e) PROVE TypedIds'
  <2>1. TypeOK'
    BY <1>5, IdFacts DEF Exit, TypeOK, file
  <2>2. TxnIdsExclusive'
    BY <1>5 DEF Exit, TypeOK, TxnIdsExclusive, file
  <2> QED
    BY <2>1, <2>2
<1>6. CASE UNCHANGED vars
  BY <1>6 DEF vars, TypeOK, TxnIdsExclusive
<1> QED
  BY <1>1, <1>2, <1>3, <1>4, <1>5, <1>6 DEF Next

LEMMA TypedIdsInvariant == Spec => []TypedIds
<1>1. Init => TypedIds
  <2> SUFFICES ASSUME Init PROVE TypedIds
    OBVIOUS
  <2>1. TypeOK
    BY IdFacts DEF Init, TypeOK, Locations
  <2>2. TxnIdsExclusive
    BY DEF Init, TxnIdsExclusive
  <2> QED
    BY <2>1, <2>2 DEF TypedIds
<1>2. TypedIds /\ [Next]_vars => TypedIds'
  BY TypedIdsStep
<1> QED
  BY <1>1, <1>2, PTL DEF Spec

\* Every value the engine packs into the file fits its field, and every id an
\* engine runs under is a bit of the header, whatever the methods do.
THEOREM TypeCorrect == Spec => []TypeOK
<1>1. TypedIds => TypeOK
  BY DEF TypedIds
<1> QED
  BY <1>1, TypedIdsInvariant, PTL

\* No two engines ever run under the same transaction id, and the bit of an
\* engine's id stays set until that engine ends its transaction, although
\* commit, rollback and begin_work of the others rewrite the whole bitfield.
THEOREM IdsExclusive == Spec => []TxnIdsExclusive
<1>1. TypedIds => TxnIdsExclusive
  BY DEF TypedIds
<1> QED
  BY <1>1, TypedIdsInvariant, PTL

-----------------------------------------------------------------------------
(* The data sectors.                                                       *)

\* A step that changes no location except to a sector it takes from the free
\* ones, and each of those to one place, and that frees no sector a location
\* still names.
LEMMA HeapUpdate ==
  ASSUME TypeOK, HeapIntegrity,
         \A i \in Buckets, t \in Ids : loc'[i][t] \in Sectors =>
           /\ sector'[loc'[i][t]] # Free
           /\ loc'[i][t] = loc[i][t] \/ sector[loc'[i][t]] = Free,
         \A i, j \in Buckets : \A t, u \in Ids :
           /\ loc'[i][t] = loc'[j][u]
           /\ loc'[i][t] \in Sectors
           /\ sector[loc'[i][t]] = Free
           => i = j /\ t = u
  PROVE  HeapIntegrity'
<1>1. NotDangling'
  BY DEF NotDangling
<1>2. ASSUME NEW i \in Buckets, NEW j \in Buckets, NEW t \in Ids, NEW u \in Ids,
             loc'[i][t] = loc'[j][u], loc'[i][t] \in Sectors
      PROVE  i = j /\ t = u
  <2>1. CASE sector[loc'[i][t]] = Free
    BY <1>2, <2>1
  <2>2. CASE sector[loc'[i][t]] # Free
    <3>1. loc'[i][t] = loc[i][t] /\ loc'[j][u] = loc[j][u]
      BY <1>2, <2>2
    <3>2. loc[i][t] = loc[j][u] /\ loc[i][t] \in Sectors
      BY <1>2, <3>1
    <3> QED
      BY <3>2 DEF HeapIntegrity, NotShared
  <2> QED
    BY <2>1, <2>2
<1>3. NotShared'
  BY <1>2 DEF NotShared
<1> QED
  BY <1>1, <1>3 DEF HeapIntegrity

\* The location a write or a deletion replaces: its sector is in use and no
\* other location names it.
LEMMA OldLocation ==
  ASSUME TypeOK, HeapIntegrity, NEW i \in Buckets, NEW t \in Ids,
         get_data_location_for(i, t) # NoLoc
  PROVE  LET old == get_data_location_for(i, t)
         IN  /\ old \in Sectors
             /\ old = loc[i][t]
             /\ sector[old] # Free
             /\ \A j \in Buckets, u \in Ids : loc[j][u] = old => j = i /\ u = t
<1> DEFINE old == get_data_location_for(i, t)
<1>1. old \in Sectors /\ old = loc[i][t]
  BY LocationTypes
<1> HIDE DEF old
<1>2. sector[old] # Free
  BY <1>1 DEF HeapIntegrity, NotDangling
<1>3. \A j \in Buckets, u \in Ids : loc[j][u] = old => j = i /\ u = t
  BY <1>1 DEF HeapIntegrity, NotShared
<1> QED
  BY <1>1, <1>2, <1>3 DEF old

LEMMA ScrubHeap ==
  ASSUME TypeOK, HeapIntegrity, NEW i \in Buckets, NEW t \in Ids, Scrub(i, t),
         \A s \in Sectors : sector'[s] = Free => sector[s] = Free
  PROVE  HeapIntegrity'
<1>1. \A j \in Buckets, u \in Ids :
        loc'[j][u] = loc[j][u] \/ loc'[j][u] = NoLoc
  BY DEF Scrub, TypeOK
<1>2. \A j \in Buckets, u \in Ids : loc'[j][u] \in Sectors =>
        loc'[j][u] = loc[j][u] /\ sector[loc[j][u]] # Free
  BY <1>1, ConstantsAssumption DEF HeapIntegrity, NotDangling
<1> QED
  BY <1>2, HeapUpdate

LEMMA WriteHeap ==
  ASSUME TypeOK, TxnIdsExclusive, LayoutSound, HeapIntegrity,
         NEW e \in Engines, NEW k \in Keys, NEW i \in Buckets,
         NEW v \in Values \cup {Undef}, NEW type \in {"shared", "exclusive"},
         write_data(e, k, i, v, type)
  PROVE  HeapIntegrity'
<1>1. CASE WriteInTxn(e, k, i, v)
  <2> DEFINE t == transId[e]
             own == get_data_location_for(i, t)
  <2>1. t \in Ids
    BY <1>1, RunningId, IdFacts DEF WriteInTxn
  <2>2. PICK n \in FreeSectors :
          /\ loc' = [loc EXCEPT ![i] = [u \in Ids |->
                        CASE u = t -> n
                          [] u = HEAD /\ md5[i] # k -> Deleted
                          [] OTHER -> loc[i][u]]]
          /\ sector' = [s \in Sectors |->
                        CASE s = n -> v
                          [] s = own /\ s # n -> Free
                          [] OTHER -> sector[s]]
    BY <1>1 DEF WriteInTxn
  <2>3. n \in Sectors /\ sector[n] = Free /\ v # Free
    BY <2>2, ConstantsAssumption DEF FreeSectors
  <2>4. \A j \in Buckets, u \in Ids :
          loc'[j][u] = IF j = i /\ u = t THEN n
                       ELSE IF j = i /\ u = HEAD /\ md5[i] # k THEN Deleted
                       ELSE loc[j][u]
    <3> HIDE DEF t, own
    <3>1. \A u \in Ids : loc'[i][u] = CASE u = t -> n
                                     [] u = HEAD /\ md5[i] # k -> Deleted
                                     [] OTHER -> loc[i][u]
      BY <2>2 DEF TypeOK
    <3>2. \A j \in Buckets : j # i => loc'[j] = loc[j]
      BY <2>2 DEF TypeOK
    <3>3. t # HEAD
      BY <1>1 DEF WriteInTxn, t
    <3> QED
      BY <3>1, <3>2, <3>3
  <2>5. own \in Sectors => \A j \in Buckets, u \in Ids :
          loc[j][u] = own => j = i /\ u = t
    BY <2>1, OldLocation, ConstantsAssumption
  <2> HIDE DEF own, t
  <2>6. \A j \in Buckets, u \in Ids : loc'[j][u] \in Sectors =>
          /\ sector'[loc'[j][u]] # Free
          /\ loc'[j][u] = loc[j][u] \/ sector[loc'[j][u]] = Free
    <3> SUFFICES ASSUME NEW j \in Buckets, NEW u \in Ids, loc'[j][u] \in Sectors
                 PROVE  /\ sector'[loc'[j][u]] # Free
                        /\ loc'[j][u] = loc[j][u] \/ sector[loc'[j][u]] = Free
      OBVIOUS
    <3>1. CASE j = i /\ u = t
      BY <2>2, <2>3, <2>4, <3>1
    <3>2. CASE ~(j = i /\ u = t)
      <4>1. loc'[j][u] = loc[j][u]
        BY <2>4, <3>2, ConstantsAssumption
      <4>2. sector[loc[j][u]] # Free /\ loc[j][u] # own
        BY <2>5, <3>2, <4>1 DEF HeapIntegrity, NotDangling
      <4> QED
        BY <2>2, <2>3, <4>1, <4>2
    <3> QED
      BY <3>1, <3>2
  <2>7. \A j \in Buckets, u \in Ids :
          loc'[j][u] \in Sectors /\ sector[loc'[j][u]] = Free => j = i /\ u = t
    BY <2>4, ConstantsAssumption DEF HeapIntegrity, NotDangling
  <2> QED
    BY <2>6, <2>7, HeapUpdate
<1>2. CASE WriteInHead(e, k, i, v)
  <2> DEFINE old == get_data_location_for(i, HEAD)
             bare == Unprotected(i)
             cloning == IF md5[i] = k THEN bare ELSE {}
  <2>1. HEAD \in Ids /\ HEAD \notin cloning
    BY IdFacts DEF Unprotected, LayoutSound
  <2>2. cloning = {} \/ old # NoLoc
    BY <1>2 DEF WriteInHead
  <2>3. PICK n \in FreeSectors : \E c \in Injection(cloning, FreeSectors \ {n}) :
          /\ loc' = [loc EXCEPT ![i] = [u \in Ids |->
                        CASE u = HEAD -> n
                          [] u \in cloning -> c[u]
                          [] u \in bare \ cloning -> Deleted
                          [] OTHER -> loc[i][u]]]
          /\ sector' = [s \in Sectors |->
                        CASE s = n -> v
                          [] s # n /\ (\E u \in cloning : c[u] = s) -> sector[old]
                          [] s = old -> Free
                          [] OTHER -> sector[s]]
    BY <1>2 DEF WriteInHead
  <2>4. PICK c \in Injection(cloning, FreeSectors \ {n}) :
          /\ loc' = [loc EXCEPT ![i] = [u \in Ids |->
                        CASE u = HEAD -> n
                          [] u \in cloning -> c[u]
                          [] u \in bare \ cloning -> Deleted
                          [] OTHER -> loc[i][u]]]
          /\ sector' = [s \in Sectors |->
                        CASE s = n -> v
                          [] s # n /\ (\E u \in cloning : c[u] = s) -> sector[old]
                          [] s = old -> Free
                          [] OTHER -> sector[s]]
    BY <2>3
  <2>5. /\ n \in Sectors /\ sector[n] = Free /\ v # Free
        /\ \A u \in cloning : c[u] \in Sectors \ {n} /\ sector[c[u]] = Free
        /\ \A u, w \in cloning : c[u] = c[w] => u = w
    BY <2>3, <2>4, ConstantsAssumption DEF FreeSectors, Injection, IsInjective
  <2>6. old \in Sectors =>
          /\ sector[old] # Free
          /\ \A j \in Buckets, u \in Ids : loc[j][u] = old => j = i /\ u = HEAD
    BY <2>1, OldLocation, ConstantsAssumption
  <2>7. cloning = {} \/ old \in Sectors
    BY <2>1, <2>2, OldLocation
  <2> HIDE DEF old, bare, cloning
  <2>8. \A j \in Buckets, u \in Ids :
          \/ j = i /\ u = HEAD /\ loc'[j][u] = n
          \/ j = i /\ u \in cloning /\ loc'[j][u] = c[u]
          \/ loc'[j][u] = Deleted
          \/ ~(j = i /\ u = HEAD) /\ loc'[j][u] = loc[j][u]
    BY <2>1, <2>4 DEF TypeOK
  <2>9. \A j \in Buckets, u \in Ids : loc'[j][u] \in Sectors =>
          /\ sector'[loc'[j][u]] # Free
          /\ loc'[j][u] = loc[j][u] \/ sector[loc'[j][u]] = Free
    <3> SUFFICES ASSUME NEW j \in Buckets, NEW u \in Ids, loc'[j][u] \in Sectors
                 PROVE  /\ sector'[loc'[j][u]] # Free
                        /\ loc'[j][u] = loc[j][u] \/ sector[loc'[j][u]] = Free
      OBVIOUS
    <3>1. CASE loc'[j][u] = n
      <4>1. sector'[n] = v
        BY <2>4, <2>5, <2>6
      <4> QED
        BY <2>5, <3>1, <4>1
    <3>2. CASE u \in cloning /\ loc'[j][u] = c[u]
      <4>1. sector'[c[u]] = sector[old]
        BY <2>4, <2>5, <3>2
      <4> QED
        BY <2>5, <2>6, <2>7, <3>2, <4>1
    <3>3. CASE ~(j = i /\ u = HEAD) /\ loc'[j][u] = loc[j][u]
      <4>1. sector[loc[j][u]] # Free /\ loc[j][u] # old
        BY <2>6, <3>3 DEF HeapIntegrity, NotDangling
      <4>2. loc[j][u] # n /\ ~(\E w \in cloning : c[w] = loc[j][u])
        BY <2>5, <4>1
      <4> QED
        BY <2>4, <3>3, <4>1, <4>2
    <3> QED
      BY <2>8, <3>1, <3>2, <3>3, ConstantsAssumption
  <2>10. \A j \in Buckets, u \in Ids :
          loc'[j][u] \in Sectors /\ sector[loc'[j][u]] = Free =>
          /\ j = i
          /\ \/ u = HEAD /\ loc'[j][u] = n
             \/ u \in cloning /\ loc'[j][u] = c[u]
    <3>1. ASSUME NEW j \in Buckets, NEW u \in Ids,
                 loc'[j][u] \in Sectors, sector[loc'[j][u]] = Free
          PROVE  loc'[j][u] # Deleted /\ loc'[j][u] # loc[j][u]
      BY <3>1, ConstantsAssumption DEF HeapIntegrity, NotDangling
    <3> QED
      BY <2>8, <3>1
  <2>11. \A j, l \in Buckets : \A u, w \in Ids :
          /\ loc'[j][u] = loc'[l][w]
          /\ loc'[j][u] \in Sectors
          /\ sector[loc'[j][u]] = Free
          => j = l /\ u = w
    BY <2>5, <2>10
  <2> QED
    BY <2>9, <2>11, HeapUpdate
<1>3. CASE WriteDies(e, k, i, v, type)
  <2>1. PICK t \in Unprotected(i) : Scrub(i, t)
    BY <1>3 DEF WriteDies
  <2>2. t \in Ids
    BY <2>1, IdFacts DEF Unprotected, LayoutSound
  <2>3. \A s \in Sectors : sector'[s] = Free => sector[s] = Free
    BY <1>3, ConstantsAssumption DEF WriteDies, TypeOK, FreeSectors
  <2> QED
    BY <2>1, <2>2, <2>3, ScrubHeap
<1> QED
  BY <1>1, <1>2, <1>3 DEF write_data

LEMMA MoveUpHeap ==
  ASSUME TypeOK, HeapIntegrity, NEW e \in Engines, NEW k \in Keys, NEW i \in Buckets,
         delete_md5(e, k, i)
  PROVE  HeapIntegrity'
<1> DEFINE old == get_data_location_for(i, HEAD)
           From(j) == IF j < i THEN j ELSE j + 1
<1>1. HEAD \in Ids
  BY IdFacts
<1>2. \A s \in Sectors : sector'[s] = IF s = old THEN Free ELSE sector[s]
  BY DEF delete_md5
<1>3. old \in Sectors => \A j \in Buckets, u \in Ids : loc[j][u] = old => j = i
  BY <1>1, OldLocation, ConstantsAssumption
<1>4. \A j \in Buckets, u \in Ids : loc'[j][u] \in Sectors =>
        /\ From(j) \in Buckets
        /\ From(j) # i
        /\ loc'[j][u] = loc[From(j)][u]
  <2>1. \A j \in Buckets :
          loc'[j] = CASE j < i -> loc[j]
                      [] j >= i /\ j + 1 \in Buckets -> loc[j + 1]
                      [] OTHER -> [t \in Ids |-> NoLoc]
    BY DEF delete_md5
  <2> SUFFICES ASSUME NEW j \in Buckets, NEW u \in Ids, loc'[j][u] \in Sectors
               PROVE  /\ From(j) \in Buckets
                      /\ From(j) # i
                      /\ loc'[j][u] = loc[From(j)][u]
    OBVIOUS
  <2>2. CASE j < i
    BY <2>1, <2>2 DEF Buckets
  <2>3. CASE j >= i /\ j + 1 \in Buckets
    BY <2>1, <2>3 DEF Buckets
  <2>4. CASE j >= i /\ j + 1 \notin Buckets
    BY <2>1, <2>4, ConstantsAssumption DEF Buckets
  <2> QED
    BY <2>2, <2>3, <2>4 DEF Buckets
<1>5. \A j, l \in Buckets : From(j) = From(l) => j = l
  BY DEF Buckets
<1> HIDE DEF old, From
<1>6. NotDangling'
  <2> SUFFICES ASSUME NEW j \in Buckets, NEW u \in Ids, loc'[j][u] \in Sectors
               PROVE  sector'[loc'[j][u]] # Free
    BY DEF NotDangling
  <2>1. sector[loc'[j][u]] # Free
    BY <1>4 DEF HeapIntegrity, NotDangling
  <2>2. loc'[j][u] # old
    BY <1>3, <1>4
  <2> QED
    BY <1>2, <2>1, <2>2
<1>7. NotShared'
  <2> SUFFICES ASSUME NEW j \in Buckets, NEW l \in Buckets, NEW t \in Ids, NEW u \in Ids,
                      loc'[j][t] = loc'[l][u], loc'[j][t] \in Sectors
               PROVE  j = l /\ t = u
    BY DEF NotShared
  <2>1. From(j) = From(l) /\ t = u
    BY <1>4 DEF HeapIntegrity, NotShared
  <2> QED
    BY <1>5, <2>1
<1> QED
  BY <1>6, <1>7 DEF HeapIntegrity

LEMMA DeleteHeap ==
  ASSUME TypeOK, TxnIdsExclusive, LayoutSound, HeapIntegrity,
         NEW e \in Engines, NEW k \in Keys, DELETE(e, k)
  PROVE  HeapIntegrity'
<1>a. CASE DeleteOutside(e, k)
  BY <1>a DEF DeleteOutside, HeapIntegrity, NotDangling, NotShared
<1> SUFFICES ASSUME ~DeleteOutside(e, k) PROVE HeapIntegrity'
  BY <1>a
<1>0. PICK i \in Buckets :
        \/ delete_md5(e, k, i)
        \/ DeleteInTxn(e, i)
        \/ DeleteInHead(e, i)
        \/ DeleteDies(e, i)
  BY DEF DELETE
<1>1. CASE delete_md5(e, k, i)
  BY <1>1, MoveUpHeap
<1>2. CASE DeleteInTxn(e, i)
  <2> DEFINE t == transId[e]
             own == get_data_location_for(i, t)
  <2>1. t \in Ids
    BY <1>2, RunningId, IdFacts DEF DeleteInTxn
  <2>2. \A s \in Sectors : sector'[s] = IF s = own THEN Free ELSE sector[s]
    BY <1>2 DEF DeleteInTxn
  <2>3. \A j \in Buckets, u \in Ids :
          loc'[j][u] = IF j = i /\ u = t THEN Deleted ELSE loc[j][u]
    BY <1>2, <2>1 DEF DeleteInTxn, TypeOK
  <2>4. own \in Sectors => \A j \in Buckets, u \in Ids :
          loc[j][u] = own => j = i /\ u = t
    BY <2>1, OldLocation, ConstantsAssumption
  <2> HIDE DEF own, t
  <2>5. \A j \in Buckets, u \in Ids : loc'[j][u] \in Sectors =>
          /\ loc'[j][u] = loc[j][u]
          /\ loc[j][u] # own
          /\ sector[loc[j][u]] # Free
    BY <2>3, <2>4, ConstantsAssumption DEF HeapIntegrity, NotDangling
  <2>6. \A j \in Buckets, u \in Ids : loc'[j][u] \in Sectors =>
          sector'[loc'[j][u]] # Free
    BY <2>2, <2>5
  <2> QED
    BY <2>5, <2>6, HeapUpdate
<1>3. CASE DeleteInHead(e, i)
  <2> DEFINE old == get_data_location_for(i, HEAD)
             bare == Unprotected(i)
  <2>1. HEAD \in Ids /\ HEAD \notin bare
    BY IdFacts DEF Unprotected, LayoutSound
  <2>2. PICK c \in Injection(bare, FreeSectors) :
          /\ loc' = [loc EXCEPT ![i] = [u \in Ids |->
                        CASE u = HEAD -> Deleted
                          [] u # HEAD /\ u \in bare -> c[u]
                          [] OTHER -> loc[i][u]]]
          /\ sector' = [s \in Sectors |->
                        CASE \E u \in bare : c[u] = s -> sector[old]
                          [] s = old -> Free
                          [] OTHER -> sector[s]]
    BY <1>3 DEF DeleteInHead
  <2>3. /\ \A u \in bare : c[u] \in Sectors /\ sector[c[u]] = Free
        /\ \A u, w \in bare : c[u] = c[w] => u = w
    BY <2>2 DEF FreeSectors, Injection, IsInjective
  <2>4. old \in Sectors =>
          /\ sector[old] # Free
          /\ \A j \in Buckets, u \in Ids : loc[j][u] = old => j = i /\ u = HEAD
    BY <2>1, OldLocation, ConstantsAssumption
  <2>5. bare = {} \/ old \in Sectors
    BY <1>3, <2>1, OldLocation DEF DeleteInHead
  <2> HIDE DEF old, bare
  <2>6. \A j \in Buckets, u \in Ids :
          \/ j = i /\ u \in bare /\ loc'[j][u] = c[u]
          \/ loc'[j][u] = Deleted
          \/ ~(j = i /\ u = HEAD) /\ loc'[j][u] = loc[j][u]
    BY <2>1, <2>2 DEF TypeOK
  <2>7. \A j \in Buckets, u \in Ids : loc'[j][u] \in Sectors =>
          /\ sector'[loc'[j][u]] # Free
          /\ loc'[j][u] = loc[j][u] \/ sector[loc'[j][u]] = Free
    <3> SUFFICES ASSUME NEW j \in Buckets, NEW u \in Ids, loc'[j][u] \in Sectors
                 PROVE  /\ sector'[loc'[j][u]] # Free
                        /\ loc'[j][u] = loc[j][u] \/ sector[loc'[j][u]] = Free
      OBVIOUS
    <3>1. CASE u \in bare /\ loc'[j][u] = c[u]
      <4>1. sector'[c[u]] = sector[old]
        BY <2>2, <2>3, <2>4, <3>1
      <4> QED
        BY <2>3, <2>4, <2>5, <3>1, <4>1
    <3>2. CASE ~(j = i /\ u = HEAD) /\ loc'[j][u] = loc[j][u]
      <4>1. sector[loc[j][u]] # Free /\ loc[j][u] # old
        BY <2>4, <3>2 DEF HeapIntegrity, NotDangling
      <4>2. ~(\E w \in bare : c[w] = loc[j][u])
        BY <2>3, <4>1
      <4> QED
        BY <2>2, <3>2, <4>1, <4>2
    <3> QED
      BY <2>6, <3>1, <3>2, ConstantsAssumption
  <2>8. \A j \in Buckets, u \in Ids :
          loc'[j][u] \in Sectors /\ sector[loc'[j][u]] = Free =>
            j = i /\ u \in bare /\ loc'[j][u] = c[u]
    <3>1. ASSUME NEW j \in Buckets, NEW u \in Ids,
                 loc'[j][u] \in Sectors, sector[loc'[j][u]] = Free
          PROVE  loc'[j][u] # Deleted /\ loc'[j][u] # loc[j][u]
      BY <3>1, ConstantsAssumption DEF HeapIntegrity, NotDangling
    <3> QED
      BY <2>6, <3>1
  <2>9. \A j, l \in Buckets : \A u, w \in Ids :
          /\ loc'[j][u] = loc'[l][w]
          /\ loc'[j][u] \in Sectors
          /\ sector[loc'[j][u]] = Free
          => j = l /\ u = w
    BY <2>3, <2>8
  <2> QED
    BY <2>7, <2>9, HeapUpdate
<1>4. CASE DeleteDies(e, i)
  <2>1. PICK t \in Unprotected(i) : Scrub(i, t)
    BY <1>4 DEF DeleteDies
  <2>2. t \in Ids
    BY <2>1, IdFacts DEF Unprotected, LayoutSound
  <2> QED
    BY <1>4, <2>1, <2>2, ScrubHeap DEF DeleteDies
<1> QED
  BY <1>0, <1>1, <1>2, <1>3, <1>4

LEMMA LookHeap ==
  ASSUME TypeOK, TxnIdsExclusive, LayoutSound, HeapIntegrity,
         NEW e \in Engines, NEW i \in Buckets, LookAt(e, i)
  PROVE  HeapIntegrity'
<1>1. transId[e] \in Ids
  BY IdFacts, RunningId
<1> QED
  BY <1>1, ScrubHeap DEF LookAt

LEMMA DataStepHeap ==
  ASSUME TypeOK, TxnIdsExclusive, HeapIntegrity, NEW e \in Engines, DataStep(e)
  PROVE  HeapIntegrity'
<1>0. PICK k \in Keys :
        \/ \E v \in Values \cup {Undef} : STORE(e, k, v)
        \/ FETCH(e, k)
        \/ EXISTS(e, k)
        \/ DELETE(e, k)
  BY DEF DataStep
<1>1. CASE \E v \in Values \cup {Undef} : STORE(e, k, v)
  BY <1>1, WriteHeap DEF STORE
<1>2. CASE FETCH(e, k)
  BY <1>2, WriteHeap, LookHeap DEF FETCH
<1>3. CASE EXISTS(e, k)
  BY <1>3, LookHeap DEF EXISTS
<1>4. CASE DELETE(e, k)
  BY <1>4, DeleteHeap DEF DELETE
<1> QED
  BY <1>0, <1>1, <1>2, <1>3, <1>4

\* A commit moves the location of each recorded slot to the HEAD; what it frees
\* is named by the overwritten HEAD location only.
LEMMA CommitHeap ==
  ASSUME TypeOK, TxnIdsExclusive, HeapIntegrity, NEW e \in Engines, commit(e)
  PROVE  HeapIntegrity'
<1> DEFINE t == transId[e]
           todo == entries[e][t]
           From(i, u) == IF i \in todo /\ u = HEAD THEN t ELSE u
<1>1. t \in Ids /\ t # HEAD /\ HEAD \in Ids
  BY RunningId, IdFacts DEF commit
<1>2. \A s \in Sectors :
        sector'[s] = IF \E i \in todo : loc[i][HEAD] = s THEN Free ELSE sector[s]
  BY DEF commit
<1>3. todo \subseteq Buckets
  BY RunningId DEF commit, TypeOK
<1>4. \A i \in Buckets, u \in Ids : loc'[i][u] \in Sectors =>
        /\ ~(i \in todo /\ u = t)
        /\ From(i, u) \in Ids
        /\ loc'[i][u] = loc[i][From(i, u)]
  <2>1. \A i \in Buckets : loc'[i] =
          IF i \in todo
          THEN [loc[i] EXCEPT ![HEAD] = loc[i][t], ![t] = NoLoc] ELSE loc[i]
    BY DEF commit
  <2> HIDE DEF t, todo
  <2>2. \A i \in Buckets, u \in Ids : loc'[i][u] =
          IF i \in todo /\ u = t THEN NoLoc
          ELSE IF i \in todo /\ u = HEAD THEN loc[i][t] ELSE loc[i][u]
    BY <1>1, <2>1 DEF TypeOK
  <2> QED
    BY <1>1, <2>2, ConstantsAssumption
<1> HIDE DEF t, todo
<1>5. NotDangling'
  <2> SUFFICES ASSUME NEW i \in Buckets, NEW u \in Ids, loc'[i][u] \in Sectors
               PROVE  sector'[loc'[i][u]] # Free
    BY DEF NotDangling
  <2>1. sector[loc'[i][u]] # Free
    BY <1>4 DEF HeapIntegrity, NotDangling
  <2>2. ASSUME NEW j \in todo, loc[j][HEAD] = loc'[i][u] PROVE FALSE
    <3>1. From(i, u) = HEAD /\ i = j
      BY <1>1, <1>3, <1>4, <2>2 DEF HeapIntegrity, NotShared
    <3> QED
      BY <1>1, <3>1, <2>2
  <2> QED
    BY <1>2, <2>1, <2>2
<1>6. NotShared'
  <2> SUFFICES ASSUME NEW i \in Buckets, NEW j \in Buckets, NEW w \in Ids, NEW u \in Ids,
                      loc'[i][w] = loc'[j][u], loc'[i][w] \in Sectors
               PROVE  i = j /\ w = u
    BY DEF NotShared
  <2>1. i = j /\ From(i, w) = From(j, u)
    BY <1>4 DEF HeapIntegrity, NotShared
  <2> QED
    BY <1>4, <2>1
<1> QED
  BY <1>5, <1>6 DEF HeapIntegrity

LEMMA RollbackHeap ==
  ASSUME TypeOK, TxnIdsExclusive, HeapIntegrity, NEW e \in Engines, rollback(e)
  PROVE  HeapIntegrity'
<1> DEFINE t == transId[e]
           todo == entries[e][t]
<1>1. t \in Ids
  BY RunningId, IdFacts DEF rollback
<1>2. \A s \in Sectors :
        sector'[s] = IF \E i \in todo : loc[i][t] = s THEN Free ELSE sector[s]
  BY DEF rollback
<1>3. todo \subseteq Buckets
  BY RunningId DEF rollback, TypeOK
<1>4. \A i \in Buckets, u \in Ids : loc'[i][u] =
        IF i \in todo /\ u = t THEN NoLoc ELSE loc[i][u]
  BY <1>1 DEF rollback, TypeOK
<1> HIDE DEF t, todo
<1>5. \A i \in Buckets, u \in Ids : loc'[i][u] \in Sectors =>
        /\ loc'[i][u] = loc[i][u]
        /\ ~(i \in todo /\ u = t)
        /\ sector[loc[i][u]] # Free
  BY <1>4, ConstantsAssumption DEF HeapIntegrity, NotDangling
<1>6. ASSUME NEW i \in Buckets, NEW u \in Ids, loc'[i][u] \in Sectors
      PROVE  sector'[loc'[i][u]] # Free
  <2>1. ASSUME NEW j \in todo, loc[j][t] = loc[i][u] PROVE FALSE
    <3>1. j = i /\ t = u
      BY <1>1, <1>3, <1>5, <1>6, <2>1 DEF HeapIntegrity, NotShared
    <3> QED
      BY <1>5, <1>6, <3>1
  <2> QED
    BY <1>2, <1>5, <1>6, <2>1
<1> QED
  BY <1>5, <1>6, HeapUpdate

LEMMA HeapStep ==
  ASSUME TypedIds, HeapIntegrity, [Next]_vars
  PROVE  HeapIntegrity'
<1> USE DEF TypedIds
<1>0. ASSUME UNCHANGED <<loc, sector>> PROVE HeapIntegrity'
  BY <1>0 DEF HeapIntegrity, NotDangling, NotShared
<1>1. ASSUME NEW e \in Engines, DataStep(e) PROVE HeapIntegrity'
  BY <1>1, DataStepHeap
<1>2. ASSUME NEW e \in Engines, begin_work(e) PROVE HeapIntegrity'
  BY <1>0, <1>2 DEF begin_work
<1>3. ASSUME NEW e \in Engines, commit(e) PROVE HeapIntegrity'
  BY <1>3, CommitHeap
<1>4. ASSUME NEW e \in Engines, rollback(e) PROVE HeapIntegrity'
  BY <1>4, RollbackHeap
<1>5. ASSUME NEW e \in Engines, Exit(e) PROVE HeapIntegrity'
  BY <1>0, <1>5 DEF Exit, file
<1>6. CASE UNCHANGED vars
  BY <1>0, <1>6 DEF vars
<1> QED
  BY <1>1, <1>2, <1>3, <1>4, <1>5, <1>6 DEF Next

\* However the engines interleave, die half-way or exit in the middle of a
\* transaction, no location left in any bucket, stale ones included, names a
\* freed sector or a sector another location names: write_data, delete_key,
\* commit and rollback free every sector at most once.
THEOREM HeapSound == Spec => []HeapIntegrity
<1>1. Init => HeapIntegrity
  BY ConstantsAssumption DEF Init, HeapIntegrity, NotDangling, NotShared
<1>2. TypedIds /\ HeapIntegrity /\ [Next]_vars => HeapIntegrity'
  BY HeapStep
<1> QED
  BY <1>1, <1>2, TypedIdsInvariant, PTL DEF Spec

-----------------------------------------------------------------------------
(* The bucket list.                                                        *)

LEMMA BucketFacts ==
  /\ Buckets \subseteq Nat
  /\ \A i, j, l \in Buckets : i < j /\ j < l => i < l
  /\ \A i, j \in Buckets : i < j \/ i = j \/ j < i
  /\ \A i, j \in Buckets : i < j => i # j
BY ConstantsAssumption DEF Buckets

\* A write into the bucket find_md5 chose keeps the list compact.
LEMMA WriteCompact ==
  ASSUME TypeOK, BucketListCompact, NEW k \in Keys, NEW i \in Buckets, find_md5(k, i),
         md5' = [md5 EXCEPT ![i] = k],
         \A j \in Buckets : j # i => loc'[j] = loc[j]
  PROVE  BucketListCompact'
<1> USE ConstantsAssumption, BucketFacts
<1>1. /\ md5'[i] = k /\ k # NoKey
      /\ \A j \in Buckets : j # i => md5'[j] = md5[j]
      /\ \A j \in Buckets : j < i => md5[j] \notin {k, NoKey}
      /\ md5[i] \in {k, NoKey}
  BY DEF TypeOK, find_md5
<1>2. \A j \in Buckets : j # i => md5[j] # k
  <2> SUFFICES ASSUME NEW j \in Buckets, j # i, md5[j] = k PROVE FALSE
    OBVIOUS
  <2>1. CASE j < i
    BY <1>1, <2>1
  <2>2. CASE i < j
    <3>1. CASE md5[i] = NoKey
      BY <1>1, <2>2, <3>1 DEF BucketListCompact, BlanksLast
    <3>2. CASE md5[i] = k
      BY <1>1, <3>2 DEF BucketListCompact, KeysOnce
    <3> QED
      BY <1>1, <3>1, <3>2
  <2> QED
    BY <2>1, <2>2
<1>3. BlanksLast'
  <2> SUFFICES ASSUME NEW j \in Buckets, NEW l \in Buckets, j < l, md5'[j] = NoKey
               PROVE  md5'[l] = NoKey
    BY DEF BlanksLast
  <2>1. j # i /\ md5[j] = NoKey
    BY <1>1
  <2>2. l # i /\ md5[l] = NoKey
    BY <1>1, <2>1 DEF BucketListCompact, BlanksLast
  <2> QED
    BY <1>1, <2>2
<1>4. KeysOnce'
  BY <1>1, <1>2 DEF BucketListCompact, KeysOnce
<1>5. BlanksEmpty'
  BY <1>1 DEF BucketListCompact, BlanksEmpty
<1> QED
  BY <1>3, <1>4, <1>5 DEF BucketListCompact

\* A step that leaves the keys alone must not put a value into a blank bucket.
LEMMA KeysKept ==
  ASSUME TypeOK, BucketListCompact, md5' = md5,
         \A i \in Buckets, t \in Ids : md5[i] = NoKey => loc'[i][t] \notin Sectors
  PROVE  BucketListCompact'
BY DEF BucketListCompact, BlanksLast, KeysOnce, BlanksEmpty

LEMMA ScrubCompact ==
  ASSUME TypeOK, BucketListCompact, NEW i \in Buckets, NEW t \in Ids,
         Scrub(i, t), md5' = md5
  PROVE  BucketListCompact'
<1>1. \A j \in Buckets, u \in Ids :
        loc'[j][u] = loc[j][u] \/ loc'[j][u] = NoLoc
  BY DEF Scrub, TypeOK
<1>2. \A j \in Buckets, u \in Ids : md5[j] = NoKey => loc'[j][u] \notin Sectors
  BY <1>1, ConstantsAssumption DEF BucketListCompact, BlanksEmpty
<1> QED
  BY <1>2, KeysKept

LEMMA WriteDataCompact ==
  ASSUME TypeOK, TxnIdsExclusive, LayoutSound, BucketListCompact,
         NEW e \in Engines, NEW k \in Keys, NEW i \in Buckets, find_md5(k, i),
         NEW v \in Values \cup {Undef}, NEW type \in {"shared", "exclusive"},
         write_data(e, k, i, v, type)
  PROVE  BucketListCompact'
<1>1. CASE WriteInTxn(e, k, i, v)
  <2>1. \A j \in Buckets : j # i => loc'[j] = loc[j]
    BY <1>1 DEF WriteInTxn, TypeOK
  <2> QED
    BY <1>1, <2>1, WriteCompact DEF WriteInTxn
<1>2. CASE WriteInHead(e, k, i, v)
  <2>1. \A j \in Buckets : j # i => loc'[j] = loc[j]
    BY <1>2 DEF WriteInHead, TypeOK
  <2> QED
    BY <1>2, <2>1, WriteCompact DEF WriteInHead
<1>3. CASE WriteDies(e, k, i, v, type)
  <2>1. PICK t \in Unprotected(i) : Scrub(i, t)
    BY <1>3 DEF WriteDies
  <2>2. t \in Ids
    BY <2>1, IdFacts DEF Unprotected, LayoutSound
  <2> QED
    BY <1>3, <2>1, <2>2, ScrubCompact DEF WriteDies
<1> QED
  BY <1>1, <1>2, <1>3 DEF write_data

LEMMA MoveUpCompact ==
  ASSUME TypeOK, BucketListCompact, NEW e \in Engines, NEW k \in Keys, NEW i \in Buckets,
         delete_md5(e, k, i)
  PROVE  BucketListCompact'
<1> DEFINE From(j) == IF j < i THEN j ELSE j + 1
<1>1. \A j \in Buckets : From(j) \in Nat /\ (j < i => From(j) \in Buckets)
  BY DEF Buckets
<1>2. \A j \in Buckets :
        /\ md5'[j] = IF From(j) \in Buckets THEN md5[From(j)] ELSE NoKey
        /\ loc'[j] = IF From(j) \in Buckets THEN loc[From(j)] ELSE [t \in Ids |-> NoLoc]
  BY DEF delete_md5, Buckets
<1>3. \A j, l \in Buckets : From(j) = From(l) => j = l
  BY DEF Buckets
<1>4. \A j, l \in Buckets : j < l => From(j) < From(l)
  BY DEF Buckets
<1>5. \A j, l \in Buckets : j < l /\ From(l) \in Buckets => From(j) \in Buckets
  BY ConstantsAssumption DEF Buckets
<1> HIDE DEF From
<1>6. BlanksLast'
  <2> SUFFICES ASSUME NEW j \in Buckets, NEW l \in Buckets, j < l, md5'[j] = NoKey
               PROVE  md5'[l] = NoKey
    BY DEF BlanksLast
  <2>1. CASE From(l) \in Buckets
    BY <1>2, <1>4, <1>5, <2>1 DEF BucketListCompact, BlanksLast
  <2>2. CASE From(l) \notin Buckets
    BY <1>2, <2>2
  <2> QED
    BY <2>1, <2>2
<1>7. KeysOnce'
  BY <1>2, <1>3 DEF BucketListCompact, KeysOnce
<1>8. BlanksEmpty'
  BY <1>2, ConstantsAssumption DEF BucketListCompact, BlanksEmpty
<1> QED
  BY <1>6, <1>7, <1>8 DEF BucketListCompact

LEMMA DeleteCompact ==
  ASSUME TypeOK, TxnIdsExclusive, LayoutSound, BucketListCompact,
         NEW e \in Engines, NEW k \in Keys, DELETE(e, k)
  PROVE  BucketListCompact'
<1>a. CASE DeleteOutside(e, k)
  BY <1>a DEF DeleteOutside, BucketListCompact, BlanksLast, KeysOnce, BlanksEmpty
<1> SUFFICES ASSUME ~DeleteOutside(e, k) PROVE BucketListCompact'
  BY <1>a
<1>0. PICK i \in Buckets :
        \/ delete_md5(e, k, i)
        \/ DeleteInTxn(e, i)
        \/ DeleteInHead(e, i)
        \/ DeleteDies(e, i)
  BY DEF DELETE
<1>1. CASE delete_md5(e, k, i)
  BY <1>1, MoveUpCompact
<1>2. CASE DeleteInTxn(e, i)
  <2>1. \A j \in Buckets, u \in Ids :
          loc'[j][u] = loc[j][u] \/ loc'[j][u] = Deleted
    BY <1>2 DEF DeleteInTxn, TypeOK
  <2>2. \A j \in Buckets, u \in Ids : md5[j] = NoKey => loc'[j][u] \notin Sectors
    BY <2>1, ConstantsAssumption DEF BucketListCompact, BlanksEmpty
  <2> QED
    BY <1>2, <2>2, KeysKept DEF DeleteInTxn
<1>3. CASE DeleteInHead(e, i)
  <2> DEFINE bare == Unprotected(i)
  <2>1. bare = {} \/ md5[i] # NoKey
    BY <1>3, IdFacts, LocationTypes DEF DeleteInHead, BucketListCompact, BlanksEmpty
  <2> HIDE DEF bare
  <2>2. \A j \in Buckets, u \in Ids :
          \/ loc'[j][u] = loc[j][u]
          \/ loc'[j][u] = Deleted
          \/ j = i /\ bare # {}
    BY <1>3 DEF DeleteInHead, TypeOK, bare
  <2>3. \A j \in Buckets, u \in Ids : md5[j] = NoKey => loc'[j][u] \notin Sectors
    BY <2>1, <2>2, ConstantsAssumption DEF BucketListCompact, BlanksEmpty
  <2> QED
    BY <1>3, <2>3, KeysKept DEF DeleteInHead
<1>4. CASE DeleteDies(e, i)
  <2>1. PICK t \in Unprotected(i) : Scrub(i, t)
    BY <1>4 DEF DeleteDies
  <2>2. t \in Ids
    BY <2>1, IdFacts DEF Unprotected, LayoutSound
  <2> QED
    BY <1>4, <2>1, <2>2, ScrubCompact DEF DeleteDies
<1> QED
  BY <1>0, <1>1, <1>2, <1>3, <1>4

LEMMA DataStepCompact ==
  ASSUME TypeOK, TxnIdsExclusive, BucketListCompact, NEW e \in Engines, DataStep(e)
  PROVE  BucketListCompact'
<1>0. PICK k \in Keys :
        \/ \E v \in Values \cup {Undef} : STORE(e, k, v)
        \/ FETCH(e, k)
        \/ EXISTS(e, k)
        \/ DELETE(e, k)
  BY DEF DataStep
<1>1. ASSUME LayoutSound, NEW i \in Buckets, LookAt(e, i) PROVE BucketListCompact'
  <2>1. transId[e] \in Ids
    BY <1>1, IdFacts, RunningId
  <2>2. Scrub(i, transId[e]) /\ md5' = md5
    BY <1>1 DEF LookAt
  <2> QED
    BY <1>1, <2>1, <2>2, ScrubCompact
<1>2. CASE \E v \in Values \cup {Undef} : STORE(e, k, v)
  BY <1>2, WriteDataCompact DEF STORE
<1>3. CASE FETCH(e, k)
  BY <1>1, <1>3, WriteDataCompact DEF FETCH
<1>4. CASE EXISTS(e, k)
  BY <1>1, <1>4 DEF EXISTS
<1>5. CASE DELETE(e, k)
  BY <1>5, DeleteCompact DEF DELETE
<1> QED
  BY <1>0, <1>2, <1>3, <1>4, <1>5

LEMMA CompactStep ==
  ASSUME TypedIds, BucketListCompact, [Next]_vars
  PROVE  BucketListCompact'
<1> USE DEF TypedIds
<1>0. ASSUME UNCHANGED <<md5, loc>> PROVE BucketListCompact'
  BY <1>0 DEF BucketListCompact, BlanksLast, KeysOnce, BlanksEmpty
<1>1. ASSUME NEW e \in Engines, DataStep(e) PROVE BucketListCompact'
  BY <1>1, DataStepCompact
<1>2. ASSUME NEW e \in Engines, begin_work(e) PROVE BucketListCompact'
  BY <1>0, <1>2 DEF begin_work
<1>3. ASSUME NEW e \in Engines, commit(e) PROVE BucketListCompact'
  <2>1. transId[e] \in Ids /\ HEAD \in Ids
    BY <1>3, RunningId, IdFacts DEF commit
  <2>2. \A i \in Buckets, u \in Ids :
          \/ loc'[i][u] = loc[i][u]
          \/ loc'[i][u] = loc[i][transId[e]]
          \/ loc'[i][u] = NoLoc
    BY <1>3, <2>1 DEF commit, TypeOK
  <2>3. \A i \in Buckets, u \in Ids : md5[i] = NoKey => loc'[i][u] \notin Sectors
    BY <2>1, <2>2, ConstantsAssumption DEF BucketListCompact, BlanksEmpty
  <2> QED
    BY <1>3, <2>3, KeysKept DEF commit, EndTransaction
<1>4. ASSUME NEW e \in Engines, rollback(e) PROVE BucketListCompact'
  <2>1. \A i \in Buckets, u \in Ids :
          loc'[i][u] = loc[i][u] \/ loc'[i][u] = NoLoc
    BY <1>4 DEF rollback, TypeOK
  <2>2. \A i \in Buckets, u \in Ids : md5[i] = NoKey => loc'[i][u] \notin Sectors
    BY <2>1, ConstantsAssumption DEF BucketListCompact, BlanksEmpty
  <2> QED
    BY <1>4, <2>2, KeysKept DEF rollback, EndTransaction
<1>5. ASSUME NEW e \in Engines, Exit(e) PROVE BucketListCompact'
  BY <1>0, <1>5 DEF Exit, file
<1>6. CASE UNCHANGED vars
  BY <1>0, <1>6 DEF vars
<1> QED
  BY <1>1, <1>2, <1>3, <1>4, <1>5, <1>6 DEF Next

\* Whatever the engines do, the search of find_md5 finds a key that has a
\* bucket, and finds it in one place: write_md5 never opens a second bucket for
\* a key, delete_md5 never leaves a hole before one.
THEOREM BucketsCompact == Spec => []BucketListCompact
<1>1. Init => BucketListCompact
  <2> SUFFICES ASSUME Init PROVE BucketListCompact
    OBVIOUS
  <2>1. BlanksLast /\ KeysOnce
    BY DEF Init, BlanksLast, KeysOnce
  <2>2. BlanksEmpty
    BY ConstantsAssumption DEF Init, BlanksEmpty
  <2> QED
    BY <2>1, <2>2 DEF BucketListCompact
<1>2. TypedIds /\ BucketListCompact /\ [Next]_vars => BucketListCompact'
  BY CompactStep
<1> QED
  BY <1>1, <1>2, TypedIdsInvariant, PTL DEF Spec

=============================================================================
