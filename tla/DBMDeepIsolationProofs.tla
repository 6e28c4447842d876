----------------------- MODULE DBMDeepIsolationProofs -----------------------
(***************************************************************************)
(* The isolation of DBM::Deep's transactions, for any number of engines,   *)
(* keys, transactions, buckets and sectors: what a step of one engine may  *)
(* change in what a reader under another id gets.  These are properties of *)
(* steps; the invariants proved in DBMDeepEngineProofs describe the state  *)
(* the step starts from.                                                   *)
(***************************************************************************)
EXTENDS DBMDeepEngineProofs

\* The states a method can find the file in.
Sound == TypedIds /\ HeapIntegrity /\ BucketListCompact

LEMMA SoundInvariant == Spec => []Sound
<1>1. TypedIds /\ HeapIntegrity /\ BucketListCompact => Sound
  BY DEF Sound
<1> QED
  BY <1>1, TypedIdsInvariant, HeapSound, BucketsCompact, PTL

-----------------------------------------------------------------------------
(* What a reader gets, bucket by bucket.                                   *)

\* A reader under id t gets the same value from bucket j, if any.  The value
\* may have moved to another sector.
KeepsView(j, t) ==
  /\ md5'[j] = md5[j]
  /\ LocationOrHead(j, t)' = NoLoc <=> LocationOrHead(j, t) = NoLoc
  /\ LocationOrHead(j, t) # NoLoc =>
       sector'[LocationOrHead(j, t)'] = sector[LocationOrHead(j, t)]

\* What a reader gets for key k is decided by the buckets that hold k, before
\* or after the step.
LEMMA SeenKept ==
  ASSUME NEW t, NEW k,
         \A j \in Buckets : md5[j] = k => KeepsView(j, t),
         \A j \in Buckets :
           md5[j] # k /\ md5'[j] = k => LocationOrHead(j, t)' = NoLoc
  PROVE  Seen(t, k)' = Seen(t, k)
<1>1. ASSUME NEW x PROVE x \in Seen(t, k)' <=> x \in Seen(t, k)
  <2>1. x \in Seen(t, k) <=>
          \E j \in Buckets : /\ md5[j] = k
                             /\ LocationOrHead(j, t) # NoLoc
                             /\ x = sector[LocationOrHead(j, t)]
    BY DEF Seen
  <2>2. x \in Seen(t, k)' <=>
          \E j \in Buckets : /\ md5'[j] = k
                             /\ LocationOrHead(j, t)' # NoLoc
                             /\ x = sector'[LocationOrHead(j, t)']
    BY DEF Seen
  <2> QED
    BY <2>1, <2>2 DEF KeepsView
<1> QED
  BY <1>1

\* Location, staleness and sector of the slot and of the HEAD decide.
LEMMA ViewKept ==
  ASSUME TypeOK, NEW j \in Buckets, NEW t \in Ids,
         md5'[j] = md5[j],
         loc'[j][t] = loc[j][t], loc'[j][HEAD] = loc[j][HEAD],
         t # HEAD => tag'[j][t] = tag[j][t] /\ counter'[t] = counter[t],
         loc[j][t] \in Sectors => sector'[loc[j][t]] = sector[loc[j][t]],
         loc[j][HEAD] \in Sectors => sector'[loc[j][HEAD]] = sector[loc[j][HEAD]]
  PROVE  KeepsView(j, t)
<1>1. LocationOrHead(j, t)' = LocationOrHead(j, t)
  BY DEF LocationOrHead, get_data_location_for, SlotLoc, IsStale
<1>2. LocationOrHead(j, t) # NoLoc =>
        \/ LocationOrHead(j, t) = loc[j][t] /\ loc[j][t] \in Sectors
        \/ LocationOrHead(j, t) = loc[j][HEAD] /\ loc[j][HEAD] \in Sectors
  BY ConstantsAssumption DEF LocationOrHead, get_data_location_for, SlotLoc, IsStale
<1> QED
  BY <1>1, <1>2 DEF KeepsView

\* A bucket without a value in the slot and in the HEAD shows nothing.
LEMMA NothingSeen ==
  ASSUME NEW j \in Buckets, NEW t \in Ids,
         loc[j][t] \notin Sectors, loc[j][HEAD] \notin Sectors
  PROVE  LocationOrHead(j, t) = NoLoc
BY ConstantsAssumption DEF LocationOrHead, get_data_location_for, SlotLoc, IsStale

LEMMA NothingSeenNext ==
  ASSUME NEW j \in Buckets, NEW t \in Ids,
         loc'[j][t] \notin Sectors, loc'[j][HEAD] \notin Sectors
  PROVE  LocationOrHead(j, t)' = NoLoc
BY ConstantsAssumption DEF LocationOrHead, get_data_location_for, SlotLoc, IsStale

-----------------------------------------------------------------------------
(* A step inside transaction u.                                            *)

\* The step changes slots of transaction u, values only u has, and buckets
\* nobody has a value in.
OnlyTouches(u) ==
  /\ \A j \in Buckets : md5'[j] = md5[j] \/ md5[j] = NoKey
  /\ \A j \in Buckets : \A w \in Ids \ {u} :
       loc'[j][w] = loc[j][w] \/ (md5[j] = NoKey /\ loc'[j][w] \notin Sectors)
  /\ \A j \in Buckets : \A w \in TxnIds \ {u} :
       tag'[j][w] = tag[j][w] /\ counter'[w] = counter[w]
  /\ \A j \in Buckets : \A w \in Ids \ {u} :
       loc[j][w] \in Sectors => sector'[loc[j][w]] = sector[loc[j][w]]

LEMMA OthersSeeTheSame ==
  ASSUME Sound, NEW u \in TxnIds, OnlyTouches(u),
         NEW t \in Ids \ {u}, NEW k \in Keys
  PROVE  Seen(t, k)' = Seen(t, k)
<1>0. TypeOK /\ BlanksEmpty /\ k # NoKey /\ HEAD \in Ids \ {u} /\ t \in Ids
  BY IdFacts, ConstantsAssumption DEF Sound, TypedIds, BucketListCompact
<1>1. ASSUME NEW j \in Buckets, md5[j] = k PROVE KeepsView(j, t)
  <2>1. md5'[j] = md5[j] /\ md5[j] # NoKey
    BY <1>0, <1>1 DEF OnlyTouches
  <2>2. /\ loc'[j][t] = loc[j][t] /\ loc'[j][HEAD] = loc[j][HEAD]
        /\ loc[j][t] \in Sectors => sector'[loc[j][t]] = sector[loc[j][t]]
        /\ loc[j][HEAD] \in Sectors => sector'[loc[j][HEAD]] = sector[loc[j][HEAD]]
    BY <1>0, <2>1 DEF OnlyTouches
  <2>3. t # HEAD => tag'[j][t] = tag[j][t] /\ counter'[t] = counter[t]
    BY <1>0, IdFacts DEF OnlyTouches
  <2> QED
    BY <1>0, <2>1, <2>2, <2>3, ViewKept
<1>2. ASSUME NEW j \in Buckets, md5[j] # k, md5'[j] = k
      PROVE  LocationOrHead(j, t)' = NoLoc
  <2>1. md5[j] = NoKey
    BY <1>2 DEF OnlyTouches
  <2>2. loc[j][t] \notin Sectors /\ loc[j][HEAD] \notin Sectors
    BY <1>0, <2>1 DEF BlanksEmpty
  <2>3. loc'[j][t] \notin Sectors /\ loc'[j][HEAD] \notin Sectors
    BY <1>0, <2>2 DEF OnlyTouches
  <2> QED
    BY <1>0, <2>3, NothingSeenNext
<1> QED
  BY <1>1, <1>2, SeenKept

\* What no other id names can be freed or filled without anyone noticing.
LEMMA OwnSector ==
  ASSUME Sound, NEW u \in Ids, NEW i \in Buckets, NEW j \in Buckets,
         NEW w \in Ids \ {u}, loc[j][w] \in Sectors
  PROVE  loc[j][w] # get_data_location_for(i, u) /\ sector[loc[j][w]] # Free
<1>1. get_data_location_for(i, u) # NoLoc => get_data_location_for(i, u) = loc[i][u]
  BY LocationTypes DEF Sound, TypedIds
<1>2. loc[j][w] # loc[i][u]
  BY DEF Sound, HeapIntegrity, NotShared
<1> QED
  BY <1>1, <1>2, ConstantsAssumption DEF Sound, HeapIntegrity, NotDangling

LEMMA WriteTouches ==
  ASSUME Sound, NEW e \in Engines, NEW k \in Keys, NEW i \in Buckets, NEW v,
         NEW u \in TxnIds, u = transId[e], find_md5(k, i), WriteInTxn(e, k, i, v)
  PROVE  OnlyTouches(u)
<1> USE IdFacts
<1>0. TypeOK /\ u \in Ids /\ u # HEAD
  BY DEF Sound, TypedIds
<1>1. PICK n \in FreeSectors :
        /\ loc' = [loc EXCEPT ![i] = [w \in Ids |->
                      CASE w = u -> n
                        [] w = HEAD /\ md5[i] # k -> Deleted
                        [] OTHER -> loc[i][w]]]
        /\ sector' = [s \in Sectors |->
                      CASE s = n -> v
                        [] s = get_data_location_for(i, u) /\ s # n -> Free
                        [] OTHER -> sector[s]]
  BY DEF WriteInTxn
<1>2. \A j \in Buckets : md5'[j] = md5[j] \/ md5[j] = NoKey
  BY <1>0 DEF WriteInTxn, find_md5, TypeOK
<1>3. \A j \in Buckets : \A w \in Ids \ {u} :
        loc'[j][w] = loc[j][w] \/ (md5[j] = NoKey /\ loc'[j][w] \notin Sectors)
  BY <1>0, <1>1, ConstantsAssumption DEF find_md5, TypeOK
<1>4. \A j \in Buckets : \A w \in TxnIds \ {u} :
        tag'[j][w] = tag[j][w] /\ counter'[w] = counter[w]
  BY <1>0 DEF WriteInTxn, TypeOK
<1>5. ASSUME NEW j \in Buckets, NEW w \in Ids \ {u}, loc[j][w] \in Sectors
      PROVE  sector'[loc[j][w]] = sector[loc[j][w]]
  <2>1. loc[j][w] # get_data_location_for(i, u) /\ sector[loc[j][w]] # Free
    BY <1>0, <1>5, OwnSector
  <2>2. loc[j][w] # n
    BY <2>1 DEF FreeSectors
  <2> QED
    BY <1>1, <1>5, <2>1, <2>2
<1> QED
  BY <1>2, <1>3, <1>4, <1>5 DEF OnlyTouches

LEMMA MarkTouches ==
  ASSUME Sound, NEW e \in Engines, NEW i \in Buckets,
         NEW u \in TxnIds, u = transId[e], DeleteInTxn(e, i)
  PROVE  OnlyTouches(u)
<1> USE IdFacts
<1>0. TypeOK /\ u \in Ids
  BY DEF Sound, TypedIds
<1>1. \A j \in Buckets : md5'[j] = md5[j]
  BY DEF DeleteInTxn
<1>2. \A j \in Buckets : \A w \in Ids \ {u} : loc'[j][w] = loc[j][w]
  BY <1>0 DEF DeleteInTxn, TypeOK
<1>3. \A j \in Buckets : \A w \in TxnIds \ {u} :
        tag'[j][w] = tag[j][w] /\ counter'[w] = counter[w]
  BY <1>0 DEF DeleteInTxn, TypeOK
<1>4. ASSUME NEW j \in Buckets, NEW w \in Ids \ {u}, loc[j][w] \in Sectors
      PROVE  sector'[loc[j][w]] = sector[loc[j][w]]
  <2>1. loc[j][w] # get_data_location_for(i, u)
    BY <1>0, <1>4, OwnSector
  <2> QED
    BY <1>4, <2>1 DEF DeleteInTxn
<1> QED
  BY <1>1, <1>2, <1>3, <1>4 DEF OnlyTouches

LEMMA LookTouches ==
  ASSUME Sound, NEW e \in Engines, NEW i \in Buckets,
         NEW u \in TxnIds, u = transId[e], LookAt(e, i)
  PROVE  OnlyTouches(u)
<1>1. TypeOK /\ u \in Ids
  BY IdFacts DEF Sound, TypedIds
<1> QED
  BY <1>1, IdFacts DEF LookAt, Scrub, TypeOK, OnlyTouches

LEMMA RollbackTouches ==
  ASSUME Sound, NEW e \in Engines, NEW u \in TxnIds, u = transId[e], rollback(e)
  PROVE  OnlyTouches(u)
<1> USE IdFacts
<1> DEFINE todo == entries[e][u]
<1>0. TypeOK /\ u \in Ids
  BY DEF Sound, TypedIds
<1>0a. todo \subseteq Buckets
  BY <1>0 DEF TypeOK
<1>1. \A j \in Buckets : md5'[j] = md5[j]
  BY DEF rollback, EndTransaction
<1>2. \A j \in Buckets : \A w \in Ids \ {u} : loc'[j][w] = loc[j][w]
  BY <1>0 DEF rollback, TypeOK
<1>3. \A j \in Buckets : \A w \in TxnIds \ {u} :
        tag'[j][w] = tag[j][w] /\ counter'[w] = counter[w]
  BY <1>0 DEF rollback, EndTransaction, TypeOK
<1>4. ASSUME NEW j \in Buckets, NEW w \in Ids \ {u}, loc[j][w] \in Sectors
      PROVE  sector'[loc[j][w]] = sector[loc[j][w]]
  <2>1. \A i \in todo : loc[i][u] # loc[j][w]
    BY <1>0, <1>0a, <1>4 DEF Sound, HeapIntegrity, NotShared
  <2> QED
    BY <1>4, <2>1 DEF rollback
<1> QED
  BY <1>1, <1>2, <1>3, <1>4 DEF OnlyTouches

\* Every method of an engine inside transaction u, and its rollback.
LEMMA TxnTouches ==
  ASSUME Sound, NEW e \in Engines, transId[e] # HEAD, NEW u, u = transId[e],
         DataStep(e) \/ rollback(e)
  PROVE  u \in TxnIds /\ OnlyTouches(u)
<1>0. LayoutSound
  BY DEF DataStep, STORE, FETCH, EXISTS, DELETE, rollback
<1>1. u \in TxnIds /\ slots # {}
  BY <1>0, RunningId DEF Sound, TypedIds, TxnIdsExclusive
<1>2. CASE rollback(e)
  BY <1>1, <1>2, RollbackTouches
<1>3. ASSUME NEW k \in Keys, NEW i \in Buckets, NEW v, NEW type, find_md5(k, i),
             write_data(e, k, i, v, type)
      PROVE  OnlyTouches(u)
  <2>1. WriteInTxn(e, k, i, v)
    BY <1>3 DEF write_data, WriteInHead, WriteDies
  <2> QED
    BY <1>1, <1>3, <2>1, WriteTouches
<1>4. ASSUME NEW k \in Keys, DELETE(e, k) PROVE OnlyTouches(u)
  <2>1. CASE DeleteOutside(e, k)
    BY <2>1, <1>1 DEF DeleteOutside, OnlyTouches
  <2>2. ASSUME NEW i \in Buckets, DeleteInTxn(e, i) PROVE OnlyTouches(u)
    BY <1>1, <2>2, MarkTouches
  <2> QED
    BY <1>1, <1>4, <2>1, <2>2 DEF DELETE, delete_md5, DeleteInHead, DeleteDies
<1>5. ASSUME DataStep(e) PROVE OnlyTouches(u)
  <2>1. PICK k \in Keys :
          \/ \E v \in Values \cup {Undef} : STORE(e, k, v)
          \/ FETCH(e, k)
          \/ EXISTS(e, k)
          \/ DELETE(e, k)
    BY <1>5 DEF DataStep
  <2>2. CASE \E v \in Values \cup {Undef} : STORE(e, k, v)
    BY <1>3, <2>2 DEF STORE
  <2>3. CASE FETCH(e, k)
    BY <1>1, <1>3, <2>3, LookTouches DEF FETCH
  <2>4. CASE EXISTS(e, k)
    BY <1>1, <2>4, LookTouches DEF EXISTS
  <2>5. CASE DELETE(e, k)
    BY <1>4, <2>5
  <2> QED
    BY <2>1, <2>2, <2>3, <2>4, <2>5
<1> QED
  BY <1>1, <1>2, <1>5

\* A dirty read never happens: whatever an engine does inside its transaction,
\* and its rollback, the HEAD and every other running transaction go on reading
\* the same value for every key.
THEOREM NoDirtyRead == Spec => UncommittedInvisible
<1> DEFINE A == \A t \in {HEAD} \cup slots, k \in Keys :
                  Seen(t, k)' # Seen(t, k) =>
                    \A e \in Engines : transId[e] \notin {HEAD, t} =>
                      ~DataStep(e) /\ ~rollback(e)
<1>1. Sound => A
  <2> SUFFICES ASSUME Sound, NEW t \in {HEAD} \cup slots, NEW k \in Keys,
                      NEW e \in Engines, transId[e] \notin {HEAD, t},
                      DataStep(e) \/ rollback(e)
               PROVE  Seen(t, k)' = Seen(t, k)
    OBVIOUS
  <2>1. PICK u : u = transId[e]
    OBVIOUS
  <2>2. u \in TxnIds /\ OnlyTouches(u)
    BY <2>1, TxnTouches
  <2>3. LayoutSound
    BY DEF DataStep, STORE, FETCH, EXISTS, DELETE, rollback
  <2>4. t \in Ids \ {u}
    BY <2>1, <2>3, IdFacts DEF LayoutSound
  <2> QED
    BY <2>2, <2>4, OthersSeeTheSame
<1> QED
  BY <1>1, SoundInvariant, PTL DEF Spec, UncommittedInvisible

-----------------------------------------------------------------------------
(* A step in the HEAD while transaction t runs.                            *)

\* A bucket that holds a key shows transaction t the same value, unless the
\* slot of t says that the key is deleted; a blank bucket shows nothing.
HeadIsolates(t) ==
  \A j \in Buckets :
    /\ md5[j] # NoKey => md5'[j] = md5[j]
    /\ md5[j] # NoKey /\ SlotLoc(j, t) # Deleted => KeepsView(j, t)
    /\ md5[j] = NoKey => LocationOrHead(j, t)' = NoLoc

\* A transaction with a value of its own reads that, one without reads the
\* HEAD's value, and Unprotected tells the two apart.
LEMMA ReadsOwnOrHead ==
  ASSUME TypeOK, NEW j \in Buckets, NEW t \in slots, t \in TxnIds, SlotLoc(j, t) # Deleted
  PROVE  /\ t \in Unprotected(j) =>
              LocationOrHead(j, t) = get_data_location_for(j, HEAD)
         /\ t \notin Unprotected(j) =>
              /\ LocationOrHead(j, t) = loc[j][t]
              /\ loc[j][t] \in Sectors
              /\ tag[j][t] = counter[t]
BY ConstantsAssumption, IdFacts
   DEF TypeOK, LocationOrHead, Unprotected, get_data_location_for, SlotLoc, IsStale,
       Locations

\* A slot that names a sector under the current staleness is what t reads.
LEMMA ReadsSlot ==
  ASSUME NEW j \in Buckets, NEW t \in TxnIds, loc'[j][t] \in Sectors,
         tag'[j][t] = counter'[t]
  PROVE  LocationOrHead(j, t)' = loc'[j][t]
BY ConstantsAssumption, IdFacts
   DEF LocationOrHead, get_data_location_for, SlotLoc, IsStale

\* The marker of a deletion under the current staleness hides the HEAD.
LEMMA ReadsMarker ==
  ASSUME NEW j \in Buckets, NEW t \in TxnIds, loc'[j][t] = Deleted,
         tag'[j][t] = counter'[t]
  PROVE  LocationOrHead(j, t)' = NoLoc
BY ConstantsAssumption, IdFacts
   DEF LocationOrHead, get_data_location_for, SlotLoc, IsStale

\* The old value of the HEAD, and the slots of a bucket that is not written.
LEMMA HeadLocation ==
  ASSUME TypeOK, NEW i \in Buckets
  PROVE  /\ get_data_location_for(i, HEAD) # NoLoc =>
              /\ get_data_location_for(i, HEAD) = loc[i][HEAD]
              /\ loc[i][HEAD] \in Sectors
         /\ get_data_location_for(i, HEAD) = NoLoc => loc[i][HEAD] \notin Sectors
BY ConstantsAssumption DEF get_data_location_for, SlotLoc, IsStale

\* A bucket the step does not write keeps what it shows, when the sectors freed
\* or filled are the written bucket's own.
LEMMA OtherBuckets ==
  ASSUME Sound, NEW t \in TxnIds, NEW i \in Buckets, NEW j \in Buckets, j # i,
         md5'[j] = md5[j], loc'[j] = loc[j], tag'[j] = tag[j], counter' = counter,
         \A s \in Sectors :
           sector[s] # Free /\ s # get_data_location_for(i, HEAD) => sector'[s] = sector[s]
  PROVE  /\ md5[j] # NoKey /\ SlotLoc(j, t) # Deleted => KeepsView(j, t)
         /\ md5[j] = NoKey => LocationOrHead(j, t)' = NoLoc
<1>0. TypeOK /\ BlanksEmpty /\ HEAD \in Ids /\ t \in Ids
  BY IdFacts DEF Sound, TypedIds, BucketListCompact
<1>1. ASSUME NEW w \in Ids, loc[j][w] \in Sectors
      PROVE  sector'[loc[j][w]] = sector[loc[j][w]]
  <2>1. sector[loc[j][w]] # Free
    BY <1>1 DEF Sound, HeapIntegrity, NotDangling
  <2>2. loc[j][w] # get_data_location_for(i, HEAD)
    BY <1>0, <1>1, HeadLocation, ConstantsAssumption DEF Sound, HeapIntegrity, NotShared
  <2> QED
    BY <1>1, <2>1, <2>2
<1>2. KeepsView(j, t)
  BY <1>0, <1>1, ViewKept
<1>3. md5[j] = NoKey => LocationOrHead(j, t)' = NoLoc
  BY <1>0, NothingSeenNext DEF BlanksEmpty
<1> QED
  BY <1>2, <1>3

\* The HEAD's write to bucket i: the location and sector of the old value are
\* given up, so every transaction without a value of its own gets a clone, or
\* the marker that the key does not exist.
LEMMA WriteIsolates ==
  ASSUME Sound, slots \subseteq TxnIds, NEW t \in slots,
         NEW e \in Engines, NEW k \in Keys, NEW i \in Buckets, NEW v,
         find_md5(k, i), WriteInHead(e, k, i, v)
  PROVE  HeadIsolates(t)
<1> DEFINE old == get_data_location_for(i, HEAD)
           bare == Unprotected(i)
           cloning == IF md5[i] = k THEN bare ELSE {}
<1>0. /\ TypeOK /\ BlanksEmpty /\ NotShared /\ NotDangling
      /\ HEAD \in Ids /\ t \in Ids /\ t \in TxnIds /\ t # HEAD /\ k # NoKey
  BY IdFacts, ConstantsAssumption
     DEF Sound, TypedIds, BucketListCompact, HeapIntegrity
<1>1. PICK n \in FreeSectors : \E d \in Injection(cloning, FreeSectors \ {n}) :
        /\ loc' = [loc EXCEPT ![i] = [u \in Ids |->
                      CASE u = HEAD -> n
                        [] u \in cloning -> d[u]
                        [] u \in bare \ cloning -> Deleted
                        [] OTHER -> loc[i][u]]]
        /\ sector' = [s \in Sectors |->
                      CASE s = n -> v
                        [] s # n /\ (\E u \in cloning : d[u] = s) -> sector[old]
                        [] s = old -> Free
                        [] OTHER -> sector[s]]
  BY DEF WriteInHead
<1>2. PICK c \in Injection(cloning, FreeSectors \ {n}) :
        /\ loc' = [loc EXCEPT ![i] = [u \in Ids |->
                      CASE u = HEAD -> n
                        [] u \in cloning -> c[u]
                        [] u \in bare \ cloning -> Deleted
                        [] OTHER -> loc[i][u]]]
        /\ sector' = [s \in Sectors |->
                      CASE s = n -> v
                        [] s # n /\ (\E u \in cloning : c[u] = s) -> sector[old]
                        [] s = old -> Free
                        [] OTHER -> sector[s]]
  BY <1>1
<1>3. /\ c \in [cloning -> FreeSectors \ {n}]
      /\ cloning = {} \/ old # NoLoc
      /\ md5' = [md5 EXCEPT ![i] = k]
      /\ tag' = [tag EXCEPT ![i] = [u \in Ids |->
                   IF u \in bare THEN counter[u] ELSE tag[i][u]]]
      /\ counter' = counter
      /\ md5[i] \in {k, NoKey}
  BY <1>2 DEF Injection, WriteInHead, find_md5
<1>4. \A s \in Sectors : sector[s] # Free /\ s # old => sector'[s] = sector[s]
  <2> SUFFICES ASSUME NEW s \in Sectors, sector[s] # Free, s # old
               PROVE  sector'[s] = sector[s]
    OBVIOUS
  <2>1. s # n /\ \A u \in cloning : c[u] # s
    BY <1>1, <1>3 DEF FreeSectors
  <2> QED
    BY <1>2, <2>1
<1>5. /\ loc'[i][t] = IF t \in cloning THEN c[t]
                      ELSE IF t \in bare THEN Deleted ELSE loc[i][t]
      /\ tag'[i][t] = IF t \in bare THEN counter[t] ELSE tag[i][t]
      /\ md5'[i] = k
      /\ \A j \in Buckets : j # i =>
           md5'[j] = md5[j] /\ loc'[j] = loc[j] /\ tag'[j] = tag[j]
  <2> HIDE DEF old, bare, cloning
  <2> QED
    BY <1>0, <1>2, <1>3 DEF TypeOK
<1>6. old # NoLoc => old = loc[i][HEAD] /\ loc[i][HEAD] \in Sectors
  BY <1>0, HeadLocation
<1>7. \A s \in Sectors : (\E u \in cloning : c[u] = s) => sector'[s] = sector[old]
  <2> SUFFICES ASSUME NEW s \in Sectors, NEW u \in cloning, c[u] = s
               PROVE  sector'[s] = sector[old]
    OBVIOUS
  <2>1. s # n /\ sector[s] = Free
    BY <1>3 DEF FreeSectors
  <2>2. s # old
    BY <1>0, <1>6, <2>1, ConstantsAssumption DEF NotDangling
  <2> HIDE DEF old, cloning
  <2> QED
    BY <1>2, <2>1, <2>2
<1>8. CASE md5[i] = NoKey
  <2>1. t \in bare /\ t \notin cloning
    BY <1>0, <1>8 DEF BlanksEmpty, Unprotected, get_data_location_for, SlotLoc
  <2> HIDE DEF old, bare, cloning
  <2>2. LocationOrHead(i, t)' = NoLoc
    BY <1>0, <1>3, <1>5, <2>1, ReadsMarker
  <2> USE DEF old
  <2> QED
    BY <1>0, <1>3, <1>4, <1>5, <1>8, <2>2, OtherBuckets DEF HeadIsolates
<1>9. ASSUME md5[i] = k, SlotLoc(i, t) # Deleted PROVE KeepsView(i, t)
  <2>1. cloning = bare
    BY <1>9
  <2>2. CASE t \in bare
    <3>1. LocationOrHead(i, t) = old /\ old # NoLoc
      BY <1>0, <1>3, <1>9, <2>1, <2>2, ReadsOwnOrHead
    <3> HIDE DEF old, bare, cloning
    <3>2. loc'[i][t] = c[t] /\ c[t] \in Sectors /\ tag'[i][t] = counter'[t]
      BY <1>3, <1>5, <2>1, <2>2 DEF FreeSectors
    <3>3. LocationOrHead(i, t)' = c[t]
      BY <1>0, <3>2, ReadsSlot
    <3>4. sector'[c[t]] = sector[old]
      BY <1>7, <2>1, <2>2, <3>2
    <3> QED
      BY <1>5, <1>9, <3>1, <3>2, <3>3, <3>4, ConstantsAssumption DEF KeepsView
  <2>3. CASE t \notin bare
    <3>1. /\ LocationOrHead(i, t) = loc[i][t]
          /\ loc[i][t] \in Sectors
          /\ tag[i][t] = counter[t]
      BY <1>0, <1>9, <2>3, ReadsOwnOrHead
    <3>2. sector[loc[i][t]] # Free /\ loc[i][t] # old
      BY <1>0, <1>6, <3>1, ConstantsAssumption DEF NotDangling, NotShared
    <3>3. loc'[i][t] = loc[i][t] /\ tag'[i][t] = tag[i][t]
      BY <1>5, <2>1, <2>3
    <3>4. LocationOrHead(i, t)' = loc[i][t]
      BY <1>0, <1>3, <3>1, <3>3, ReadsSlot
    <3>5. sector'[loc[i][t]] = sector[loc[i][t]]
      BY <1>4, <3>1, <3>2
    <3> HIDE DEF old, bare, cloning
    <3> QED
      BY <1>5, <1>9, <3>1, <3>4, <3>5 DEF KeepsView
  <2> QED
    BY <2>2, <2>3
<1>10. ASSUME NEW j \in Buckets, j # i
       PROVE  /\ md5[j] # NoKey /\ SlotLoc(j, t) # Deleted => KeepsView(j, t)
              /\ md5[j] = NoKey => LocationOrHead(j, t)' = NoLoc
  BY <1>0, <1>3, <1>4, <1>5, <1>10, OtherBuckets
<1>11. CASE md5[i] = k
  BY <1>0, <1>5, <1>9, <1>10, <1>11 DEF HeadIsolates
<1> QED
  BY <1>3, <1>8, <1>11

\* The HEAD's deletion in bucket i, while transactions run.
LEMMA DeleteIsolates ==
  ASSUME Sound, slots \subseteq TxnIds, NEW t \in slots,
         NEW e \in Engines, NEW i \in Buckets, DeleteInHead(e, i)
  PROVE  HeadIsolates(t)
<1> DEFINE old == get_data_location_for(i, HEAD)
           bare == Unprotected(i)
<1>0. /\ TypeOK /\ BlanksEmpty /\ NotShared /\ NotDangling
      /\ HEAD \in Ids /\ t \in Ids /\ t \in TxnIds /\ t # HEAD
  BY IdFacts DEF Sound, TypedIds, BucketListCompact, HeapIntegrity
<1>1. PICK c \in Injection(bare, FreeSectors) :
        /\ loc' = [loc EXCEPT ![i] = [u \in Ids |->
                      CASE u = HEAD -> Deleted
                        [] u # HEAD /\ u \in bare -> c[u]
                        [] OTHER -> loc[i][u]]]
        /\ sector' = [s \in Sectors |->
                      CASE \E u \in bare : c[u] = s -> sector[old]
                        [] s = old -> Free
                        [] OTHER -> sector[s]]
  BY DEF DeleteInHead
<1>2. /\ c \in [bare -> FreeSectors]
      /\ bare = {} \/ old # NoLoc
      /\ md5' = md5
      /\ tag' = [tag EXCEPT ![i] = [u \in Ids |->
                   IF u \in bare THEN counter[u] ELSE tag[i][u]]]
      /\ counter' = counter
  BY <1>1 DEF Injection, DeleteInHead
<1>3. \A s \in Sectors : sector[s] # Free /\ s # old => sector'[s] = sector[s]
  <2> SUFFICES ASSUME NEW s \in Sectors, sector[s] # Free, s # old
               PROVE  sector'[s] = sector[s]
    OBVIOUS
  <2>1. \A u \in bare : c[u] # s
    BY <1>2 DEF FreeSectors
  <2> HIDE DEF old, bare
  <2> QED
    BY <1>1, <2>1
<1>4. /\ loc'[i][t] = IF t \in bare THEN c[t] ELSE loc[i][t]
      /\ tag'[i][t] = IF t \in bare THEN counter[t] ELSE tag[i][t]
      /\ \A j \in Buckets : j # i =>
           md5'[j] = md5[j] /\ loc'[j] = loc[j] /\ tag'[j] = tag[j]
  <2> HIDE DEF old, bare
  <2> QED
    BY <1>0, <1>1, <1>2 DEF TypeOK
<1>5. old # NoLoc => old = loc[i][HEAD] /\ loc[i][HEAD] \in Sectors
  BY <1>0, HeadLocation
<1>6. \A s \in Sectors : (\E u \in bare : c[u] = s) => sector'[s] = sector[old]
  <2> SUFFICES ASSUME NEW s \in Sectors, NEW u \in bare, c[u] = s
               PROVE  sector'[s] = sector[old]
    OBVIOUS
  <2>1. sector[s] = Free
    BY <1>2 DEF FreeSectors
  <2>2. s # old
    BY <1>0, <1>5, <2>1, ConstantsAssumption DEF NotDangling
  <2> HIDE DEF old, bare
  <2> QED
    BY <1>1, <2>1, <2>2
<1>7. md5[i] # NoKey
  <2> SUFFICES ASSUME md5[i] = NoKey PROVE FALSE
    OBVIOUS
  <2>1. t \in bare
    BY <1>0 DEF BlanksEmpty, Unprotected, get_data_location_for, SlotLoc
  <2> HIDE DEF bare
  <2> QED
    BY <1>0, <1>2, <1>5, <2>1 DEF BlanksEmpty
<1>8. ASSUME SlotLoc(i, t) # Deleted PROVE KeepsView(i, t)
  <2>1. CASE t \in bare
    <3>1. LocationOrHead(i, t) = old /\ old # NoLoc
      BY <1>0, <1>2, <1>8, <2>1, ReadsOwnOrHead
    <3> HIDE DEF old, bare
    <3>2. loc'[i][t] = c[t] /\ c[t] \in Sectors /\ tag'[i][t] = counter'[t]
      BY <1>2, <1>4, <2>1 DEF FreeSectors
    <3>3. LocationOrHead(i, t)' = c[t]
      BY <1>0, <3>2, ReadsSlot
    <3>4. sector'[c[t]] = sector[old]
      BY <1>6, <2>1, <3>2
    <3> QED
      BY <1>2, <3>1, <3>2, <3>3, <3>4, ConstantsAssumption DEF KeepsView
  <2>2. CASE t \notin bare
    <3>1. /\ LocationOrHead(i, t) = loc[i][t]
          /\ loc[i][t] \in Sectors
          /\ tag[i][t] = counter[t]
      BY <1>0, <1>8, <2>2, ReadsOwnOrHead
    <3>2. sector[loc[i][t]] # Free /\ loc[i][t] # old
      BY <1>0, <1>5, <3>1, ConstantsAssumption DEF NotDangling, NotShared
    <3>3. loc'[i][t] = loc[i][t] /\ tag'[i][t] = tag[i][t]
      BY <1>4, <2>2
    <3>4. LocationOrHead(i, t)' = loc[i][t]
      BY <1>0, <1>2, <3>1, <3>3, ReadsSlot
    <3>5. sector'[loc[i][t]] = sector[loc[i][t]]
      BY <1>3, <3>1, <3>2
    <3> HIDE DEF old, bare
    <3> QED
      BY <1>2, <3>1, <3>4, <3>5 DEF KeepsView
  <2> QED
    BY <2>1, <2>2
<1>9. ASSUME NEW j \in Buckets, j # i
      PROVE  /\ md5[j] # NoKey /\ SlotLoc(j, t) # Deleted => KeepsView(j, t)
             /\ md5[j] = NoKey => LocationOrHead(j, t)' = NoLoc
  BY <1>0, <1>2, <1>3, <1>4, <1>9, OtherBuckets
<1> QED
  BY <1>2, <1>7, <1>8, <1>9 DEF HeadIsolates

\* Scrubbing a stale slot does not change what anybody reads.
LEMMA ScrubSeesTheSame ==
  ASSUME TypeOK, NEW i \in Buckets, NEW u \in Ids, Scrub(i, u), counter' = counter,
         NEW j \in Buckets, NEW t \in Ids
  PROVE  LocationOrHead(j, t)' = LocationOrHead(j, t)
<1>1. HEAD \in Ids
  BY IdFacts
<1>2. ASSUME NEW w \in Ids PROVE SlotLoc(j, w)' = SlotLoc(j, w)
  BY ConstantsAssumption DEF Scrub, SlotLoc, IsStale, TypeOK
<1>3. ASSUME NEW w \in Ids
      PROVE  get_data_location_for(j, w)' = get_data_location_for(j, w)
  BY <1>2 DEF get_data_location_for
<1> QED
  BY <1>1, <1>2, <1>3 DEF LocationOrHead

LEMMA ScrubIsolates ==
  ASSUME Sound, NEW i \in Buckets, NEW u \in Ids, Scrub(i, u), counter' = counter,
         md5' = md5, NEW t \in Ids,
         \A s \in Sectors : sector[s] # Free => sector'[s] = sector[s]
  PROVE  HeadIsolates(t)
<1>0. TypeOK /\ BlanksEmpty /\ NotDangling /\ HEAD \in Ids
  BY IdFacts DEF Sound, TypedIds, BucketListCompact, HeapIntegrity
<1> SUFFICES ASSUME NEW j \in Buckets
             PROVE  /\ KeepsView(j, t)
                    /\ md5[j] = NoKey => LocationOrHead(j, t)' = NoLoc
  BY DEF HeadIsolates
<1>1. LocationOrHead(j, t)' = LocationOrHead(j, t)
  BY <1>0, ScrubSeesTheSame
<1>2. LocationOrHead(j, t) # NoLoc =>
        LocationOrHead(j, t) \in Sectors /\ sector[LocationOrHead(j, t)] # Free
  BY <1>0 DEF LocationOrHead, get_data_location_for, SlotLoc, NotDangling
<1>3. KeepsView(j, t)
  BY <1>1, <1>2 DEF KeepsView
<1>4. md5[j] = NoKey => LocationOrHead(j, t) = NoLoc
  BY <1>0, NothingSeen DEF BlanksEmpty
<1> QED
  BY <1>1, <1>3, <1>4

\* Every method of an engine that works in the HEAD.
LEMMA HeadStepIsolates ==
  ASSUME Sound, NEW e \in Engines, transId[e] = HEAD, DataStep(e), NEW t \in slots
  PROVE  t \in TxnIds /\ HeadIsolates(t)
<1>0. /\ slots \subseteq TxnIds /\ t \in TxnIds /\ t \in Ids /\ HEAD \in Ids
      /\ counter' = counter /\ TypeOK
  BY IdFacts, DataStepIds
     DEF LayoutSound, DataStep, STORE, FETCH, EXISTS, DELETE, Sound, TypedIds
<1>1. ASSUME NEW i \in Buckets, \E u \in Unprotected(i) : Scrub(i, u),
             md5' = md5, \A s \in Sectors : sector[s] # Free => sector'[s] = sector[s]
      PROVE  HeadIsolates(t)
  <2>1. PICK u \in Ids : Scrub(i, u)
    BY <1>0, <1>1, IdFacts DEF Unprotected
  <2> QED
    BY <1>0, <1>1, <2>1, ScrubIsolates
<1>2. ASSUME NEW k \in Keys, NEW i \in Buckets, NEW v, NEW type, find_md5(k, i),
             write_data(e, k, i, v, type)
      PROVE  HeadIsolates(t)
  <2>1. CASE WriteInHead(e, k, i, v)
    BY <1>0, <1>2, <2>1, WriteIsolates
  <2>2. CASE WriteDies(e, k, i, v, type)
    <3>1. \A s \in Sectors : sector[s] # Free => sector'[s] = sector[s]
      BY <1>0, <2>2 DEF WriteDies, FreeSectors, TypeOK
    <3> QED
      BY <1>1, <2>2, <3>1 DEF WriteDies
  <2> QED
    BY <1>2, <2>1, <2>2 DEF write_data, WriteInTxn
<1>3. ASSUME NEW i \in Buckets, LookAt(e, i) PROVE HeadIsolates(t)
  BY <1>0, <1>3, ScrubIsolates DEF LookAt
<1>4. ASSUME NEW k \in Keys, DELETE(e, k) PROVE HeadIsolates(t)
  <2>1. ASSUME DeleteOutside(e, k) PROVE HeadIsolates(t)
    <3>1. PICK i : i \in Buckets
      BY ConstantsAssumption DEF Buckets
    <3>2. Scrub(i, HEAD)
      BY <2>1 DEF DeleteOutside, Scrub, IsStale
    <3> QED
      BY <1>0, <2>1, <3>1, <3>2, ScrubIsolates DEF DeleteOutside
  <2>2. ASSUME NEW i \in Buckets, DeleteInHead(e, i) PROVE HeadIsolates(t)
    BY <1>0, <2>2, DeleteIsolates
  <2>3. ASSUME NEW i \in Buckets, DeleteDies(e, i) PROVE HeadIsolates(t)
    BY <1>1, <2>3 DEF DeleteDies
  <2> QED
    BY <1>4, <2>1, <2>2, <2>3 DEF DELETE, delete_md5, DeleteInTxn
<1>5. PICK k \in Keys :
        \/ \E v \in Values \cup {Undef} : STORE(e, k, v)
        \/ FETCH(e, k)
        \/ EXISTS(e, k)
        \/ DELETE(e, k)
  BY DEF DataStep
<1>6. CASE \E v \in Values \cup {Undef} : STORE(e, k, v)
  BY <1>0, <1>2, <1>6 DEF STORE
<1>7. CASE FETCH(e, k)
  BY <1>0, <1>2, <1>3, <1>7 DEF FETCH
<1>8. CASE EXISTS(e, k)
  BY <1>0, <1>3, <1>8 DEF EXISTS
<1>9. CASE DELETE(e, k)
  BY <1>0, <1>4, <1>9
<1> QED
  BY <1>5, <1>6, <1>7, <1>8, <1>9

\* A write to the HEAD does not change what a running transaction reads, except
\* for a key its own slot says is deleted: write_data and delete_key clone the
\* old value, or mark its absence, for every transaction that still reads it.
THEOREM HeadIsolated == Spec => HeadWritesIsolated
<1> DEFINE A == \A t \in slots, k \in Keys :
                  /\ Seen(t, k)' # Seen(t, k)
                  /\ \A i \in Buckets : md5[i] = k => SlotLoc(i, t) # Deleted
                  => \A e \in Engines : transId[e] = HEAD => ~DataStep(e)
<1>1. Sound => A
  <2> SUFFICES ASSUME Sound, NEW t \in slots, NEW k \in Keys,
                      \A i \in Buckets : md5[i] = k => SlotLoc(i, t) # Deleted,
                      NEW e \in Engines, transId[e] = HEAD, DataStep(e)
               PROVE  Seen(t, k)' = Seen(t, k)
    OBVIOUS
  <2>1. HeadIsolates(t) /\ k # NoKey
    BY HeadStepIsolates, ConstantsAssumption
  <2>2. \A j \in Buckets : md5[j] = k => KeepsView(j, t)
    BY <2>1 DEF HeadIsolates
  <2>3. \A j \in Buckets : md5[j] # k /\ md5'[j] = k => LocationOrHead(j, t)' = NoLoc
    BY <2>1 DEF HeadIsolates
  <2> QED
    BY <2>2, <2>3, SeenKept
<1> QED
  BY <1>1, SoundInvariant, PTL DEF Spec, HeadWritesIsolated

-----------------------------------------------------------------------------
(* What a transaction stored, against every step of the other engines.     *)

\* The bucket that holds a value of t is the only one with its key.
LEMMA OwnBucket ==
  ASSUME Sound, NEW i \in Buckets, NEW t \in Ids,
         get_data_location_for(i, t) # NoLoc
  PROVE  /\ get_data_location_for(i, t) = loc[i][t]
         /\ loc[i][t] \in Sectors
         /\ SlotLoc(i, t) = loc[i][t] /\ ~IsStale(i, t)
         /\ md5[i] \in Keys
         /\ \A j \in Buckets : md5[j] = md5[i] => j = i
<1>1. /\ get_data_location_for(i, t) = loc[i][t] /\ loc[i][t] \in Sectors
      /\ SlotLoc(i, t) = loc[i][t] /\ ~IsStale(i, t)
  BY ConstantsAssumption DEF get_data_location_for, SlotLoc
<1>2. md5[i] # NoKey
  BY <1>1 DEF Sound, BucketListCompact, BlanksEmpty
<1>3. md5[i] \in Keys
  BY <1>2 DEF Sound, TypedIds, TypeOK
<1> QED
  BY <1>1, <1>2, <1>3 DEF Sound, BucketListCompact, KeysOnce

\* The commit of another transaction u may move the HEAD's location of a bucket
\* in which t has a value, but frees only what the HEAD named.
LEMMA CommitKeepsOwn ==
  ASSUME Sound, NEW f \in Engines, commit(f), NEW t \in TxnIds, transId[f] # t,
         NEW i \in Buckets, get_data_location_for(i, t) # NoLoc
  PROVE  KeepsView(i, t) /\ md5' = md5
<1> DEFINE todo == entries[f][transId[f]]
<1>0. /\ TypeOK /\ t \in Ids /\ HEAD \in Ids /\ t # HEAD
      /\ transId[f] \in TxnIds /\ EndTransaction(f)
  BY IdFacts, RunningId DEF Sound, TypedIds, commit
<1>0a. todo \subseteq Buckets
  BY <1>0 DEF TypeOK
<1>1. loc[i][t] \in Sectors /\ SlotLoc(i, t) = loc[i][t] /\ tag[i][t] = counter[t]
  BY <1>0, OwnBucket DEF IsStale
<1>2. /\ md5' = md5
      /\ counter'[t] = counter[t]
  BY <1>0 DEF EndTransaction, TypeOK
<1>3. loc'[i][t] = loc[i][t] /\ tag'[i][t] = tag[i][t]
  <2>1. loc'[i] = IF i \in todo
                  THEN [loc[i] EXCEPT ![HEAD] = loc[i][transId[f]],
                                      ![transId[f]] = NoLoc]
                  ELSE loc[i]
    BY DEF commit
  <2>2. tag'[i] = IF i \in todo THEN [tag[i] EXCEPT ![transId[f]] = 0] ELSE tag[i]
    BY DEF commit
  <2> HIDE DEF todo
  <2> QED
    BY <1>0, <2>1, <2>2 DEF TypeOK
<1>4. \A j \in todo : loc[j][HEAD] # loc[i][t]
  BY <1>0, <1>0a, <1>1 DEF Sound, HeapIntegrity, NotShared
<1>5. sector'[loc[i][t]] = sector[loc[i][t]]
  BY <1>1, <1>4 DEF commit
<1>6. LocationOrHead(i, t) = loc[i][t]
  BY <1>1, ConstantsAssumption DEF LocationOrHead, get_data_location_for
<1>7. LocationOrHead(i, t)' = loc[i][t]
  BY <1>1, <1>2, <1>3, ReadsSlot
<1> QED
  BY <1>2, <1>5, <1>6, <1>7 DEF KeepsView

LEMMA OwnValueKept ==
  ASSUME Sound, [Next]_vars, NEW e \in Engines, NEW i \in Buckets,
         NEW t, t = transId[e], t # HEAD, transId'[e] = t,
         get_data_location_for(i, t) # NoLoc, ~DataStep(e),
         NEW k, k = md5[i]
  PROVE  Seen(t, k)' = Seen(t, k) /\ md5'[i] = k
<1>0. TypeOK /\ TxnIdsExclusive /\ t \in slots
  BY DEF Sound, TypedIds, TxnIdsExclusive
<1>1. ASSUME file' = file PROVE Seen(t, k)' = Seen(t, k) /\ md5'[i] = k
  BY <1>1 DEF file, Seen, LocationOrHead, get_data_location_for, SlotLoc, IsStale
<1>2. ASSUME LayoutSound
      PROVE  /\ t \in TxnIds /\ t \in Ids /\ k \in Keys /\ k # NoKey
             /\ SlotLoc(i, t) # Deleted
             /\ \A j \in Buckets : md5[j] = k => j = i
  BY <1>0, <1>2, OwnBucket, IdFacts, ConstantsAssumption DEF LayoutSound
<1>3. ASSUME LayoutSound, KeepsView(i, t),
             \A j \in Buckets : j # i /\ md5'[j] = k => LocationOrHead(j, t)' = NoLoc
      PROVE  Seen(t, k)' = Seen(t, k) /\ md5'[i] = k
  <2>1. \A j \in Buckets : md5[j] = k => KeepsView(j, t)
    BY <1>2, <1>3
  <2>2. \A j \in Buckets : md5[j] # k /\ md5'[j] = k => LocationOrHead(j, t)' = NoLoc
    BY <1>3
  <2> QED
    BY <1>3, <2>1, <2>2, SeenKept DEF KeepsView
<1>4. ASSUME NEW f \in Engines, transId[f] \notin {HEAD, t}, DataStep(f) \/ rollback(f)
      PROVE  Seen(t, k)' = Seen(t, k) /\ md5'[i] = k
  <2>1. PICK u : u = transId[f]
    OBVIOUS
  <2>2. u \in TxnIds /\ OnlyTouches(u)
    BY <1>4, <2>1, TxnTouches
  <2>3. LayoutSound
    BY <1>4 DEF DataStep, STORE, FETCH, EXISTS, DELETE, rollback
  <2>4. t \in Ids \ {u}
    BY <1>2, <1>4, <2>1, <2>3
  <2>5. md5'[i] = k
    BY <1>2, <2>2, <2>3 DEF OnlyTouches
  <2> QED
    BY <1>2, <2>2, <2>3, <2>4, <2>5, OthersSeeTheSame
<1>5. ASSUME NEW f \in Engines, DataStep(f)
      PROVE  Seen(t, k)' = Seen(t, k) /\ md5'[i] = k
  <2>1. LayoutSound
    BY <1>5 DEF DataStep, STORE, FETCH, EXISTS, DELETE
  <2>2. f # e
    BY <1>5
  <2>3. CASE transId[f] = HEAD
    <3>1. HeadIsolates(t)
      BY <1>0, <1>5, <2>3, HeadStepIsolates
    <3>2. KeepsView(i, t)
      BY <1>2, <2>1, <3>1 DEF HeadIsolates
    <3>3. \A j \in Buckets : j # i /\ md5'[j] = k => LocationOrHead(j, t)' = NoLoc
      BY <1>2, <2>1, <3>1 DEF HeadIsolates
    <3> QED
      BY <1>3, <2>1, <3>2, <3>3
  <2>4. CASE transId[f] # HEAD
    <3>1. transId[f] # t
      BY <2>2 DEF Sound, TypedIds, TxnIdsExclusive
    <3> QED
      BY <1>4, <1>5, <2>4, <3>1
  <2> QED
    BY <2>3, <2>4
<1>6. ASSUME NEW f \in Engines, begin_work(f)
      PROVE  Seen(t, k)' = Seen(t, k) /\ md5'[i] = k
  BY <1>6 DEF begin_work, Seen, LocationOrHead, get_data_location_for, SlotLoc, IsStale
<1>7. ASSUME NEW f \in Engines, commit(f) \/ rollback(f)
      PROVE  LayoutSound /\ transId[f] \notin {HEAD, t}
  <2>1. LayoutSound /\ transId[f] # HEAD /\ transId' = [transId EXCEPT ![f] = HEAD]
    BY <1>7 DEF commit, rollback, EndTransaction
  <2>2. f # e
    BY <1>0, <2>1 DEF TypeOK
  <2> QED
    BY <2>1, <2>2 DEF Sound, TypedIds, TxnIdsExclusive
<1>8. ASSUME NEW f \in Engines, commit(f)
      PROVE  Seen(t, k)' = Seen(t, k) /\ md5'[i] = k
  <2>1. LayoutSound /\ transId[f] # t
    BY <1>7, <1>8
  <2>2. KeepsView(i, t) /\ md5' = md5
    BY <1>2, <1>8, <2>1, CommitKeepsOwn
  <2>3. \A j \in Buckets : j # i => md5'[j] # k
    BY <1>2, <2>1, <2>2
  <2> QED
    BY <1>3, <2>1, <2>2, <2>3
<1>9. ASSUME NEW f \in Engines, rollback(f)
      PROVE  Seen(t, k)' = Seen(t, k) /\ md5'[i] = k
  BY <1>4, <1>7, <1>9
<1>10. ASSUME NEW f \in Engines, Exit(f)
       PROVE  Seen(t, k)' = Seen(t, k) /\ md5'[i] = k
  BY <1>1, <1>10 DEF Exit
<1>11. CASE UNCHANGED vars
  BY <1>1, <1>11 DEF vars, file
<1> QED
  BY <1>5, <1>6, <1>8, <1>9, <1>10, <1>11 DEF Next

\* What a transaction stored stays what it reads until it writes again or ends,
\* although the other engines write, delete, commit, roll back and exit.
THEOREM OwnStoresKept == Spec => OwnStoresSurvive
<1> DEFINE A == \A e \in Engines, i \in Buckets :
                  /\ transId[e] # HEAD /\ transId'[e] = transId[e]
                  /\ get_data_location_for(i, transId[e]) # NoLoc
                  /\ Seen(transId[e], md5[i])' # Seen(transId[e], md5[i])
                  => DataStep(e)
<1>1. Sound /\ [Next]_vars => A
  <2> SUFFICES ASSUME Sound, [Next]_vars, NEW e \in Engines, NEW i \in Buckets,
                      transId[e] # HEAD, transId'[e] = transId[e],
                      get_data_location_for(i, transId[e]) # NoLoc,
                      ~DataStep(e)
               PROVE  Seen(transId[e], md5[i])' = Seen(transId[e], md5[i])
    OBVIOUS
  <2>1. PICK t : t = transId[e]
    OBVIOUS
  <2>2. PICK k : k = md5[i]
    OBVIOUS
  <2>3. Seen(t, k)' = Seen(t, k) /\ md5'[i] = k
    BY <2>1, <2>2, OwnValueKept
  <2>4. Seen(transId[e], md5[i]) = Seen(t, k)
    BY <2>1, <2>2
  <2>5. Seen(transId[e], md5[i])' = Seen(t, k)'
    BY <2>1, <2>3 DEF Seen, LocationOrHead, get_data_location_for, SlotLoc, IsStale
  <2> QED
    BY <2>3, <2>4, <2>5
<1> QED
  BY <1>1, SoundInvariant, PTL DEF Spec, OwnStoresSurvive

=============================================================================
