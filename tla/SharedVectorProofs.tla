------------------------- MODULE SharedVectorProofs -------------------------
(***************************************************************************)
(* For any number of threads, vectors and instances, and whatever objects  *)
(* threads->new clones: the lock of a vector keeps pushes from being lost, *)
(* and the registry leads from each id that is given out to its vector.    *)
(* The reference counts are the subject of SharedVectorCountProofs.        *)
(***************************************************************************)
EXTENDS SharedVector, FunctionTheorems, FiniteSetTheorems, WellFoundedInduction, TLAPS

-----------------------------------------------------------------------------
(* The inductive invariant.                                                *)

Op(th) == call[th].op
Vec(th) == call[th].v
Obj(th) == call[th].x
Pos(th) == call[th].i

CallType == [op : DOMAIN Code, v : Vecs \cup {NoVec}, x : Insts \cup {NoInst}, i : Nat, n : Nat]

\* A thread that is in a method has an instance, a vector and a place in the
\* code; only a method that has just been called on an object whose instance
\* is freed has no vector.
Proper(c) ==
  IF c.op = "idle" THEN c = Idle
  ELSE /\ c.x \in Insts /\ c.i \in 1 .. Len(Code[c.op])
       /\ c.v \in Vecs \/ (c.op \in {"push", "access", "destroy"} /\ c.i = 1)

CallsOK == call \in [Threads -> CallType] /\ \A th \in Threads : Proper(call[th])

StateOK ==
  /\ asleep \in [Threads -> Vecs \cup {Awake, Registry}]
  /\ owner \in [Vecs -> Threads \cup {Nobody}] /\ locks \in [Vecs -> 0 .. 2]
  /\ regLocks \in 0 .. 1
  /\ registry \in [Ids -> Vecs \cup {NoVec}] /\ ids \in [Vecs -> Ids]
  /\ heap \subseteq Vecs /\ refs \in [Vecs -> Nat]
  /\ size \in [Vecs -> Nat] /\ pushes \in [Vecs -> Nat]
  /\ fVector \in [Insts -> Vecs \cup {NoVec}]

\* Between its first Acquire and its last Release a thread owns the lock of
\* its vector, twice over while the destructor is in GetId; and only there.
Inside(th) == Op(th) \notin {"idle", "new"} /\ Pos(th) > 1
Depth(th) == IF Op(th) = "delete" /\ Pos(th) \in 5 .. 6 THEN 2 ELSE 1

LockInv ==
  /\ \A th \in Threads : Inside(th) =>
       owner[Vec(th)] = th /\ locks[Vec(th)] = Depth(th)
  /\ \A v \in Vecs : owner[v] # Nobody => Inside(owner[v]) /\ Vec(owner[v]) = v

\* One thread at a time is between AcquireGlobal and ReleaseGlobal.
InRegistry(th) ==
  \/ Op(th) = "new" /\ Pos(th) > 1
  \/ Op(th) = "delete" /\ Pos(th) \in 4 .. 8

RegistryLockInv == \A th \in Threads : InRegistry(th) =>
  regLocks = 1 /\ \A u \in Threads : InRegistry(u) => u = th

\* Until the constructor inserts a vector in the registry nobody else knows it.
Making(th) == Op(th) = "new" /\ Pos(th) <= 3

SoleInv == \A th \in Threads : Making(th) =>
  /\ \A u \in Threads : Vec(u) = Vec(th) => u = th
  /\ \A x \in Insts : fVector[x] # Vec(th)

\* What a thread has read is still so when it acts on it.
ReadInv == \A th \in Threads :
  /\ Op(th) = "push" /\ Pos(th) = 3 => call[th].n = size[Vec(th)]
  /\ Op(th) = "new" /\ Pos(th) = 3 => call[th].n \in Ids /\ registry[call[th].n] = NoVec
  /\ Op(th) = "delete" /\ Pos(th) \in 6 .. 7 => call[th].n = ids[Vec(th)]

\* The registry and the ids agree on all vectors but those that are not yet
\* inserted or already erased.
Unlisted(th) == Making(th) \/ (Op(th) = "delete" /\ Pos(th) >= 8)

RegistryInv ==
  /\ \A i \in Ids : registry[i] # NoVec => registry[i] \in heap /\ ids[registry[i]] = i
  /\ \A v \in heap : registry[ids[v]] = v \/ \E th \in Threads : Vec(th) = v /\ Unlisted(th)
  /\ \A th \in Threads : Unlisted(th) => \A i \in Ids : registry[i] # Vec(th)

VectorInv ==
  /\ CallsOK /\ StateOK
  /\ LockInv /\ RegistryLockInv
  /\ SoleInv /\ ReadInv /\ RegistryInv
  /\ NoLostPush

-----------------------------------------------------------------------------
(* Where the instructions are in the methods.                              *)

Ops == {"idle", "push", "access", "new", "fetch", "destroy", "decrement", "delete"}

LEMMA CodeDomain == DOMAIN Code = Ops
BY DEF Code, Ops

LEMMA CodeSteps ==
  /\ Code["push"] = <<"Acquire", "Read", "Push", "Release">>
  /\ Code["access"] = <<"Acquire", "Read", "Release">>
  /\ Code["new"] = <<"AcquireGlobal", "GetNewId", "Insert", "ReleaseGlobal">>
  /\ Code["fetch"] = <<"Acquire", "Increment", "Release">>
  /\ Code["destroy"] = <<"Acquire", "GetRefCount", "Release">>
  /\ Code["decrement"] = <<"Acquire", "Decrement", "Release">>
  /\ Code["delete"] = <<"Acquire", "DeleteContainer", "AcquireGlobal", "Acquire",
                        "GetId", "Release", "Erase", "ReleaseGlobal", "Release">>
  /\ Code["idle"] = << >>
BY DEF Code

Length(th) == Len(Code[call[th].op])

\* The places at which th may be about to execute instr, and the length of its method.
PlaceOf(th, instr) ==
  \/ /\ Op(th) = "push" /\ Length(th) = 4
     /\ <<Pos(th), instr>> \in {<<1, "Acquire">>, <<2, "Read">>, <<3, "Push">>, <<4, "Release">>}
  \/ /\ Op(th) = "access" /\ Length(th) = 3
     /\ <<Pos(th), instr>> \in {<<1, "Acquire">>, <<2, "Read">>, <<3, "Release">>}
  \/ /\ Op(th) = "new" /\ Length(th) = 4
     /\ <<Pos(th), instr>> \in {<<1, "AcquireGlobal">>, <<2, "GetNewId">>, <<3, "Insert">>,
                             <<4, "ReleaseGlobal">>}
  \/ /\ Op(th) = "fetch" /\ Length(th) = 3
     /\ <<Pos(th), instr>> \in {<<1, "Acquire">>, <<2, "Increment">>, <<3, "Release">>}
  \/ /\ Op(th) = "destroy" /\ Length(th) = 3
     /\ <<Pos(th), instr>> \in {<<1, "Acquire">>, <<2, "GetRefCount">>, <<3, "Release">>}
  \/ /\ Op(th) = "decrement" /\ Length(th) = 3
     /\ <<Pos(th), instr>> \in {<<1, "Acquire">>, <<2, "Decrement">>, <<3, "Release">>}
  \/ /\ Op(th) = "delete" /\ Length(th) = 9
     /\ <<Pos(th), instr>> \in {<<1, "Acquire">>, <<2, "DeleteContainer">>, <<3, "AcquireGlobal">>,
                             <<4, "Acquire">>, <<5, "GetId">>, <<6, "Release">>, <<7, "Erase">>,
                             <<8, "ReleaseGlobal">>, <<9, "Release">>}

LEMMA Places ==
  ASSUME VectorInv, Safe, NEW th \in Threads, NEW instr, At(th, instr)
  PROVE  Vec(th) \in Vecs /\ Pos(th) \in Nat /\ PlaceOf(th, instr)
<1>1. Op(th) \in Ops /\ Proper(call[th])
  BY CodeDomain DEF VectorInv, CallsOK, CallType, Op
<1>2. Op(th) # "idle"
  BY <1>1, CodeSteps DEF At, Proper, Idle, Call, Op
<1>3. Vec(th) \in Vecs /\ Pos(th) \in Nat
  <2>1. call[th] # Idle
    BY <1>2 DEF Idle, Call, Op
  <2>2. call[th].i \in Nat
    BY DEF VectorInv, CallsOK, CallType
  <2> QED BY <2>1, <2>2 DEF Safe, VectorInv, StateOK, Vec, Pos
<1>4. Pos(th) \in DOMAIN Code[Op(th)] /\ Code[Op(th)][Pos(th)] = instr
  BY DEF At, Op, Pos
<1>5. CASE Op(th) = "push"
  BY <1>3, <1>4, <1>5, CodeSteps DEF PlaceOf, Length, Op
<1>6. CASE Op(th) = "access"
  BY <1>3, <1>4, <1>6, CodeSteps DEF PlaceOf, Length, Op
<1>7. CASE Op(th) = "new"
  BY <1>3, <1>4, <1>7, CodeSteps DEF PlaceOf, Length, Op
<1>8. CASE Op(th) = "fetch"
  BY <1>3, <1>4, <1>8, CodeSteps DEF PlaceOf, Length, Op
<1>9. CASE Op(th) = "destroy"
  BY <1>3, <1>4, <1>9, CodeSteps DEF PlaceOf, Length, Op
<1>10. CASE Op(th) = "decrement"
  BY <1>3, <1>4, <1>10, CodeSteps DEF PlaceOf, Length, Op
<1>11. CASE Op(th) = "delete"
  BY <1>3, <1>4, <1>11, CodeSteps DEF PlaceOf, Length, Op
<1> QED
  BY <1>1, <1>2, <1>3, <1>5, <1>6, <1>7, <1>8, <1>9, <1>10, <1>11 DEF Ops

\* th has an instruction after this one.
MayMove(th) ==
  call[th].op # "idle" /\ call[th].v \in Vecs /\ call[th].i \in Nat /\ call[th].i < Length(th)

LEMMA PlacesInMethods ==
  ASSUME VectorInv, Safe, NEW th \in Threads
  PROVE  /\ At(th, "Read") => MayMove(th) /\ call[th].op \in {"push", "access"} /\ call[th].i = 2
         /\ At(th, "Push") => MayMove(th) /\ call[th].op = "push" /\ call[th].i = 3
         /\ At(th, "GetNewId") => MayMove(th) /\ call[th].op = "new" /\ call[th].i = 2
         /\ At(th, "Insert") => MayMove(th) /\ call[th].op = "new" /\ call[th].i = 3
         /\ At(th, "Increment") => MayMove(th) /\ call[th].op = "fetch" /\ call[th].i = 2
         /\ At(th, "GetRefCount") => MayMove(th) /\ call[th].op = "destroy" /\ call[th].i = 2
         /\ At(th, "Decrement") => MayMove(th) /\ call[th].op = "decrement" /\ call[th].i = 2
         /\ At(th, "DeleteContainer") => MayMove(th) /\ call[th].op = "delete" /\ call[th].i = 2
         /\ At(th, "GetId") => MayMove(th) /\ call[th].op = "delete" /\ call[th].i = 5
         /\ At(th, "Erase") => MayMove(th) /\ call[th].op = "delete" /\ call[th].i = 7
         /\ At(th, "AcquireGlobal") => MayMove(th) /\ <<call[th].op, call[th].i>> \in {<<"new", 1>>, <<"delete", 3>>}
         /\ At(th, "Acquire") => MayMove(th) /\ IF call[th].i = 1
              THEN call[th].op \in {"push", "access", "fetch"} \cup Destroying
              ELSE call[th].op = "delete" /\ call[th].i = 4
<1> USE DEF Op, Vec, Pos
<1>1. ASSUME At(th, "Read")
      PROVE  MayMove(th) /\ call[th].op \in {"push", "access"} /\ call[th].i = 2
  <2>1. call[th].v \in Vecs /\ call[th].i \in Nat /\ PlaceOf(th, "Read")
    BY <1>1, Places
  <2> QED BY <2>1 DEF MayMove, PlaceOf
<1>2. ASSUME At(th, "Push")
      PROVE  MayMove(th) /\ call[th].op = "push" /\ call[th].i = 3
  <2>1. call[th].v \in Vecs /\ call[th].i \in Nat /\ PlaceOf(th, "Push")
    BY <1>2, Places
  <2> QED BY <2>1 DEF MayMove, PlaceOf
<1>3. ASSUME At(th, "GetNewId")
      PROVE  MayMove(th) /\ call[th].op = "new" /\ call[th].i = 2
  <2>1. call[th].v \in Vecs /\ call[th].i \in Nat /\ PlaceOf(th, "GetNewId")
    BY <1>3, Places
  <2> QED BY <2>1 DEF MayMove, PlaceOf
<1>4. ASSUME At(th, "Insert")
      PROVE  MayMove(th) /\ call[th].op = "new" /\ call[th].i = 3
  <2>1. call[th].v \in Vecs /\ call[th].i \in Nat /\ PlaceOf(th, "Insert")
    BY <1>4, Places
  <2> QED BY <2>1 DEF MayMove, PlaceOf
<1>5. ASSUME At(th, "Increment")
      PROVE  MayMove(th) /\ call[th].op = "fetch" /\ call[th].i = 2
  <2>1. call[th].v \in Vecs /\ call[th].i \in Nat /\ PlaceOf(th, "Increment")
    BY <1>5, Places
  <2> QED BY <2>1 DEF MayMove, PlaceOf
<1>6. ASSUME At(th, "GetRefCount")
      PROVE  MayMove(th) /\ call[th].op = "destroy" /\ call[th].i = 2
  <2>1. call[th].v \in Vecs /\ call[th].i \in Nat /\ PlaceOf(th, "GetRefCount")
    BY <1>6, Places
  <2> QED BY <2>1 DEF MayMove, PlaceOf
<1>7. ASSUME At(th, "Decrement")
      PROVE  MayMove(th) /\ call[th].op = "decrement" /\ call[th].i = 2
  <2>1. call[th].v \in Vecs /\ call[th].i \in Nat /\ PlaceOf(th, "Decrement")
    BY <1>7, Places
  <2> QED BY <2>1 DEF MayMove, PlaceOf
<1>8. ASSUME At(th, "DeleteContainer")
      PROVE  MayMove(th) /\ call[th].op = "delete" /\ call[th].i = 2
  <2>1. call[th].v \in Vecs /\ call[th].i \in Nat /\ PlaceOf(th, "DeleteContainer")
    BY <1>8, Places
  <2> QED BY <2>1 DEF MayMove, PlaceOf
<1>9. ASSUME At(th, "GetId")
      PROVE  MayMove(th) /\ call[th].op = "delete" /\ call[th].i = 5
  <2>1. call[th].v \in Vecs /\ call[th].i \in Nat /\ PlaceOf(th, "GetId")
    BY <1>9, Places
  <2> QED BY <2>1 DEF MayMove, PlaceOf
<1>10. ASSUME At(th, "Erase")
      PROVE  MayMove(th) /\ call[th].op = "delete" /\ call[th].i = 7
  <2>1. call[th].v \in Vecs /\ call[th].i \in Nat /\ PlaceOf(th, "Erase")
    BY <1>10, Places
  <2> QED BY <2>1 DEF MayMove, PlaceOf
<1>11. ASSUME At(th, "AcquireGlobal")
      PROVE  MayMove(th) /\ <<call[th].op, call[th].i>> \in {<<"new", 1>>, <<"delete", 3>>}
  <2>1. call[th].v \in Vecs /\ call[th].i \in Nat /\ PlaceOf(th, "AcquireGlobal")
    BY <1>11, Places
  <2> QED BY <2>1 DEF MayMove, PlaceOf
<1>12. ASSUME At(th, "Acquire")
      PROVE  MayMove(th) /\ IF call[th].i = 1 THEN call[th].op \in {"push", "access", "fetch"} \cup Destroying
              ELSE call[th].op = "delete" /\ call[th].i = 4
  <2>1. call[th].v \in Vecs /\ call[th].i \in Nat /\ PlaceOf(th, "Acquire")
    BY <1>12, Places
  <2> QED BY <2>1 DEF MayMove, PlaceOf, Destroying
<1> QED
  BY <1>1, <1>2, <1>3, <1>4, <1>5, <1>6, <1>7, <1>8, <1>9, <1>10, <1>11, <1>12


-----------------------------------------------------------------------------
(* Steps on the call of one thread.                                        *)

LEMMA CallFacts ==
  ASSUME CallsOK, NEW th \in Threads
  PROVE  /\ call[th].op \in Ops /\ call[th].i \in Nat /\ call[th].n \in Nat
         /\ IF call[th].op = "idle" THEN call[th] = Idle /\ call[th].v = NoVec /\ call[th].i = 1
            ELSE /\ call[th].x \in Insts
                 /\ call[th].v \in Vecs
                      \/ (call[th].op \in {"push", "access", "destroy"} /\ call[th].i = 1)
<1>1. call[th] \in CallType /\ Proper(call[th])
  BY DEF CallsOK
<1>2. Idle.op = "idle" /\ Idle.v = NoVec /\ Idle.i = 1
  BY DEF Idle, Call
<1>3. call[th].op \in Ops /\ call[th].i \in Nat /\ call[th].n \in Nat
  BY <1>1, CodeDomain DEF CallType
<1> QED
  BY <1>1, <1>2, <1>3 DEF Proper

\* The vectors of the calls that are under way are there.
LEMMA SafeFacts ==
  ASSUME VectorInv, Safe, NEW th \in Threads, call[th].op # "idle"
  PROVE  call[th].v \in heap /\ call[th].v \in Vecs /\ call[th].v # NoVec
BY SharedVectorAssumption DEF Safe, Idle, Call, VectorInv, StateOK

\* The call of th becomes c.
BecomesCall(th, c) == \A u \in Threads : call'[u] = IF u = th THEN c ELSE call[u]

LEMMA CallSet ==
  ASSUME CallsOK, NEW th \in Threads, NEW c, c \in CallType, Proper(c),
         call' = [call EXCEPT ![th] = c]
  PROVE  CallsOK' /\ BecomesCall(th, c)
<1>1. \A u \in Threads : call'[u] = IF u = th THEN c ELSE call[u]
  BY DEF CallsOK
<1>2. call' \in [Threads -> CallType]
  BY DEF CallsOK
<1>3. \A u \in Threads : Proper(call'[u])
  BY <1>1 DEF CallsOK
<1> QED
  BY <1>1, <1>2, <1>3 DEF CallsOK, BecomesCall, Proper, CallType

\* th has gone on to the next instruction, with the value k.
Moved(th, k) == \A u \in Threads :
  /\ call'[u].op = call[u].op /\ call'[u].v = call[u].v /\ call'[u].x = call[u].x
  /\ call'[u].i = IF u = th THEN call[u].i + 1 ELSE call[u].i
  /\ call'[u].n = IF u = th THEN k ELSE call[u].n

LEMMA MoveSet ==
  ASSUME CallsOK, NEW th \in Threads, NEW k \in Nat, MayMove(th),
         call' = [call EXCEPT ![th] = [Done(th) EXCEPT !.n = k]]
  PROVE  CallsOK' /\ Moved(th, k)
<1> DEFINE c == [op |-> call[th].op, v |-> call[th].v, x |-> call[th].x,
                 i |-> call[th].i + 1, n |-> k]
<1>1. /\ call[th] \in CallType /\ call[th].v \in Vecs /\ call[th].x \in Insts
      /\ call[th].i \in 1 .. Len(Code[call[th].op])
  BY DEF CallsOK, Proper, MayMove
<1>2. c \in CallType
  BY <1>1 DEF CallType
<1>3. [Done(th) EXCEPT !.n = k] = c
  <2>1. call[th] = [op |-> call[th].op, v |-> call[th].v, x |-> call[th].x,
                    i |-> call[th].i, n |-> call[th].n]
    BY <1>1 DEF CallType
  <2>2. Done(th) = [op |-> call[th].op, v |-> call[th].v, x |-> call[th].x,
                    i |-> call[th].i + 1, n |-> call[th].n]
    BY <2>1 DEF Done
  <2> QED BY <2>2
<1>4. Len(Code[call[th].op]) \in Nat
  BY <1>1, CodeDomain, CodeSteps DEF Ops, CallType
<1>5. Proper(c)
  BY <1>1, <1>4 DEF CallType, Length, MayMove, Proper
<1>6. call' = [call EXCEPT ![th] = c]
  BY <1>3
<1> HIDE DEF c
<1>7. CallsOK' /\ \A u \in Threads : call'[u] = IF u = th THEN c ELSE call[u]
  BY <1>2, <1>5, <1>6, CallSet DEF BecomesCall
<1> QED
  BY <1>7 DEF Moved, c

LEMMA AdvanceSet ==
  ASSUME CallsOK, NEW th \in Threads, MayMove(th), Advance(th)
  PROVE  CallsOK' /\ Moved(th, call[th].n)
<1>1. call[th] \in CallType
  BY DEF CallsOK
<1>2. Done(th) = [Done(th) EXCEPT !.n = call[th].n]
  BY <1>1 DEF CallType, Done
<1> QED
  BY <1>1, <1>2, MoveSet DEF Advance, CallType

-----------------------------------------------------------------------------
(* What a step within a method leaves as it is.                            *)

LEMMA MovedSole ==
  ASSUME VectorInv, NEW th \in Threads, NEW k, Moved(th, k), UNCHANGED fVector
  PROVE  SoleInv'
<1> USE DEF VectorInv, Op, Vec, Pos
<1>1. \A u \in Threads : call[u].i \in Nat
  BY CallFacts
<1>2. \A u \in Threads : Making(u)' => Making(u)
  BY <1>1 DEF Making, Moved
<1> QED
  BY <1>2 DEF SoleInv, Moved

\* The lock of the vector is taken and released at Acquire and Release only.
LEMMA MovedLock ==
  ASSUME VectorInv, NEW th \in Threads, NEW k, Moved(th, k), UNCHANGED <<owner, locks>>,
         call[th].op # "new" => call[th].i > 1,
         call[th].op = "delete" => call[th].i \notin {4, 6}
  PROVE  LockInv'
<1> USE DEF VectorInv, Op, Vec, Pos
<1>1. call[th].i \in Nat
  BY CallFacts
<1>2. \A u \in Threads : (Inside(u) <=> Inside(u)') /\ (Inside(u) => Depth(u)' = Depth(u))
  BY <1>1 DEF Inside, Depth, Moved
<1> QED
  BY <1>2, SharedVectorAssumption DEF LockInv, Moved, StateOK

\* The registry's lock is taken and released at AcquireGlobal and ReleaseGlobal only.
LEMMA MovedRegistryLock ==
  ASSUME VectorInv, NEW th \in Threads, NEW k, Moved(th, k), UNCHANGED regLocks,
         call[th].op = "new" => call[th].i \in 2 .. 3,
         call[th].op = "delete" => call[th].i \notin {3, 8}
  PROVE  RegistryLockInv'
<1> USE DEF VectorInv, Op, Vec, Pos
<1>1. call[th].i \in Nat
  BY CallFacts
<1>2. \A u \in Threads : InRegistry(u)' <=> InRegistry(u)
  BY <1>1 DEF InRegistry, Moved
<1> QED
  BY <1>2 DEF RegistryLockInv

\* A vector is listed at Insert and unlisted at Erase only.
LEMMA MovedRegistry ==
  ASSUME VectorInv, NEW th \in Threads, NEW k, Moved(th, k), UNCHANGED <<registry, heap, ids>>,
         call[th].op = "new" => call[th].i # 3,
         call[th].op = "delete" => call[th].i # 7
  PROVE  RegistryInv'
<1> USE DEF VectorInv, Op, Vec, Pos
<1>1. call[th].i \in Nat
  BY CallFacts
<1>2. \A u \in Threads : Unlisted(u)' <=> Unlisted(u)
  BY <1>1 DEF Unlisted, Making, Moved
<1> QED
  BY <1>2 DEF RegistryInv, Moved

-----------------------------------------------------------------------------
(* Instructions that read.                                                 *)

LEMMA ReadStep ==
  ASSUME VectorInv, Safe, NEW th \in Threads, Read(th)
  PROVE  VectorInv'
<1> DEFINE v == call[th].v
<1>1. At(th, "Read") /\ UNCHANGED <<lockVars, registry, vecVars, fVector>>
  BY DEF Read, objVars
<1>2. MayMove(th) /\ call[th].op \in {"push", "access"} /\ call[th].i = 2
  BY <1>1, PlacesInMethods
<1>3. CallsOK' /\ Moved(th, size[v])
  BY <1>2, MoveSet DEF Read, MayMove, VectorInv, StateOK
<1> USE <1>1, <1>2, <1>3 DEF lockVars, vecVars
<1>4. SoleInv' /\ LockInv' /\ RegistryLockInv' /\ RegistryInv'
  BY MovedSole, MovedLock, MovedRegistryLock, MovedRegistry
<1>5. StateOK' /\ NoLostPush' /\ ReadInv'
  BY DEF VectorInv, StateOK, NoLostPush, ReadInv, Moved, Op, Vec, Pos
<1> QED
  BY <1>4, <1>5 DEF VectorInv

LEMMA GetRefCountStep ==
  ASSUME VectorInv, Safe, NEW th \in Threads, GetRefCount(th)
  PROVE  VectorInv'
<1> DEFINE v == call[th].v
<1>1. At(th, "GetRefCount") /\ UNCHANGED <<lockVars, registry, vecVars, fVector>>
  BY DEF GetRefCount, objVars
<1>2. MayMove(th) /\ call[th].op = "destroy" /\ call[th].i = 2
  BY <1>1, PlacesInMethods
<1>3. refs[v] \in Nat
  BY <1>2 DEF MayMove, VectorInv, StateOK
<1>4. CallsOK' /\ Moved(th, refs[v])
  BY <1>2, <1>3, MoveSet DEF GetRefCount, VectorInv
<1> USE <1>1, <1>2, <1>4 DEF lockVars, vecVars
<1>5. SoleInv' /\ LockInv' /\ RegistryLockInv' /\ RegistryInv'
  BY MovedSole, MovedLock, MovedRegistryLock, MovedRegistry
<1>6. StateOK' /\ NoLostPush' /\ ReadInv'
  BY DEF VectorInv, StateOK, NoLostPush, ReadInv, Moved, Op, Vec, Pos
<1> QED
  BY <1>4, <1>5, <1>6 DEF VectorInv

LEMMA GetIdStep ==
  ASSUME VectorInv, Safe, NEW th \in Threads, GetId(th)
  PROVE  VectorInv'
<1> DEFINE v == call[th].v
<1>1. At(th, "GetId") /\ UNCHANGED <<lockVars, registry, vecVars, fVector>>
  BY DEF GetId, objVars
<1>2. MayMove(th) /\ call[th].op = "delete" /\ call[th].i = 5
  BY <1>1, PlacesInMethods
<1>3. ids[v] \in Nat
  BY <1>2 DEF MayMove, VectorInv, StateOK, Ids
<1>4. CallsOK' /\ Moved(th, ids[v])
  BY <1>2, <1>3, MoveSet DEF GetId, VectorInv
<1> USE <1>1, <1>2, <1>4 DEF lockVars, vecVars
<1>5. SoleInv' /\ LockInv' /\ RegistryLockInv' /\ RegistryInv'
  BY MovedSole, MovedLock, MovedRegistryLock, MovedRegistry
<1>6. StateOK' /\ NoLostPush' /\ ReadInv'
  BY DEF VectorInv, StateOK, NoLostPush, ReadInv, Moved, Op, Vec, Pos
<1> QED
  BY <1>4, <1>5, <1>6 DEF VectorInv

LEMMA FreshIdExists ==
  ASSUME VectorInv, NEW th \in Threads, call[th].op = "new", call[th].i < 3
  PROVE  FreshId \in Ids /\ registry[FreshId] = NoVec
<1> DEFINE v == call[th].v
           N == Cardinality(Vecs)
           Unused == {i \in Ids : registry[i] = NoVec}
<1>1. v \in Vecs /\ \A i \in Ids : registry[i] # v
  BY CallFacts DEF VectorInv, RegistryInv, Unlisted, Making, Op, Vec, Pos
<1>2. N \in Nat /\ Cardinality(Vecs \ {v}) = N - 1 /\ IsFiniteSet(Vecs \ {v})
  BY <1>1, SharedVectorAssumption, FS_CardinalityType, FS_RemoveElement
<1>3. IsFiniteSet(Ids) /\ Cardinality(Ids) = N
  <2>1. N > 0
    BY <1>1, <1>2, SharedVectorAssumption, FS_EmptySet
  <2> QED BY <1>2, <2>1, FS_Interval DEF Ids
<1>4. Unused # {}
  <2> SUFFICES ASSUME Unused = {} PROVE FALSE
    OBVIOUS
  <2>1. registry \in [Ids -> Vecs \ {v}]
    BY <1>1 DEF VectorInv, StateOK
  <2>2. PICK i \in Ids, j \in Ids : i # j /\ registry[i] = registry[j]
    <3> HIDE DEF N, v
    <3> QED BY <1>2, <1>3, <2>1, FS_PigeonHole
  <2> QED BY <2>2 DEF VectorInv, RegistryInv
<1>5. PICK i \in Unused : \A j \in Unused : ~ (j < i)
  <2>1. Unused \subseteq Nat
    BY DEF Ids
  <2>2. PICK i \in Unused : \A j \in Unused : ~ (<<j, i>> \in OpToRel(<, Nat))
    BY <1>4, <2>1, WFMin, NatLessThanWellFounded
  <2> QED BY <2>1, <2>2 DEF OpToRel
<1>6. registry[i] = NoVec /\ \A j \in 0 .. i - 1 : registry[j] # NoVec
  BY <1>2, <1>5 DEF Ids
<1> QED
  BY <1>5, <1>6 DEF FreshId

LEMMA GetNewIdStep ==
  ASSUME VectorInv, Safe, NEW th \in Threads, GetNewId(th)
  PROVE  VectorInv'
<1>1. At(th, "GetNewId") /\ UNCHANGED <<lockVars, registry, vecVars, fVector>>
  BY DEF GetNewId, objVars
<1>2. MayMove(th) /\ call[th].op = "new" /\ call[th].i = 2
  BY <1>1, PlacesInMethods
<1>3. FreshId \in Ids /\ registry[FreshId] = NoVec
  BY <1>2, FreshIdExists
<1>4. CallsOK' /\ Moved(th, FreshId)
  <2>1. FreshId \in Nat
    BY <1>3 DEF Ids
  <2> QED BY <1>2, <2>1, MoveSet DEF GetNewId, VectorInv
<1> USE <1>1, <1>2, <1>4 DEF lockVars, vecVars
<1>5. SoleInv' /\ LockInv' /\ RegistryLockInv' /\ RegistryInv'
  BY MovedSole, MovedLock, MovedRegistryLock, MovedRegistry
<1>6. StateOK' /\ NoLostPush' /\ ReadInv'
  BY <1>3 DEF VectorInv, StateOK, NoLostPush, ReadInv, Moved, Op, Vec, Pos
<1> QED
  BY <1>4, <1>5, <1>6 DEF VectorInv

-----------------------------------------------------------------------------
(* Instructions that write.                                                *)

LEMMA PushStep ==
  ASSUME VectorInv, Safe, NEW th \in Threads, Push(th)
  PROVE  VectorInv'
<1> DEFINE v == call[th].v
<1>1. /\ At(th, "Push") /\ Advance(th) /\ UNCHANGED <<lockVars, registry, heap, refs, ids, fVector>>
      /\ size' = [size EXCEPT ![v] = call[th].n + 1] /\ pushes' = [pushes EXCEPT ![v] = @ + 1]
  BY DEF Push, objVars
<1>2. MayMove(th) /\ call[th].op = "push" /\ call[th].i = 3
  BY <1>1, PlacesInMethods
<1>3. CallsOK' /\ Moved(th, call[th].n)
  BY <1>1, <1>2, AdvanceSet DEF VectorInv
<1> USE <1>1, <1>2, <1>3 DEF lockVars, VectorInv
<1>4. SoleInv' /\ LockInv' /\ RegistryLockInv' /\ RegistryInv'
  BY MovedSole, MovedLock, MovedRegistryLock, MovedRegistry
<1>5. v \in Vecs /\ call[th].n = size[v] /\ size[v] = pushes[v] /\ size[v] \in Nat
  BY DEF MayMove, ReadInv, NoLostPush, StateOK, Op, Vec, Pos
<1>6. StateOK' /\ NoLostPush'
  BY <1>5 DEF StateOK, NoLostPush
<1>7. ReadInv'
  \* Nobody else is inside the vector's lock.
  <2>1. \A u \in Threads : u # th /\ call[u].op = "push" /\ call[u].i = 3 => call[u].v # v
    BY DEF LockInv, Inside, Op, Vec, Pos
  <2> QED BY <2>1, <1>5 DEF ReadInv, Moved, StateOK, Op, Vec, Pos
<1> QED
  BY <1>3, <1>4, <1>6, <1>7

LEMMA DeleteContainerStep ==
  ASSUME VectorInv, Safe, NEW th \in Threads, DeleteContainer(th)
  PROVE  VectorInv'
<1> DEFINE v == call[th].v
<1>1. /\ At(th, "DeleteContainer") /\ Advance(th)
      /\ UNCHANGED <<lockVars, registry, heap, refs, ids, fVector>>
      /\ size' = [size EXCEPT ![v] = 0] /\ pushes' = [pushes EXCEPT ![v] = 0]
  BY DEF DeleteContainer, objVars
<1>2. MayMove(th) /\ call[th].op = "delete" /\ call[th].i = 2
  BY <1>1, PlacesInMethods
<1>3. CallsOK' /\ Moved(th, call[th].n)
  BY <1>1, <1>2, AdvanceSet DEF VectorInv
<1> USE <1>1, <1>2, <1>3 DEF lockVars, VectorInv
<1>4. SoleInv' /\ LockInv' /\ RegistryLockInv' /\ RegistryInv'
  BY MovedSole, MovedLock, MovedRegistryLock, MovedRegistry
<1>5. StateOK' /\ NoLostPush'
  BY DEF StateOK, NoLostPush
<1>6. ReadInv'
  \* Nobody else is inside the vector's lock.
  <2>1. ASSUME NEW u \in Threads, call[u].op = "push", call[u].i = 3
        PROVE  call[u].v # v /\ call[u].v \in Vecs
    <3>1. Inside(u) /\ Inside(th)
      BY <2>1 DEF Inside, Op, Pos
    <3>2. owner[call[u].v] = u /\ owner[v] = th /\ u # th
      BY <2>1, <3>1 DEF LockInv, Vec
    <3> QED BY <2>1, <3>2, CallFacts
  <2> QED BY <2>1 DEF ReadInv, Moved, StateOK, Op, Vec, Pos
<1> QED
  BY <1>3, <1>4, <1>5, <1>6

\* The registry's lock keeps the id free from GetNewId to Insert.
LEMMA InsertStep ==
  ASSUME VectorInv, Safe, NEW th \in Threads, Insert(th)
  PROVE  VectorInv'
<1> DEFINE v == call[th].v
           id == call[th].n
<1>1. /\ At(th, "Insert") /\ Advance(th) /\ UNCHANGED <<lockVars, heap, refs, size, pushes, fVector>>
      /\ ids' = [ids EXCEPT ![v] = id] /\ registry' = [registry EXCEPT ![id] = v]
  BY DEF Insert, objVars
<1>2. MayMove(th) /\ call[th].op = "new" /\ call[th].i = 3
  BY <1>1, PlacesInMethods
<1>3. CallsOK' /\ Moved(th, call[th].n)
  BY <1>1, <1>2, AdvanceSet DEF VectorInv
<1> USE <1>1, <1>2, <1>3 DEF lockVars, VectorInv
<1>4. SoleInv' /\ LockInv' /\ RegistryLockInv'
  BY MovedSole, MovedLock, MovedRegistryLock
<1>5. v \in Vecs /\ v \in heap /\ id \in Ids /\ registry[id] = NoVec /\ v # NoVec
  BY SafeFacts DEF MayMove, ReadInv, Op, Vec, Pos
<1>6. StateOK' /\ NoLostPush'
  BY <1>5 DEF StateOK, NoLostPush
<1>7. \A u \in Threads : u # th => ~InRegistry(u) /\ call[u].v # v
  <2>1. InRegistry(th)
    BY DEF InRegistry, Op, Pos
  <2> QED BY <2>1 DEF RegistryLockInv, SoleInv, Making, Op, Vec, Pos
<1>8. ReadInv'
  BY <1>5, <1>7 DEF ReadInv, InRegistry, Moved, StateOK, Op, Vec, Pos
<1>9. RegistryInv'
  <2> USE <1>5, <1>6 DEF RegistryInv, StateOK
  <2>1. \A i \in Ids : registry[i] # v
    BY DEF Unlisted, Making, Op, Vec, Pos
  <2>2. \A u \in Threads : Unlisted(u)' => Unlisted(u) /\ u # th
    BY CallFacts DEF Unlisted, Making, Moved, Op, Vec, Pos
  <2>3. \A u \in Threads : Unlisted(u) /\ u # th => Unlisted(u)'
    BY CallFacts DEF Unlisted, Making, Moved, Op, Vec, Pos
  <2>4. \A i \in Ids : registry'[i] # NoVec => registry'[i] \in heap' /\ ids'[registry'[i]] = i
    BY <2>1
  <2>5. ASSUME NEW w \in heap'
        PROVE  registry'[ids'[w]] = w \/ \E u \in Threads : Vec(u)' = w /\ Unlisted(u)'
    <3>1. CASE w = v BY <3>1
    <3>2. CASE w # v
      <4>1. w \in Vecs /\ ids'[w] = ids[w] /\ ids[w] \in Ids
        BY <3>2
      <4>2. CASE registry[ids[w]] = w
        BY <4>1, <4>2, SharedVectorAssumption
      <4>3. CASE \E u \in Threads : Vec(u) = w /\ Unlisted(u)
        BY <3>2, <4>3, <2>3 DEF Moved, Vec
      <4> QED BY <4>2, <4>3
    <3> QED BY <3>1, <3>2
  <2>6. \A u \in Threads : Unlisted(u)' => \A i \in Ids : registry'[i] # Vec(u)'
    BY <2>2, <1>7 DEF Moved, Vec
  <2> QED BY <2>4, <2>5, <2>6
<1> QED
  BY <1>3, <1>4, <1>6, <1>8, <1>9

LEMMA EraseStep ==
  ASSUME VectorInv, Safe, NEW th \in Threads, Erase(th)
  PROVE  VectorInv'
<1> DEFINE v == call[th].v
           id == call[th].n
<1>1. /\ At(th, "Erase") /\ Advance(th) /\ UNCHANGED <<lockVars, vecVars, fVector>>
      /\ registry' = [registry EXCEPT ![id] = NoVec]
  BY DEF Erase, objVars
<1>2. MayMove(th) /\ call[th].op = "delete" /\ call[th].i = 7
  BY <1>1, PlacesInMethods
<1>3. CallsOK' /\ Moved(th, call[th].n)
  BY <1>1, <1>2, AdvanceSet DEF VectorInv
<1> USE <1>1, <1>2, <1>3 DEF lockVars, vecVars, VectorInv
<1>4. SoleInv' /\ LockInv' /\ RegistryLockInv'
  BY MovedSole, MovedLock, MovedRegistryLock
<1>5. v \in Vecs /\ v \in heap /\ id = ids[v]
  <2>1. v \in Vecs /\ v \in heap
    BY SafeFacts
  <2>2. id = ids[v]
    BY DEF ReadInv, Op, Vec, Pos
  <2> QED BY <2>1, <2>2
<1>6. id \in Ids /\ registry[id] = v
  \* Only a thread inside the vector's lock could have erased it.
  <2>1. ASSUME NEW u \in Threads, Vec(u) = v PROVE ~Unlisted(u)
    <3>1. ~Making(u)
      BY <2>1 DEF SoleInv, Making, Op, Vec
    <3>2. CASE Op(u) = "delete" /\ Pos(u) >= 8
      <4>1. Inside(u) /\ Inside(th)
        BY <3>2, CallFacts DEF Inside, Op, Pos
      <4>2. u = th
        BY <2>1, <4>1 DEF LockInv, Vec
      <4> QED BY <3>2, <4>2 DEF Pos
    <3> QED BY <3>1, <3>2 DEF Unlisted
  <2> QED BY <1>5, <2>1 DEF RegistryInv, StateOK
<1>7. StateOK' /\ NoLostPush'
  BY DEF StateOK, NoLostPush
<1>8. \A u \in Threads : u # th => ~InRegistry(u)
  BY DEF RegistryLockInv, InRegistry, Op, Vec, Pos
<1>9. ReadInv'
  BY <1>8 DEF ReadInv, InRegistry, Moved, StateOK, Op, Vec, Pos
<1>10. RegistryInv'
  <2> USE <1>5, <1>6 DEF RegistryInv, StateOK
  <2>1. \A u \in Threads : Unlisted(u)' <=> Unlisted(u) \/ u = th
    BY CallFacts DEF Unlisted, Making, Moved, Op, Vec, Pos
  <2>2. \A i \in Ids : registry'[i] # NoVec => registry'[i] \in heap' /\ ids'[registry'[i]] = i
    OBVIOUS
  <2>3. ASSUME NEW w \in heap'
        PROVE  registry'[ids'[w]] = w \/ \E u \in Threads : Vec(u)' = w /\ Unlisted(u)'
    <3>1. CASE w = v BY <3>1, <2>1 DEF Moved, Vec
    <3>2. CASE w # v
      <4>1. w \in Vecs /\ ids[w] \in Ids
        OBVIOUS
      <4>2. CASE registry[ids[w]] = w
        BY <3>2, <4>1, <4>2
      <4>3. CASE \E u \in Threads : Vec(u) = w /\ Unlisted(u)
        BY <4>3, <2>1 DEF Moved, Vec
      <4> QED BY <4>2, <4>3
    <3> QED BY <3>1, <3>2
  <2>4. ASSUME NEW u \in Threads, Unlisted(u)', NEW i \in Ids PROVE registry'[i] # Vec(u)'
    <3>1. call'[u].v = call[u].v /\ call[u].v # NoVec
      BY <2>4, CallFacts, SharedVectorAssumption DEF Moved, Unlisted, Making, Op, Vec, Pos
    <3>2. CASE u = th
      \* The ids of two vectors in the registry are different.
      <4>1. registry[i] = v => i = id
        BY SharedVectorAssumption
      <4> QED BY <4>1, <3>1, <3>2 DEF Vec
    <3>3. CASE u # th
      BY <3>1, <3>3, <2>1, <2>4 DEF Vec
    <3> QED BY <3>2, <3>3
  <2> QED BY <2>2, <2>3, <2>4
<1> QED
  BY <1>3, <1>4, <1>7, <1>9, <1>10

LEMMA IncrementStep ==
  ASSUME VectorInv, Safe, NEW th \in Threads, Increment(th)
  PROVE  VectorInv'
<1> DEFINE v == call[th].v
<1>1. /\ At(th, "Increment") /\ Advance(th)
      /\ UNCHANGED <<lockVars, registry, heap, ids, size, pushes, fVector>>
      /\ refs' = [refs EXCEPT ![v] = @ + 1]
  BY DEF Increment, objVars
<1>2. MayMove(th) /\ call[th].op = "fetch" /\ call[th].i = 2
  BY <1>1, PlacesInMethods
<1>3. CallsOK' /\ Moved(th, call[th].n)
  BY <1>1, <1>2, AdvanceSet DEF VectorInv
<1> USE <1>1, <1>2, <1>3 DEF lockVars, VectorInv
<1>4. SoleInv' /\ LockInv' /\ RegistryLockInv' /\ RegistryInv'
  BY MovedSole, MovedLock, MovedRegistryLock, MovedRegistry
<1>5. StateOK' /\ NoLostPush'
  BY DEF MayMove, StateOK, NoLostPush
<1>6. ReadInv'
  BY DEF ReadInv, Moved, Op, Vec, Pos
<1> QED
  BY <1>3, <1>4, <1>5, <1>6

LEMMA DecrementStep ==
  ASSUME VectorInv, Safe, NEW th \in Threads, Decrement(th)
  PROVE  VectorInv'
<1> DEFINE v == call[th].v
<1>1. /\ At(th, "Decrement") /\ Advance(th)
      /\ UNCHANGED <<lockVars, registry, heap, ids, size, pushes, fVector>>
      /\ refs' = [refs EXCEPT ![v] = IF @ = 0 THEN 0 ELSE @ - 1]
  BY DEF Decrement, objVars
<1>2. MayMove(th) /\ call[th].op = "decrement" /\ call[th].i = 2
  BY <1>1, PlacesInMethods
<1>3. CallsOK' /\ Moved(th, call[th].n)
  BY <1>1, <1>2, AdvanceSet DEF VectorInv
<1> USE <1>1, <1>2, <1>3 DEF lockVars, VectorInv
<1>4. SoleInv' /\ LockInv' /\ RegistryLockInv' /\ RegistryInv'
  BY MovedSole, MovedLock, MovedRegistryLock, MovedRegistry
<1>5. StateOK' /\ NoLostPush'
  BY DEF MayMove, StateOK, NoLostPush
<1>6. ReadInv'
  BY DEF ReadInv, Moved, Op, Vec, Pos
<1> QED
  BY <1>3, <1>4, <1>5, <1>6

-----------------------------------------------------------------------------
(* The locks.                                                              *)

\* Who sleeps says nothing of the vectors.
LEMMA AsleepStep ==
  ASSUME VectorInv, asleep' \in [Threads -> Vecs \cup {Awake, Registry}],
         UNCHANGED <<call, owner, locks, regLocks, registry, vecVars, fVector>>
  PROVE  VectorInv'
<1> USE DEF VectorInv, vecVars, Op, Vec, Pos
<1>1. CallsOK' /\ StateOK' /\ NoLostPush'
  BY DEF CallsOK, CallType, Proper, StateOK, NoLostPush
<1>2. LockInv' /\ RegistryLockInv'
  BY DEF LockInv, RegistryLockInv, Inside, Depth, InRegistry
<1>3. SoleInv' /\ ReadInv' /\ RegistryInv'
  BY DEF SoleInv, Making, ReadInv, RegistryInv, Unlisted
<1> QED
  BY <1>1, <1>2, <1>3

LEMMA SignalWakes ==
  ASSUME StateOK, NEW lock, Signal(lock)
  PROVE  asleep' \in [Threads -> Vecs \cup {Awake, Registry}]
BY DEF StateOK, Signal

\* What a thread finds when it locks a vector again.
LEMMA AcquireStep ==
  ASSUME VectorInv, Safe, NEW th \in Threads, Acquire(th)
  PROVE  VectorInv'
<1> DEFINE v == call[th].v
<1>1. At(th, "Acquire") /\ UNCHANGED <<registry, vecVars, fVector>>
  BY DEF Acquire, objVars
<1>2. /\ MayMove(th)
      /\ IF call[th].i = 1
         THEN call[th].op \in {"push", "access", "fetch"} \cup Destroying
         ELSE call[th].op = "delete" /\ call[th].i = 4
  BY <1>1, PlacesInMethods
<1>3. CASE ~MayTake(th, v)
  <2>1. Wait(th, v)
    BY <1>3 DEF Acquire
  <2>2. asleep' \in [Threads -> Vecs \cup {Awake, Registry}]
    BY <1>2, <2>1 DEF Wait, MayMove, VectorInv, StateOK
  <2> QED BY <1>1, <2>1, <2>2, AsleepStep DEF Wait
<1>4. CASE MayTake(th, v)
  <2>1. /\ owner' = [owner EXCEPT ![v] = th]
        /\ locks' = [locks EXCEPT ![v] = IF owner[v] = th THEN @ + 1 ELSE 1]
        /\ Advance(th) /\ UNCHANGED <<regLocks, asleep>>
    BY <1>4 DEF Acquire
  <2>2. CallsOK' /\ Moved(th, call[th].n)
    BY <1>2, <2>1, AdvanceSet DEF VectorInv
  <2> USE <1>1, <1>2, <2>1, <2>2 DEF vecVars, VectorInv
  <2>3. SoleInv' /\ RegistryLockInv' /\ RegistryInv'
    BY MovedSole, MovedRegistryLock, MovedRegistry DEF Destroying
  <2>4. NoLostPush' /\ ReadInv'
    BY DEF NoLostPush, ReadInv, Moved, Op, Vec, Pos
  <2>5. v \in Vecs /\ owner[v] \in {Nobody, th}
    BY <1>4 DEF MayTake, MayMove
  <2>6. IF call[th].i = 1 THEN owner[v] = Nobody ELSE owner[v] = th /\ locks[v] = 1
    <3>1. CASE call[th].i = 1
      BY <2>5, <3>1, SharedVectorAssumption DEF LockInv, Inside, Pos
    <3>2. CASE call[th].i # 1
      BY <3>2 DEF LockInv, Inside, Depth, Op, Vec, Pos
    <3> QED BY <3>1, <3>2
  <2>7. locks'[v] = (IF call[th].i = 1 THEN 1 ELSE 2) /\ owner'[v] = th
    BY <2>5, <2>6, SharedVectorAssumption DEF StateOK
  <2>8. StateOK'
    BY <2>5, <2>7 DEF StateOK
  <2>9. LockInv'
    <3>1. ASSUME NEW u \in Threads, Inside(u)'
          PROVE  owner'[Vec(u)'] = u /\ locks'[Vec(u)'] = Depth(u)'
      <4>1. CASE u = th
        BY <2>7, <4>1 DEF Moved, Depth, Destroying, Op, Vec, Pos
      <4>2. CASE u # th
        <5>1. Inside(u) /\ Vec(u)' = Vec(u) /\ Depth(u)' = Depth(u)
          BY <3>1, <4>2 DEF Moved, Inside, Depth, Op, Vec, Pos
        <5>2. owner[Vec(u)] = u /\ locks[Vec(u)] = Depth(u) /\ Vec(u) # v
          BY <5>1, <2>5, <4>2, SharedVectorAssumption DEF LockInv
        <5> QED BY <5>1, <5>2 DEF StateOK
      <4> QED BY <4>1, <4>2
    <3>2. ASSUME NEW w \in Vecs, owner'[w] # Nobody
          PROVE  Inside(owner[w])' /\ Vec(owner[w])' = w
      <4>1. CASE w = v
        BY <2>7, <4>1 DEF Moved, Inside, Destroying, Op, Vec, Pos
      <4>2. CASE w # v
        <5>1. owner'[w] = owner[w] /\ owner[w] \in Threads /\ Inside(owner[w]) /\ Vec(owner[w]) = w
          BY <3>2, <4>2 DEF LockInv, StateOK
        <5> QED BY <5>1, CallFacts DEF Moved, Inside, Op, Vec, Pos
      <4> QED BY <4>1, <4>2
    <3> QED BY <3>1, <3>2 DEF LockInv
  <2> QED BY <2>2, <2>3, <2>4, <2>8, <2>9
<1> QED
  BY <1>3, <1>4

LEMMA AcquireGlobalStep ==
  ASSUME VectorInv, Safe, NEW th \in Threads, AcquireGlobal(th)
  PROVE  VectorInv'
<1>1. At(th, "AcquireGlobal") /\ UNCHANGED <<registry, vecVars, fVector>>
  BY DEF AcquireGlobal, objVars
<1>2. MayMove(th) /\ <<call[th].op, call[th].i>> \in {<<"new", 1>>, <<"delete", 3>>}
  BY <1>1, PlacesInMethods
<1>3. CASE regLocks # 0
  <2>1. Wait(th, Registry)
    BY <1>3 DEF AcquireGlobal
  <2>2. asleep' \in [Threads -> Vecs \cup {Awake, Registry}]
    BY <2>1 DEF Wait, VectorInv, StateOK
  <2> QED BY <1>1, <2>1, <2>2, AsleepStep DEF Wait
<1>4. CASE regLocks = 0
  <2>1. regLocks' = 1 /\ Advance(th) /\ UNCHANGED <<owner, locks, asleep>>
    BY <1>4 DEF AcquireGlobal
  <2>2. CallsOK' /\ Moved(th, call[th].n)
    BY <1>2, <2>1, AdvanceSet DEF VectorInv
  <2> USE <1>1, <1>2, <2>1, <2>2 DEF vecVars, VectorInv
  <2>3. SoleInv' /\ LockInv' /\ RegistryInv'
    BY MovedSole, MovedLock, MovedRegistry
  <2>4. StateOK' /\ NoLostPush' /\ ReadInv'
    BY DEF StateOK, NoLostPush, ReadInv, Moved, Op, Vec, Pos
  <2>5. RegistryLockInv'
    <3>1. \A u \in Threads : ~InRegistry(u)
      BY <1>4 DEF RegistryLockInv
    <3>2. \A u \in Threads : InRegistry(u)' => u = th
      BY <3>1 DEF InRegistry, Moved, Op, Pos
    <3> QED BY <3>2 DEF RegistryLockInv
  <2> QED BY <2>2, <2>3, <2>4, <2>5
<1> QED
  BY <1>3, <1>4

\* th's call becomes c, which holds no lock.
LEMMA LockGivenBack ==
  ASSUME VectorInv, NEW th \in Threads, NEW v \in Vecs, NEW c,
         BecomesCall(th, c), c.i = 1, owner[v] = th, Inside(th), call[th].v = v,
         owner' = [owner EXCEPT ![v] = Nobody], locks' = [locks EXCEPT ![v] = 0]
  PROVE  LockInv'
<1> USE DEF BecomesCall, VectorInv, Op, Vec, Pos
<1>1. ASSUME NEW u \in Threads, Inside(u)'
      PROVE  owner'[Vec(u)'] = u /\ locks'[Vec(u)'] = Depth(u)'
  <2>1. u # th
    BY <1>1 DEF Inside
  <2>2. Inside(u) /\ call'[u] = call[u] /\ Depth(u)' = Depth(u)
    BY <1>1, <2>1 DEF Inside, Depth
  <2>3. owner[call[u].v] = u /\ locks[call[u].v] = Depth(u) /\ call[u].v # v
    BY <2>1, <2>2 DEF LockInv
  <2> QED BY <2>2, <2>3 DEF StateOK
<1>2. ASSUME NEW w \in Vecs, owner'[w] # Nobody
      PROVE  Inside(owner[w])' /\ Vec(owner[w])' = w /\ owner'[w] = owner[w]
  <2>1. w # v /\ owner'[w] = owner[w] /\ owner[w] \in Threads
    BY <1>2 DEF StateOK
  <2>2. Inside(owner[w]) /\ call[owner[w]].v = w
    BY <1>2, <2>1 DEF LockInv
  <2> QED BY <2>1, <2>2 DEF Inside
<1> QED
  BY <1>1, <1>2 DEF LockInv

\* The call of th, which makes no vector and lists none, ends.
LEMMA IdleSet ==
  ASSUME VectorInv, NEW th \in Threads, call' = [call EXCEPT ![th] = Idle]
  PROVE  /\ CallsOK' /\ BecomesCall(th, Idle)
         /\ Idle.op = "idle" /\ Idle.v = NoVec /\ Idle.x = NoInst /\ Idle.i = 1
         /\ NoVec \notin Vecs /\ NoInst \notin Insts
<1>1. Idle \in CallType /\ Idle.op = "idle" /\ Idle.v = NoVec /\ Idle.x = NoInst /\ Idle.i = 1
  BY CodeDomain DEF Idle, Call, CallType, Ops
<1>2. Proper(Idle)
  BY <1>1 DEF Proper
<1> QED
  BY <1>1, <1>2, CallSet, SharedVectorAssumption DEF VectorInv

\* th's call becomes c, which is not unlisted, as th's call has not been.
LEMMA BecomesListed ==
  ASSUME VectorInv, NEW th \in Threads, NEW c, BecomesCall(th, c),
         ~Unlisted(th), ~Unlisted(th)', UNCHANGED <<registry, heap, ids>>
  PROVE  RegistryInv'
<1>1. \A u \in Threads : (Unlisted(u)' <=> Unlisted(u)) /\ (Unlisted(u) => Vec(u)' = Vec(u))
  BY DEF BecomesCall, Unlisted, Making, Op, Vec, Pos
<1> QED
  BY <1>1 DEF VectorInv, RegistryInv

\* An instance gets a vector that no thread is making, and so does th's call.
LEMMA BecomesSole ==
  ASSUME VectorInv, NEW th \in Threads, NEW c, BecomesCall(th, c), ~(c.op = "new" /\ c.i <= 3),
         \A u \in Threads : u # th /\ Making(u) =>
           c.v # Vec(u) /\ \A x \in Insts : fVector'[x] # Vec(u)
  PROVE  SoleInv'
<1>1. ASSUME NEW u \in Threads, Making(u)'
      PROVE  u # th /\ Making(u) /\ Vec(u)' = Vec(u)
  BY <1>1 DEF BecomesCall, Making, Op, Vec, Pos
<1>2. ASSUME NEW u \in Threads, Making(u)', NEW w \in Threads, Vec(w)' = Vec(u)'
      PROVE  w = u
  <2>1. CASE w = th
    BY <2>1, <1>1, <1>2 DEF BecomesCall, Vec
  <2>2. CASE w # th
    BY <2>2, <1>1, <1>2 DEF BecomesCall, Vec, VectorInv, SoleInv
  <2> QED BY <2>1, <2>2
<1> QED
  BY <1>1, <1>2 DEF SoleInv

\* new: the constructor returns the first instance of the vector.
LEMMA ReleaseGlobalNew ==
  ASSUME VectorInv, Safe, NEW th \in Threads, ReleaseGlobal(th), call[th].op = "new",
         call[th].i = 4, NEW v \in Vecs, call[th].v = v
  PROVE  VectorInv'
<1>1. /\ regLocks' = 0 /\ fVector' = [fVector EXCEPT ![call[th].x] = v]
      /\ call' = [call EXCEPT ![th] = Idle]
      /\ Signal(Registry) /\ UNCHANGED <<owner, locks, registry, vecVars>>
  BY DEF ReleaseGlobal, Construct
<1>2. /\ CallsOK' /\ BecomesCall(th, Idle)
      /\ Idle.op = "idle" /\ Idle.v = NoVec /\ Idle.i = 1 /\ NoVec \notin Vecs
  BY <1>1, IdleSet
<1> USE <1>1, <1>2 DEF vecVars, VectorInv
<1>3. StateOK' /\ NoLostPush'
  BY CallFacts, SignalWakes DEF StateOK, NoLostPush
<1>4. LockInv'
  <2>1. \A u \in Threads : /\ Inside(u)' <=> Inside(u) /\ u # th
                           /\ Inside(u) => u # th /\ Depth(u)' = Depth(u) /\ Vec(u)' = Vec(u)
    BY DEF BecomesCall, Inside, Depth, Op, Pos, Vec
  <2>2. \A w \in Vecs : owner[w] # Nobody => owner[w] \in Threads
    BY DEF StateOK
  <2> QED BY <2>1, <2>2 DEF LockInv
<1>5. RegistryLockInv'
  <2>1. \A u \in Threads : u # th => ~InRegistry(u)
    BY DEF RegistryLockInv, InRegistry, Op, Pos
  <2> QED BY <2>1 DEF BecomesCall, RegistryLockInv, InRegistry, Op, Pos
<1>6. SoleInv'
  <2>1. ASSUME NEW u \in Threads, u # th, Making(u)
        PROVE  NoVec # Vec(u) /\ \A x \in Insts : fVector'[x] # Vec(u)
    <3>1. Vec(u) # v /\ Vec(u) \in Vecs /\ \A x \in Insts : fVector[x] # Vec(u)
      BY <2>1, CallFacts DEF SoleInv, Making, Op, Vec
    <3> QED BY <3>1 DEF StateOK
  <2> QED BY <2>1, BecomesSole
<1>7. ReadInv'
  BY DEF BecomesCall, ReadInv, Op, Vec, Pos
<1>8. RegistryInv'
  BY BecomesListed DEF BecomesCall, Unlisted, Making, Op, Pos
<1> QED
  BY <1>3, <1>4, <1>5, <1>6, <1>7, <1>8

LEMMA ReleaseGlobalStep ==
  ASSUME VectorInv, Safe, NEW th \in Threads, ReleaseGlobal(th)
  PROVE  VectorInv'
<1>1. call[th].v \in Vecs /\ <<call[th].op, call[th].i>> \in {<<"new", 4>>, <<"delete", 8>>}
  <2>1. At(th, "ReleaseGlobal")
    BY DEF ReleaseGlobal
  <2>2. Vec(th) \in Vecs /\ PlaceOf(th, "ReleaseGlobal")
    BY <2>1, Places
  <2> QED BY <2>2 DEF PlaceOf, Op, Vec, Pos
<1>2. CASE call[th].op = "new"
  BY <1>1, <1>2, ReleaseGlobalNew
<1>3. CASE call[th].op = "delete"
  <2>1. /\ regLocks' = 0 /\ Signal(Registry) /\ Advance(th)
        /\ UNCHANGED <<owner, locks, registry, vecVars, fVector>>
    BY <1>3 DEF ReleaseGlobal, objVars
  <2>2. MayMove(th)
    <3>1. At(th, "ReleaseGlobal")
      BY DEF ReleaseGlobal
    <3>2. PlaceOf(th, "ReleaseGlobal") /\ Pos(th) \in Nat
      BY <3>1, Places
    <3> QED BY <1>1, <1>3, <3>2 DEF PlaceOf, MayMove, Op, Pos
  <2>3. CallsOK' /\ Moved(th, call[th].n)
    BY <2>1, <2>2, AdvanceSet DEF VectorInv
  <2> USE <1>1, <1>3, <2>1, <2>3 DEF vecVars, VectorInv
  <2>4. SoleInv' /\ LockInv' /\ RegistryInv'
    BY MovedSole, MovedLock, MovedRegistry
  <2>5. StateOK' /\ NoLostPush' /\ ReadInv'
    BY SignalWakes DEF StateOK, NoLostPush, ReadInv, Moved, Op, Vec, Pos
  <2>6. RegistryLockInv'
    <3>1. \A u \in Threads : u # th => ~InRegistry(u)
      BY DEF RegistryLockInv, InRegistry, Op, Pos
    <3>2. \A u \in Threads : ~InRegistry(u)'
      BY <3>1 DEF InRegistry, Moved, Op, Pos
    <3> QED BY <3>2 DEF RegistryLockInv
  <2> QED BY <2>3, <2>4, <2>5, <2>6
<1> QED
  BY <1>1, <1>2, <1>3

\* GetId of the destructor: the lock is released, and held once less.
LEMMA ReleaseInner ==
  ASSUME VectorInv, Safe, NEW th \in Threads, Release(th), call[th].op = "delete", call[th].i = 6,
         NEW v \in Vecs, call[th].v = v, Length(th) = 9
  PROVE  VectorInv'
<1>1. owner[v] = th /\ locks[v] = 2
  BY DEF VectorInv, LockInv, Inside, Depth, Op, Vec, Pos
<1>2. /\ locks' = [locks EXCEPT ![v] = @ - 1] /\ owner' = [owner EXCEPT ![v] = @]
      /\ UNCHANGED <<asleep, regLocks, registry, vecVars, fVector>> /\ Advance(th)
  BY <1>1 DEF Release, ReleaseLock, Unlock, Last, Length, vecVars, Advance, objVars
<1>3. owner' = owner /\ locks' = [locks EXCEPT ![v] = 1]
  BY <1>1, <1>2 DEF VectorInv, StateOK
<1>4. CallsOK' /\ Moved(th, call[th].n)
  BY <1>2, AdvanceSet DEF VectorInv, MayMove
<1> USE <1>2, <1>3, <1>4 DEF vecVars, VectorInv
<1>5. SoleInv' /\ RegistryLockInv' /\ RegistryInv'
  BY MovedSole, MovedRegistryLock, MovedRegistry
<1>6. StateOK' /\ NoLostPush' /\ ReadInv'
  BY DEF StateOK, NoLostPush, ReadInv, Moved, Op, Vec, Pos
<1>7. LockInv'
  <2>1. ASSUME NEW u \in Threads, Inside(u)'
        PROVE  owner'[Vec(u)'] = u /\ locks'[Vec(u)'] = Depth(u)'
    <3>1. CASE u = th
      BY <1>1, <3>1 DEF Moved, Depth, StateOK, Op, Vec, Pos
    <3>2. CASE u # th
      <4>1. Inside(u) /\ Vec(u)' = Vec(u) /\ Depth(u)' = Depth(u)
        BY <2>1, <3>2 DEF Moved, Inside, Depth, Op, Vec, Pos
      <4>2. owner[Vec(u)] = u /\ locks[Vec(u)] = Depth(u) /\ Vec(u) # v
        BY <4>1, <1>1, <3>2 DEF LockInv
      <4> QED BY <4>1, <4>2 DEF StateOK
    <3> QED BY <3>1, <3>2
  <2>2. ASSUME NEW w \in Vecs, owner[w] # Nobody
        PROVE  Inside(owner[w])' /\ Vec(owner[w])' = w
    <3>1. owner[w] \in Threads /\ Inside(owner[w]) /\ Vec(owner[w]) = w
      BY <2>2 DEF LockInv, StateOK
    <3> QED BY <3>1, CallFacts DEF Moved, Inside, Op, Vec, Pos
  <2> QED BY <2>1, <2>2 DEF LockInv
<1> QED
  BY <1>4, <1>5, <1>6, <1>7

\* The last Release of a method gives the lock back to everybody.
LEMMA LastRelease ==
  ASSUME VectorInv, Safe, NEW th \in Threads, Release(th), NEW v \in Vecs, call[th].v = v,
         call[th].i > 1, call[th].i = Length(th), call[th].op \notin {"idle", "new"},
         call[th].op = "delete" => call[th].i = 9
  PROVE  /\ owner[v] = th /\ Inside(th)
         /\ owner' = [owner EXCEPT ![v] = Nobody] /\ locks' = [locks EXCEPT ![v] = 0]
         /\ Signal(v) /\ Last(th)
<1>1. owner[v] = th /\ locks[v] = 1 /\ Inside(th)
  BY DEF VectorInv, LockInv, Inside, Depth, Op, Vec, Pos
<1> QED
  BY <1>1 DEF Release, ReleaseLock, Unlock, Last, Length, VectorInv, StateOK


\* A method returns, or the destructor goes on with what it has decided.
LEMMA ReleaseEnds ==
  ASSUME VectorInv, Safe, NEW th \in Threads, Release(th), NEW v \in Vecs, call[th].v = v,
         <<call[th].op, call[th].i>> \in {<<"push", 4>>, <<"access", 3>>, <<"fetch", 3>>,
                                       <<"destroy", 3>>, <<"decrement", 3>>, <<"delete", 9>>},
         call[th].i = Length(th)
  PROVE  VectorInv'
<1> DEFINE c == IF call[th].op = "destroy" THEN AfterRefCount(call[th]) ELSE Idle
           x == call[th].x
<1>1. /\ owner[v] = th /\ Inside(th) /\ Last(th) /\ Signal(v)
      /\ owner' = [owner EXCEPT ![v] = Nobody] /\ locks' = [locks EXCEPT ![v] = 0]
  BY LastRelease
<1>2. /\ call' = [call EXCEPT ![th] = c] /\ UNCHANGED <<regLocks, registry, refs, ids, size, pushes>>
      /\ heap' = IF call[th].op = "delete" THEN heap \ {v} ELSE heap
      /\ fVector' \in {fVector, [fVector EXCEPT ![x] = v], [fVector EXCEPT ![x] = NoVec]}
  BY <1>1 DEF Release, Construct, Free, objVars, Destroying
<1>3. /\ CallsOK' /\ BecomesCall(th, c) /\ c.i = 1 /\ c.op \in {"idle", "decrement", "delete"}
      /\ c.v \in {v, NoVec} /\ NoVec \notin Vecs
  <2>1. CASE call[th].op # "destroy"
    BY <1>2, <2>1, IdleSet
  <2>2. CASE call[th].op = "destroy"
    <3>1. /\ c.op = (IF call[th].n = 1 THEN "delete" ELSE "decrement")
          /\ c.v = v /\ c.x = x /\ c.x \in Insts /\ c.i = 1 /\ c \in CallType
      BY <2>2, CodeDomain, CallFacts DEF AfterRefCount, Call, CallType, Ops, VectorInv
    <3>2. Proper(c)
      <4>1. c.i \in 1 .. Len(Code[c.op])
        <5>1. CASE c.op = "delete" BY <3>1, <5>1, CodeSteps
        <5>2. CASE c.op = "decrement" BY <3>1, <5>2, CodeSteps
        <5> QED BY <3>1, <5>1, <5>2
      <4> QED BY <3>1, <4>1 DEF Proper
    <3> HIDE DEF c
    <3> QED BY <1>2, <3>1, <3>2, CallSet, SharedVectorAssumption DEF VectorInv
  <2> QED BY <2>1, <2>2
<1> HIDE DEF c
<1>4. LockInv'
  BY <1>1, <1>3, LockGivenBack
<1> USE <1>2, <1>3 DEF VectorInv
<1>5. StateOK' /\ NoLostPush'
  BY <1>1, SignalWakes DEF StateOK, NoLostPush
<1>6. RegistryLockInv'
  BY DEF BecomesCall, RegistryLockInv, InRegistry, Op, Pos
<1>7. SoleInv'
  <2>1. ASSUME NEW u \in Threads, u # th, Making(u)
        PROVE  c.v # Vec(u) /\ \A y \in Insts : fVector'[y] # Vec(u)
    <3>1. Vec(u) # v /\ Vec(u) \in Vecs /\ \A y \in Insts : fVector[y] # Vec(u)
      BY <2>1, CallFacts DEF SoleInv, Making, Op, Vec
    <3> QED BY <3>1 DEF StateOK
  <2> QED BY <2>1, BecomesSole
<1>8. ReadInv'
  BY DEF BecomesCall, ReadInv, Op, Vec, Pos
<1>9. RegistryInv'
  <2>1. CASE call[th].op # "delete"
    BY <2>1, BecomesListed DEF BecomesCall, Unlisted, Making, Op, Pos
  <2>2. CASE call[th].op = "delete"
    <3>1. Unlisted(th) /\ Vec(th) = v
      BY <2>2 DEF Unlisted, Op, Pos, Vec
    <3>2. \A u \in Threads : /\ Unlisted(u)' <=> Unlisted(u) /\ u # th
                             /\ u # th => Vec(u)' = Vec(u)
      BY DEF BecomesCall, Unlisted, Making, Op, Pos, Vec
    <3> QED BY <2>2, <3>1, <3>2 DEF RegistryInv, StateOK
  <2> QED BY <2>1, <2>2
<1> QED
  BY <1>3, <1>4, <1>5, <1>6, <1>7, <1>8, <1>9

LEMMA ReleasePlaces ==
  ASSUME VectorInv, Safe, NEW th \in Threads, Release(th)
  PROVE  /\ call[th].v \in Vecs
         /\ <<call[th].op, call[th].i>> \in {<<"push", 4>>, <<"access", 3>>, <<"fetch", 3>>, <<"decrement", 3>>,
                                       <<"destroy", 3>>, <<"delete", 6>>, <<"delete", 9>>}
         /\ IF call[th].op = "delete" THEN Length(th) = 9 ELSE Length(th) = call[th].i
<1>1. At(th, "Release")
  BY DEF Release
<1>2. Vec(th) \in Vecs /\ PlaceOf(th, "Release")
  BY <1>1, Places
<1> QED BY <1>2 DEF PlaceOf, Op, Vec, Pos

LEMMA ReleaseStep ==
  ASSUME VectorInv, Safe, NEW th \in Threads, Release(th)
  PROVE  VectorInv'
<1>1. CASE call[th].op = "delete" /\ call[th].i = 6
  BY <1>1, ReleasePlaces, ReleaseInner
<1>2. CASE ~(call[th].op = "delete" /\ call[th].i = 6)
  BY <1>2, ReleasePlaces, ReleaseEnds
<1> QED
  BY <1>1, <1>2

-----------------------------------------------------------------------------
(* Calls from Perl.                                                        *)

LEMMA BeginCall ==
  ASSUME VectorInv, NEW th \in Threads, NEW v \in Vecs \cup {NoVec}, NEW x \in Insts,
         NEW op \in Ops \ {"idle"}, Begin(th, op, v, x),
         v \in Vecs \/ op \in {"push", "access", "destroy"}
  PROVE  /\ CallsOK' /\ BecomesCall(th, Call(op, v, x))
         /\ call[th].op = "idle" /\ call[th].v = NoVec /\ call[th].i = 1
         /\ Call(op, v, x).op = op /\ Call(op, v, x).v = v /\ Call(op, v, x).x = x
         /\ Call(op, v, x).i = 1
<1> DEFINE c == Call(op, v, x)
<1>1. c.op = op /\ c.v = v /\ c.x = x /\ c.i = 1 /\ c \in CallType
  BY CodeDomain DEF Call, CallType
<1>2. c.i \in 1 .. Len(Code[op])
  <2>1. Len(Code[op]) \in Nat \ {0}
    BY CodeSteps DEF Ops
  <2> QED BY <1>1, <2>1
<1>3. call' = [call EXCEPT ![th] = c]
  BY DEF Begin
<1>4. call[th].op = "idle" /\ call[th].v = NoVec /\ call[th].i = 1
  BY DEF Begin, Idle, Call
<1> HIDE DEF c
<1>5. Proper(c)
  BY <1>1, <1>2 DEF Proper
<1>6. CallsOK' /\ BecomesCall(th, c)
  BY <1>1, <1>3, <1>5, CallSet DEF VectorInv
<1> QED
  BY <1>1, <1>4, <1>6 DEF c

\* A thread that is in no method holds no lock, and takes none by a call.
LEMMA BegunLocks ==
  ASSUME VectorInv, NEW th \in Threads, NEW c, BecomesCall(th, c), c.i = 1, call[th].op = "idle",
         UNCHANGED <<owner, locks, regLocks>>
  PROVE  LockInv' /\ RegistryLockInv'
<1> USE DEF VectorInv, BecomesCall, Op, Vec, Pos
<1>1. \A u \in Threads : /\ ~Inside(th) /\ ~InRegistry(th)
                         /\ (Inside(u)' <=> Inside(u)) /\ (InRegistry(u)' <=> InRegistry(u))
                         /\ Inside(u) => Depth(u)' = Depth(u) /\ Vec(u)' = Vec(u)
  BY CallFacts DEF Inside, InRegistry, Depth
<1>2. \A w \in Vecs : owner[w] # Nobody => owner[w] \in Threads
  BY DEF StateOK
<1> QED
  BY <1>1, <1>2 DEF LockInv, RegistryLockInv

\* A call on a vector that others know: a method, new($id) or the destructor.
LEMMA BegunCall ==
  ASSUME VectorInv, NEW th \in Threads, NEW c, BecomesCall(th, c), CallsOK', call[th].op = "idle",
         c.i = 1, c.op # "new", UNCHANGED <<lockVars, registry, vecVars, fVector>>,
         \A u \in Threads : Making(u) => c.v # Vec(u)
  PROVE  VectorInv'
<1> USE DEF lockVars, vecVars, VectorInv
<1>1. LockInv' /\ RegistryLockInv'
  BY BegunLocks
<1>2. StateOK' /\ NoLostPush'
  BY DEF StateOK, NoLostPush
<1>3. SoleInv'
  BY BecomesSole DEF SoleInv
<1>4. ReadInv'
  BY DEF BecomesCall, ReadInv, Op, Vec, Pos
<1>5. RegistryInv'
  BY BecomesListed DEF BecomesCall, Unlisted, Making, Op, Pos
<1> QED
  BY <1>1, <1>2, <1>3, <1>4, <1>5

LEMMA MethodStep ==
  ASSUME VectorInv, NEW th \in Threads, Method(th)
  PROVE  VectorInv'
<1>1. UNCHANGED <<lockVars, registry, vecVars, fVector>>
  BY DEF Method, objVars
<1>2. PICK x \in Insts, op \in {"push", "access"} : Begin(th, op, fVector[x], x)
  BY DEF Method
<1>3. fVector[x] \in Vecs \cup {NoVec}
  BY DEF VectorInv, StateOK
<1> DEFINE c == Call(op, fVector[x], x)
<1>4. /\ CallsOK' /\ BecomesCall(th, c) /\ call[th].op = "idle"
      /\ c.op = op /\ c.v = fVector[x] /\ c.i = 1
  BY <1>2, <1>3, BeginCall DEF Ops
<1>5. \A u \in Threads : Making(u) => c.v # Vec(u)
  BY <1>4 DEF VectorInv, SoleInv
<1> HIDE DEF c
<1> QED
  BY <1>1, <1>4, <1>5, BegunCall

LEMMA DestroyStep ==
  ASSUME VectorInv, NEW th \in Threads, Destroy(th)
  PROVE  VectorInv'
<1>1. UNCHANGED <<lockVars, registry, vecVars, fVector>>
  BY DEF Destroy
<1>2. PICK x \in Insts : Begin(th, "destroy", fVector[x], x)
  BY DEF Destroy
<1>3. fVector[x] \in Vecs \cup {NoVec}
  BY DEF VectorInv, StateOK
<1> DEFINE c == Call("destroy", fVector[x], x)
<1>4. /\ CallsOK' /\ BecomesCall(th, c) /\ call[th].op = "idle"
      /\ c.op = "destroy" /\ c.v = fVector[x] /\ c.i = 1
  BY <1>2, <1>3, BeginCall DEF Ops
<1>5. \A u \in Threads : Making(u) => c.v # Vec(u)
  BY <1>4 DEF VectorInv, SoleInv
<1> HIDE DEF c
<1> QED
  BY <1>1, <1>4, <1>5, BegunCall

LEMMA FetchStep ==
  ASSUME VectorInv, NEW th \in Threads, Fetch(th)
  PROVE  VectorInv'
<1>1. UNCHANGED <<lockVars, registry, vecVars, fVector>>
  BY DEF Fetch
<1>2. PICK i \in Ids, x \in Insts : registry[i] # NoVec /\ Begin(th, "fetch", registry[i], x)
  BY DEF Fetch
<1>3. registry[i] \in Vecs
  BY <1>2 DEF VectorInv, StateOK
<1> DEFINE c == Call("fetch", registry[i], x)
<1>4. /\ CallsOK' /\ BecomesCall(th, c) /\ call[th].op = "idle"
      /\ c.op = "fetch" /\ c.v = registry[i] /\ c.i = 1
  BY <1>2, <1>3, BeginCall DEF Ops
<1>5. \A u \in Threads : Making(u) => c.v # Vec(u)
  BY <1>4 DEF VectorInv, RegistryInv, Unlisted
<1> HIDE DEF c
<1> QED
  BY <1>1, <1>4, <1>5, BegunCall

LEMMA NewStep ==
  ASSUME VectorInv, Safe, NEW th \in Threads, New(th)
  PROVE  VectorInv'
<1>1. UNCHANGED <<regLocks, asleep, registry, ids, fVector>>
  BY DEF New
<1>2. PICK v \in Vecs, x \in Insts :
        /\ UnusedVec(v) /\ Begin(th, "new", v, x) /\ heap' = heap \cup {v}
        /\ refs' = [refs EXCEPT ![v] = 1]
        /\ owner' = [owner EXCEPT ![v] = Nobody] /\ locks' = [locks EXCEPT ![v] = 0]
        /\ size' = [size EXCEPT ![v] = 0] /\ pushes' = [pushes EXCEPT ![v] = 0]
  BY DEF New
<1> DEFINE c == Call("new", v, x)
<1>3. /\ CallsOK' /\ BecomesCall(th, c)
      /\ call[th].op = "idle" /\ call[th].v = NoVec /\ call[th].i = 1
      /\ c.op = "new" /\ c.v = v /\ c.i = 1
  BY <1>2, BeginCall DEF Ops
<1> HIDE DEF c
\* Nobody has seen the address yet.
<1>4. /\ v # NoVec /\ v \notin heap /\ \A y \in Insts : fVector[y] # v
      /\ \A u \in Threads : call[u].v # v
      /\ \A u \in Threads : call[u].op # "idle" => call[u].v \in Vecs
  BY <1>2, SafeFacts, CallFacts, SharedVectorAssumption DEF VectorInv, UnusedVec
<1>5. owner' = owner
  <2>1. owner[v] = Nobody
    BY <1>4 DEF VectorInv, LockInv, StateOK, Vec
  <2> QED BY <1>2, <2>1 DEF VectorInv, StateOK
<1> USE <1>1, <1>2, <1>3, <1>5 DEF VectorInv, BecomesCall
<1>6. StateOK' /\ NoLostPush'
  BY DEF StateOK, NoLostPush
<1>7. LockInv' /\ RegistryLockInv'
  <2>1. ASSUME NEW u \in Threads
        PROVE  /\ (Inside(u)' <=> Inside(u)) /\ (InRegistry(u)' <=> InRegistry(u))
               /\ Inside(u) => Depth(u)' = Depth(u) /\ Vec(u)' = Vec(u) /\ Vec(u) # v /\ Vec(u) \in Vecs
    <3>1. CASE u = th
      BY <3>1 DEF Inside, InRegistry, Op, Pos
    <3>2. CASE u # th
      BY <3>2, <1>4 DEF Inside, InRegistry, Depth, Op, Vec, Pos
    <3> QED BY <3>1, <3>2
  <2>2. \A w \in Vecs : owner[w] # Nobody => owner[w] \in Threads
    BY DEF StateOK
  <2> QED BY <2>1, <2>2 DEF LockInv, RegistryLockInv, StateOK
<1>8. SoleInv'
  <2>1. ASSUME NEW u \in Threads, Making(u)', NEW w \in Threads, Vec(w)' = Vec(u)'
        PROVE  w = u
    <3>1. CASE u = th
      BY <2>1, <3>1, <1>4 DEF Vec
    <3>2. CASE u # th
      <4>1. Making(u) /\ Vec(u) # v
        BY <2>1, <3>2, <1>4 DEF Making, Op, Vec, Pos
      <4> QED BY <2>1, <3>2, <4>1 DEF SoleInv, Vec
    <3> QED BY <3>1, <3>2
  <2>2. ASSUME NEW u \in Threads, Making(u)', NEW y \in Insts
        PROVE  fVector'[y] # Vec(u)'
    <3>1. CASE u = th
      BY <3>1, <1>4 DEF Vec
    <3>2. CASE u # th
      BY <2>2, <3>2 DEF SoleInv, Making, Op, Vec, Pos
    <3> QED BY <3>1, <3>2
  <2> QED BY <2>1, <2>2 DEF SoleInv
<1>9. ReadInv'
  <2>1. ASSUME NEW u \in Threads, u # th, call[u].op # "idle"
        PROVE  size'[call[u].v] = size[call[u].v]
    BY <2>1, <1>4 DEF StateOK
  <2> QED BY <2>1 DEF ReadInv, Op, Vec, Pos
<1>10. RegistryInv'
  <2>1. \A u \in Threads : /\ Unlisted(u)' <=> Unlisted(u) \/ u = th
                           /\ u # th => Vec(u)' = Vec(u)
                           /\ Vec(th)' = v /\ ~Unlisted(th)
    BY DEF Unlisted, Making, Op, Pos, Vec
  <2>2. \A i \in Ids : registry[i] # v
    BY <1>4 DEF RegistryInv
  <2> QED BY <2>1, <2>2 DEF RegistryInv
<1> QED
  BY <1>6, <1>7, <1>8, <1>9, <1>10

LEMMA SpawnStep ==
  ASSUME VectorInv, NEW th \in Threads, Spawn(th)
  PROVE  VectorInv'
BY AsleepStep DEF Spawn, lockVars, VectorInv, StateOK

-----------------------------------------------------------------------------
(* The theorems.                                                           *)

LEMMA VectorInvInit == Init => VectorInv
<1> SUFFICES ASSUME Init PROVE VectorInv
  OBVIOUS
<1> USE SharedVectorAssumption DEF Init, Op, Vec, Pos
<1>1. \A th \in Threads : call[th] = Idle
  OBVIOUS
<1>2. Idle.op = "idle" /\ Idle.v = NoVec /\ Idle.i = 1 /\ Idle \in CallType
  BY CodeDomain DEF Idle, Call, CallType, Ops
<1>3. CallsOK
  BY <1>1, <1>2 DEF CallsOK, Proper
<1>4. StateOK
  <2>1. Cardinality(Vecs) \in Nat /\ (Vecs # {} => Cardinality(Vecs) # 0)
    BY FS_CardinalityType, FS_EmptySet
  <2> QED BY <2>1 DEF StateOK, Ids
<1>5. LockInv /\ RegistryLockInv /\ SoleInv
  BY <1>1, <1>2 DEF LockInv, RegistryLockInv, SoleInv, Making, Inside, InRegistry
<1>6. ReadInv /\ RegistryInv /\ NoLostPush
  BY <1>1, <1>2 DEF ReadInv, RegistryInv, Unlisted, Making, NoLostPush
<1> QED
  BY <1>3, <1>4, <1>5, <1>6 DEF VectorInv

LEMMA VectorInvStep ==
  ASSUME VectorInv, [Next]_vars
  PROVE  VectorInv'
<1>1. ASSUME Safe, NEW th \in Threads, Step(th) PROVE VectorInv'
  BY <1>1, AcquireStep, AcquireGlobalStep, ReleaseGlobalStep, ReleaseStep, ReadStep, PushStep,
     GetNewIdStep, InsertStep, IncrementStep, GetRefCountStep, DecrementStep, DeleteContainerStep,
     GetIdStep, EraseStep DEF Step
<1>2. CASE UNCHANGED vars
  BY <1>2, AsleepStep DEF vars, vecVars, VectorInv, StateOK
<1> QED
  BY <1>1, <1>2, MethodStep, NewStep, FetchStep, DestroyStep, SpawnStep DEF Next

\* The inductive invariant holds in every state.
LEMMA VectorInvHolds == Spec => []VectorInv
<1>1. Init => VectorInv
  BY VectorInvInit
<1>2. VectorInv /\ [Next]_vars => VectorInv'
  BY VectorInvStep
<1> QED
  BY <1>1, <1>2, PTL DEF Spec

\* Any number of threads may push at the same time: between Read and Push the
\* thread owns the vector's lock, so what it has read is still the size.
\* About: Push under SharedVectorLock.
THEOREM PushesKept == Spec => []NoLostPush
<1>1. VectorInv => NoLostPush
  BY DEF VectorInv
<1> QED
  BY <1>1, VectorInvHolds, PTL

\* Whatever is made, attached, cloned and destroyed at the same time, the ids
\* of the registry lead to their vectors, and the vectors have theirs there.
\* About: GetNewId's search and the insertion under the registry's lock, and
\* the destructor, which erases the id while it holds both locks.
THEOREM IdsLead == Spec => []RegistryExact
<1>1. ASSUME VectorInv, NEW v \in heap, registry[ids[v]] # v
      PROVE  \E th \in InCall({"new", "delete"}, v) :
               \/ call[th].op = "new" /\ call[th].i <= 3
               \/ call[th].op = "delete" /\ call[th].i > 7
  <2>1. PICK th \in Threads : Vec(th) = v /\ Unlisted(th)
    BY <1>1 DEF VectorInv, RegistryInv
  <2>2. call[th].i \in Nat
    BY <1>1, CallFacts DEF VectorInv
  <2> QED BY <2>1, <2>2 DEF InCall, Unlisted, Making, Op, Vec, Pos
<1>2. VectorInv => RegistryExact
  BY <1>1 DEF VectorInv, RegistryInv, RegistryExact
<1> QED
  BY <1>2, VectorInvHolds, PTL
=============================================================================
