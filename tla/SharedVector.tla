---------------------------- MODULE SharedVector ----------------------------
(***************************************************************************)
(* Thread::SharedVector: vectors on the C++ heap, shared by Perl threads.  *)
(* A SharedVector has a recursive lock (SharedVectorLock: a mutex, a       *)
(* condition, fOwner and fLocks), a reference count and an id in the       *)
(* global registry, which has a lock of its own.  A Perl object leads to a *)
(* SharedVectorInstance: one is made by new("int"), more of them by        *)
(* new($id), and the destructor that finds a count of one deletes the      *)
(* vector.  threads->new clones the objects of the thread that calls it:   *)
(* a clone leads to the same instance, and nothing counts it.              *)
(*                                                                         *)
(* A method is a sequence of steps (Code); a thread that waits for a lock  *)
(* sleeps in COND_WAIT until a COND_SIGNAL, and tries again.               *)
(*                                                                         *)
(* What a program does after it has used freed memory is undefined: a      *)
(* behaviour ends there (Safe).  So an address stands for what was put     *)
(* there, and is taken again only when nothing leads to that any more.     *)
(***************************************************************************)
EXTENDS Naturals, FiniteSets, Sequences

CONSTANTS
  Threads,
  Main,         \* the thread that runs first
  Vecs,         \* the addresses that new SharedVector returns
  Insts,        \* those that new SharedVectorInstance returns
  MaxLen,       \* bound: the elements that are pushed
  Access        \* bound: which thread makes which instance for which vector

Nobody == "nobody"
NoVec == "novec"
NoInst == "noinst"
Awake == "awake"
Registry == "registry"

ASSUME SharedVectorAssumption ==
  /\ IsFiniteSet(Threads) /\ Main \in Threads /\ Nobody \notin Threads
  /\ IsFiniteSet(Vecs) /\ NoVec \notin Vecs /\ Awake \notin Vecs /\ Registry \notin Vecs
  /\ IsFiniteSet(Insts) /\ NoInst \notin Insts
  /\ MaxLen \in Nat
  /\ Access \subseteq Threads \X Vecs \X Insts

VARIABLES
  call,         \* call[th]: the method that th is in
  asleep,       \* asleep[th]: the lock whose condition th waits for
  owner, locks, \* fLock.fOwner and fLock.fLocks of each vector
  regLocks,     \* fgRegistryLock.fLocks
  registry,     \* fgSharedVectorRegistry: ids to vectors
  heap,         \* the addresses at which there is a vector
  refs, ids,    \* fRefCount and fId
  size,         \* fContainer->size()
  fVector,      \* the vector of each instance, NoVec where there is none
  objs,         \* the Perl objects: pairs of a thread and an instance
  started,      \* the threads that have been started
  pushes,       \* history: how many elements have been pushed
  raced,        \* history: the vectors of which a destructor has overlapped
                \* with another one, or with new($id)
  cloned        \* history: the instances of which an object has been cloned

vars == <<call, asleep, owner, locks, regLocks, registry, heap, refs, ids, size,
          pushes, fVector, objs, started, raced, cloned>>
objVars == <<fVector, objs, started, raced, cloned>>
lockVars == <<owner, locks, regLocks, asleep>>
vecVars == <<heap, refs, ids, size, pushes>>

Ids == 0 .. Cardinality(Vecs) - 1

\* The methods: access is Get, Set or GetSize, delete and decrement are the two ways that destroy goes on.
Code ==
  [idle      |-> << >>,
   push      |-> <<"Acquire", "Read", "Push", "Release">>,
   access    |-> <<"Acquire", "Read", "Release">>,
   new       |-> <<"AcquireGlobal", "GetNewId", "Insert", "ReleaseGlobal">>,
   fetch     |-> <<"Acquire", "Increment", "Release">>,
   destroy   |-> <<"Acquire", "GetRefCount", "Release">>,
   decrement |-> <<"Acquire", "Decrement", "Release">>,
   delete    |-> <<"Acquire", "DeleteContainer", "AcquireGlobal", "Acquire",
                   "GetId", "Release", "Erase", "ReleaseGlobal", "Release">>]

Call(op, v, x) == [op |-> op, v |-> v, x |-> x, i |-> 1, n |-> 0]
Idle == Call("idle", NoVec, NoInst)

Init ==
  /\ call = [th \in Threads |-> Idle]
  /\ asleep = [th \in Threads |-> Awake]
  /\ owner = [v \in Vecs |-> Nobody]
  /\ locks = [v \in Vecs |-> 0]
  /\ regLocks = 0
  /\ registry = [i \in Ids |-> NoVec]
  /\ heap = {}
  /\ refs = [v \in Vecs |-> 0]
  /\ ids = [v \in Vecs |-> 0]
  /\ size = [v \in Vecs |-> 0]
  /\ pushes = [v \in Vecs |-> 0]
  /\ fVector = [x \in Insts |-> NoVec]
  /\ objs = {}
  /\ started = {Main}
  /\ raced = {}
  /\ cloned = {}

At(th, instr) ==
  /\ call[th].i \in DOMAIN Code[call[th].op]
  /\ Code[call[th].op][call[th].i] = instr
  /\ asleep[th] = Awake

Done(th) == [call[th] EXCEPT !.i = @ + 1]
Advance(th) == call' = [call EXCEPT ![th] = Done(th)]

-----------------------------------------------------------------------------
(* SharedVectorLock.                                                       *)

\* COND_SIGNAL: one of the threads that wait wakes up.
Signal(lock) ==
  LET waiting == {u \in Threads : asleep[u] = lock} IN
  IF waiting = {} THEN UNCHANGED asleep
  ELSE \E u \in waiting : asleep' = [asleep EXCEPT ![u] = Awake]

Wait(th, lock) ==
  /\ asleep' = [asleep EXCEPT ![th] = lock]
  /\ UNCHANGED <<call, owner, locks, regLocks>>

\* Mutant: a lock that is taken is taken again.
MayTakeMut(th, v) == TRUE

MayTake(th, v) == owner[v] \in {Nobody, th}

Acquire(th) ==
  LET v == call[th].v IN
  /\ At(th, "Acquire")
  /\ IF MayTake(th, v)
     THEN /\ owner' = [owner EXCEPT ![v] = th]
          /\ locks' = [locks EXCEPT ![v] = IF owner[v] = th THEN @ + 1 ELSE 1]
          /\ Advance(th)
          /\ UNCHANGED <<regLocks, asleep>>
     ELSE Wait(th, v)
  /\ UNCHANGED <<registry, vecVars, objVars>>

\* Mutant: the threads that wait are not told.
UnlockMut(th, v) ==
  /\ owner' = [owner EXCEPT ![v] = IF locks[v] = 1 THEN Nobody ELSE @]
  /\ UNCHANGED asleep

Unlock(th, v) ==
  /\ owner' = [owner EXCEPT ![v] = IF locks[v] = 1 THEN Nobody ELSE @]
  /\ IF locks[v] = 1 THEN Signal(v) ELSE UNCHANGED asleep

ReleaseLock(th, v) ==
  IF owner[v] = th
  THEN locks' = [locks EXCEPT ![v] = @ - 1] /\ Unlock(th, v)
  ELSE UNCHANGED <<locks, owner, asleep>>

AcquireGlobal(th) ==
  /\ At(th, "AcquireGlobal")
  /\ IF regLocks = 0
     THEN regLocks' = 1 /\ Advance(th) /\ UNCHANGED <<owner, locks, asleep>>
     ELSE Wait(th, Registry)
  /\ UNCHANGED <<registry, vecVars, objVars>>

\* The constructor of an instance returns, and Perl has an object.
Construct(th) ==
  /\ fVector' = [fVector EXCEPT ![call[th].x] = call[th].v]
  /\ objs' = objs \cup {<<th, call[th].x>>}
  /\ UNCHANGED <<started, raced, cloned>>

ReleaseGlobal(th) ==
  /\ At(th, "ReleaseGlobal")
  /\ regLocks' = 0
  /\ Signal(Registry)
  /\ IF call[th].op = "new"
     THEN Construct(th) /\ call' = [call EXCEPT ![th] = Idle]
     ELSE Advance(th) /\ UNCHANGED objVars
  /\ UNCHANGED <<owner, locks, registry, vecVars>>

-----------------------------------------------------------------------------
(* The elements: Push, Get, GetSize and Set read the vector and write it   *)
(* between Acquire and Release.  Only the size is modelled: no property     *)
(* tells one element from another.                                         *)

Read(th) ==
  /\ At(th, "Read")
  /\ call' = [call EXCEPT ![th] = [Done(th) EXCEPT !.n = size[call[th].v]]]
  /\ UNCHANGED <<lockVars, registry, vecVars, objVars>>

Push(th) ==
  LET v == call[th].v IN
  /\ At(th, "Push")
  /\ size' = [size EXCEPT ![v] = call[th].n + 1]
  /\ pushes' = [pushes EXCEPT ![v] = @ + 1]
  /\ Advance(th)
  /\ UNCHANGED <<lockVars, registry, heap, refs, ids, objVars>>

-----------------------------------------------------------------------------
(* The constructor, S_GetNewInstance and the reference count.              *)

\* Mutant: the size of the registry, which is smaller after an erase.
FreshIdMut == Cardinality({i \in Ids : registry[i] # NoVec}) % Cardinality(Ids)

FreshId == CHOOSE i \in Ids : registry[i] = NoVec /\ \A j \in 0 .. i - 1 : registry[j] # NoVec

GetNewId(th) ==
  /\ At(th, "GetNewId")
  /\ call' = [call EXCEPT ![th] = [Done(th) EXCEPT !.n = FreshId]]
  /\ UNCHANGED <<lockVars, registry, vecVars, objVars>>

Insert(th) ==
  LET v == call[th].v IN
  /\ At(th, "Insert")
  /\ ids' = [ids EXCEPT ![v] = call[th].n]
  /\ registry' = [registry EXCEPT ![call[th].n] = v]
  /\ Advance(th)
  /\ UNCHANGED <<lockVars, heap, refs, size, pushes, objVars>>

\* Mutant: the count is not incremented.
IncrementMut(th) ==
  /\ At(th, "Increment")
  /\ Advance(th)
  /\ UNCHANGED <<lockVars, registry, vecVars, objVars>>

Increment(th) ==
  /\ At(th, "Increment")
  /\ refs' = [refs EXCEPT ![call[th].v] = @ + 1]
  /\ Advance(th)
  /\ UNCHANGED <<lockVars, registry, heap, ids, size, pushes, objVars>>

GetRefCount(th) ==
  /\ At(th, "GetRefCount")
  /\ call' = [call EXCEPT ![th] = [Done(th) EXCEPT !.n = refs[call[th].v]]]
  /\ UNCHANGED <<lockVars, registry, vecVars, objVars>>

\* Mutant: the count is not decremented.
DecrementMut(th) ==
  /\ At(th, "Decrement")
  /\ Advance(th)
  /\ UNCHANGED <<lockVars, registry, vecVars, objVars>>

Decrement(th) ==
  /\ At(th, "Decrement")
  /\ refs' = [refs EXCEPT ![call[th].v] = IF @ = 0 THEN 0 ELSE @ - 1]
  /\ Advance(th)
  /\ UNCHANGED <<lockVars, registry, heap, ids, size, pushes, objVars>>

DeleteContainer(th) ==
  /\ At(th, "DeleteContainer")
  /\ size' = [size EXCEPT ![call[th].v] = 0]
  /\ pushes' = [pushes EXCEPT ![call[th].v] = 0]
  /\ Advance(th)
  /\ UNCHANGED <<lockVars, registry, heap, refs, ids, objVars>>

GetId(th) ==
  /\ At(th, "GetId")
  /\ call' = [call EXCEPT ![th] = [Done(th) EXCEPT !.n = ids[call[th].v]]]
  /\ UNCHANGED <<lockVars, registry, vecVars, objVars>>

Erase(th) ==
  /\ At(th, "Erase")
  /\ registry' = [registry EXCEPT ![call[th].n] = NoVec]
  /\ Advance(th)
  /\ UNCHANGED <<lockVars, vecVars, objVars>>

-----------------------------------------------------------------------------
(* Release, and the end of a method.                                       *)

Last(th) == call[th].i = Len(Code[call[th].op])

\* Mutant: the count is decremented, whatever it is.
AfterRefCountMut(c) == Call("decrement", c.v, c.x)

\* ~SharedVectorInstance decides on a count that it has read earlier.
AfterRefCount(c) == Call(IF c.n = 1 THEN "delete" ELSE "decrement", c.v, c.x)

\* The destructor has run: the vector, if it was deleted, and the instance are
\* freed.
Free(c) ==
  /\ heap' = IF c.op = "delete" THEN heap \ {c.v} ELSE heap
  /\ fVector' = [fVector EXCEPT ![c.x] = NoVec]
  /\ UNCHANGED <<objs, started, raced, cloned>>

Destroying == {"destroy", "decrement", "delete"}

Release(th) ==
  LET c == call[th] IN
  /\ At(th, "Release")
  /\ ReleaseLock(th, c.v)
  /\ call' = [call EXCEPT ![th] =
       IF ~Last(th) THEN Done(th)
       ELSE IF c.op = "destroy" THEN AfterRefCount(c) ELSE Idle]
  /\ IF Last(th) /\ c.op = "fetch" THEN Construct(th) /\ UNCHANGED heap
     ELSE IF Last(th) /\ c.op \in Destroying \ {"destroy"} THEN Free(c)
     ELSE UNCHANGED <<heap, objVars>>
  /\ UNCHANGED <<regLocks, registry, refs, ids, size, pushes>>

-----------------------------------------------------------------------------
(* Calls from Perl.                                                        *)

Begin(th, op, v, x) ==
  /\ th \in started /\ call[th] = Idle
  /\ call' = [call EXCEPT ![th] = Call(op, v, x)]

InCall(ops, v) == {u \in Threads : call[u].op \in ops /\ call[u].v = v}

\* Nothing leads to what was at an address.
UnusedInst(x) ==
  /\ fVector[x] = NoVec
  /\ \A th \in Threads : <<th, x>> \notin objs /\ call[th].x # x
UnusedVec(v) ==
  /\ v \notin heap
  /\ \A x \in Insts : fVector[x] # v

\* A method on an object of the thread; at most MaxLen pushes.
Method(th) ==
  /\ \E x \in {y \in Insts : <<th, y>> \in objs}, op \in {"push", "access"} :
       /\ op = "push" /\ fVector[x] # NoVec =>
            pushes[fVector[x]] + Cardinality(InCall({"push"}, fVector[x])) < MaxLen
       /\ Begin(th, op, fVector[x], x)
  /\ UNCHANGED <<lockVars, registry, vecVars, objVars>>

\* new("int"): the vector is constructed, its lock free and its count 1.
New(th) ==
  /\ \E v \in Vecs, x \in Insts :
       /\ <<th, v, x>> \in Access /\ UnusedVec(v) /\ UnusedInst(x)
       /\ Begin(th, "new", v, x)
       /\ heap' = heap \cup {v}
       /\ refs' = [refs EXCEPT ![v] = 1]
       /\ owner' = [owner EXCEPT ![v] = Nobody] /\ locks' = [locks EXCEPT ![v] = 0]
       /\ size' = [size EXCEPT ![v] = 0] /\ pushes' = [pushes EXCEPT ![v] = 0]
       /\ raced' = raced \ {v} /\ cloned' = cloned \ {x}
  /\ UNCHANGED <<regLocks, asleep, registry, ids, fVector, objs, started>>

\* new($id) reads the registry without its lock; an id that it does not find
\* croaks.
Fetch(th) ==
  /\ \E i \in Ids, x \in Insts :
       /\ registry[i] # NoVec
       /\ <<th, registry[i], x>> \in Access /\ UnusedInst(x)
       /\ Begin(th, "fetch", registry[i], x)
       /\ raced' = IF InCall(Destroying, registry[i]) # {}
                   THEN raced \cup {registry[i]} ELSE raced
       /\ cloned' = cloned \ {x}
  /\ UNCHANGED <<lockVars, registry, vecVars, fVector, objs, started>>

\* The last Perl reference to the object is gone: DESTROY deletes the instance.
Destroy(th) ==
  /\ \E x \in {y \in Insts : <<th, y>> \in objs} :
       /\ Begin(th, "destroy", fVector[x], x)
       /\ objs' = objs \ {<<th, x>>}
       /\ raced' = IF InCall(Destroying \cup {"fetch"}, fVector[x]) # {}
                   THEN raced \cup {fVector[x]} ELSE raced
  /\ UNCHANGED <<lockVars, registry, vecVars, fVector, started, cloned>>

\* threads->new: the new thread has a clone of every object of th.  There is
\* no CLONE_SKIP, and IncrementRefCount is not called.
Spawn(th) ==
  LET mine == {x \in Insts : <<th, x>> \in objs} IN
  /\ th \in started /\ call[th] = Idle
  /\ \E u \in Threads \ started :
       /\ started' = started \cup {u}
       /\ objs' = objs \cup ({u} \X mine)
       /\ cloned' = cloned \cup mine
  /\ UNCHANGED <<call, lockVars, registry, vecVars, fVector, raced>>

Step(th) ==
  \/ Acquire(th) \/ AcquireGlobal(th) \/ ReleaseGlobal(th) \/ Release(th)
  \/ Read(th) \/ Push(th)
  \/ GetNewId(th) \/ Insert(th) \/ Increment(th) \/ GetRefCount(th) \/ Decrement(th)
  \/ DeleteContainer(th) \/ GetId(th) \/ Erase(th)

\* No freed memory has been used: a call that is under way has a vector that
\* is there, and no instance has been deleted twice.
Safe ==
  /\ \A th \in Threads : call[th] # Idle => call[th].v \in heap
  /\ \A th, u \in Threads :
       /\ call[th].op \in Destroying /\ call[u].op \in Destroying
       /\ call[th].x = call[u].x
       => th = u

Next ==
  /\ Safe
  /\ \E th \in Threads :
       Step(th) \/ Method(th) \/ New(th) \/ Fetch(th) \/ Destroy(th) \/ Spawn(th)

Spec == Init /\ [][Next]_vars

\* A thread that can run does run.
FairSpec == Spec /\ \A th \in Threads : WF_vars(Safe /\ Step(th))

-----------------------------------------------------------------------------
(* What the class promises.                                                *)

\* The types of the class members; fLocks of a vector is at most two, in the
\* destructor, where GetId locks again what the destructor has locked.
TypeOK ==
  /\ \A th \in Threads : /\ call[th].op \in DOMAIN Code /\ call[th].v \in Vecs \cup {NoVec}
                         /\ call[th].x \in Insts \cup {NoInst}
                         /\ call[th].i \in 1 .. Len(Code[call[th].op]) + 1
  /\ asleep \in [Threads -> Vecs \cup {Awake, Registry}]
  /\ owner \in [Vecs -> Threads \cup {Nobody}] /\ locks \in [Vecs -> 0 .. 2]
  /\ regLocks \in 0 .. 1
  /\ registry \in [Ids -> Vecs \cup {NoVec}] /\ ids \in [Vecs -> Ids]
  /\ heap \subseteq Vecs
  /\ refs \in [Vecs -> 0 .. Cardinality(Insts)]
  /\ fVector \in [Insts -> Vecs \cup {NoVec}]
  /\ objs \subseteq started \X Insts

\* Push of two threads at the same time loses nothing: between the
\* push_back calls, which are made under the lock, the vector has as many
\* elements as have been pushed (SharedVec.cc, Push).
NoLostPush == \A v \in Vecs : size[v] = pushes[v]

\* The id that GetId gives out for new($id) leads from the registry to the
\* vector, from the constructor to the destructor, and an id that leads
\* anywhere leads to the vector that has it: no id is given to two vectors, and
\* no destructor erases the id of another vector or leaves its own behind.
RegistryExact ==
  /\ \A i \in Ids : registry[i] # NoVec => registry[i] \in heap /\ ids[registry[i]] = i
  /\ \A v \in heap : registry[ids[v]] # v =>
       \E th \in InCall({"new", "delete"}, v) :
         \/ call[th].op = "new" /\ call[th].i <= 3
         \/ call[th].op = "delete" /\ call[th].i > 7

\* A vector that is not deleted has an object that leads to it, or a call is
\* making or destroying one ("everything gc'd" in t/01basic.t), unless
\* destructors have overlapped: a destructor that runs alone does not decrement
\* a count that it should have deleted (SharedVectorInstance.cc).
NoLeak ==
  \A v \in heap \ raced :
    \/ \E o \in objs : fVector[o[2]] = v
    \/ InCall({"new", "fetch"} \cup Destroying, v) # {}

\* No vector is deleted under an object, or under a call that is to wait for
\* its lock, whatever else is pushed, attached and destroyed, unless a
\* destructor has overlapped with new($id), or the object has been cloned.
NoDangling ==
  /\ \A o \in objs : o[2] \notin cloned /\ fVector[o[2]] \notin raced =>
       fVector[o[2]] \in heap
  /\ \A th \in Threads : call[th] # Idle /\ call[th].x \notin cloned /\ call[th].v \notin raced =>
       call[th].v \in heap

\* "everything gc'd" (t/01basic.t): when no object is left and no call is under
\* way, the vectors are deleted and their ids are free again.
EverythingGcd ==
  objs = {} /\ (\A th \in Threads : call[th] = Idle)
    => (\A i \in Ids : registry[i] = NoVec) /\ heap = {}

\* A thread that calls a method of an object uses no freed memory: after
\* threads->new and join the main thread still has the vector, and finds there
\* what the other thread has pushed (t/02threading.t).
NoUseAfterFree ==
  \A th \in Threads : call[th].op \in {"push", "access"} => call[th].v \in heap

\* A thread has begun a call.
NewCall == \E th \in Threads : call[th] = Idle /\ call'[th] # Idle

\* If the threads stop making calls, every call that is under way returns: no
\* wake-up is lost, and the destructor, which holds the lock of its vector
\* while it waits for the lock of the registry, deadlocks with nobody.  (With
\* calls for ever, a woken thread may find the lock taken again each time.)
CallReturns ==
  <>[][~NewCall]_vars
    => []<>((\A th \in Threads : call[th] = Idle) \/ ~Safe)

=============================================================================
