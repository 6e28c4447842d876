---------------------- MODULE SharedVectorCountProofs ----------------------
(***************************************************************************)
(* The reference counts of Thread::SharedVector, for any number of         *)
(* threads, vectors and instances: what a count counts, and what it is     *)
(* good for as long as no destructor overlaps with another one or with     *)
(* new($id), and no object is cloned.                                      *)
(***************************************************************************)
EXTENDS SharedVectorProofs

-----------------------------------------------------------------------------
(* The inductive invariant.                                                *)

ObjsOK ==
  /\ started \subseteq Threads /\ objs \subseteq started \X Insts
  /\ \A th \in Threads : Op(th) # "idle" => th \in started

\* An instance that is being made is nobody else's yet.
Fresh(th) == Op(th) \in {"new", "fetch"}

FreshInv == \A th \in Threads : Fresh(th) =>
  /\ fVector[Obj(th)] = NoVec
  /\ \A u \in Threads : <<u, Obj(th)>> \notin objs /\ (Obj(u) = Obj(th) => u = th)

\* The destructor has the vector of its instance until it frees that.
DestroyInv == \A th \in Threads : Op(th) \in Destroying => fVector[Obj(th)] = Vec(th)

\* A thread that is in a method keeps its object, and the instance of one that
\* has no clone keeps its vector.
MethodInv == \A th \in Threads : Op(th) \in {"push", "access"} =>
  <<th, Obj(th)>> \in objs /\ (Obj(th) \notin cloned => fVector[Obj(th)] = Vec(th))

\* An instance that is not freed has an object, or a destructor.
Destroyed(x) == \E th \in Threads : Op(th) \in Destroying /\ Obj(th) = x

ObjInv == \A x \in Insts : fVector[x] # NoVec =>
  Destroyed(x) \/ \E th \in Threads : <<th, x>> \in objs

\* An instance that is not cloned has one object at most, and is not freed
\* under it.
UnclonedInv == \A th \in Threads, x \in Insts : <<th, x>> \in objs /\ x \notin cloned =>
  /\ fVector[x] # NoVec /\ ~Destroyed(x)
  /\ \A u \in Threads : <<u, x>> \in objs => u = th

\* fRefCount counts the instances of the vector, from the constructor, or from
\* Increment, to Decrement.
Uncounted(x) == \E th \in Threads : Op(th) = "decrement" /\ Pos(th) = 3 /\ Obj(th) = x
Coming(x, v) == \E th \in Threads :
  /\ Obj(th) = x /\ Vec(th) = v
  /\ Op(th) = "new" \/ (Op(th) = "fetch" /\ Pos(th) = 3)
Counted(v) == {x \in Insts : (fVector[x] = v /\ ~Uncounted(x)) \/ Coming(x, v)}

CountInv ==
  /\ refs \in [Vecs -> 0 .. Cardinality(Insts)]
  /\ \A v \in heap : refs[v] = Cardinality(Counted(v))

CountReadInv == \A th \in Threads :
  Op(th) = "destroy" /\ Pos(th) = 3 => call[th].n = refs[Vec(th)]

\* What the history says of a vector that is not in raced: a destructor runs
\* with no other one and with no new($id), so the count is not stale when the
\* destructor acts on it.
ApartInv == \A th, u \in Threads :
  /\ Op(th) \in Destroying /\ Op(u) \in Destroying \cup {"fetch"}
  /\ Vec(u) = Vec(th) /\ Vec(th) \notin raced
  => u = th

AloneInv ==
  /\ \A v \in heap \ raced : refs[v] > 0
  /\ \A th \in Threads : Vec(th) \in heap \ raced =>
       /\ Op(th) = "decrement" /\ Pos(th) < 3 => refs[Vec(th)] > 1
       /\ Op(th) = "delete" => refs[Vec(th)] = 1

\* So it is the last one that deletes the vector.
LastInv ==
  /\ \A x \in Insts : fVector[x] # NoVec /\ fVector[x] \notin raced => fVector[x] \in heap
  /\ \A th \in Threads : Op(th) # "idle" /\ Obj(th) \notin cloned /\ Vec(th) \notin raced =>
       Vec(th) \in heap

CountsInv ==
  /\ ObjsOK /\ FreshInv /\ DestroyInv /\ MethodInv /\ ObjInv /\ UnclonedInv
  /\ CountInv /\ CountReadInv
  /\ ApartInv /\ AloneInv /\ LastInv

-----------------------------------------------------------------------------
(* Steps that no count and no object notices.                              *)

LEMMA QuietStep ==
  ASSUME CountsInv, VectorInv, UNCHANGED <<heap, refs, objVars>>,
         \A u \in Threads :
           /\ call'[u].op = call[u].op /\ call'[u].v = call[u].v /\ call'[u].x = call[u].x
           /\ Op(u) \in {"fetch", "decrement"} => (call'[u].i = 3 <=> call[u].i = 3)
           /\ Op(u) = "decrement" => (call'[u].i < 3 <=> call[u].i < 3)
           /\ Op(u) = "destroy" /\ call'[u].i = 3 => call'[u].n = refs[Vec(u)]
  PROVE  CountsInv'
<1> USE DEF CountsInv, objVars, Op, Vec, Obj, Pos
<1>1. ObjsOK' /\ FreshInv' /\ DestroyInv' /\ MethodInv'
  BY DEF ObjsOK, FreshInv, Fresh, DestroyInv, MethodInv
<1>2. ObjInv' /\ UnclonedInv'
  <2>1. \A x : Destroyed(x)' <=> Destroyed(x)
    BY DEF Destroyed
  <2> QED BY <2>1 DEF ObjInv, UnclonedInv
<1>3. CountInv'
  <2>1. \A x : Uncounted(x)' <=> Uncounted(x)
    BY DEF Uncounted
  <2>2. \A x, v : Coming(x, v)' <=> Coming(x, v)
    BY DEF Coming
  <2>3. \A v : Counted(v)' = Counted(v)
    BY <2>1, <2>2 DEF Counted
  <2> QED BY <2>3 DEF CountInv
<1>4. CountReadInv' /\ ApartInv'
  BY DEF CountReadInv, ApartInv
<1>5. AloneInv' /\ LastInv'
  BY DEF AloneInv, LastInv
<1> QED
  BY <1>1, <1>2, <1>3, <1>4, <1>5

LEMMA QuietMove ==
  ASSUME CountsInv, VectorInv, NEW th \in Threads, NEW k, Moved(th, k),
         UNCHANGED <<heap, refs, objVars>>,
         Op(th) \in {"fetch", "decrement"} => Pos(th) = 1,
         Op(th) = "destroy" => Pos(th) = 1 \/ (Pos(th) = 2 /\ k = refs[Vec(th)])
  PROVE  CountsInv'
<1>1. \A u \in Threads : call[u].i \in Nat
  BY CallFacts DEF VectorInv
<1>2. ASSUME NEW u \in Threads
      PROVE  /\ call'[u].op = call[u].op /\ call'[u].v = call[u].v /\ call'[u].x = call[u].x
             /\ Op(u) \in {"fetch", "decrement"} => (call'[u].i = 3 <=> call[u].i = 3)
             /\ Op(u) = "decrement" => (call'[u].i < 3 <=> call[u].i < 3)
             /\ Op(u) = "destroy" /\ call'[u].i = 3 => call'[u].n = refs[Vec(u)]
  <2>1. /\ call'[u].op = call[u].op /\ call'[u].v = call[u].v /\ call'[u].x = call[u].x
        /\ call'[u].i = (IF u = th THEN call[u].i + 1 ELSE call[u].i)
        /\ call'[u].n = (IF u = th THEN k ELSE call[u].n)
    BY DEF Moved
  <2>2. Op(u) \in {"fetch", "decrement"} => (call'[u].i = 3 <=> call[u].i = 3)
    <3>1. CASE u = th
      BY <2>1, <3>1 DEF Op, Pos
    <3>2. CASE u # th
      BY <2>1, <3>2
    <3> QED BY <3>1, <3>2
  <2>3. Op(u) = "decrement" => (call'[u].i < 3 <=> call[u].i < 3)
    <3>1. CASE u = th
      BY <2>1, <3>1 DEF Op, Pos
    <3>2. CASE u # th
      BY <2>1, <3>2
    <3> QED BY <3>1, <3>2
  <2>4. Op(u) = "destroy" /\ call'[u].i = 3 => call'[u].n = refs[Vec(u)]
    BY <1>1, <2>1 DEF CountsInv, CountReadInv, Op, Vec, Pos
  <2> QED BY <2>1, <2>2, <2>3, <2>4
<1> QED
  BY <1>2, QuietStep

-----------------------------------------------------------------------------
(* The count.                                                              *)

LEMMA CountedFinite ==
  ASSUME NEW v
  PROVE  /\ IsFiniteSet(Counted(v)) /\ Cardinality(Counted(v)) \in 0 .. Cardinality(Insts)
         /\ IsFiniteSet(Counted(v)') /\ Cardinality(Counted(v)') \in 0 .. Cardinality(Insts)
<1>1. Counted(v) \in SUBSET Insts /\ Counted(v)' \in SUBSET Insts
  BY DEF Counted
<1>2. /\ IsFiniteSet(Counted(v)) /\ Cardinality(Counted(v)) <= Cardinality(Insts)
      /\ IsFiniteSet(Counted(v)') /\ Cardinality(Counted(v)') <= Cardinality(Insts)
  BY <1>1, SharedVectorAssumption, FS_Subset
<1> QED
  BY <1>2, SharedVectorAssumption, FS_CardinalityType

\* The instances of one vector are counted anew.
LEMMA CountChange ==
  ASSUME CountsInv, VectorInv, NEW v \in Vecs, UNCHANGED heap,
         \A w \in Vecs \ {v} : refs'[w] = refs[w],
         refs' \in [Vecs -> Nat], refs'[v] = Cardinality(Counted(v)'),
         \A w \in heap \ {v} : Counted(w)' = Counted(w)
  PROVE  CountInv'
<1>1. refs \in [Vecs -> 0 .. Cardinality(Insts)]
  BY DEF CountsInv, CountInv
<1>2. refs'[v] \in 0 .. Cardinality(Insts)
  BY CountedFinite
<1>3. refs' \in [Vecs -> 0 .. Cardinality(Insts)]
  <2>1. \A w \in Vecs : refs'[w] \in 0 .. Cardinality(Insts)
    BY <1>1, <1>2
  <2> QED BY <2>1
<1>4. ASSUME NEW w \in heap PROVE refs'[w] = Cardinality(Counted(w)')
  <2>1. w \in Vecs
    BY DEF VectorInv, StateOK
  <2>2. CASE w = v BY <2>2
  <2>3. CASE w # v
    BY <2>1, <2>3 DEF CountsInv, CountInv
  <2> QED BY <2>2, <2>3
<1> QED
  BY <1>3, <1>4 DEF CountInv

LEMMA CountIncrement ==
  ASSUME CountsInv, VectorInv, Safe, NEW th \in Threads, Increment(th),
         NEW v, call[th].v = v, NEW x, call[th].x = x
  PROVE  CountsInv'
<1>1. /\ At(th, "Increment") /\ Advance(th) /\ UNCHANGED <<heap, objVars>>
      /\ refs' = [refs EXCEPT ![v] = @ + 1]
  BY DEF Increment
<1>2. MayMove(th) /\ call[th].op = "fetch" /\ call[th].i = 2
  BY <1>1, PlacesInMethods
<1>3. Moved(th, call[th].n)
  BY <1>1, <1>2, AdvanceSet DEF VectorInv
<1>4. v \in Vecs /\ v \in heap /\ x \in Insts
  BY <1>2, SafeFacts, CallFacts DEF VectorInv
<1> USE DEF CountsInv, objVars, Op, Vec, Obj, Pos
<1>5. ObjsOK' /\ FreshInv' /\ DestroyInv' /\ MethodInv'
  BY <1>1, <1>3 DEF Moved, ObjsOK, FreshInv, Fresh, DestroyInv, MethodInv
<1>6. ObjInv' /\ UnclonedInv'
  <2>1. \A y : Destroyed(y)' <=> Destroyed(y)
    BY <1>3 DEF Moved, Destroyed
  <2> QED BY <1>1, <2>1 DEF ObjInv, UnclonedInv
<1>7. \A y : Uncounted(y)' <=> Uncounted(y)
  BY <1>2, <1>3 DEF Moved, Uncounted
<1>8. \A y, w : Coming(y, w)' <=> Coming(y, w) \/ (y = x /\ w = v)
  BY <1>2, <1>3 DEF Moved, Coming
<1>9. x \notin Counted(v)
  <2>1. fVector[x] = NoVec /\ NoVec # v /\ \A u \in Threads : Obj(u) = x => u = th
    BY <1>2, <1>4, SharedVectorAssumption DEF FreshInv, Fresh
  <2> QED BY <1>2, <2>1 DEF Counted, Coming
<1>10. refs[v] \in Nat /\ refs'[v] = refs[v] + 1 /\ \A w \in Vecs \ {v} : refs'[w] = refs[w]
  BY <1>1, <1>4 DEF VectorInv, StateOK
<1>12. CountInv'
  <2>1. Counted(v)' = Counted(v) \cup {x}
    BY <1>1, <1>4, <1>7, <1>8 DEF Counted
  <2>2. \A w \in heap \ {v} : Counted(w)' = Counted(w)
    BY <1>1, <1>7, <1>8 DEF Counted
  <2>3. refs'[v] = Cardinality(Counted(v)')
    <3>1. Cardinality(Counted(v)') = Cardinality(Counted(v)) + 1
      BY <1>9, <2>1, CountedFinite, FS_AddElement
    <3>2. refs[v] = Cardinality(Counted(v))
      BY <1>4 DEF CountInv
    <3> QED BY <3>1, <3>2, <1>10
  <2>4. refs' \in [Vecs -> Nat]
    BY <1>1, <1>4 DEF VectorInv, StateOK
  <2> QED BY <1>1, <1>4, <1>10, <2>2, <2>3, <2>4, CountChange
<1>11. ASSUME NEW u \in Threads, call[u].op \in Destroying, call[u].v = v
       PROVE  v \in raced
  BY <1>2, <1>11 DEF ApartInv, Destroying
<1>13. CountReadInv'
  \* Nobody else is inside the vector's lock.
  <2>1. ASSUME NEW u \in Threads, call[u].op = "destroy", call[u].i = 3
        PROVE  call[u].v # v /\ call[u].v \in Vecs
    <3>1. Inside(u) /\ Inside(th)
      BY <1>2, <2>1 DEF Inside
    <3>2. owner[call[u].v] = u /\ owner[v] = th /\ u # th
      BY <1>2, <2>1, <3>1 DEF VectorInv, LockInv
    <3> QED BY <2>1, <3>2, SafeFacts
  <2> QED BY <1>2, <1>3, <1>10, <2>1 DEF Moved, CountReadInv
<1>14. ApartInv' /\ LastInv'
  BY <1>1, <1>3 DEF Moved, ApartInv, LastInv
<1>15. AloneInv'
  <2>1. \A w \in heap' \ raced' : w \in Vecs /\ refs'[w] > 0
    BY <1>1, <1>10 DEF AloneInv, VectorInv, StateOK
  <2>2. ASSUME NEW u \in Threads, Vec(u)' \in heap' \ raced', Op(u)' \in {"decrement", "delete"}
        PROVE  /\ Op(u)' = "decrement" /\ Pos(u)' < 3 => refs'[Vec(u)'] > 1
               /\ Op(u)' = "delete" => refs'[Vec(u)'] = 1
    <3>1. Vec(u)' = Vec(u) /\ Op(u)' = Op(u) /\ Vec(u) # v /\ Vec(u) \in Vecs /\ u # th
      BY <1>1, <1>2, <1>3, <1>11, <2>2 DEF Moved, Destroying, VectorInv, StateOK
    <3>2. Pos(u)' = Pos(u) /\ refs'[Vec(u)] = refs[Vec(u)]
      BY <1>3, <1>10, <3>1 DEF Moved
    <3> QED BY <1>1, <2>2, <3>1, <3>2 DEF AloneInv
  <2> QED BY <2>1, <2>2 DEF AloneInv
<1> QED
  BY <1>5, <1>6, <1>12, <1>13, <1>14, <1>15

LEMMA CountDecrement ==
  ASSUME CountsInv, VectorInv, Safe, NEW th \in Threads, Decrement(th),
         NEW v, call[th].v = v, NEW x, call[th].x = x
  PROVE  CountsInv'
<1>1. /\ At(th, "Decrement") /\ Advance(th) /\ UNCHANGED <<heap, objVars>>
      /\ refs' = [refs EXCEPT ![v] = IF @ = 0 THEN 0 ELSE @ - 1]
  BY DEF Decrement
<1>2. MayMove(th) /\ call[th].op = "decrement" /\ call[th].i = 2
  BY <1>1, PlacesInMethods
<1>3. Moved(th, call[th].n)
  BY <1>1, <1>2, AdvanceSet DEF VectorInv
<1>4. v \in Vecs /\ v \in heap /\ v # NoVec /\ x \in Insts
  BY <1>2, SafeFacts, CallFacts DEF VectorInv
<1> USE DEF CountsInv, objVars, Op, Vec, Obj, Pos
<1>5. ObjsOK' /\ FreshInv' /\ DestroyInv' /\ MethodInv'
  BY <1>1, <1>3 DEF Moved, ObjsOK, FreshInv, Fresh, DestroyInv, MethodInv
<1>6. ObjInv' /\ UnclonedInv'
  <2>1. \A y : Destroyed(y)' <=> Destroyed(y)
    BY <1>3 DEF Moved, Destroyed
  <2> QED BY <1>1, <2>1 DEF ObjInv, UnclonedInv
\* Nobody else destroys the instance, and nobody makes it.
<1>7. \A u \in Threads : u # th /\ call[u].x = x => call[u].op \notin Destroying \cup {"new", "fetch"}
  BY <1>2 DEF Safe, Destroying, FreshInv, Fresh
<1>8. \A y : Uncounted(y)' <=> Uncounted(y) \/ y = x
  BY <1>2, <1>3 DEF Moved, Uncounted
<1>9. \A y, w : Coming(y, w)' <=> Coming(y, w)
  BY <1>2, <1>3 DEF Moved, Coming
<1>10. fVector[x] = v /\ ~Uncounted(x) /\ \A w : ~Coming(x, w)
  <2>1. fVector[x] = v
    BY <1>2 DEF DestroyInv, Destroying
  <2>2. ~Uncounted(x)
    BY <1>2, <1>7 DEF Uncounted, Destroying
  <2>3. \A w : ~Coming(x, w)
    BY <1>2, <1>7 DEF Coming
  <2> QED BY <2>1, <2>2, <2>3
<1>11. x \in Counted(v)
  BY <1>4, <1>10 DEF Counted
<1>12. refs[v] \in Nat /\ refs[v] > 0
  <2>1. refs[v] = Cardinality(Counted(v)) /\ refs[v] \in Nat
    BY <1>4 DEF CountInv, VectorInv, StateOK
  <2> QED BY <1>11, <2>1, CountedFinite, FS_EmptySet
<1>13. refs'[v] = refs[v] - 1 /\ (\A w \in Vecs \ {v} : refs'[w] = refs[w]) /\ refs' \in [Vecs -> Nat]
  BY <1>1, <1>4, <1>12 DEF VectorInv, StateOK
<1>14. CountInv'
  <2>1. Counted(v)' = Counted(v) \ {x}
    BY <1>1, <1>8, <1>9, <1>10 DEF Counted
  <2>2. \A w \in heap \ {v} : Counted(w)' = Counted(w)
    BY <1>1, <1>8, <1>9, <1>10 DEF Counted
  <2>3. refs'[v] = Cardinality(Counted(v)')
    <3>1. Cardinality(Counted(v)') = Cardinality(Counted(v)) - 1
      <4>1. IsFiniteSet(Counted(v))
        BY CountedFinite
      <4>2. Cardinality(Counted(v) \ {x}) = Cardinality(Counted(v)) - 1
        BY <1>11, <4>1, FS_RemoveElement
      <4> QED BY <2>1, <4>2
    <3>2. refs[v] = Cardinality(Counted(v))
      BY <1>4 DEF CountInv
    <3> QED BY <3>1, <3>2, <1>13
  <2> QED BY <1>1, <1>4, <1>13, <2>2, <2>3, CountChange
<1>16. ASSUME NEW u \in Threads, u # th, call[u].op \in Destroying, call[u].v = v
       PROVE  v \in raced
  BY <1>2, <1>16 DEF ApartInv, Destroying
<1>17. CountReadInv'
  \* Nobody else is inside the vector's lock.
  <2>1. ASSUME NEW u \in Threads, call[u].op = "destroy", call[u].i = 3
        PROVE  call[u].v # v /\ call[u].v \in Vecs
    <3>1. Inside(u) /\ Inside(th)
      BY <1>2, <2>1 DEF Inside
    <3>2. owner[call[u].v] = u /\ owner[v] = th /\ u # th
      BY <1>2, <2>1, <3>1 DEF VectorInv, LockInv
    <3> QED BY <2>1, <3>2, SafeFacts
  <2> QED BY <1>2, <1>3, <1>13, <2>1 DEF Moved, CountReadInv
<1>18. ApartInv' /\ LastInv'
  BY <1>1, <1>3 DEF Moved, ApartInv, LastInv
<1>19. AloneInv'
  <2>1. v \in raced \/ refs[v] > 1
    BY <1>2, <1>4 DEF AloneInv
  <2>2. ASSUME NEW w \in heap' \ raced' PROVE w \in Vecs /\ refs'[w] > 0
    BY <1>1, <1>12, <1>13, <2>1, <2>2 DEF AloneInv, VectorInv, StateOK
  <2>3. ASSUME NEW u \in Threads, Vec(u)' \in heap' \ raced', Op(u)' \in {"decrement", "delete"},
               Op(u)' = "decrement" => Pos(u)' < 3
        PROVE  /\ Op(u)' = "decrement" /\ Pos(u)' < 3 => refs'[Vec(u)'] > 1
               /\ Op(u)' = "delete" => refs'[Vec(u)'] = 1
    <3>1. Vec(u)' = Vec(u) /\ Op(u)' = Op(u) /\ Vec(u) \in Vecs /\ u # th
      BY <1>1, <1>2, <1>3, <2>3 DEF Moved, VectorInv, StateOK
    <3>2. Vec(u) # v
      BY <1>1, <1>16, <2>3, <3>1 DEF Destroying
    <3>3. Pos(u)' = Pos(u) /\ refs'[Vec(u)] = refs[Vec(u)]
      BY <1>3, <1>13, <3>1, <3>2 DEF Moved
    <3> QED BY <1>1, <2>3, <3>1, <3>3 DEF AloneInv
  <2> QED BY <2>2, <2>3 DEF AloneInv
<1> QED
  BY <1>5, <1>6, <1>14, <1>17, <1>18, <1>19

-----------------------------------------------------------------------------
(* The instructions.                                                       *)

LEMMA CountAsleep ==
  ASSUME CountsInv, VectorInv, UNCHANGED <<call, heap, refs, objVars>>
  PROVE  CountsInv'
<1>1. \A u \in Threads : Op(u) = "destroy" /\ Pos(u) = 3 => call[u].n = refs[Vec(u)]
  BY DEF CountsInv, CountReadInv
<1> QED
  BY <1>1, QuietStep DEF Pos

LEMMA CountRead ==
  ASSUME CountsInv, VectorInv, Safe, NEW th \in Threads, Read(th)
  PROVE  CountsInv'
<1>1. At(th, "Read") /\ UNCHANGED <<heap, refs, objVars>>
  BY DEF Read, vecVars
<1>2. MayMove(th) /\ call[th].op \in {"push", "access"}
  BY <1>1, PlacesInMethods
<1>3. size[call[th].v] \in Nat
  BY <1>2 DEF MayMove, VectorInv, StateOK
<1>4. Moved(th, size[call[th].v])
  BY <1>2, <1>3, MoveSet DEF Read, VectorInv
<1> QED
  BY <1>1, <1>2, <1>4, QuietMove DEF Op, Vec, Pos

LEMMA CountGetRefCount ==
  ASSUME CountsInv, VectorInv, Safe, NEW th \in Threads, GetRefCount(th)
  PROVE  CountsInv'
<1>1. At(th, "GetRefCount") /\ UNCHANGED <<heap, refs, objVars>>
  BY DEF GetRefCount, vecVars
<1>2. MayMove(th) /\ call[th].op = "destroy" /\ call[th].i = 2
  BY <1>1, PlacesInMethods
<1>3. refs[call[th].v] \in Nat
  BY <1>2 DEF MayMove, VectorInv, StateOK
<1>4. Moved(th, refs[call[th].v])
  BY <1>2, <1>3, MoveSet DEF GetRefCount, VectorInv
<1> QED
  BY <1>1, <1>2, <1>4, QuietMove DEF Op, Vec, Pos

LEMMA CountGetNewId ==
  ASSUME CountsInv, VectorInv, Safe, NEW th \in Threads, GetNewId(th)
  PROVE  CountsInv'
<1>1. At(th, "GetNewId") /\ UNCHANGED <<heap, refs, objVars>>
  BY DEF GetNewId, vecVars
<1>2. MayMove(th) /\ call[th].op = "new" /\ call[th].i = 2
  BY <1>1, PlacesInMethods
<1>3. FreshId \in Nat
  BY <1>2, FreshIdExists DEF Ids
<1>4. Moved(th, FreshId)
  BY <1>2, <1>3, MoveSet DEF GetNewId, VectorInv
<1> QED
  BY <1>1, <1>2, <1>4, QuietMove DEF Op, Vec, Pos

LEMMA CountGetId ==
  ASSUME CountsInv, VectorInv, Safe, NEW th \in Threads, GetId(th)
  PROVE  CountsInv'
<1>1. At(th, "GetId") /\ UNCHANGED <<heap, refs, objVars>>
  BY DEF GetId, vecVars
<1>2. MayMove(th) /\ call[th].op = "delete"
  BY <1>1, PlacesInMethods
<1>3. ids[call[th].v] \in Nat
  BY <1>2 DEF MayMove, VectorInv, StateOK, Ids
<1>4. Moved(th, ids[call[th].v])
  BY <1>2, <1>3, MoveSet DEF GetId, VectorInv
<1> QED
  BY <1>1, <1>2, <1>4, QuietMove DEF Op, Vec, Pos

LEMMA CountPush ==
  ASSUME CountsInv, VectorInv, Safe, NEW th \in Threads, Push(th)
  PROVE  CountsInv'
<1>1. At(th, "Push") /\ Advance(th) /\ UNCHANGED <<heap, refs, objVars>>
  BY DEF Push, vecVars
<1>2. MayMove(th) /\ call[th].op = "push"
  BY <1>1, PlacesInMethods
<1>3. Moved(th, call[th].n)
  BY <1>1, <1>2, AdvanceSet DEF VectorInv
<1> QED
  BY <1>1, <1>2, <1>3, QuietMove DEF Op, Vec, Pos

LEMMA CountInsert ==
  ASSUME CountsInv, VectorInv, Safe, NEW th \in Threads, Insert(th)
  PROVE  CountsInv'
<1>1. At(th, "Insert") /\ Advance(th) /\ UNCHANGED <<heap, refs, objVars>>
  BY DEF Insert, vecVars
<1>2. MayMove(th) /\ call[th].op = "new"
  BY <1>1, PlacesInMethods
<1>3. Moved(th, call[th].n)
  BY <1>1, <1>2, AdvanceSet DEF VectorInv
<1> QED
  BY <1>1, <1>2, <1>3, QuietMove DEF Op, Vec, Pos

LEMMA CountDeleteContainer ==
  ASSUME CountsInv, VectorInv, Safe, NEW th \in Threads, DeleteContainer(th)
  PROVE  CountsInv'
<1>1. At(th, "DeleteContainer") /\ Advance(th) /\ UNCHANGED <<heap, refs, objVars>>
  BY DEF DeleteContainer, vecVars
<1>2. MayMove(th) /\ call[th].op = "delete"
  BY <1>1, PlacesInMethods
<1>3. Moved(th, call[th].n)
  BY <1>1, <1>2, AdvanceSet DEF VectorInv
<1> QED
  BY <1>1, <1>2, <1>3, QuietMove DEF Op, Vec, Pos

LEMMA CountErase ==
  ASSUME CountsInv, VectorInv, Safe, NEW th \in Threads, Erase(th)
  PROVE  CountsInv'
<1>1. At(th, "Erase") /\ Advance(th) /\ UNCHANGED <<heap, refs, objVars>>
  BY DEF Erase, vecVars
<1>2. MayMove(th) /\ call[th].op = "delete"
  BY <1>1, PlacesInMethods
<1>3. Moved(th, call[th].n)
  BY <1>1, <1>2, AdvanceSet DEF VectorInv
<1> QED
  BY <1>1, <1>2, <1>3, QuietMove DEF Op, Vec, Pos

LEMMA CountAcquire ==
  ASSUME CountsInv, VectorInv, Safe, NEW th \in Threads, Acquire(th)
  PROVE  CountsInv'
<1>1. At(th, "Acquire") /\ UNCHANGED <<heap, refs, objVars>>
  BY DEF Acquire, vecVars
<1>2. MayMove(th) /\ (call[th].i = 1 \/ call[th].op = "delete")
  BY <1>1, PlacesInMethods
<1>3. CASE UNCHANGED call
  BY <1>1, <1>3, CountAsleep
<1>4. CASE Advance(th)
  BY <1>1, <1>2, <1>4, AdvanceSet, QuietMove DEF VectorInv, Op, Vec, Pos
<1> QED
  BY <1>3, <1>4 DEF Acquire, Wait

LEMMA CountAcquireGlobal ==
  ASSUME CountsInv, VectorInv, Safe, NEW th \in Threads, AcquireGlobal(th)
  PROVE  CountsInv'
<1>1. At(th, "AcquireGlobal") /\ UNCHANGED <<heap, refs, objVars>>
  BY DEF AcquireGlobal, vecVars
<1>2. MayMove(th) /\ call[th].op \in {"new", "delete"}
  BY <1>1, PlacesInMethods
<1>3. CASE UNCHANGED call
  BY <1>1, <1>3, CountAsleep
<1>4. CASE Advance(th)
  BY <1>1, <1>2, <1>4, AdvanceSet, QuietMove DEF VectorInv, Op, Vec, Pos
<1> QED
  BY <1>3, <1>4 DEF AcquireGlobal, Wait

\* The constructor of an instance returns.
LEMMA CountConstruct ==
  ASSUME CountsInv, VectorInv, Safe, NEW th \in Threads, Construct(th),
         call' = [call EXCEPT ![th] = Idle], UNCHANGED <<heap, refs>>,
         call[th].op = "new" \/ (call[th].op = "fetch" /\ call[th].i = 3),
         NEW v, call[th].v = v, NEW x, call[th].x = x
  PROVE  CountsInv'
<1>1. /\ BecomesCall(th, Idle)
      /\ Idle.op = "idle" /\ Idle.v = NoVec /\ Idle.x = NoInst /\ Idle.i = 1
      /\ NoVec \notin Vecs /\ NoInst \notin Insts
  BY IdleSet
<1>2. v \in Vecs /\ v \in heap /\ v # NoVec /\ x \in Insts
  BY SafeFacts, CallFacts DEF VectorInv
<1>3. /\ fVector[x] = NoVec /\ fVector'[x] = v /\ \A y \in Insts \ {x} : fVector'[y] = fVector[y]
      /\ objs' = objs \cup {<<th, x>>} /\ UNCHANGED <<started, raced, cloned>>
  BY <1>2 DEF Construct, VectorInv, StateOK, CountsInv, FreshInv, Fresh, Op, Vec, Obj
<1>4. \A u \in Threads : <<u, x>> \notin objs /\ (call[u].x = x => u = th)
  BY DEF CountsInv, FreshInv, Fresh, Op, Obj
<1> USE <1>1 DEF CountsInv, BecomesCall, Op, Vec, Obj, Pos
<1>5. ObjsOK'
  BY <1>2, <1>3 DEF ObjsOK
<1>6. \A u \in Threads : u # th /\ call[u].op # "idle" => call[u].x \in Insts \ {x}
  BY <1>4, CallFacts DEF VectorInv
<1>7. FreshInv' /\ DestroyInv' /\ MethodInv'
  <2>1. FreshInv'
    BY <1>3, <1>6 DEF FreshInv, Fresh
  <2>2. DestroyInv'
    BY <1>3, <1>6 DEF DestroyInv, Destroying
  <2>3. MethodInv'
    BY <1>3, <1>6 DEF MethodInv
  <2> QED BY <2>1, <2>2, <2>3
<1>8. \A y : Destroyed(y)' <=> Destroyed(y)
  BY DEF Destroyed, Destroying
<1>9. ObjInv'
  <2>1. ASSUME NEW y \in Insts, fVector'[y] # NoVec
        PROVE  Destroyed(y) \/ \E u \in Threads : <<u, y>> \in objs'
    <3>1. CASE y = x BY <1>3, <3>1
    <3>2. CASE y # x BY <1>3, <2>1, <3>2 DEF ObjInv
    <3> QED BY <3>1, <3>2
  <2> QED BY <1>8, <2>1 DEF ObjInv
<1>10. UnclonedInv'
  <2>1. ASSUME NEW u \in Threads, NEW y \in Insts, <<u, y>> \in objs', y \notin cloned'
        PROVE  fVector'[y] # NoVec /\ ~Destroyed(y) /\ \A w \in Threads : <<w, y>> \in objs' => w = u
    <3>1. CASE y = x
      BY <1>2, <1>3, <1>4, <2>1, <3>1 DEF Destroyed, Destroying
    <3>2. CASE y # x
      BY <1>3, <2>1, <3>2 DEF UnclonedInv
    <3> QED BY <3>1, <3>2
  <2> QED BY <1>8, <2>1 DEF UnclonedInv
<1>11. CountInv'
  <2>1. \A y : Uncounted(y)' <=> Uncounted(y)
    BY DEF Uncounted
  <2>2. \A y, w : y # x => (Coming(y, w)' <=> Coming(y, w))
    BY DEF Coming
  <2>3. ~Uncounted(x) /\ Coming(x, v) /\ (\A w : Coming(x, w) => w = v) /\ \A w : ~Coming(x, w)'
    BY <1>4 DEF Uncounted, Coming
  <2>4. ASSUME NEW w \in heap PROVE Counted(w)' = Counted(w)
    <3>1. w # NoVec
      BY SharedVectorAssumption DEF VectorInv, StateOK
    <3>2. \A y \in Insts : y \in Counted(w)' <=> y \in Counted(w)
      BY <1>3, <2>1, <2>2, <2>3, <3>1 DEF Counted
    <3> QED BY <3>2 DEF Counted
  <2> QED BY <2>4 DEF CountInv
<1>12. CountReadInv' /\ ApartInv' /\ AloneInv'
  BY <1>3 DEF CountReadInv, ApartInv, AloneInv, Destroying, VectorInv, StateOK
<1>13. LastInv'
  BY <1>2, <1>3 DEF LastInv
<1> QED
  BY <1>5, <1>7, <1>9, <1>10, <1>11, <1>12, <1>13

\* push and access return.
LEMMA CountReturn ==
  ASSUME CountsInv, VectorInv, NEW th \in Threads, call' = [call EXCEPT ![th] = Idle],
         UNCHANGED <<heap, refs, objVars>>, call[th].op \in {"push", "access"}
  PROVE  CountsInv'
<1>1. /\ BecomesCall(th, Idle)
      /\ Idle.op = "idle" /\ Idle.v = NoVec /\ Idle.x = NoInst /\ Idle.i = 1
      /\ NoVec \notin Vecs /\ NoInst \notin Insts
  BY IdleSet
<1> USE <1>1 DEF CountsInv, BecomesCall, objVars, Op, Vec, Obj, Pos
<1>2. ObjsOK' /\ DestroyInv' /\ MethodInv'
  BY DEF ObjsOK, DestroyInv, MethodInv, Destroying
<1>3. FreshInv'
  BY CallFacts DEF FreshInv, Fresh, VectorInv
<1>4. \A y : (Destroyed(y)' <=> Destroyed(y)) /\ (Uncounted(y)' <=> Uncounted(y))
  BY DEF Destroyed, Destroying, Uncounted
<1>5. ObjInv' /\ UnclonedInv'
  BY <1>4 DEF ObjInv, UnclonedInv
<1>6. CountInv'
  <2>1. \A y, w : Coming(y, w)' <=> Coming(y, w)
    BY DEF Coming
  <2>2. \A w : Counted(w)' = Counted(w)
    BY <1>4, <2>1 DEF Counted
  <2> QED BY <2>2 DEF CountInv
<1>7. CountReadInv' /\ ApartInv' /\ AloneInv'
  BY DEF CountReadInv, ApartInv, AloneInv, Destroying, VectorInv, StateOK
<1>8. LastInv'
  BY DEF LastInv
<1> QED
  BY <1>2, <1>3, <1>5, <1>6, <1>7, <1>8

\* The destructor decides on the count that it has read.
LEMMA CountDecide ==
  ASSUME CountsInv, VectorInv, Safe, NEW th \in Threads, NEW c, c = AfterRefCount(call[th]),
         call' = [call EXCEPT ![th] = c],
         UNCHANGED <<heap, refs, objVars>>, call[th].op = "destroy", call[th].i = 3,
         NEW v, call[th].v = v
  PROVE  CountsInv'
<1>1. /\ c.op = (IF call[th].n = 1 THEN "delete" ELSE "decrement")
      /\ c.v = v /\ c.x = call[th].x /\ c.i = 1
  BY DEF AfterRefCount, Call
<1>2. \A u \in Threads : call'[u] = IF u = th THEN c ELSE call[u]
  BY DEF VectorInv, CallsOK
<1>3. v \in heap /\ v \in Vecs
  BY SafeFacts
<1> USE <1>1, <1>2 DEF CountsInv, objVars, Op, Vec, Obj, Pos
<1>4. call[th].n = refs[v] /\ refs[v] \in Nat /\ (v \notin raced => refs[v] > 0)
  BY <1>3 DEF CountReadInv, AloneInv, VectorInv, StateOK
<1>5. ObjsOK' /\ FreshInv' /\ DestroyInv' /\ MethodInv'
  BY DEF ObjsOK, FreshInv, Fresh, DestroyInv, MethodInv, Destroying
<1>6. \A y : (Destroyed(y)' <=> Destroyed(y)) /\ (Uncounted(y)' <=> Uncounted(y))
  BY DEF Destroyed, Destroying, Uncounted
<1>7. ObjInv' /\ UnclonedInv'
  BY <1>6 DEF ObjInv, UnclonedInv
<1>8. CountInv'
  <2>1. \A y, w : Coming(y, w)' <=> Coming(y, w)
    BY DEF Coming
  <2>2. \A w : Counted(w)' = Counted(w)
    BY <1>6, <2>1 DEF Counted
  <2> QED BY <2>2 DEF CountInv
<1>9. CountReadInv' /\ ApartInv' /\ LastInv'
  BY DEF CountReadInv, ApartInv, LastInv, Destroying
<1>10. AloneInv'
  BY <1>4 DEF AloneInv
<1> QED
  BY <1>5, <1>7, <1>8, <1>9, <1>10

\* A vector that is deleted while no other destructor runs has one instance
\* that is counted: the one that is being destroyed.
LEMMA LastOne ==
  ASSUME CountsInv, VectorInv, Safe, NEW th \in Threads, call[th].op = "delete",
         NEW v, call[th].v = v, v \notin raced
  PROVE  /\ \A y \in Insts : fVector[y] = v \/ Coming(y, v) => y = call[th].x
<1> USE DEF CountsInv, Op, Vec, Obj, Pos
<1>1. v \in heap /\ v \in Vecs /\ v # NoVec
  BY SafeFacts
<1>2. refs[v] = 1 /\ refs[v] = Cardinality(Counted(v))
  BY <1>1 DEF AloneInv, CountInv
<1>3. \A y \in Insts : fVector[y] = v => ~Uncounted(y)
  <2> SUFFICES ASSUME NEW y \in Insts, fVector[y] = v, NEW u \in Threads,
                      call[u].op = "decrement", call[u].x = y
               PROVE  FALSE
    BY DEF Uncounted
  <2>1. call[u].v = v /\ u # th
    BY DEF DestroyInv, Destroying
  <2> QED BY <2>1 DEF ApartInv, Destroying
<1>4. call[th].x \in Insts /\ fVector[call[th].x] = v
  BY CallFacts DEF DestroyInv, Destroying, VectorInv
<1>5. PICK z : Counted(v) = {z}
  BY <1>2, CountedFinite, FS_Singleton
<1> QED
  BY <1>3, <1>4, <1>5 DEF Counted

\* The destructor is through: the instance is freed, and the vector if it has
\* been deleted.
LEMMA CountFree ==
  ASSUME CountsInv, VectorInv, Safe, NEW th \in Threads, Free(call[th]),
         call' = [call EXCEPT ![th] = Idle], UNCHANGED refs,
         call[th].op = "delete" \/ (call[th].op = "decrement" /\ call[th].i = 3),
         NEW v, call[th].v = v, NEW x, call[th].x = x
  PROVE  CountsInv'
<1>1. /\ BecomesCall(th, Idle)
      /\ Idle.op = "idle" /\ Idle.v = NoVec /\ Idle.x = NoInst /\ Idle.i = 1
      /\ NoVec \notin Vecs /\ NoInst \notin Insts
  BY IdleSet
<1>2. v \in Vecs /\ v \in heap /\ v # NoVec /\ x \in Insts
  BY SafeFacts, CallFacts DEF VectorInv
<1> USE <1>1 DEF CountsInv, BecomesCall, Op, Vec, Obj, Pos
<1>3. /\ fVector[x] = v /\ fVector'[x] = NoVec /\ \A y \in Insts \ {x} : fVector'[y] = fVector[y]
      /\ heap' = (IF call[th].op = "delete" THEN heap \ {v} ELSE heap)
      /\ UNCHANGED <<objs, started, raced, cloned>>
  BY <1>2 DEF Free, DestroyInv, Destroying, VectorInv, StateOK
\* Nobody else destroys the instance, and nobody makes it.
<1>4. \A u \in Threads : u # th /\ call[u].x = x => call[u].op \notin Destroying \cup {"new", "fetch"}
  BY DEF Safe, Destroying, FreshInv, Fresh
<1>5. \A u \in Threads : u # th /\ call[u].op # "idle" => call[u].x \in Insts
  BY CallFacts DEF VectorInv
<1>6. ObjsOK'
  BY <1>3 DEF ObjsOK
<1>7. FreshInv'
  BY <1>3, <1>4, <1>5 DEF FreshInv, Fresh
<1>8. DestroyInv'
  BY <1>3, <1>4, <1>5 DEF DestroyInv, Destroying
<1>9. Destroyed(x) /\ \A y : y # x => (Destroyed(y)' <=> Destroyed(y))
  BY DEF Destroyed, Destroying
<1>10. ~Destroyed(x)'
  BY <1>4 DEF Destroyed, Destroying
<1>11. \A u \in Threads : <<u, x>> \in objs => x \in cloned
  BY <1>2, <1>9 DEF UnclonedInv
<1>12. MethodInv'
  BY <1>3, <1>5, <1>11 DEF MethodInv
<1>13. ObjInv' /\ UnclonedInv'
  <2>1. ObjInv'
    BY <1>3, <1>9 DEF ObjInv
  <2>2. ASSUME NEW u \in Threads, NEW y \in Insts, <<u, y>> \in objs', y \notin cloned'
        PROVE  fVector'[y] # NoVec /\ ~Destroyed(y)' /\ \A w \in Threads : <<w, y>> \in objs' => w = u
    <3>1. y # x
      BY <1>3, <1>11, <2>2
    <3> QED BY <1>3, <1>9, <2>2, <3>1 DEF UnclonedInv
  <2> QED BY <2>1, <2>2 DEF UnclonedInv
<1>14. CountInv'
  <2>1. \A y : y # x => (Uncounted(y)' <=> Uncounted(y))
    BY DEF Uncounted
  <2>2. \A y, w : Coming(y, w)' <=> Coming(y, w)
    BY DEF Coming
  <2>3. \A w : ~Coming(x, w)
    BY <1>4 DEF Coming
  <2>4. ASSUME NEW w \in heap' PROVE Counted(w)' = Counted(w)
    <3>1. w # NoVec /\ (w # v \/ Uncounted(x))
      BY <1>3, SharedVectorAssumption DEF VectorInv, StateOK, Uncounted
    <3>2. \A y \in Insts : y \in Counted(w)' <=> y \in Counted(w)
      BY <1>3, <2>1, <2>2, <2>3, <3>1 DEF Counted
    <3> QED BY <3>2 DEF Counted
  <2> QED BY <1>3, <2>4 DEF CountInv
<1>15. CountReadInv' /\ ApartInv' /\ AloneInv'
  BY <1>3 DEF CountReadInv, ApartInv, AloneInv, Destroying, VectorInv, StateOK
<1>16. LastInv'
  <2>1. ASSUME NEW y \in Insts, fVector'[y] # NoVec, fVector'[y] \notin raced'
        PROVE  fVector'[y] \in heap'
    <3>1. y # x /\ fVector'[y] = fVector[y] /\ fVector[y] \in heap
      BY <1>3, <2>1 DEF LastInv
    <3>2. call[th].op = "delete" => fVector[y] # v
      BY <1>3, <2>1, <3>1, LastOne
    <3> QED BY <1>3, <3>1, <3>2
  <2>2. ASSUME NEW u \in Threads, Op(u)' # "idle", Obj(u)' \notin cloned', Vec(u)' \notin raced'
        PROVE  Vec(u)' \in heap'
    <3>1. u # th /\ call'[u] = call[u] /\ call[u].v \in heap
      BY <1>3, <2>2 DEF LastInv
    <3>2. ASSUME call[th].op = "delete", call[u].v = v PROVE FALSE
      <4>1. call[u].op \notin {"fetch"} \cup Destroying
        BY <1>3, <2>2, <3>1, <3>2 DEF ApartInv, Destroying
      <4>2. ASSUME call[u].op \in {"push", "access"} PROVE FALSE
        <5>1. <<u, call[u].x>> \in objs /\ fVector[call[u].x] = v /\ call[u].x \in Insts
          BY <1>3, <1>5, <2>2, <3>1, <3>2, <4>2 DEF MethodInv
        <5>2. call[u].x = x
          BY <1>3, <2>2, <3>1, <3>2, <5>1, LastOne
        <5> QED BY <1>3, <1>11, <2>2, <3>1, <5>1, <5>2
      <4>3. ASSUME call[u].op = "new" PROVE FALSE
        <5>1. Coming(call[u].x, v) /\ call[u].x \in Insts
          BY <1>5, <3>1, <3>2, <4>3 DEF Coming
        <5>2. call[u].x = x
          BY <1>3, <2>2, <3>1, <3>2, <5>1, LastOne
        <5> QED BY <1>4, <3>1, <4>3, <5>2
      <4> QED BY <2>2, <3>1, <4>1, <4>2, <4>3, CallFacts DEF Ops, Destroying, VectorInv
    <3> QED BY <1>3, <3>1, <3>2
  <2> QED BY <2>1, <2>2 DEF LastInv
<1> QED
  BY <1>6, <1>7, <1>8, <1>12, <1>13, <1>14, <1>15, <1>16

LEMMA CountReleaseGlobal ==
  ASSUME CountsInv, VectorInv, Safe, NEW th \in Threads, ReleaseGlobal(th)
  PROVE  CountsInv'
<1>1. At(th, "ReleaseGlobal") /\ UNCHANGED <<heap, refs>>
  BY DEF ReleaseGlobal, vecVars
<1>2. /\ call[th].v \in Vecs /\ <<call[th].op, call[th].i>> \in {<<"new", 4>>, <<"delete", 8>>}
      /\ call[th].op = "delete" => Length(th) = 9
  <2>1. Vec(th) \in Vecs /\ PlaceOf(th, "ReleaseGlobal")
    BY <1>1, Places
  <2> QED BY <2>1 DEF PlaceOf, Op, Vec, Pos
<1>3. CASE call[th].op = "new"
  BY <1>1, <1>3, CountConstruct DEF ReleaseGlobal
<1>4. CASE call[th].op = "delete"
  <2>1. Advance(th) /\ UNCHANGED objVars
    BY <1>4 DEF ReleaseGlobal
  <2>2. MayMove(th)
    BY <1>2, <1>4 DEF MayMove
  <2>3. Moved(th, call[th].n)
    BY <2>1, <2>2, AdvanceSet DEF VectorInv
  <2> QED BY <1>1, <1>4, <2>1, <2>3, QuietMove DEF Op, Vec, Pos
<1> QED
  BY <1>2, <1>3, <1>4

LEMMA CountRelease ==
  ASSUME CountsInv, VectorInv, Safe, NEW th \in Threads, Release(th)
  PROVE  CountsInv'
<1>1. UNCHANGED refs
  BY DEF Release
<1>2. CASE call[th].op = "delete" /\ call[th].i = 6
  <2>1. Length(th) = 9 /\ call[th].v \in Vecs
    BY <1>2, ReleasePlaces
  <2>2. Advance(th) /\ UNCHANGED <<heap, objVars>>
    BY <1>2, <2>1 DEF Release, Last, Length, Advance
  <2>3. MayMove(th)
    BY <1>2, <2>1 DEF MayMove
  <2>4. Moved(th, call[th].n)
    BY <2>2, <2>3, AdvanceSet DEF VectorInv
  <2> QED BY <1>1, <1>2, <2>2, <2>4, QuietMove DEF Op, Vec, Pos
<1>3. CASE ~(call[th].op = "delete" /\ call[th].i = 6)
  <2>1. Last(th) /\ <<call[th].op, call[th].i>> \in {<<"push", 4>>, <<"access", 3>>, <<"fetch", 3>>,
                                      <<"decrement", 3>>, <<"destroy", 3>>, <<"delete", 9>>}
    BY <1>3, ReleasePlaces DEF Last, Length
  <2>2. CASE call[th].op \in {"push", "access"}
    BY <1>1, <2>1, <2>2, CountReturn DEF Release, Destroying
  <2>3. CASE call[th].op = "fetch"
    BY <1>1, <2>1, <2>3, CountConstruct DEF Release
  <2>4. CASE call[th].op = "destroy"
    BY <1>1, <2>1, <2>4, CountDecide DEF Release, Destroying
  <2>5. CASE call[th].op \in {"decrement", "delete"}
    BY <1>1, <2>1, <2>5, CountFree DEF Release, Destroying
  <2> QED BY <2>1, <2>2, <2>3, <2>4, <2>5
<1> QED
  BY <1>2, <1>3

-----------------------------------------------------------------------------
(* Calls from Perl.                                                        *)

LEMMA CountMethod ==
  ASSUME CountsInv, VectorInv, NEW th \in Threads, Method(th)
  PROVE  CountsInv'
<1>1. UNCHANGED <<heap, refs, objVars>>
  BY DEF Method, vecVars
<1>2. PICK x \in Insts, op \in {"push", "access"} : <<th, x>> \in objs /\ Begin(th, op, fVector[x], x)
  BY DEF Method
<1> DEFINE c == Call(op, fVector[x], x)
<1>3. /\ BecomesCall(th, c) /\ call[th].op = "idle"
      /\ c.op = op /\ c.v = fVector[x] /\ c.x = x /\ c.i = 1
  <2>1. fVector[x] \in Vecs \cup {NoVec}
    BY DEF VectorInv, StateOK
  <2> QED BY <1>2, <2>1, BeginCall DEF Ops
<1> HIDE DEF c
<1> USE <1>1, <1>2, <1>3 DEF CountsInv, BecomesCall, objVars, Op, Vec, Obj, Pos
<1>4. ObjsOK' /\ FreshInv' /\ DestroyInv' /\ MethodInv'
  <2>1. ObjsOK' /\ DestroyInv' /\ MethodInv'
    BY DEF ObjsOK, DestroyInv, MethodInv, Destroying
  <2>2. FreshInv'
    BY DEF FreshInv, Fresh
  <2> QED BY <2>1, <2>2
<1>5. \A y : (Destroyed(y)' <=> Destroyed(y)) /\ (Uncounted(y)' <=> Uncounted(y))
  BY DEF Destroyed, Destroying, Uncounted
<1>6. ObjInv' /\ UnclonedInv'
  BY <1>5 DEF ObjInv, UnclonedInv
<1>7. CountInv'
  <2>1. \A y, w : Coming(y, w)' <=> Coming(y, w)
    BY DEF Coming
  <2>2. \A w : Counted(w)' = Counted(w)
    BY <1>5, <2>1 DEF Counted
  <2> QED BY <2>2 DEF CountInv
<1>8. CountReadInv' /\ ApartInv' /\ AloneInv'
  BY DEF CountReadInv, ApartInv, AloneInv, Destroying
<1>9. LastInv'
  BY DEF LastInv, UnclonedInv
<1> QED
  BY <1>4, <1>6, <1>7, <1>8, <1>9

LEMMA CountFetch ==
  ASSUME CountsInv, VectorInv, NEW th \in Threads, Fetch(th)
  PROVE  CountsInv'
<1>1. UNCHANGED <<heap, refs, fVector, objs, started>>
  BY DEF Fetch, vecVars
<1>2. PICK i \in Ids, x \in Insts :
        /\ registry[i] # NoVec /\ UnusedInst(x) /\ Begin(th, "fetch", registry[i], x)
        /\ raced' = (IF InCall(Destroying, registry[i]) # {} THEN raced \cup {registry[i]} ELSE raced)
        /\ cloned' = cloned \ {x}
  BY DEF Fetch
<1> DEFINE v == registry[i]
           c == Call("fetch", v, x)
<1>3. /\ BecomesCall(th, c) /\ call[th].op = "idle"
      /\ c.op = "fetch" /\ c.v = v /\ c.x = x /\ c.i = 1
  <2>1. v \in Vecs
    BY <1>2 DEF VectorInv, StateOK
  <2> QED BY <1>2, <2>1, BeginCall DEF Ops
<1>4. th \in started /\ v \in heap
  BY <1>2 DEF Begin, VectorInv, RegistryInv
<1> HIDE DEF c, v
<1>5. /\ raced' = (IF InCall(Destroying, v) # {} THEN raced \cup {v} ELSE raced)
      /\ raced \subseteq raced'
  BY <1>2 DEF v
<1>6. fVector[x] = NoVec /\ \A u \in Threads : <<u, x>> \notin objs /\ call[u].x # x
  BY <1>2 DEF UnusedInst
<1> USE <1>1, <1>3, <1>5, <1>6 DEF CountsInv, BecomesCall, Op, Vec, Obj, Pos
<1>7. ObjsOK' /\ DestroyInv'
  BY <1>4 DEF ObjsOK, DestroyInv, Destroying
<1>8. FreshInv'
  <2> SUFFICES ASSUME NEW u \in Threads, Fresh(u)'
               PROVE  /\ fVector[call'[u].x] = NoVec
                      /\ \A w \in Threads :
                           /\ <<w, call'[u].x>> \notin objs
                           /\ call'[w].x = call'[u].x => w = u
    BY DEF FreshInv
  <2>1. CASE u = th
    BY <2>1
  <2>2. CASE u # th
    <3>1. call'[u] = call[u] /\ Fresh(u) /\ call[u].x # x
      BY <2>2 DEF Fresh
    <3>2. /\ fVector[call[u].x] = NoVec
          /\ \A w \in Threads : <<w, call[u].x>> \notin objs
          /\ \A w \in Threads : call[w].x = call[u].x => w = u
      BY <3>1 DEF FreshInv
    <3>3. \A w \in Threads : call'[w].x = call[w].x \/ call'[w].x = x
      OBVIOUS
    <3> QED BY <3>1, <3>2, <3>3
  <2> QED BY <2>1, <2>2
<1>9. MethodInv'
  BY <1>2 DEF MethodInv
<1>10. \A y : (Destroyed(y)' <=> Destroyed(y)) /\ (Uncounted(y)' <=> Uncounted(y))
  BY DEF Destroyed, Destroying, Uncounted
<1>11. ObjInv' /\ UnclonedInv'
  <2>1. ObjInv'
    BY <1>10 DEF ObjInv
  <2>2. \A u \in Threads, y \in Insts : <<u, y>> \in objs' /\ y \notin cloned' => y \notin cloned
    BY <1>2
  <2> QED BY <1>10, <2>1, <2>2 DEF UnclonedInv
<1>12. CountInv'
  <2>1. \A y, w : Coming(y, w)' <=> Coming(y, w)
    BY DEF Coming
  <2>2. \A w : Counted(w)' = Counted(w)
    BY <1>10, <2>1 DEF Counted
  <2> QED BY <2>2 DEF CountInv
<1>13. CountReadInv' /\ AloneInv'
  BY DEF CountReadInv, AloneInv
<1>14. ApartInv'
  BY DEF ApartInv, InCall, Destroying
<1>15. LastInv'
  BY <1>2, <1>4 DEF LastInv
<1> QED
  BY <1>7, <1>8, <1>9, <1>11, <1>12, <1>13, <1>14, <1>15

LEMMA CountDestroy ==
  ASSUME CountsInv, VectorInv, NEW th \in Threads, Destroy(th)
  PROVE  CountsInv'
<1>1. UNCHANGED <<heap, refs, fVector, started, cloned>>
  BY DEF Destroy, vecVars
<1>2. PICK x \in Insts :
        /\ <<th, x>> \in objs /\ Begin(th, "destroy", fVector[x], x) /\ objs' = objs \ {<<th, x>>}
        /\ raced' = (IF InCall(Destroying \cup {"fetch"}, fVector[x]) # {}
                     THEN raced \cup {fVector[x]} ELSE raced)
  BY DEF Destroy
<1> DEFINE v == fVector[x]
           c == Call("destroy", v, x)
<1>3. /\ BecomesCall(th, c) /\ call[th].op = "idle"
      /\ c.op = "destroy" /\ c.v = v /\ c.x = x /\ c.i = 1
  <2>1. v \in Vecs \cup {NoVec}
    BY DEF VectorInv, StateOK
  <2> QED BY <1>2, <2>1, BeginCall DEF Ops
<1> HIDE DEF c
<1>4. raced \subseteq raced'
  BY <1>2
<1> USE <1>1, <1>2, <1>3, <1>4 DEF CountsInv, BecomesCall, Op, Vec, Obj, Pos
<1>5. ObjsOK' /\ DestroyInv'
  BY DEF ObjsOK, DestroyInv, Destroying
<1>6. FreshInv'
  BY DEF FreshInv, Fresh
<1>7. MethodInv'
  BY DEF MethodInv
<1>8. \A y : (Destroyed(y)' <=> Destroyed(y) \/ y = x) /\ (Uncounted(y)' <=> Uncounted(y))
  BY DEF Destroyed, Destroying, Uncounted
<1>9. ObjInv'
  BY <1>8 DEF ObjInv
<1>10. UnclonedInv'
  <2> SUFFICES ASSUME NEW u \in Threads, NEW y \in Insts, <<u, y>> \in objs', y \notin cloned'
               PROVE  /\ fVector'[y] # NoVec /\ ~Destroyed(y)'
                      /\ \A w \in Threads : <<w, y>> \in objs' => w = u
    BY DEF UnclonedInv
  <2>1. <<u, y>> \in objs /\ y # x
    BY DEF UnclonedInv
  <2> QED BY <1>8, <2>1 DEF UnclonedInv
<1>11. CountInv'
  <2>1. \A y, w : Coming(y, w)' <=> Coming(y, w)
    BY DEF Coming
  <2>2. \A w : Counted(w)' = Counted(w)
    BY <1>8, <2>1 DEF Counted
  <2> QED BY <2>2 DEF CountInv
<1>12. CountReadInv' /\ AloneInv'
  BY DEF CountReadInv, AloneInv
<1>13. ApartInv'
  BY DEF ApartInv, InCall, Destroying
<1>14. LastInv'
  BY DEF LastInv, UnclonedInv
<1> QED
  BY <1>5, <1>6, <1>7, <1>9, <1>10, <1>11, <1>12, <1>13, <1>14

\* A set of one instance counts for one.
LEMMA CountOne ==
  ASSUME NEW y \in Insts
  PROVE  /\ Cardinality({y}) = 1
         /\ Cardinality({y}) <= Cardinality(Insts)
<1>1. IsFiniteSet(Insts) /\ {y} \subseteq Insts
  BY SharedVectorAssumption
<1>2. Cardinality({y}) <= Cardinality(Insts)
  BY <1>1, FS_Subset
<1> QED BY <1>2, FS_Singleton

LEMMA CountNew ==
  ASSUME CountsInv, VectorInv, Safe, NEW th \in Threads, New(th)
  PROVE  CountsInv'
<1>1. UNCHANGED <<fVector, objs, started>>
  BY DEF New
<1>2. PICK v \in Vecs, x \in Insts :
        /\ UnusedVec(v) /\ UnusedInst(x) /\ Begin(th, "new", v, x) /\ heap' = heap \cup {v}
        /\ refs' = [refs EXCEPT ![v] = 1]
        /\ raced' = raced \ {v} /\ cloned' = cloned \ {x}
  BY DEF New
<1> DEFINE c == Call("new", v, x)
<1>3. /\ BecomesCall(th, c) /\ call[th].op = "idle"
      /\ c.op = "new" /\ c.v = v /\ c.x = x /\ c.i = 1
  BY <1>2, BeginCall DEF Ops
<1>4. th \in started
  BY <1>2 DEF Begin
<1> HIDE DEF c
<1>5. /\ v \notin heap /\ v # NoVec /\ \A y \in Insts : fVector[y] # v
      /\ fVector[x] = NoVec /\ \A u \in Threads : <<u, x>> \notin objs /\ call[u].x # x
      /\ \A u \in Threads : call[u].v # v
  BY <1>2, SafeFacts, CallFacts, SharedVectorAssumption DEF UnusedVec, UnusedInst, VectorInv
<1> USE <1>1, <1>2, <1>3, <1>5 DEF CountsInv, BecomesCall, Op, Vec, Obj, Pos
<1>6. ObjsOK' /\ DestroyInv'
  BY <1>4 DEF ObjsOK, DestroyInv, Destroying
<1>7. FreshInv'
  <2>1. call'[th].x = x /\ \A u \in Threads \ {th} : call'[u] = call[u]
    OBVIOUS
  <2>2. ASSUME NEW u \in Threads, Fresh(u)'
        PROVE  /\ fVector[call'[u].x] = NoVec
               /\ \A w \in Threads : <<w, call'[u].x>> \notin objs
               /\ \A w \in Threads : call'[w].x = call'[u].x => w = u
    <3>1. CASE u = th
      BY <2>1, <3>1
    <3>2. CASE u # th
      <4>1. Fresh(u)
        BY <2>1, <2>2, <3>2 DEF Fresh
      <4>2. /\ fVector[call[u].x] = NoVec
            /\ \A w \in Threads : <<w, call[u].x>> \notin objs /\ (call[w].x = call[u].x => w = u)
        BY <4>1 DEF FreshInv
      <4>3. call[u].x # x
        BY <1>5
      <4> HIDE <1>1, <1>2, <1>3, <1>5
      <4> QED BY <1>1, <2>1, <3>2, <4>2, <4>3
    <3> QED BY <3>1, <3>2
  <2> QED BY <2>2 DEF FreshInv
<1>8. MethodInv'
  BY DEF MethodInv
<1>9. \A y : (Destroyed(y)' <=> Destroyed(y)) /\ (Uncounted(y)' <=> Uncounted(y))
  BY DEF Destroyed, Destroying, Uncounted
<1>10. ObjInv' /\ UnclonedInv'
  <2>1. ObjInv'
    BY <1>9 DEF ObjInv
  <2>2. \A u \in Threads, y \in Insts : <<u, y>> \in objs' /\ y \notin cloned' => y \notin cloned
    OBVIOUS
  <2> QED BY <1>9, <2>1, <2>2 DEF UnclonedInv
<1>11. \A w \in Vecs \ {v} : refs'[w] = refs[w]
  BY DEF VectorInv, StateOK
<1>12. refs'[v] = 1
  BY DEF VectorInv, StateOK
<1>13. CountInv'
  <2>1. \A y, w : Coming(y, w)' <=> Coming(y, w) \/ (y = x /\ w = v)
    BY DEF Coming
  <2>2. \A y : ~Coming(y, v)
    BY DEF Coming
  <2>3. Counted(v)' = {x}
    BY <1>9, <2>1, <2>2 DEF Counted
  <2>4. \A w \in heap \ {v} : Counted(w)' = Counted(w)
    BY <1>9, <2>1 DEF Counted
  <2>5. refs'[v] = Cardinality(Counted(v)') /\ 1 \in 0 .. Cardinality(Insts)
    <3>1. Cardinality(Counted(v)') = 1
      BY <2>3, CountOne
    <3>2. Cardinality({x}) = 1 /\ Cardinality({x}) <= Cardinality(Insts)
      BY CountOne
    <3>3. Cardinality(Insts) \in Nat
      BY FS_CardinalityType, SharedVectorAssumption
    <3> QED BY <1>12, <3>1, <3>2, <3>3
  <2>6. refs' \in [Vecs -> 0 .. Cardinality(Insts)]
    BY <2>5 DEF CountInv
  <2>7. ASSUME NEW w \in heap' PROVE refs'[w] = Cardinality(Counted(w)')
    <3>1. CASE w = v BY <2>5, <3>1
    <3>2. CASE w # v
      BY <1>11, <2>4, <3>2 DEF CountInv, VectorInv, StateOK
    <3> QED BY <3>1, <3>2
  <2> QED BY <2>6, <2>7 DEF CountInv
<1>14. CountReadInv'
  <2>1. \A u \in Threads : u # th /\ call[u].op # "idle" => call[u].v \in Vecs \ {v}
    BY SafeFacts
  <2> QED BY <1>11, <2>1 DEF CountReadInv
<1>15. ApartInv'
  BY DEF ApartInv, Destroying
<1>16. AloneInv'
  <2>1. \A w \in heap' \ raced' : refs'[w] > 0
    BY <1>11, <1>12 DEF AloneInv, VectorInv, StateOK
  <2>2. \A u \in Threads : u # th /\ Vec(u) \in heap' \ raced' => Vec(u) \in heap \ raced /\ refs'[Vec(u)] = refs[Vec(u)]
    BY <1>11 DEF VectorInv, StateOK
  <2> QED BY <2>1, <2>2 DEF AloneInv
<1>17. LastInv'
  BY SafeFacts DEF LastInv
<1> QED
  BY <1>6, <1>7, <1>8, <1>10, <1>13, <1>14, <1>15, <1>16, <1>17

\* threads->new: the instances of the thread are cloned, and nothing counts it.
LEMMA CountSpawn ==
  ASSUME CountsInv, VectorInv, NEW th \in Threads, Spawn(th)
  PROVE  CountsInv'
<1> DEFINE mine == {x \in Insts : <<th, x>> \in objs}
<1>1. UNCHANGED <<call, heap, refs, fVector, raced>>
  BY DEF Spawn, vecVars
<1>2. PICK u \in Threads \ started :
        /\ started' = started \cup {u} /\ objs' = objs \cup ({u} \X mine) /\ cloned' = cloned \cup mine
  BY DEF Spawn
<1> USE <1>1, <1>2 DEF CountsInv, Op, Vec, Obj, Pos
<1>3. ObjsOK'
  BY DEF ObjsOK
<1>4. \A w \in Threads, y \in Insts : <<w, y>> \in objs' => <<w, y>> \in objs \/ (<<th, y>> \in objs /\ y \in cloned')
  OBVIOUS
<1>5. \A w \in Threads, y \in Insts : <<w, y>> \in objs => <<w, y>> \in objs'
  OBVIOUS
<1>6. \A y : y \notin cloned' => y \notin cloned
  OBVIOUS
<1> HIDE <1>2 DEF mine
<1>7. FreshInv'
  <2>1. \A w \in Threads : Fresh(w) => call[w].x \in Insts
    BY CallFacts DEF Fresh, VectorInv
  <2> QED BY <1>4, <2>1 DEF FreshInv, Fresh
<1>8. DestroyInv' /\ MethodInv'
  <2>1. \A w \in Threads : call[w].op \in {"push", "access"} => call[w].x \in Insts
    BY CallFacts DEF VectorInv
  <2> QED BY <1>5, <1>6, <2>1 DEF DestroyInv, MethodInv
<1>9. \A y : (Destroyed(y)' <=> Destroyed(y)) /\ (Uncounted(y)' <=> Uncounted(y))
  BY DEF Destroyed, Uncounted
<1>10. ObjInv' /\ UnclonedInv'
  <2>1. ObjInv'
    BY <1>5, <1>9 DEF ObjInv
  <2>2. UnclonedInv'
    BY <1>4, <1>6, <1>9 DEF UnclonedInv
  <2> QED BY <2>1, <2>2
<1>11. CountInv'
  <2>1. \A y, w : Coming(y, w)' <=> Coming(y, w)
    BY DEF Coming
  <2>2. \A w : Counted(w)' = Counted(w)
    BY <1>9, <2>1 DEF Counted
  <2> QED BY <2>2 DEF CountInv
<1>12. CountReadInv' /\ ApartInv' /\ AloneInv' /\ LastInv'
  BY <1>6 DEF CountReadInv, ApartInv, AloneInv, LastInv
<1> QED
  BY <1>3, <1>7, <1>8, <1>10, <1>11, <1>12

-----------------------------------------------------------------------------
(* The theorems.                                                           *)

LEMMA CountsInvInit == Init => CountsInv
<1> SUFFICES ASSUME Init PROVE CountsInv
  OBVIOUS
<1> USE SharedVectorAssumption DEF Init, Op, Vec, Obj, Pos
<1>1. \A th \in Threads : call[th].op = "idle"
  BY DEF Idle, Call
<1>2. ObjsOK /\ FreshInv /\ DestroyInv /\ MethodInv /\ ObjInv /\ UnclonedInv
  BY <1>1 DEF ObjsOK, FreshInv, Fresh, DestroyInv, Destroying, MethodInv, ObjInv, UnclonedInv
<1>3. CountInv
  <2>1. 0 \in 0 .. Cardinality(Insts)
    BY FS_CardinalityType
  <2> QED BY <2>1 DEF CountInv
<1>4. CountReadInv /\ ApartInv /\ AloneInv /\ LastInv
  BY <1>1 DEF CountReadInv, ApartInv, Destroying, AloneInv, LastInv
<1> QED
  BY <1>2, <1>3, <1>4 DEF CountsInv

LEMMA CountsInvStep ==
  ASSUME CountsInv, VectorInv, [Next]_vars
  PROVE  CountsInv'
<1>1. ASSUME Safe, NEW th \in Threads, Step(th) PROVE CountsInv'
  BY <1>1, CountAcquire, CountAcquireGlobal, CountReleaseGlobal, CountRelease, CountRead, CountPush,
     CountGetNewId, CountInsert, CountIncrement, CountGetRefCount, CountDecrement,
     CountDeleteContainer, CountGetId, CountErase DEF Step
<1>2. CASE UNCHANGED vars
  BY <1>2, CountAsleep DEF vars, objVars
<1> QED
  BY <1>1, <1>2, CountMethod, CountNew, CountFetch, CountDestroy, CountSpawn DEF Next

LEMMA CountsInvHolds == Spec => [](VectorInv /\ CountsInv)
<1>1. Init => CountsInv
  BY CountsInvInit
<1>2. VectorInv /\ CountsInv /\ [Next]_vars => CountsInv'
  BY CountsInvStep
<1> QED
  BY <1>1, <1>2, VectorInvHolds, PTL DEF Spec

\* Every thread is at a place of its method, no lock is held more than twice
\* over, and no count exceeds the number of instances.
\* About: every instruction of the class, GetNewId's search of the registry
\* for a free id included: there is one whenever a vector has been made.
THEOREM TypeCorrect == Spec => []TypeOK
<1>1. ASSUME VectorInv, CountsInv PROVE TypeOK
  <2>1. ASSUME NEW th \in Threads
        PROVE  /\ call[th].op \in DOMAIN Code /\ call[th].v \in Vecs \cup {NoVec}
               /\ call[th].x \in Insts \cup {NoInst}
               /\ call[th].i \in 1 .. Len(Code[call[th].op]) + 1
    <3>1. call[th] \in CallType /\ Proper(call[th])
      BY <1>1 DEF VectorInv, CallsOK
    <3>2. Len(Code[call[th].op]) \in Nat
      BY <3>1, CodeDomain, CodeSteps DEF CallType, Ops
    <3>3. call[th].i \in 1 .. Len(Code[call[th].op]) + 1
      BY <3>1, <3>2 DEF Proper, Idle, Call
    <3> QED BY <3>1, <3>3 DEF CallType
  <2> QED BY <1>1, <2>1 DEF TypeOK, VectorInv, StateOK, CountsInv, CountInv, ObjsOK
<1> QED
  BY <1>1, CountsInvHolds, PTL

\* A destructor that runs alone finds in fRefCount how many instances lead to
\* its vector, so the last one deletes it: a vector of which no destructors
\* have overlapped is never left without an object.
\* About: the constructor and the destructor of SharedVectorInstance.
THEOREM NoneForgotten == Spec => []NoLeak
<1>1. ASSUME VectorInv, CountsInv, NEW v \in heap \ raced,
             InCall({"new", "fetch"} \cup Destroying, v) = {}
      PROVE  \E o \in objs : fVector[o[2]] = v
  <2> USE <1>1 DEF CountsInv, VectorInv
  <2>1. v # NoVec /\ refs[v] > 0 /\ refs[v] = Cardinality(Counted(v))
    BY SharedVectorAssumption DEF AloneInv, CountInv, StateOK
  <2>2. PICK x : x \in Counted(v)
    BY <2>1, FS_EmptySet
  <2>3. x \in Insts /\ fVector[x] = v
    BY <2>2 DEF Counted, Coming, InCall, Op, Vec
  <2>4. ~Destroyed(x)
    BY <2>3 DEF Destroyed, DestroyInv, InCall, Op, Obj, Vec
  <2>5. PICK th \in Threads : <<th, x>> \in objs
    BY <2>1, <2>3, <2>4 DEF ObjInv
  <2> QED BY <2>3, <2>5
<1>2. VectorInv /\ CountsInv => NoLeak
  BY <1>1 DEF NoLeak
<1> QED
  BY <1>2, CountsInvHolds, PTL

\* The destructor that deletes a vector, if it overlaps with no other one and
\* with no new($id), is that of the last instance: no object that has not been
\* cloned, and no call on one, is left with freed memory.
\* About: the count that ~SharedVectorInstance reads before it acts.
THEOREM NoneDangles == Spec => []NoDangling
<1>1. ASSUME VectorInv, CountsInv, NEW o \in objs, o[2] \notin cloned, fVector[o[2]] \notin raced
      PROVE  fVector[o[2]] \in heap
  <2>1. PICK th \in Threads, x \in Insts : o = <<th, x>>
    BY <1>1 DEF CountsInv, ObjsOK
  <2> QED BY <1>1, <2>1 DEF CountsInv, UnclonedInv, LastInv
<1>2. ASSUME VectorInv, CountsInv, NEW th \in Threads, call[th] # Idle,
             call[th].x \notin cloned, call[th].v \notin raced
      PROVE  call[th].v \in heap
  BY <1>2, CallFacts DEF VectorInv, CountsInv, LastInv, Op, Vec, Obj
<1>3. VectorInv /\ CountsInv => NoDangling
  BY <1>1, <1>2 DEF NoDangling
<1> QED
  BY <1>3, CountsInvHolds, PTL
=============================================================================
