------------------------------ MODULE HandleMap ------------------------------
(* The portableHandleMap of src/fuse/nodefs/handle.go: the table that gives   *)
(* node ids to Inodes and file handles to open files.  Every method runs      *)
(* under the map's RWMutex, so each one is a single step.                     *)
EXTENDS Naturals, Sequences, FiniteSets

CONSTANTS Objects,        \* Go objects embedding "handled"
          Nil,            \* the nil pointer
          MaxCount,       \* bound: references on one object
          MaxGeneration   \* bound: registrations over the life of the map

ASSUME NilAssumption == Nil \notin Objects
ASSUME BoundAssumption == MaxCount \in Nat /\ MaxGeneration \in Nat

VARIABLES handle, objGeneration, count,  \* the fields of each "handled"
          handles,      \* Go slice m.handles; Go index h is TLA+ index h + 1
          freeIds,      \* Go slice m.freeIds, a stack
          generation, used,
          issued        \* history: every (handle, generation) returned so far

vars == <<handle, objGeneration, count, handles, freeIds, generation, used, issued>>

\* m.handles[h]
Decode(h) == handles[h + 1]
Has(h) == Decode(h) # Nil
Handle(o) == IF count[o] = 0 THEN 0 ELSE handle[o]
Count == used

\* The handles that index m.handles.
Indices == 0 .. (Len(handles) - 1)

\* The objects that have references.
Live == {o \in Objects : count[o] # 0}

newPortableHandleMap ==
  /\ handles = <<Nil, Nil>>
  /\ freeIds = <<>>
  /\ generation = 0
  /\ used = 0

Init ==
  /\ newPortableHandleMap
  /\ handle = [o \in Objects |-> 0]
  /\ objGeneration = [o \in Objects |-> 0]
  /\ count = [o \in Objects |-> 0]
  /\ issued = {}

-----------------------------------------------------------------------------
\* Register of an object that already has a handle.
RegisterAgain(o) ==
  /\ count[o] # 0
  /\ count[o] < MaxCount
  /\ count' = [count EXCEPT ![o] = @ + 1]
  /\ UNCHANGED <<handle, objGeneration, handles, freeIds, generation, used, issued>>

AssignSameGeneration(o, h) ==
  /\ handle' = [handle EXCEPT ![o] = h]
  /\ used' = used + 1
  /\ objGeneration' = [objGeneration EXCEPT ![o] = generation]
  /\ count' = [count EXCEPT ![o] = @ + 1]
  /\ issued' = issued \cup {<<h, generation>>}
  /\ UNCHANGED generation

\* What every first registration does once it has chosen the handle h.
Assign(o, h) ==
  /\ handle' = [handle EXCEPT ![o] = h]
  /\ generation' = generation + 1
  /\ used' = used + 1
  /\ objGeneration' = [objGeneration EXCEPT ![o] = generation + 1]
  /\ count' = [count EXCEPT ![o] = @ + 1]
  /\ issued' = issued \cup {<<h, generation + 1>>}

\* First registration with an empty free list: the table grows.
RegisterAppend(o) ==
  /\ count[o] = 0
  /\ generation < MaxGeneration
  /\ freeIds = <<>>
  /\ Assign(o, Len(handles))
  /\ handles' = Append(handles, o)
  /\ UNCHANGED freeIds

\* First registration that takes the most recently freed id.
RegisterReuse(o) ==
  /\ count[o] = 0
  /\ generation < MaxGeneration
  /\ freeIds # <<>>
  /\ Assign(o, freeIds[Len(freeIds)])
  /\ freeIds' = SubSeq(freeIds, 1, Len(freeIds) - 1)
  /\ handles' = [handles EXCEPT ![freeIds[Len(freeIds)] + 1] = o]

\* The last reference is gone: the slot is empty and its id free.
Free(h, obj) ==
  /\ handles' = [handles EXCEPT ![h + 1] = Nil]
  /\ freeIds' = Append(freeIds, h)
  /\ used' = used - 1
  /\ handle' = [handle EXCEPT ![obj] = 0]

\* Forget(h, n).  The users give back only references they hold: the kernel
\* for node ids, Release for file handles (external).
Forget(h, n) ==
  /\ Has(h)
  /\ n \in 1 .. count[Decode(h)]
  /\ LET obj == Decode(h) IN
       /\ count' = [count EXCEPT ![obj] = @ - n]
       /\ IF count[obj] = n
            THEN Free(h, obj)
            ELSE UNCHANGED <<handles, freeIds, used, handle>>
  /\ UNCHANGED <<objGeneration, generation, issued>>

Next ==
  \/ \E o \in Objects : RegisterAgain(o) \/ RegisterAppend(o) \/ RegisterReuse(o)
  \/ \E h \in Indices, n \in 1 .. MaxCount : Forget(h, n)

Spec == Init /\ [][Next]_vars
-----------------------------------------------------------------------------
\* Types of the fields: no count and no handle is ever negative.
TypeOK ==
  /\ handle \in [Objects -> Nat]
  /\ objGeneration \in [Objects -> Nat]
  /\ count \in [Objects -> Nat]
  /\ handles \in Seq(Objects \cup {Nil})
  /\ freeIds \in Seq(Nat)
  /\ generation \in Nat
  /\ used \in Nat
  /\ issued \subseteq Nat \X Nat

\* The table and the objects point at each other: an object with references
\* is found under its own handle, a slot that is not nil holds an object that
\* has references and believes it has that handle, and slots 0 and 1 stay
\* empty.  Decode after Register is what every request handler relies on.
RoundTrip ==
  /\ Len(handles) >= 2 /\ handles[1] = Nil /\ handles[2] = Nil
  /\ \A o \in Objects : count[o] # 0 =>
       handle[o] \in Indices /\ Decode(handle[o]) = o
  /\ \A h \in Indices : Decode(h) # Nil =>
       handle[Decode(h)] = h /\ count[Decode(h)] # 0

\* handled.verify never panics: no references exactly when there is no handle.
Verified == \A o \in Objects : (count[o] = 0) <=> (handle[o] = 0)

\* The free list is exactly the empty slots from 2 on, each once.  A slot
\* listed twice would be handed to two objects; one not listed would leak.
FreeListExact ==
  /\ \A i \in 1 .. Len(freeIds) :
       freeIds[i] \in Indices \ {0, 1} /\ Decode(freeIds[i]) = Nil
  /\ \A h \in Indices \ {0, 1} : Decode(h) = Nil =>
       \E i \in 1 .. Len(freeIds) : freeIds[i] = h
  /\ \A i, j \in 1 .. Len(freeIds) : freeIds[i] = freeIds[j] => i = j

\* Count() is the number of objects with references (InodeHandleCount).
UsedExact == used = Cardinality(Live)

\* No pair has a generation the map has not reached, and a registered object
\* has one of the issued pairs.
IssuedBound ==
  /\ \A p \in issued : p[2] <= generation
  /\ \A o \in Objects : count[o] # 0 => <<handle[o], objGeneration[o]>> \in issued

-----------------------------------------------------------------------------
NoPair == <<0, 0>>

\* Refinement of the abstract promise: "the (NodeId, Generation) tuple is
\* always unique" and is stable while the object has references.
Abstract == INSTANCE AbstractHandles
              WITH refs <- count,
                   pair <- [o \in Objects |-> IF count[o] = 0 THEN NoPair
                                              ELSE <<handle[o], objGeneration[o]>>]
ImplementsAbstract == Abstract!Spec
=============================================================================
