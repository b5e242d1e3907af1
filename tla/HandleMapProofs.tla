--------------------------- MODULE HandleMapProofs ---------------------------
(* Proofs about HandleMap for any set of objects and any bounds.             *)
EXTENDS HandleMap, SequenceTheorems, FiniteSetTheorems, TLAPS

\* TypeOK with the parts the table, the objects and the free list keep in step.
IInv ==
  /\ TypeOK
  /\ RoundTrip
  /\ Verified
  /\ FreeListExact
  /\ IssuedBound
  /\ UsedExact
  /\ IsFiniteSet(Live)

\* A slot of the table holds an object or nil.
LEMMA SlotType ==
  ASSUME TypeOK
  PROVE  /\ Len(handles) \in Nat
         /\ \A h \in Indices : h \in Nat /\ Decode(h) \in Objects \cup {Nil}
<1>1. Len(handles) \in Nat /\ \A i \in 1 .. Len(handles) : handles[i] \in Objects \cup {Nil}
  BY LenProperties, ElementOfSeq DEF TypeOK
<1>2. ASSUME NEW h \in Indices
      PROVE  h \in Nat /\ h + 1 \in 1 .. Len(handles)
  BY <1>1 DEF Indices
<1> QED
  BY <1>1, <1>2 DEF Decode

\* A new map satisfies the inductive invariant.
LEMMA InitIInv == Init => IInv
<1> SUFFICES ASSUME Init PROVE IInv
  OBVIOUS
<1> USE DEF Init, newPortableHandleMap
<1>1. TypeOK
  BY DEF TypeOK
<1>2. RoundTrip /\ Verified
  BY NilAssumption DEF RoundTrip, Verified, Indices, Decode
<1>3. FreeListExact
  BY DEF FreeListExact, Indices, Decode
<1>4. IssuedBound
  BY DEF IssuedBound
<1>5. UsedExact /\ IsFiniteSet(Live)
  <2>1. Live = {}
    BY DEF Live
  <2> QED BY <2>1, FS_EmptySet DEF UsedExact
<1> QED
  BY <1>1, <1>2, <1>3, <1>4, <1>5 DEF IInv

\* A registration of an object that has references only counts.
LEMMA RegisterAgainIInv ==
  ASSUME IInv, NEW o \in Objects, RegisterAgain(o)
  PROVE  IInv'
<1> USE DEF IInv, RegisterAgain
<1>1. TypeOK'
  BY DEF TypeOK
<1>2. RoundTrip'
  <2>1. Indices' = Indices /\ \A h \in Indices : Decode(h)' = Decode(h)
    BY DEF Indices, Decode
  <2>2. \A q \in Objects : count'[q] # 0 <=> count[q] # 0
    BY DEF TypeOK
  <2>3. \A h \in Indices : Decode(h) # Nil => Decode(h) \in Objects
    BY SlotType
  <2> QED BY <2>1, <2>2, <2>3 DEF RoundTrip, Decode
<1>3. Verified'
  BY DEF Verified, TypeOK
<1>4. FreeListExact'
  BY DEF FreeListExact, Indices, Decode
<1>5. IssuedBound'
  BY DEF IssuedBound, TypeOK
<1>6. UsedExact' /\ IsFiniteSet(Live')
  <2>1. Live' = Live
    BY DEF Live, TypeOK
  <2> QED BY <2>1 DEF UsedExact
<1> QED
  BY Zenon, <1>1, <1>2, <1>3, <1>4, <1>5, <1>6

\* A first registration adds one object to the live ones.
LEMMA LiveGrows ==
  ASSUME TypeOK, UsedExact, IsFiniteSet(Live), NEW o \in Objects, count[o] = 0,
         count' = [count EXCEPT ![o] = 1], used' = used + 1
  PROVE  UsedExact' /\ IsFiniteSet(Live')
<1>1. Live' = Live \cup {o} /\ o \notin Live
  BY DEF Live, TypeOK
<1> QED
  BY <1>1, FS_AddElement DEF UsedExact

\* The effect of appending o to the table, slot by slot.
LEMMA RegisterAppendIInv ==
  ASSUME IInv, NEW o \in Objects, RegisterAppend(o)
  PROVE  IInv'
<1> PICK n \in Nat : n = Len(handles)
  BY SlotType DEF IInv
<1>0. TypeOK /\ n = Len(handles) /\ n >= 2 /\ count[o] = 0 /\ handle[o] = 0
  BY DEF IInv, RoundTrip, Verified, RegisterAppend
<1>1. /\ handles' = Append(handles, o)
      /\ handles' \in Seq(Objects \cup {Nil})
      /\ Len(handles') = n + 1
      /\ \A i \in 1 .. n : handles'[i] = handles[i]
      /\ handles'[n + 1] = o
  BY AppendProperties, <1>0 DEF RegisterAppend, TypeOK
<1>2. /\ Indices = 0 .. (n - 1) /\ Indices' = 0 .. n
      /\ \A h \in Indices : Decode(h)' = Decode(h)
      /\ Decode(n)' = o
  <2>1. Indices = 0 .. (n - 1) /\ Indices' = 0 .. n
    BY <1>0, <1>1 DEF Indices
  <2>2. ASSUME NEW h \in Indices PROVE Decode(h)' = Decode(h)
    <3>1. h + 1 \in 1 .. n
      BY <1>0 DEF Indices
    <3> QED BY <3>1, <1>1 DEF Decode
  <2>3. Decode(n)' = o
    BY <1>1 DEF Decode
  <2> QED BY <2>1, <2>2, <2>3
<1>3. /\ handle' = [handle EXCEPT ![o] = n]
      /\ count' = [count EXCEPT ![o] = 1]
      /\ objGeneration' = [objGeneration EXCEPT ![o] = generation + 1]
      /\ generation' = generation + 1 /\ used' = used + 1
      /\ issued' = issued \cup {<<n, generation + 1>>}
      /\ freeIds = <<>> /\ freeIds' = <<>>
  BY <1>0 DEF RegisterAppend, Assign
<1>4. TypeOK'
  BY <1>0, <1>1, <1>3 DEF TypeOK
<1>5. RoundTrip'
  <2>1. Len(handles') >= 2 /\ handles'[1] = Nil /\ handles'[2] = Nil
    BY <1>0, <1>1 DEF IInv, RoundTrip
  <2>2. ASSUME NEW q \in Objects, count'[q] # 0
        PROVE  handle'[q] \in Indices' /\ Decode(handle[q])' = q
    <3>1. CASE q = o
      BY <3>1, <1>0, <1>2, <1>3 DEF TypeOK, Decode
    <3>2. CASE q # o
      <4>1. handle[q] \in Indices /\ Decode(handle[q]) = q /\ handle'[q] = handle[q]
        BY Zenon, <2>2, <3>2, <1>0, <1>3 DEF TypeOK, IInv, RoundTrip
      <4> QED BY <4>1, <1>2 DEF Decode
    <3> QED BY <3>1, <3>2
  <2>3. ASSUME NEW h \in Indices', Decode(h)' # Nil
        PROVE  handle'[Decode(h)'] = h /\ count'[Decode(h)'] # 0
    <3>1. CASE h = n
      BY <3>1, <1>0, <1>2, <1>3 DEF TypeOK
    <3>2. CASE h # n
      <4>1. h \in Indices /\ Decode(h)' = Decode(h) /\ Decode(h) # o
        BY <3>2, <2>3, <1>0, <1>2 DEF IInv, RoundTrip
      <4>2. Decode(h) \in Objects
        BY Zenon, <4>1, <2>3, <1>0, SlotType
      <4> QED BY Zenon, <4>1, <4>2, <2>3, <1>0, <1>3 DEF IInv, RoundTrip, TypeOK
    <3> QED BY <3>1, <3>2
  <2> QED BY <2>1, <2>2, <2>3 DEF RoundTrip, Indices, Decode
<1>6. Verified'
  BY <1>0, <1>3 DEF Verified, TypeOK, IInv
<1>7. FreeListExact'
  <2>1. \A h \in Indices \ {0, 1} : Decode(h) # Nil
    BY <1>3, EmptySeq DEF FreeListExact, IInv
  <2>2. \A h \in Indices' \ {0, 1} : Decode(h)' # Nil
    BY NilAssumption, <2>1, <1>0, <1>2
  <2> QED BY <2>2, <1>3, EmptySeq DEF FreeListExact, Decode, Indices
<1>8. IssuedBound'
  BY <1>0, <1>3 DEF IssuedBound, TypeOK, IInv
<1>9. UsedExact' /\ IsFiniteSet(Live')
  BY Zenon, <1>0, <1>3, LiveGrows DEF IInv
<1> QED
  BY Zenon, <1>4, <1>5, <1>6, <1>7, <1>8, <1>9 DEF IInv

\* The same for an id taken from the free list.
LEMMA RegisterReuseIInv ==
  ASSUME IInv, NEW o \in Objects, RegisterReuse(o)
  PROVE  IInv'
<1> DEFINE l == Len(freeIds)
           k == freeIds[l]
<1>0. /\ TypeOK /\ Len(handles) \in Nat /\ l \in Nat \ {0}
      /\ count[o] = 0 /\ handle[o] = 0
  BY Zenon, LenProperties, EmptySeq DEF IInv, TypeOK, Verified, RegisterReuse
<1>1. k \in Indices \ {0, 1} /\ Decode(k) = Nil
  BY <1>0 DEF IInv, FreeListExact
<1>2. /\ handles' \in Seq(Objects \cup {Nil})
      /\ Len(handles') = Len(handles)
      /\ \A i \in 1 .. Len(handles) :
           handles'[i] = IF i = k + 1 THEN o ELSE handles[i]
  <2>1. k + 1 \in 1 .. Len(handles)
    BY <1>0, <1>1 DEF Indices
  <2>2. handles' = [handles EXCEPT ![k + 1] = o]
    BY DEF RegisterReuse
  <2> HIDE DEF k
  <2> QED BY ExceptSeq, <2>1, <2>2, <1>0 DEF TypeOK
<1>3. /\ Indices' = Indices
      /\ \A h \in Indices : Decode(h)' = IF h = k THEN o ELSE Decode(h)
  BY <1>0, <1>1, <1>2 DEF Indices, Decode
<1>4. /\ freeIds' \in Seq(Nat)
      /\ Len(freeIds') = l - 1
      /\ \A i \in 1 .. l - 1 : freeIds'[i] = freeIds[i]
  <2>1. \A i \in 1 .. l - 1 : freeIds[i] \in Nat
    BY <1>0, ElementOfSeq DEF TypeOK
  <2>2. freeIds' = SubSeq(freeIds, 1, l - 1)
    BY DEF RegisterReuse
  <2> HIDE DEF l
  <2> QED BY SubSeqProperties, <2>1, <2>2, <1>0
<1>5. /\ handle' = [handle EXCEPT ![o] = k]
      /\ count' = [count EXCEPT ![o] = 1]
      /\ objGeneration' = [objGeneration EXCEPT ![o] = generation + 1]
      /\ generation' = generation + 1 /\ used' = used + 1
      /\ issued' = issued \cup {<<k, generation + 1>>}
  BY <1>0 DEF RegisterReuse, Assign
<1>6. k \in Nat /\ k # 0
  BY <1>1, <1>0 DEF Indices
<1>7. /\ \A i \in 1 .. l : freeIds[i] \in Indices \ {0, 1} /\ Decode(freeIds[i]) = Nil
      /\ \A h \in Indices \ {0, 1} : Decode(h) = Nil => \E i \in 1 .. l : freeIds[i] = h
      /\ \A i, j \in 1 .. l : freeIds[i] = freeIds[j] => i = j
  BY DEF IInv, FreeListExact
<1>8. \A i \in 1 .. l - 1 : freeIds[i] # k
  BY <1>7, <1>0
<1> HIDE DEF k, l
<1>9. TypeOK'
  BY <1>0, <1>2, <1>4, <1>5, <1>6 DEF TypeOK
<1>10. RoundTrip'
  <2>1. Len(handles') >= 2 /\ handles'[1] = Nil /\ handles'[2] = Nil
    BY <1>0, <1>1, <1>2, <1>6 DEF IInv, RoundTrip, Indices
  <2>2. ASSUME NEW q \in Objects, count'[q] # 0
        PROVE  handle'[q] \in Indices' /\ Decode(handle[q])' = q
    <3>1. CASE q = o
      BY Zenon, <3>1, <1>0, <1>1, <1>3, <1>5 DEF TypeOK, Decode
    <3>2. CASE q # o
      <4>1. handle[q] \in Indices /\ Decode(handle[q]) = q /\ handle'[q] = handle[q]
        BY Zenon, <2>2, <3>2, <1>0, <1>5 DEF TypeOK, IInv, RoundTrip
      <4>2. handle[q] # k
        BY <4>1, <1>1, NilAssumption
      <4> QED BY Zenon, <4>1, <4>2, <1>3 DEF Decode
    <3> QED BY <3>1, <3>2
  <2>3. ASSUME NEW h \in Indices', Decode(h)' # Nil
        PROVE  handle'[Decode(h)'] = h /\ count'[Decode(h)'] # 0
    <3>1. CASE h = k
      BY <3>1, <1>0, <1>1, <1>3, <1>5 DEF TypeOK
    <3>2. CASE h # k
      <4>1. h \in Indices /\ Decode(h)' = Decode(h)
        BY <3>2, <1>3
      <4>2. Decode(h) \in Objects /\ Decode(h) # o
        BY Zenon, <4>1, <2>3, <1>0, SlotType DEF IInv, RoundTrip
      <4> QED BY Zenon, <4>1, <4>2, <2>3, <1>0, <1>5 DEF IInv, RoundTrip, TypeOK
    <3> QED BY Zenon, <3>1, <3>2
  <2> QED BY Zenon, <2>1, <2>2, <2>3 DEF RoundTrip, Indices, Decode
<1>11. Verified'
  BY <1>0, <1>5, <1>6 DEF Verified, TypeOK, IInv
<1>12. FreeListExact'
  <2>1. ASSUME NEW i \in 1 .. Len(freeIds')
        PROVE  freeIds'[i] \in Indices' \ {0, 1} /\ Decode(freeIds[i])' = Nil
    <3>1. i \in 1 .. l - 1 /\ i \in 1 .. l /\ freeIds'[i] = freeIds[i]
      BY <1>0, <1>4
    <3> QED BY Zenon, <3>1, <1>3, <1>7, <1>8 DEF Decode
  <2>2. ASSUME NEW h \in Indices' \ {0, 1}, Decode(h)' = Nil
        PROVE  \E i \in 1 .. Len(freeIds') : freeIds'[i] = h
    <3>1. h # k /\ Decode(h) = Nil
      BY Zenon, <2>2, <1>3, NilAssumption
    <3>2. PICK i \in 1 .. l : freeIds[i] = h
      BY Zenon, <3>1, <2>2, <1>3, <1>7
    <3>3. i # l
      BY <3>1, <3>2 DEF k
    <3> QED BY <3>2, <3>3, <1>0, <1>4
  <2>3. \A i, j \in 1 .. Len(freeIds') : freeIds'[i] = freeIds'[j] => i = j
    BY <1>0, <1>4, <1>7
  <2> QED BY Zenon, <2>1, <2>2, <2>3 DEF FreeListExact, Decode, Indices
<1>13. IssuedBound'
  BY <1>0, <1>5, <1>6 DEF IssuedBound, TypeOK, IInv
<1>14. UsedExact' /\ IsFiniteSet(Live')
  BY Zenon, <1>0, <1>5, LiveGrows DEF IInv
<1> QED
  BY <1>9, <1>10, <1>11, <1>12, <1>13, <1>14 DEF IInv

\* A Forget that leaves references only counts; the last one empties the slot
\* and puts its id on the free list.
LEMMA ForgetIInv ==
  ASSUME IInv, NEW h \in Indices, NEW n \in Nat, Forget(h, n)
  PROVE  IInv'
<1> PICK obj \in Objects : obj = Decode(h)
  BY SlotType DEF IInv, Forget, Free, Has
<1>0. /\ TypeOK /\ Len(handles) \in Nat /\ h \in Nat
      /\ Decode(h) = obj /\ handle[obj] = h /\ count[obj] \in Nat /\ count[obj] # 0
      /\ h \in Indices \ {0, 1}
  <2>1. TypeOK /\ Len(handles) \in Nat /\ h \in Nat /\ count[obj] \in Nat
    BY Zenon, SlotType DEF IInv, TypeOK
  <2>2. handle[obj] = h /\ count[obj] # 0
    BY NilAssumption DEF IInv, RoundTrip
  <2>3. h # 0 /\ h # 1
    BY NilAssumption DEF IInv, RoundTrip, Decode
  <2> QED BY <2>1, <2>2, <2>3
<1>1. /\ n \in 1 .. count[obj]
      /\ count' = [count EXCEPT ![obj] = @ - n]
      /\ UNCHANGED <<objGeneration, generation, issued>>
  BY DEF Forget, Free
<1>2. CASE count[obj] # n
  <2>1. UNCHANGED <<handles, freeIds, used, handle>>
    BY Zenon, <1>2 DEF Forget, Free
  <2>2. \A q \in Objects : count'[q] \in Nat /\ (count'[q] # 0 <=> count[q] # 0)
    BY <1>0, <1>1, <1>2 DEF TypeOK
  <2>3. TypeOK'
    BY <1>0, <1>1, <2>1 DEF TypeOK
  <2>4. RoundTrip'
    <3>1. Indices' = Indices /\ \A i \in Indices : Decode(i)' = Decode(i)
      BY <2>1 DEF Indices, Decode
    <3>2. \A i \in Indices : Decode(i) # Nil => Decode(i) \in Objects
      BY Zenon, SlotType, <1>0
    <3> QED BY Zenon, <2>1, <2>2, <3>1, <3>2 DEF IInv, RoundTrip, Decode
  <2>5. Verified' /\ IssuedBound'
    BY Zenon, <1>1, <2>1, <2>2 DEF IInv, Verified, IssuedBound
  <2>6. FreeListExact'
    BY Zenon, <2>1 DEF IInv, FreeListExact, Indices, Decode
  <2>7. UsedExact' /\ IsFiniteSet(Live')
    <3>1. Live' = Live
      BY <2>2 DEF Live
    <3> QED BY <3>1, <2>1 DEF IInv, UsedExact
  <2> QED BY Zenon, <2>3, <2>4, <2>5, <2>6, <2>7 DEF IInv
<1>3. CASE count[obj] = n
  <2>1. /\ handles' = [handles EXCEPT ![h + 1] = Nil]
        /\ freeIds' = Append(freeIds, h)
        /\ used' = used - 1
        /\ handle' = [handle EXCEPT ![obj] = 0]
    BY <1>3 DEF Forget, Free
  <2>2. count' = [count EXCEPT ![obj] = 0]
    BY <1>0, <1>1, <1>3
  <2>3. /\ handles' \in Seq(Objects \cup {Nil})
        /\ Len(handles') = Len(handles)
        /\ \A i \in 1 .. Len(handles) :
             handles'[i] = IF i = h + 1 THEN Nil ELSE handles[i]
    <3>1. h + 1 \in 1 .. Len(handles)
      BY <1>0 DEF Indices
    <3> QED BY ExceptSeq, <3>1, <2>1, <1>0 DEF TypeOK
  <2>4. /\ Indices' = Indices
        /\ \A i \in Indices : Decode(i)' = IF i = h THEN Nil ELSE Decode(i)
    BY <1>0, <2>3 DEF Indices, Decode
  <2> PICK l \in Nat : l = Len(freeIds)
    BY Zenon, LenProperties, <1>0 DEF TypeOK
  <2>5. /\ l = Len(freeIds) /\ freeIds' \in Seq(Nat)
        /\ Len(freeIds') = l + 1
        /\ \A i \in 1 .. l : freeIds'[i] = freeIds[i]
        /\ freeIds'[l + 1] = h
    BY AppendProperties, <2>1, <1>0 DEF TypeOK
  <2>6. /\ \A i \in 1 .. l : freeIds[i] \in Indices \ {0, 1} /\ Decode(freeIds[i]) = Nil
        /\ \A i \in Indices \ {0, 1} : Decode(i) = Nil => \E j \in 1 .. l : freeIds[j] = i
        /\ \A i, j \in 1 .. l : freeIds[i] = freeIds[j] => i = j
    BY <2>5 DEF IInv, FreeListExact
  <2>7. used' = Cardinality(Live') /\ used' \in Nat /\ IsFiniteSet(Live')
    <3>1. Live' = Live \ {obj} /\ obj \in Live
      BY <1>0, <2>2 DEF Live, TypeOK
    <3>2. IsFiniteSet(Live) /\ used = Cardinality(Live)
      BY DEF IInv, UsedExact
    <3>3. IsFiniteSet(Live') /\ Cardinality(Live') = Cardinality(Live) - 1
      BY Zenon, <3>1, <3>2, FS_RemoveElement
    <3>4. Cardinality(Live') \in Nat
      BY Zenon, <3>3, FS_CardinalityType
    <3> QED BY Zenon, <3>2, <3>3, <3>4, <2>1
  <2>8. TypeOK'
    BY <2>7, <1>0, <1>1, <2>1, <2>2, <2>3, <2>5 DEF TypeOK
  <2>9. RoundTrip'
    <3>1. Len(handles') >= 2 /\ handles'[1] = Nil /\ handles'[2] = Nil
      BY <1>0, <2>3 DEF IInv, RoundTrip
    <3>2. ASSUME NEW q \in Objects, count'[q] # 0
          PROVE  handle'[q] \in Indices' /\ Decode(handle[q])' = q
      <4>1. q # obj /\ count[q] # 0 /\ handle'[q] = handle[q]
        BY Zenon, <3>2, <1>0, <2>1, <2>2 DEF TypeOK
      <4>2. handle[q] \in Indices /\ Decode(handle[q]) = q
        BY <4>1 DEF IInv, RoundTrip
      <4>3. handle[q] # h
        BY Zenon, <4>1, <4>2, <1>0
      <4> QED BY Zenon, <4>1, <4>2, <4>3, <2>4 DEF Decode
    <3>3. ASSUME NEW i \in Indices', Decode(i)' # Nil
          PROVE  handle'[Decode(i)'] = i /\ count'[Decode(i)'] # 0
      <4>1. i \in Indices /\ i # h /\ Decode(i)' = Decode(i)
        BY Zenon, <3>3, <2>4
      <4>2. Decode(i) \in Objects /\ handle[Decode(i)] = i /\ count[Decode(i)] # 0
        BY Zenon, <4>1, <3>3, <1>0, SlotType DEF IInv, RoundTrip
      <4>3. Decode(i) # obj
        BY Zenon, <4>1, <4>2, <1>0
      <4> QED BY Zenon, <4>1, <4>2, <4>3, <1>0, <2>1, <2>2 DEF TypeOK
    <3> QED BY ZenonT(60), <3>1, <3>2, <3>3 DEF RoundTrip, Indices, Decode
  <2>10. Verified'
    BY Zenon, <1>0, <2>1, <2>2 DEF IInv, Verified, TypeOK
  <2>11. FreeListExact'
    <3>1. ASSUME NEW i \in 1 .. Len(freeIds')
          PROVE  freeIds'[i] \in Indices' \ {0, 1} /\ Decode(freeIds[i])' = Nil
      <4>1. CASE i = l + 1
        BY Zenon, <4>1, <1>0, <2>4, <2>5 DEF Decode
      <4>2. CASE i # l + 1
        <5>1. i \in 1 .. l /\ freeIds'[i] = freeIds[i]
          BY <4>2, <2>5
        <5> QED BY ZenonT(60), <5>1, <2>4, <2>6 DEF Decode
      <4> QED BY Zenon, <4>1, <4>2
    <3>2. ASSUME NEW i \in Indices' \ {0, 1}, Decode(i)' = Nil
          PROVE  \E j \in 1 .. Len(freeIds') : freeIds'[j] = i
      <4>1. CASE i = h
        BY <4>1, <2>5
      <4>2. CASE i # h
        <5>1. PICK j \in 1 .. l : freeIds[j] = i
          BY Zenon, <4>2, <3>2, <2>4, <2>6
        <5> QED BY <5>1, <2>5
      <4> QED BY <4>1, <4>2
    <3>3. ASSUME NEW i \in 1 .. Len(freeIds'), NEW j \in 1 .. Len(freeIds'),
                 freeIds'[i] = freeIds'[j]
          PROVE  i = j
      <4>1. \A m \in 1 .. l : freeIds[m] # h
        BY <2>6, <1>0, NilAssumption
      <4>2. /\ i \in 1 .. l \/ i = l + 1
            /\ j \in 1 .. l \/ j = l + 1
        BY <2>5
      <4>3. CASE i \in 1 .. l /\ j \in 1 .. l
        BY Zenon, <4>3, <3>3, <2>5, <2>6
      <4>4. CASE i = l + 1 \/ j = l + 1
        BY Zenon, <4>1, <4>2, <4>4, <3>3, <2>5
      <4> QED BY Zenon, <4>2, <4>3, <4>4
    <3> QED BY Zenon, <3>1, <3>2, <3>3 DEF FreeListExact, Decode, Indices
  <2>12. IssuedBound'
    BY Zenon, <1>0, <1>1, <2>1, <2>2 DEF IInv, IssuedBound, TypeOK
  <2> QED BY Zenon, <2>7, <2>8, <2>9, <2>10, <2>11, <2>12 DEF IInv, UsedExact
<1> QED BY <1>1, <1>2, <1>3

\* Every call of a method of the map preserves it.
LEMMA NextIInv == IInv /\ [Next]_vars => IInv'
<1> SUFFICES ASSUME IInv, [Next]_vars PROVE IInv'
  OBVIOUS
<1>1. CASE \E o \in Objects : RegisterAgain(o) \/ RegisterAppend(o) \/ RegisterReuse(o)
  BY Zenon, <1>1, RegisterAgainIInv, RegisterAppendIInv, RegisterReuseIInv
<1>2. CASE \E h \in Indices, n \in 1 .. MaxCount : Forget(h, n)
  <2>1. PICK h \in Indices, n \in Nat : Forget(h, n)
    BY <1>2, BoundAssumption
  <2> QED BY <2>1, ForgetIInv
<1>3. CASE UNCHANGED vars
  BY <1>3 DEF vars, IInv, TypeOK, RoundTrip, Verified, FreeListExact, IssuedBound,
              UsedExact, Live, Indices, Decode
<1> QED
  BY <1>1, <1>2, <1>3 DEF Next

\* The inductive invariant holds throughout the life of a portableHandleMap.
THEOREM Invariance == Spec => []IInv
<1> QED BY InitIInv, NextIInv, PTL DEF Spec

\* portableHandleMap keeps its fields well typed.
THEOREM TypeCorrect == Spec => []TypeOK
<1>1. IInv => TypeOK
  BY DEF IInv
<1> QED BY <1>1, Invariance, PTL

\* Register and Decode are inverse: a handle that has references decodes to the
\* object it was issued for.
THEOREM RoundTripCorrect == Spec => []RoundTrip
<1>1. IInv => RoundTrip
  BY DEF IInv
<1> QED BY <1>1, Invariance, PTL

\* handled.verify never panics.
THEOREM VerifiedCorrect == Spec => []Verified
<1>1. IInv => Verified
  BY DEF IInv
<1> QED BY <1>1, Invariance, PTL

\* freeIds holds every free slot exactly once.
THEOREM FreeListCorrect == Spec => []FreeListExact
<1>1. IInv => FreeListExact
  BY DEF IInv
<1> QED BY <1>1, Invariance, PTL

\* Count() is the number of live objects.
THEOREM UsedCorrect == Spec => []UsedExact
<1>1. IInv => UsedExact
  BY DEF IInv
<1> QED BY <1>1, Invariance, PTL

\* The map implements the abstract handle table: the (NodeId, generation)
\* tuples that Register returns are unique over the life of the map.
THEOREM Refinement == Spec => ImplementsAbstract
<1>1. Init => Abstract!Init
  BY DEF Init, newPortableHandleMap, Abstract!Init, NoPair
<1>2. IInv /\ IInv' /\ [Next]_vars => [Abstract!Next]_(Abstract!vars)
  <2> SUFFICES ASSUME IInv, IInv', [Next]_vars
               PROVE  [Abstract!Next]_(Abstract!vars)
    BY Zenon
  <2> DEFINE absPair == [o \in Objects |-> IF count[o] = 0 THEN NoPair
                                           ELSE <<handle[o], objGeneration[o]>>]
  <2>1. ASSUME NEW o \in Objects, RegisterAgain(o)
        PROVE  Abstract!Share(o)
    BY <2>1 DEF RegisterAgain, Abstract!Share, IInv, TypeOK
  <2>2. ASSUME NEW o \in Objects, NEW k \in Nat \ {0, 1}, count[o] = 0, Assign(o, k),
               \A q \in Objects : count[q] # 0 => handle[q] # k
        PROVE  Abstract!Register(o)
    <3> DEFINE new == <<k, generation + 1>>
    <3>1. /\ count' = [count EXCEPT ![o] = 1]
          /\ handle' = [handle EXCEPT ![o] = k]
          /\ objGeneration' = [objGeneration EXCEPT ![o] = generation + 1]
          /\ issued' = issued \cup {new}
      BY <2>2 DEF Assign
    <3>2. TypeOK /\ generation \in Nat /\ new \notin issued
      <4>1. TypeOK /\ generation \in Nat /\ \A p \in issued : p[2] <= generation
        BY Zenon DEF IInv, TypeOK, IssuedBound
      <4>2. new[2] = generation + 1
        OBVIOUS
      <4> HIDE DEF new
      <4> QED BY <4>1, <4>2
    <3>3. absPair' = [absPair EXCEPT ![o] = new]
      <4>1. ASSUME NEW q \in Objects
            PROVE  absPair'[q] = IF q = o THEN new ELSE absPair[q]
        <5>1. CASE q = o
          BY <5>1, <3>1, <3>2 DEF TypeOK
        <5>2. CASE q # o
          BY Zenon, <5>2, <3>1, <3>2 DEF TypeOK
        <5> QED BY Zenon, <5>1, <5>2
      <4>2. absPair' = [q \in Objects |-> absPair'[q]]
        OBVIOUS
      <4>3. absPair = [q \in Objects |-> absPair[q]]
        OBVIOUS
      <4> HIDE DEF absPair, new
      <4> QED BY <4>1, <4>2, <4>3
    <3>4. absPair'[o] = new
      BY <3>3
    <3>5. new \in ((Nat \ {0, 1}) \X Nat) \ issued
      BY <3>2
    <3>6. \A q \in Objects : absPair[q] # NoPair => absPair[q][1] # new[1]
      BY <2>2 DEF NoPair
    <3> HIDE DEF new
    <3> QED BY Zenon, <2>2, <3>1, <3>3, <3>4, <3>5, <3>6 DEF Abstract!Register
  <2>3. ASSUME NEW o \in Objects, RegisterAppend(o)
        PROVE  Abstract!Register(o)
    <3>1. Len(handles) \in Nat \ {0, 1} /\ Indices = 0 .. (Len(handles) - 1)
      BY SlotType DEF IInv, RoundTrip, Indices
    <3>2. \A q \in Objects : count[q] # 0 => handle[q] # Len(handles)
      BY <3>1 DEF IInv, RoundTrip
    <3>3. count[o] = 0 /\ Assign(o, Len(handles))
      BY Zenon, <2>3 DEF RegisterAppend
    <3> QED BY Zenon, <3>1, <3>2, <3>3, <2>2
  <2>4. ASSUME NEW o \in Objects, RegisterReuse(o)
        PROVE  Abstract!Register(o)
    <3> PICK k : k = freeIds[Len(freeIds)]
      OBVIOUS
    <3>1. Len(freeIds) \in 1 .. Len(freeIds)
      BY <2>4, EmptySeq DEF RegisterReuse, IInv, TypeOK
    <3>2. k \in Indices \ {0, 1} /\ Decode(k) = Nil
      BY <3>1 DEF IInv, FreeListExact
    <3>3. k \in Nat \ {0, 1}
      BY Zenon, <3>2, SlotType DEF IInv
    <3>4. \A q \in Objects : count[q] # 0 => handle[q] # k
      BY <3>2, NilAssumption DEF IInv, RoundTrip
    <3>5. count[o] = 0 /\ Assign(o, k)
      BY <2>4 DEF RegisterReuse
    <3> QED BY Zenon, <3>3, <3>4, <3>5, <2>2
  <2>5. ASSUME NEW h \in Indices, NEW n \in Nat, Forget(h, n)
        PROVE  \E o \in Objects : \E m \in 1 .. count[o] : Abstract!Drop(o, m)
    <3> PICK obj \in Objects : obj = Decode(h)
      BY Zenon, <2>5, SlotType DEF IInv, Forget, Free, Has
    <3>1. /\ n \in 1 .. count[obj]
          /\ count' = [count EXCEPT ![obj] = @ - n]
          /\ UNCHANGED <<objGeneration, generation, issued>>
          /\ handle' = [handle EXCEPT ![obj] = IF count[obj] = n THEN 0 ELSE @]
      BY Zenon, <2>5 DEF Forget, Free, IInv, TypeOK
    <3>2. absPair' = [absPair EXCEPT ![obj] = IF n = count[obj] THEN NoPair ELSE @]
      <4>1. ASSUME NEW q \in Objects
            PROVE  absPair'[q] = IF q = obj
                                   THEN IF n = count[obj] THEN NoPair ELSE absPair[obj]
                                   ELSE absPair[q]
        <5>1. CASE q = obj
          <6>1. count[obj] \in Nat /\ count'[obj] = count[obj] - n
            BY Zenon, <3>1 DEF IInv, TypeOK
          <6>2. /\ count[obj] # 0 /\ (count'[obj] = 0 <=> n = count[obj])
                /\ objGeneration'[obj] = objGeneration[obj]
                /\ n # count[obj] => handle'[obj] = handle[obj]
            BY <6>1, <3>1 DEF IInv, TypeOK
          <6> QED BY Zenon, <6>2, <5>1
        <5>2. CASE q # obj
          BY <5>2, <3>1 DEF IInv, TypeOK
        <5> QED BY Zenon, <5>1, <5>2
      <4>2. absPair' = [q \in Objects |-> absPair'[q]]
        OBVIOUS
      <4>3. absPair = [q \in Objects |-> absPair[q]]
        BY Zenon
      <4> HIDE DEF absPair
      <4> QED BY <4>1, <4>2, <4>3
    <3>3. Abstract!Drop(obj, n)
      BY Zenon, <3>1, <3>2 DEF Abstract!Drop
    <3> QED BY Zenon, <3>1, <3>3
  <2>6. ASSUME UNCHANGED vars
        PROVE  UNCHANGED Abstract!vars
    BY <2>6 DEF vars, Abstract!vars
  <2>7. CASE \E o \in Objects : RegisterAgain(o) \/ RegisterAppend(o) \/ RegisterReuse(o)
    BY Zenon, <2>7, <2>1, <2>3, <2>4 DEF Abstract!Next
  <2>8. CASE \E h \in Indices, n \in 1 .. MaxCount : Forget(h, n)
    <3>1. PICK h \in Indices, n \in Nat : Forget(h, n)
      BY <2>8, BoundAssumption
    <3> QED BY <3>1, <2>5 DEF Abstract!Next
  <2> QED
    BY Zenon, <2>6, <2>7, <2>8 DEF Next
<1> QED
  BY <1>1, <1>2, Invariance, PTL DEF Spec, ImplementsAbstract, Abstract!Spec
=============================================================================
