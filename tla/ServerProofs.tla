-------------------------- MODULE ServerProofs --------------------------
(***************************************************************************)
(* For any number of loops and any MAX_READERS: reqReaders and loops count *)
(* what they should, so the last reader to leave always starts another and *)
(* the device is closed after the last loop.                               *)
(***************************************************************************)
EXTENDS Server, FiniteSetTheorems, TLAPS

\* Server.loops counts the loops that have not returned.
LoopsExact == loops = Cardinality(Live)

IInv ==
  /\ TypeOK
  /\ ReadersExact
  /\ LoopsExact
  /\ ReadersBounded
  /\ SomeoneReads
  /\ ClosedAfterLoops

\* Sets of loops are finite.
LEMMA Finite == IsFiniteSet(Reading) /\ IsFiniteSet(Live)
BY LoopsAssumption, FS_Subset DEF Reading, Live

\* What adding or removing one element does to the size of a finite set.
LEMMA AddOne ==
  ASSUME NEW S, IsFiniteSet(S), NEW x, x \notin S
  PROVE  Cardinality(S \cup {x}) = Cardinality(S) + 1 /\ Cardinality(S) \in Nat
BY FS_AddElement, FS_CardinalityType

LEMMA RemoveOne ==
  ASSUME NEW S, IsFiniteSet(S), NEW x \in S
  PROVE  Cardinality(S \ {x}) = Cardinality(S) - 1 /\ Cardinality(S) \in Nat \ {0}
<1>1. Cardinality(S \ {x}) = Cardinality(S) - 1
  BY FS_RemoveElement
<1>2. IsFiniteSet(S \ {x})
  BY FS_Subset
<1>3. Cardinality(S) \in Nat /\ Cardinality(S \ {x}) \in Nat
  BY <1>2, FS_CardinalityType
<1> QED BY <1>1, <1>3

\* Serve has started its loop.
LEMMA InitIInv == Init => IInv
<1> SUFFICES ASSUME Init PROVE IInv
  OBVIOUS
<1>1. Reading = {} /\ Live = {Main}
  BY LoopsAssumption DEF Init, Reading, Live
<1>2. Cardinality(Reading) = 0 /\ Cardinality(Live) = 1
  BY <1>1, FS_EmptySet, FS_Singleton, Zenon
<1> QED
  BY <1>2, LoopsAssumption, ReadersAssumption
  DEF IInv, TypeOK, Init, ReadersExact, LoopsExact, ReadersBounded, SomeoneReads, ClosedAfterLoops

\* readRequest's first critical section.
LEMMA EnterIInv ==
  ASSUME IInv, NEW l \in Loops, Enter(l)
  PROVE  IInv'
<1> USE DEF IInv, TypeOK, env
<1>0. l \in Live /\ l \notin Reading
  BY DEF Live, Reading, Enter
<1>1. CASE reqReaders > MAX_READERS
  <2>1. Reading' = Reading /\ Live' = Live \ {l}
    BY <1>1, ReadersAssumption DEF Enter, Exit, Step, Reading, Live
  <2>2. loops' = loops - 1 /\ reqReaders' = reqReaders
    BY <1>1, ReadersAssumption DEF Enter, Exit
  <2>3. Cardinality(Live \ {l}) = Cardinality(Live) - 1 /\ Cardinality(Live) \in Nat \ {0}
    BY <1>0, Finite, RemoveOne
  <2>4. PICK k \in Reading : TRUE
    <3>1. Cardinality(Reading) # 0
      BY <1>1, ReadersAssumption DEF ReadersExact
    <3> QED BY <3>1, FS_EmptySet
  <2>5. k # l /\ pc[k] \in {"reading", "got"} /\ pc'[k] = pc[k] /\ k \in Loops
    BY <1>1, <1>0, <2>4, ReadersAssumption DEF Reading, Enter, Exit, Step
  <2>6. TypeOK'
    BY <1>1, <2>2, <2>3, ReadersAssumption DEF Enter, Exit, Step, LoopsExact
  <2>7. (ReadersExact /\ LoopsExact /\ ReadersBounded)'
    BY <2>1, <2>2, <2>3 DEF ReadersExact, LoopsExact, ReadersBounded
  <2>8. (SomeoneReads /\ ClosedAfterLoops)'
    BY <1>0, <2>1, <2>5 DEF SomeoneReads, ClosedAfterLoops, Enter
  <2> QED BY <2>6, <2>7, <2>8
<1>2. CASE reqReaders <= MAX_READERS
  <2>1. Reading' = Reading \cup {l} /\ Live' = Live
    BY <1>2, ReadersAssumption DEF Enter, Exit, Step, Reading, Live
  <2>2. loops' = loops /\ reqReaders' = reqReaders + 1
    BY <1>2, ReadersAssumption DEF Enter, Exit
  <2>3. Cardinality(Reading \cup {l}) = Cardinality(Reading) + 1
    BY <1>0, Finite, AddOne
  <2>4. pc' = [pc EXCEPT ![l] = "reading"]
    BY <1>2, ReadersAssumption DEF Enter, Step
  <2>5. TypeOK'
    BY <2>2, <2>4 DEF Enter
  <2>6. (ReadersExact /\ LoopsExact /\ ReadersBounded)'
    BY <1>2, <2>1, <2>2, <2>3, ReadersAssumption DEF ReadersExact, LoopsExact, ReadersBounded
  <2>7. (SomeoneReads /\ ClosedAfterLoops)'
    BY <1>0, <2>1, <2>4 DEF SomeoneReads, ClosedAfterLoops, Enter
  <2> QED BY <2>5, <2>6, <2>7
<1> QED BY <1>1, <1>2, ReadersAssumption


\* The read of the device: with a request, without one, or after an unmount.
LEMMA ReadIInv ==
  ASSUME IInv, NEW l \in Loops, ReadOk(l) \/ ReadAgain(l) \/ ReadUnmounted(l)
  PROVE  IInv'
<1> USE DEF IInv, TypeOK, env
<1>0. l \in Live /\ l \in Reading /\ pc[l] = "reading"
  BY DEF Live, Reading, ReadOk, ReadAgain, ReadUnmounted
<1>a. Cardinality(Reading \ {l}) = Cardinality(Reading) - 1 /\ Cardinality(Reading) \in Nat \ {0}
  BY <1>0, Finite, RemoveOne
<1>b. Cardinality(Live \ {l}) = Cardinality(Live) - 1 /\ Cardinality(Live) \in Nat \ {0}
  BY <1>0, Finite, RemoveOne
<1>1. CASE ReadOk(l)
  <2>1. Reading' = Reading /\ Live' = Live
    BY <1>0, <1>1 DEF ReadOk, Step, Reading, Live
  <2>2. pc' = [pc EXCEPT ![l] = "got"]
    BY <1>1 DEF ReadOk, Step
  <2>3. TypeOK'
    BY <1>1, <2>2 DEF ReadOk
  <2>4. (ReadersExact /\ LoopsExact /\ ReadersBounded)'
    BY <1>1, <2>1 DEF ReadOk, ReadersExact, LoopsExact, ReadersBounded
  <2>5. (SomeoneReads /\ ClosedAfterLoops)'
    BY Zenon, <1>0, <1>1, <2>1, <2>2 DEF SomeoneReads, ClosedAfterLoops, ReadOk
  <2> QED BY <2>3, <2>4, <2>5
<1>2. CASE ReadAgain(l)
  <2>1. Reading' = Reading \ {l} /\ Live' = Live
    BY <1>0, <1>2 DEF ReadAgain, Step, Reading, Live
  <2>2. pc' = [pc EXCEPT ![l] = "start"]
    BY <1>2 DEF ReadAgain, Step
  <2>3. TypeOK'
    BY <1>2, <1>a, <2>2 DEF ReadAgain, ReadersExact
  <2>4. (ReadersExact /\ LoopsExact /\ ReadersBounded)'
    BY <1>2, <1>a, <2>1, ReadersAssumption DEF ReadAgain, ReadersExact, LoopsExact, ReadersBounded
  <2>5. (SomeoneReads /\ ClosedAfterLoops)'
    BY Zenon, <1>0, <1>2, <2>1, <2>2 DEF SomeoneReads, ClosedAfterLoops, ReadAgain
  <2> QED BY <2>3, <2>4, <2>5
<1>3. CASE ReadUnmounted(l)
  <2>1. Reading' = Reading \ {l} /\ Live' = Live \ {l}
    BY <1>0, <1>3 DEF ReadUnmounted, Exit, Step, Reading, Live
  <2>2. loops' = loops - 1 /\ reqReaders' = reqReaders - 1
    BY <1>3 DEF ReadUnmounted, Exit
  <2>3. TypeOK'
    BY <1>3, <1>a, <1>b, <2>2 DEF ReadUnmounted, Exit, Step, ReadersExact, LoopsExact
  <2>4. (ReadersExact /\ LoopsExact /\ ReadersBounded)'
    BY <1>a, <1>b, <2>1, <2>2, ReadersAssumption DEF ReadersExact, LoopsExact, ReadersBounded
  <2>5. (SomeoneReads /\ ClosedAfterLoops)'
    BY <1>0, <1>3, <2>1 DEF SomeoneReads, ClosedAfterLoops, ReadUnmounted
  <2> QED BY <2>3, <2>4, <2>5
<1> QED BY <1>1, <1>2, <1>3

\* readRequest's second critical section: the last reader starts a loop.
LEMMA GotIInv ==
  ASSUME IInv, NEW l \in Loops, Got(l)
  PROVE  IInv'
<1> USE DEF IInv, TypeOK, env
<1>0. l \in Live /\ l \in Reading /\ pc[l] = "got"
  BY DEF Live, Reading, Got
<1>a. Cardinality(Reading \ {l}) = Cardinality(Reading) - 1 /\ Cardinality(Reading) \in Nat \ {0}
  BY <1>0, Finite, RemoveOne
<1>b. reqReaders' = reqReaders - 1
  BY DEF Got
<1>1. CASE singleReader
  <2>1. pc' = [pc EXCEPT ![l] = "start"] /\ loops' = loops /\ handlers' = handlers + 1
    BY <1>1 DEF Got, Step
  <2>2. Reading' = Reading \ {l} /\ Live' = Live
    BY <1>0, <2>1 DEF Reading, Live
  <2>3. TypeOK'
    BY <1>a, <1>b, <2>1 DEF Got, ReadersExact
  <2>4. (ReadersExact /\ LoopsExact /\ ReadersBounded)'
    BY <1>a, <1>b, <2>1, <2>2, ReadersAssumption DEF ReadersExact, LoopsExact, ReadersBounded
  <2>5. (SomeoneReads /\ ClosedAfterLoops)'
    BY <1>0, <2>1, <2>2 DEF SomeoneReads, ClosedAfterLoops, Got
  <2> QED BY <2>3, <2>4, <2>5
<1>2. CASE ~singleReader /\ reqReaders - 1 <= 0
  <2>1. PICK k \in Loops : pc[k] = "none" /\ pc' = [pc EXCEPT ![l] = "handling", ![k] = "start"]
    BY <1>2 DEF Got
  <2>2. loops' = loops + 1 /\ handlers' = handlers
    BY <1>2 DEF Got
  <2>3. Reading' = Reading \ {l} /\ Live' = Live \cup {k} /\ k \notin Live /\ k # l
    BY <1>0, <2>1 DEF Reading, Live
  <2>4. Cardinality(Live \cup {k}) = Cardinality(Live) + 1
    BY <2>3, Finite, AddOne
  <2>5. TypeOK'
    BY <1>a, <1>b, <2>1, <2>2 DEF Got, ReadersExact
  <2>6. (ReadersExact /\ LoopsExact /\ ReadersBounded)'
    BY <1>a, <1>b, <2>2, <2>3, <2>4, ReadersAssumption DEF ReadersExact, LoopsExact, ReadersBounded
  <2>7. (SomeoneReads /\ ClosedAfterLoops)'
    BY <1>0, <2>1, <2>3 DEF SomeoneReads, ClosedAfterLoops, Got
  <2> QED BY <2>5, <2>6, <2>7
<1>3. CASE ~singleReader /\ reqReaders - 1 > 0
  <2>1. pc' = [pc EXCEPT ![l] = "handling"] /\ loops' = loops /\ handlers' = handlers
    BY <1>3 DEF Got, Step
  <2>2. Reading' = Reading \ {l} /\ Live' = Live
    BY <1>0, <2>1 DEF Reading, Live
  <2>3. PICK k \in Reading \ {l} : TRUE
    BY <1>3, <1>a, FS_EmptySet DEF ReadersExact
  <2>4. k \in Loops /\ pc'[k] \in {"reading", "got"}
    BY Zenon, <2>1, <2>3 DEF Reading
  <2>5. TypeOK'
    BY <1>a, <1>b, <2>1 DEF Got, ReadersExact
  <2>6. (ReadersExact /\ LoopsExact /\ ReadersBounded)'
    BY <1>a, <1>b, <2>1, <2>2, ReadersAssumption DEF ReadersExact, LoopsExact, ReadersBounded
  <2>7. (SomeoneReads /\ ClosedAfterLoops)'
    BY Zenon, <1>0, <2>2, <2>4 DEF SomeoneReads, ClosedAfterLoops, Got
  <2> QED BY <2>5, <2>6, <2>7
<1> QED BY <1>1, <1>2, <1>3


\* A handled request sends its loop back to read.
LEMMA HandledIInv ==
  ASSUME IInv, NEW l \in Loops, Handled(l)
  PROVE  IInv'
<1> USE DEF IInv, TypeOK, env
<1>1. pc' = [pc EXCEPT ![l] = "start"] /\ pc[l] = "handling"
  BY DEF Handled, Step
<1>2. Reading' = Reading /\ Live' = Live
  BY <1>1 DEF Reading, Live
<1>3. TypeOK'
  BY <1>1 DEF Handled
<1>4. (ReadersExact /\ LoopsExact /\ ReadersBounded)'
  BY <1>2 DEF Handled, ReadersExact, LoopsExact, ReadersBounded
<1>5. (SomeoneReads /\ ClosedAfterLoops)'
  BY <1>1, <1>2 DEF SomeoneReads, ClosedAfterLoops, Handled
<1> QED BY <1>3, <1>4, <1>5

\* The steps of the kernel, Unmount and Serve, and stuttering: no loop moves.
LEMMA OtherIInv ==
  ASSUME IInv,
         \/ KernelSend \/ HandledApart \/ UnmountDone \/ ServeClose
         \/ \E caller \in {"wait", "no"} : Unmount(caller)
         \/ UNCHANGED vars
  PROVE  IInv'
<1> USE DEF IInv, TypeOK, env
<1>1. UNCHANGED <<pc, reqReaders, loops>>
  BY DEF KernelSend, HandledApart, UnmountDone, ServeClose, Unmount, vars
<1>2. Reading' = Reading /\ Live' = Live
  BY <1>1 DEF Reading, Live
<1>3. TypeOK'
  <2>1. CASE KernelSend
    BY <1>1, <2>1 DEF KernelSend
  <2>2. CASE HandledApart
    BY <1>1, <2>2 DEF HandledApart
  <2>3. CASE UnmountDone
    BY <1>1, <2>3 DEF UnmountDone
  <2>4. CASE ServeClose
    BY <1>1, <2>4 DEF ServeClose
  <2>5. CASE \E caller \in {"wait", "no"} : Unmount(caller)
    <3>1. mounted' \in BOOLEAN
      BY <2>5, Zenon DEF Unmount
    <3>2. pending' \in Nat /\ unmount' \in {"no", "wait", "done"}
      BY <2>5 DEF Unmount
    <3>3. UNCHANGED <<handlers, fd, sent, singleReader>>
      BY <2>5 DEF Unmount
    <3> QED BY <1>1, <3>1, <3>2, <3>3
  <2>6. CASE UNCHANGED vars
    BY <1>1, <2>6 DEF vars
  <2> QED BY <2>1, <2>2, <2>3, <2>4, <2>5, <2>6
<1>4. (ReadersExact /\ LoopsExact /\ ReadersBounded)'
  BY <1>1, <1>2 DEF ReadersExact, LoopsExact, ReadersBounded
<1>5. loops = 0 => Live = {}
  BY Finite, FS_EmptySet, Zenon DEF LoopsExact
<1>6. SomeoneReads'
  BY <1>1, Zenon DEF SomeoneReads, KernelSend, HandledApart, UnmountDone, ServeClose, Unmount, vars
<1>7. ClosedAfterLoops'
  BY <1>2, <1>5 DEF ClosedAfterLoops, KernelSend, HandledApart, UnmountDone, ServeClose, Unmount, vars
<1> QED BY Zenon, <1>3, <1>4, <1>6, <1>7

\* The counters of the server are exact in every reachable state.
THEOREM Invariance == Spec => []IInv
<1>1. IInv /\ [Next]_vars => IInv'
  BY EnterIInv, ReadIInv, GotIInv, HandledIInv, OtherIInv DEF Next, Reader
<1> QED BY InitIInv, <1>1, PTL DEF Spec

\* While mounted some loop reads the device or is about to, whatever requests
\* are still being handled: readRequest's spawning and its exits balance.
THEOREM ReadersRemain == Spec => []SomeoneReads
<1>1. IInv => SomeoneReads
  BY DEF IInv
<1> QED BY <1>1, Invariance, PTL

\* At most one reader above the limit reads the device.
THEOREM ReadersLimited == Spec => []ReadersBounded
<1>1. IInv => ReadersBounded
  BY DEF IInv
<1> QED BY <1>1, Invariance, PTL

\* reqReaders is the number of readers.
THEOREM ReadersCounted == Spec => []ReadersExact
<1>1. IInv => ReadersExact
  BY DEF IInv
<1> QED BY <1>1, Invariance, PTL

\* Serve closes the device, and Unmount returns, after the last loop; the
\* goroutines of a single reader's requests are not loops.
THEOREM CloseIsLast == Spec => []ClosedAfterLoops
<1>1. IInv => ClosedAfterLoops
  BY Zenon DEF IInv
<1> QED BY <1>1, Invariance, PTL
-----------------------------------------------------------------------------
(* The requests in flight.                                                 *)

\* What is assumed of the parameters: Nil is no request.
NilApart == Nil \notin Uniques

Req == [pc : Table!PCs, unique : Uniques \cup {Nil}, kind : {"op", "intr"},
        index : Nat, interrupted : BOOLEAN, again : BOOLEAN]

\* An INTERRUPT that is read and not yet written.
Active(s) == req[s].kind = "intr" /\ req[s].pc \in {"read", "run", "write"}

\* The kernel waits for the answer to each of them, and sends no second one for the
\* same request.
ActiveRead == \A s \in Structs : Active(s) => intr[req[s].unique] = "read"
ActiveOnce ==
  \A s, t \in Structs : Active(s) /\ Active(t) /\ req[s].unique = req[t].unique => s = t

\* An INTERRUPT whose request is cancelled is the one that did it: it has been
\* handled, and is not answered with EAGAIN.
ActiveDone ==
  \A s, t \in Structs :
    Active(s) /\ req[t].interrupted = TRUE /\ req[s].unique = req[t].unique =>
      req[s].pc = "write" /\ req[s].again = FALSE

\* What a struct holds at each point of its life.
Fields ==
  \A s \in Structs :
    /\ req[s].pc \in {"pool", "read", "run"} => req[s].again = FALSE
    /\ req[s].pc = "pool" => req[s].interrupted = FALSE
    /\ req[s].pc \in {"read", "run", "write", "return"} => req[s].unique \in Uniques

\* CancelledByOwnInterrupt, of a struct.
Own ==
  \A s \in Structs : req[s].interrupted = TRUE =>
    req[s].kind = "op" /\ req[s].unique \in Uniques /\ intr[req[s].unique] \in {"read", "done"}

TableIInv ==
  /\ req \in [Structs -> Req] /\ reqInflight \in Seq(Structs)
  /\ intr \in [Uniques -> {"none", "queued", "read", "done"}]
  /\ Table!InflightExact /\ ActiveRead /\ ActiveOnce /\ ActiveDone /\ Fields /\ Own

\* A step that moves no struct into or out of the table.
LEMMA TableKept ==
  ASSUME Table!InflightExact, reqInflight' = reqInflight, reqInflight \in Seq(Structs),
         \A t \in Structs : /\ req'[t].index = req[t].index
                            /\ req'[t].pc \in Table!InTable <=> req[t].pc \in Table!InTable
  PROVE  Table!InflightExact'
<1>1. \A i \in DOMAIN reqInflight : reqInflight[i] \in Structs OBVIOUS
<1> QED BY <1>1 DEF Table!InflightExact

\* No struct is in use at the start.
LEMMA TableInitIInv == ASSUME NilApart PROVE Table!Init => TableIInv
<1> SUFFICES ASSUME Table!Init PROVE TableIInv OBVIOUS
<1>1. req \in [Structs -> Req] BY DEF Table!Init, Table!NewReq, Req, Table!PCs
<1>2. reqInflight \in Seq(Structs) /\ intr \in [Uniques -> {"none", "queued", "read", "done"}]
  BY DEF Table!Init
<1>3. \A s \in Structs : /\ req[s].pc = "pool" /\ req[s].interrupted = FALSE
                         /\ req[s].again = FALSE
  BY DEF Table!Init, Table!NewReq
<1>4. Table!InflightExact BY <1>3 DEF Table!Init, Table!InflightExact, Table!InTable
<1>5. ActiveRead /\ ActiveOnce /\ ActiveDone /\ Fields /\ Own
  BY <1>3 DEF ActiveRead, ActiveOnce, ActiveDone, Active, Fields, Own
<1> QED BY <1>1, <1>2, <1>4, <1>5 DEF TableIInv

\* The kernel interrupts a request: no INTERRUPT for it was read.
LEMMA TableKernelIInv ==
  ASSUME TableIInv, NEW u \in Uniques, Table!KernelSend(u) \/ Table!KernelInterrupt(u)
  PROVE  TableIInv'
<1>1. req' = req /\ reqInflight' = reqInflight BY DEF Table!KernelSend, Table!KernelInterrupt
<1>2. Table!InflightExact' BY <1>1 DEF TableIInv, Table!InflightExact
<1>3. ActiveOnce' /\ ActiveDone' /\ Fields'
  BY <1>1 DEF TableIInv, ActiveOnce, ActiveDone, Active, Fields
<1>4. intr' = intr \/ (intr[u] = "none" /\ intr' = [intr EXCEPT ![u] = "queued"])
  BY DEF Table!KernelSend, Table!KernelInterrupt
<1>5. intr' \in [Uniques -> {"none", "queued", "read", "done"}] BY <1>4 DEF TableIInv
<1>6. ASSUME NEW v \in Uniques, intr[v] \in {"read", "done"} PROVE intr'[v] = intr[v]
  BY Zenon, <1>4, <1>6 DEF TableIInv
<1>7. ActiveRead'
  <2>1. \A s \in Structs : Active(s) => req[s].unique \in Uniques BY DEF TableIInv, Active, Fields
  <2> QED BY <1>1, <1>6, <2>1 DEF TableIInv, ActiveRead, Active
<1>8. Own' BY <1>1, <1>6 DEF TableIInv, Own
<1> QED BY <1>1, <1>2, <1>3, <1>5, <1>7, <1>8 DEF TableIInv

\* A request is read into a struct of the pool.
LEMMA TableReadIInv ==
  ASSUME TableIInv, NEW s \in Structs, NEW u \in Uniques, Table!Read(s, u)
  PROVE  TableIInv'
<1>1. /\ req[s].pc = "pool" /\ reqInflight' = reqInflight /\ intr' = intr
      /\ req' = [req EXCEPT ![s].pc = "read", ![s].unique = u, ![s].kind = "op"]
  BY DEF Table!Read
<1>2. /\ \A t \in Structs : t # s => req'[t] = req[t]
      /\ req'[s].pc = "read" /\ req'[s].unique = u /\ req'[s].kind = "op"
      /\ req'[s].index = req[s].index /\ req'[s].interrupted = req[s].interrupted
      /\ req'[s].again = req[s].again
  BY <1>1 DEF TableIInv, Req
<1>3. req' \in [Structs -> Req]
  <2>1. req[s] \in Req BY DEF TableIInv
  <2>2. [req[s] EXCEPT !.pc = "read", !.unique = u, !.kind = "op"] \in Req BY <2>1, Zenon DEF Req, Table!PCs
  <2>3. req' = [req EXCEPT ![s] = [req[s] EXCEPT !.pc = "read", !.unique = u, !.kind = "op"]] BY <1>1, Zenon DEF TableIInv
  <2> QED BY <2>2, <2>3 DEF TableIInv
<1>4. Table!InflightExact' BY <1>1, <1>2, TableKept DEF TableIInv, Table!InTable
<1>5. req[s].interrupted = FALSE /\ req[s].again = FALSE BY Zenon, <1>1 DEF TableIInv, Fields
<1>6. \A t \in Structs : Active(t)' => t # s /\ Active(t) BY <1>2 DEF Active
<1>7. ActiveRead' BY Zenon, <1>1, <1>2, <1>6 DEF TableIInv, ActiveRead
<1>8. ActiveOnce' BY Zenon, <1>2, <1>6 DEF TableIInv, ActiveOnce
<1>9. ActiveDone'
  <2> SUFFICES ASSUME NEW a \in Structs, NEW b \in Structs,
                      Active(a)', req'[b].interrupted = TRUE, req'[a].unique = req'[b].unique
               PROVE  req'[a].pc = "write" /\ req'[a].again = FALSE
    BY Zenon DEF ActiveDone
  <2>1. b # s /\ a # s /\ Active(a) BY Zenon, <1>2, <1>5, <1>6
  <2> QED BY <1>2, <2>1 DEF TableIInv, ActiveDone
<1>10. Fields' BY Zenon, <1>2, <1>5 DEF TableIInv, Fields
<1>11. Own' BY <1>1, <1>2, <1>5 DEF TableIInv, Own
<1> QED BY Zenon, <1>1, <1>3, <1>4, <1>7, <1>8, <1>9, <1>10, <1>11 DEF TableIInv

\* An INTERRUPT is read: the only one, and its request is not cancelled.
LEMMA TableReadInterruptIInv ==
  ASSUME TableIInv, NEW s \in Structs, NEW u \in Uniques, Table!ReadInterrupt(s, u)
  PROVE  TableIInv'
<1>1. /\ req[s].pc = "pool" /\ reqInflight' = reqInflight
      /\ intr[u] = "queued" /\ intr' = [intr EXCEPT ![u] = "read"]
      /\ req' = [req EXCEPT ![s].pc = "read", ![s].unique = u, ![s].kind = "intr"]
  BY DEF Table!ReadInterrupt
<1>2. /\ \A t \in Structs : t # s => req'[t] = req[t]
      /\ req'[s].pc = "read" /\ req'[s].unique = u /\ req'[s].kind = "intr"
      /\ req'[s].index = req[s].index /\ req'[s].interrupted = req[s].interrupted
      /\ req'[s].again = req[s].again
  BY <1>1 DEF TableIInv, Req
<1>3. req' \in [Structs -> Req]
  <2>1. req[s] \in Req BY DEF TableIInv
  <2>2. [req[s] EXCEPT !.pc = "read", !.unique = u, !.kind = "intr"] \in Req BY <2>1, Zenon DEF Req, Table!PCs
  <2>3. req' = [req EXCEPT ![s] = [req[s] EXCEPT !.pc = "read", !.unique = u, !.kind = "intr"]] BY <1>1, Zenon DEF TableIInv
  <2> QED BY <2>2, <2>3 DEF TableIInv
<1>4. intr'[u] = "read" /\ \A v \in Uniques : v # u => intr'[v] = intr[v] BY <1>1 DEF TableIInv
<1>5. intr' \in [Uniques -> {"none", "queued", "read", "done"}] BY <1>1 DEF TableIInv
<1>6. Table!InflightExact' BY <1>1, <1>2, TableKept DEF TableIInv, Table!InTable
<1>7. req[s].interrupted = FALSE /\ req[s].again = FALSE BY <1>1 DEF TableIInv, Fields
<1>8. \A t \in Structs : t # s /\ Active(t)' => Active(t) /\ req[t].unique \in Uniques \ {u}
  BY <1>1, <1>2 DEF TableIInv, Active, ActiveRead, Fields
<1>9. \A t \in Structs : req[t].interrupted = TRUE => t # s /\ req[t].unique \in Uniques \ {u}
  BY Zenon, <1>1, <1>7 DEF TableIInv, Own
<1>10. ActiveRead'
  <2> SUFFICES ASSUME NEW t \in Structs, Active(t)' PROVE intr'[req'[t].unique] = "read"
    BY Zenon DEF ActiveRead
  <2>1. CASE t = s BY Zenon, <1>2, <1>4, <2>1
  <2>2. CASE t # s BY <1>2, <1>4, <1>8, <2>2 DEF TableIInv, ActiveRead
  <2> QED BY Zenon, <2>1, <2>2
<1>11. ActiveOnce' BY ZenonT(60), <1>2, <1>8 DEF TableIInv, ActiveOnce
<1>12. ActiveDone' BY <1>2, <1>7, <1>8, <1>9 DEF TableIInv, ActiveDone
<1>13. Fields' BY Zenon, <1>2, <1>7 DEF TableIInv, Fields
<1>14. Own' BY <1>2, <1>4, <1>7, <1>9 DEF TableIInv, Own
<1> QED BY Zenon, <1>1, <1>3, <1>5, <1>6, <1>10, <1>11, <1>12, <1>13, <1>14 DEF TableIInv

\* A request enters the table, at its end.
LEMMA TableRegisterIInv == ASSUME TableIInv, NEW s \in Structs, Table!Register(s) PROVE TableIInv'
<1>1. /\ req[s].pc = "read" /\ intr' = intr
      /\ reqInflight' = Append(reqInflight, s)
      /\ req' = [req EXCEPT ![s].pc = "run", ![s].index = Len(reqInflight) + 1]
  BY DEF Table!Register
<1>2. /\ \A t \in Structs : t # s => req'[t] = req[t]
      /\ req'[s].pc = "run" /\ req'[s].unique = req[s].unique /\ req'[s].kind = req[s].kind
      /\ req'[s].index = Len(reqInflight) + 1 /\ req'[s].interrupted = req[s].interrupted
      /\ req'[s].again = req[s].again
  BY <1>1 DEF TableIInv, Req
<1>3. req' \in [Structs -> Req] /\ reqInflight' \in Seq(Structs)
  <2>1. req[s] \in Req /\ Len(reqInflight) + 1 \in Nat BY DEF TableIInv
  <2>2. [req[s] EXCEPT !.pc = "run", !.index = Len(reqInflight) + 1] \in Req
    BY <2>1, Zenon DEF Req, Table!PCs
  <2>3. req' = [req EXCEPT ![s] = [req[s] EXCEPT !.pc = "run", !.index = Len(reqInflight) + 1]]
    BY <1>1, Zenon DEF TableIInv
  <2>4. reqInflight' \in Seq(Structs) BY <1>1 DEF TableIInv
  <2> QED BY Zenon, <2>2, <2>3, <2>4 DEF TableIInv
<1>4. Table!InflightExact'
  <2>1. /\ DOMAIN reqInflight = 1..Len(reqInflight) /\ Len(reqInflight) \in Nat
        /\ DOMAIN reqInflight' = 1..(Len(reqInflight) + 1)
        /\ reqInflight'[Len(reqInflight) + 1] = s
        /\ \A i \in DOMAIN reqInflight : reqInflight'[i] = reqInflight[i] /\ reqInflight[i] \in Structs
    BY <1>1 DEF TableIInv
  <2>2. \A i \in DOMAIN reqInflight : reqInflight[i] # s
    BY <1>1, Zenon DEF TableIInv, Table!InflightExact, Table!InTable
  <2> QED BY <1>2, <2>1, <2>2 DEF TableIInv, Table!InflightExact, Table!InTable
<1>5. \A t \in Structs : Active(t)' => Active(t) BY <1>1, <1>2, Zenon DEF Active
<1>6. ActiveRead' BY <1>1, <1>2, <1>5 DEF TableIInv, ActiveRead
<1>7. ActiveOnce'
  <2>1. \A t \in Structs : req'[t].unique = req[t].unique BY Zenon, <1>2
  <2> QED BY Zenon, <1>5, <2>1 DEF TableIInv, ActiveOnce
<1>8. ActiveDone' BY <1>1, <1>2, <1>5 DEF TableIInv, ActiveDone
<1>9. Fields' BY <1>1, <1>2 DEF TableIInv, Fields
<1>10. Own' BY <1>1, <1>2 DEF TableIInv, Own
<1> QED BY Zenon, <1>1, <1>3, <1>4, <1>6, <1>7, <1>8, <1>9, <1>10 DEF TableIInv

\* doInterrupt cancels a request in the table that is not cancelled yet, or fails.
LEMMA TableDoInterruptIInv == ASSUME NilApart, TableIInv, NEW s \in Structs, Table!DoInterrupt(s) PROVE TableIInv'
<1>1. req[s].pc = "run" /\ req[s].kind = "intr" /\ reqInflight' = reqInflight /\ intr' = intr
  BY DEF Table!DoInterrupt
<1>2. Active(s) /\ req[s].again = FALSE /\ req[s].unique \in Uniques
  BY <1>1 DEF Active, TableIInv, Fields
<1>3. \A t \in Structs : req[t].interrupted = TRUE => req[t].unique # req[s].unique
  BY <1>1, <1>2 DEF TableIInv, ActiveDone
<1>4. \A t \in Structs : Active(t) /\ t # s => req[t].unique # req[s].unique
  BY <1>2 DEF TableIInv, ActiveOnce
<1>5. CASE Table!TargetsOf(s) # {}
  <2>1. PICK i \in Table!TargetsOf(s) :
          req' = [req EXCEPT ![s].pc = "write", ![reqInflight[i]].interrupted = TRUE]
    BY <1>5 DEF Table!DoInterrupt
  <2> DEFINE t == reqInflight[i]
  <2>2. t \in Structs /\ req[t].kind = "op" /\ req[t].unique = req[s].unique
    BY DEF Table!TargetsOf, Table!Target, TableIInv
  <2>3. t # s BY <1>1, <2>2
  <2> HIDE DEF t
  <2>4. req' = [req EXCEPT ![s].pc = "write", ![t].interrupted = TRUE] BY <2>1 DEF t
  <2>5. req' \in [Structs -> Req]
    <3>1. req[s] \in Req /\ req[t] \in Req BY <2>2 DEF TableIInv
    <3>2. [req[s] EXCEPT !.pc = "write"] \in Req /\ [req[t] EXCEPT !.interrupted = TRUE] \in Req
      BY <3>1, Zenon DEF Req, Table!PCs
    <3>3. req' = [req EXCEPT ![s] = [req[s] EXCEPT !.pc = "write"],
                             ![t] = [req[t] EXCEPT !.interrupted = TRUE]]
      BY <2>2, <2>3, <2>4 DEF TableIInv
    <3> QED BY <2>2, <3>2, <3>3 DEF TableIInv
  <2>6. /\ \A r \in Structs : r # s /\ r # t => req'[r] = req[r]
        /\ \A r \in Structs : /\ req'[r].unique = req[r].unique /\ req'[r].kind = req[r].kind
                              /\ req'[r].index = req[r].index /\ req'[r].again = req[r].again
        /\ req'[s].pc = "write" /\ req'[s].interrupted = req[s].interrupted
        /\ req'[t].pc = req[t].pc /\ req'[t].interrupted = TRUE
    BY <2>2, <2>3, <2>4, ZenonT(60) DEF TableIInv, Req
  <2>7. Table!InflightExact' BY <1>1, <2>2, <2>6, TableKept DEF TableIInv, Table!InTable
  <2>8. \A r \in Structs : Active(r)' => Active(r) BY <1>2, <2>6 DEF Active
  <2>9. ActiveRead' BY ZenonT(60), <1>1, <2>6, <2>8 DEF TableIInv, ActiveRead
  <2>10. ActiveOnce' BY ZenonT(60), <2>6, <2>8 DEF TableIInv, ActiveOnce
  <2>11. req[t].pc # "pool"
    <3>1. i \in DOMAIN reqInflight BY DEF Table!TargetsOf
    <3> QED BY Zenon, <3>1 DEF t, TableIInv, Table!InflightExact, Table!InTable
  <2>12. ActiveDone'
    <3> SUFFICES ASSUME NEW a \in Structs, NEW b \in Structs,
                        Active(a)', req'[b].interrupted = TRUE, req'[a].unique = req'[b].unique
                 PROVE  req'[a].pc = "write" /\ req'[a].again = FALSE
      BY Zenon DEF ActiveDone
    <3>1. CASE a = s BY Zenon, <1>2, <2>6, <3>1
    <3>2. CASE a # s
      <4>1. Active(a) /\ a # t BY Zenon, <2>2, <2>6, <2>8 DEF Active
      <4>2. b # t BY <1>4, <2>2, <2>6, <3>2, <4>1
      <4>3. req[b].interrupted = TRUE BY Zenon, <2>6, <4>2
      <4> QED BY ZenonT(60), <2>6, <3>2, <4>1, <4>3 DEF TableIInv, ActiveDone
    <3> QED BY <3>1, <3>2, Zenon
  <2>13. Fields' BY <1>2, <2>6, <2>11 DEF TableIInv, Fields
  <2>14. Own'
    <3>1. intr[req[t].unique] = "read" BY Zenon, <1>2, <2>2 DEF TableIInv, ActiveRead
    <3> QED BY <1>1, <1>2, <2>2, <2>6, <3>1 DEF TableIInv, Own
  <2> QED BY <1>1, <2>5, <2>7, <2>9, <2>10, <2>12, <2>13, <2>14 DEF TableIInv
<1>6. CASE Table!TargetsOf(s) = {}
  <2>1. req' = [req EXCEPT ![s].pc = "write", ![s].again = TRUE] BY <1>6 DEF Table!DoInterrupt
  <2>2. req' \in [Structs -> Req]
    <3>1. req[s] \in Req BY DEF TableIInv
    <3>2. [req[s] EXCEPT !.pc = "write", !.again = TRUE] \in Req BY <3>1, Zenon DEF Req, Table!PCs
    <3>3. req' = [req EXCEPT ![s] = [req[s] EXCEPT !.pc = "write", !.again = TRUE]] BY <2>1, Zenon DEF TableIInv
    <3> QED BY <3>2, <3>3 DEF TableIInv
  <2>3. /\ \A r \in Structs : r # s => req'[r] = req[r]
        /\ req'[s].unique = req[s].unique /\ req'[s].kind = req[s].kind
        /\ req'[s].index = req[s].index /\ req'[s].interrupted = req[s].interrupted
        /\ req'[s].pc = "write"
    BY Zenon, <2>1 DEF TableIInv, Req
  <2>4. Table!InflightExact' BY Zenon, <1>1, <2>3, TableKept DEF TableIInv, Table!InTable
  <2>5. \A r \in Structs : Active(r)' => Active(r) BY Zenon, <1>2, <2>3 DEF Active
  <2>6. ActiveRead' BY ZenonT(60), <1>1, <2>3, <2>5 DEF TableIInv, ActiveRead
  <2>7. ActiveOnce' BY <2>3, <2>5 DEF TableIInv, ActiveOnce
  <2>8. ActiveDone'
    <3> SUFFICES ASSUME NEW a \in Structs, NEW b \in Structs,
                        Active(a)', req'[b].interrupted = TRUE, req'[a].unique = req'[b].unique
                 PROVE  req'[a].pc = "write" /\ req'[a].again = FALSE
      BY Zenon DEF ActiveDone
    <3>1. Active(a) /\ req[b].interrupted = TRUE /\ req[a].unique = req[b].unique BY Zenon, <2>3, <2>5
    <3>2. a # s BY Zenon, <1>3, <3>1
    <3> QED BY Zenon, <2>3, <3>1, <3>2 DEF TableIInv, ActiveDone
  <2>9. Fields' BY Zenon, <1>2, <2>3 DEF TableIInv, Fields
  <2>10. Own' BY <1>1, <2>3 DEF TableIInv, Own
  <2> QED BY Zenon, <1>1, <2>2, <2>4, <2>6, <2>7, <2>8, <2>9, <2>10 DEF TableIInv
<1> QED BY <1>5, <1>6

\* The file system returns.
LEMMA TableHandleIInv == ASSUME TableIInv, NEW s \in Structs, Table!Handle(s) PROVE TableIInv'
<1>1. /\ req[s].pc = "run" /\ req[s].kind = "op" /\ reqInflight' = reqInflight /\ intr' = intr
      /\ req' = [req EXCEPT ![s].pc = "write"]
  BY DEF Table!Handle
<1>2. req' \in [Structs -> Req] BY <1>1, ZenonT(60) DEF TableIInv, Req, Table!PCs
<1>3. /\ \A r \in Structs : r # s => req'[r] = req[r]
      /\ req'[s].unique = req[s].unique /\ req'[s].kind = req[s].kind
      /\ req'[s].index = req[s].index /\ req'[s].interrupted = req[s].interrupted
      /\ req'[s].pc = "write" /\ req'[s].again = req[s].again
  BY <1>1 DEF TableIInv, Req
<1>4. Table!InflightExact' BY <1>1, <1>3, TableKept DEF TableIInv, Table!InTable
<1>5. \A r \in Structs : Active(r)' => Active(r) /\ r # s BY <1>1, <1>3 DEF Active
<1>6. ActiveRead' BY <1>1, <1>3, <1>5 DEF TableIInv, ActiveRead
<1>7. ActiveOnce' BY <1>3, <1>5 DEF TableIInv, ActiveOnce
<1>8. ActiveDone' BY <1>3, <1>5 DEF TableIInv, ActiveDone
<1>9. Fields' BY <1>1, <1>3 DEF TableIInv, Fields
<1>10. Own' BY <1>1, <1>3 DEF TableIInv, Own
<1> QED BY Zenon, <1>1, <1>2, <1>4, <1>6, <1>7, <1>8, <1>9, <1>10 DEF TableIInv

\* The answer. EAGAIN goes only to an INTERRUPT whose request is not cancelled.
LEMMA TableWriteIInv == ASSUME TableIInv, NEW s \in Structs, Table!Write(s) PROVE TableIInv'
<1> DEFINE u == req[s].unique
<1>1. /\ req[s].pc = "write" /\ reqInflight' = reqInflight
      /\ req' = [req EXCEPT ![s].pc = "return"]
      /\ \/ intr' = intr
         \/ /\ req[s].kind = "intr"
            /\ intr' = [intr EXCEPT ![u] = IF req[s].again /\ op[u] # "answered"
                                           THEN "queued" ELSE "done"]
  BY DEF Table!Write
<1>2. req' \in [Structs -> Req]
  <2>1. req[s] \in Req BY DEF TableIInv
  <2>2. [req[s] EXCEPT !.pc = "return"] \in Req BY <2>1 DEF Req, Table!PCs
  <2>3. req' = [req EXCEPT ![s] = [req[s] EXCEPT !.pc = "return"]] BY <1>1 DEF TableIInv
  <2> QED BY <2>2, <2>3 DEF TableIInv
<1>3. /\ \A r \in Structs : r # s => req'[r] = req[r]
      /\ req'[s].unique = req[s].unique /\ req'[s].kind = req[s].kind
      /\ req'[s].index = req[s].index /\ req'[s].interrupted = req[s].interrupted
      /\ req'[s].pc = "return" /\ req'[s].again = req[s].again
  BY <1>1 DEF TableIInv, Req
<1>4. u \in Uniques BY <1>1 DEF TableIInv, Fields
<1> HIDE DEF u
<1>5. intr' \in [Uniques -> {"none", "queued", "read", "done"}] BY <1>1 DEF TableIInv
<1>6. \A v \in Uniques : v # u => intr'[v] = intr[v] BY <1>1 DEF TableIInv
<1>7. Table!InflightExact' BY Zenon, <1>1, <1>3, TableKept DEF TableIInv, Table!InTable
<1>8. \A r \in Structs : Active(r)' => Active(r) /\ r # s /\ req[r].unique \in Uniques
  BY <1>3 DEF Active, TableIInv, Fields
<1>9. ActiveRead'
  <2> SUFFICES ASSUME NEW r \in Structs, Active(r)' PROVE intr'[req'[r].unique] = "read"
    BY Zenon DEF ActiveRead
  <2>1. Active(r) /\ r # s /\ req'[r] = req[r] /\ req[r].unique \in Uniques BY Zenon, <1>3, <1>8
  <2>2. intr[req[r].unique] = "read" BY Zenon, <2>1 DEF TableIInv, ActiveRead
  <2>3. CASE intr' = intr BY Zenon, <2>1, <2>2, <2>3
  <2>4. CASE req[s].kind = "intr"
    <3>1. req[r].unique # u BY Zenon, <1>1, <2>1, <2>4 DEF TableIInv, ActiveOnce, Active, u
    <3> QED BY Zenon, <1>6, <2>1, <2>2, <3>1
  <2> QED BY Zenon, <1>1, <2>3, <2>4
<1>10. ActiveOnce' BY Zenon, <1>3, <1>8 DEF TableIInv, ActiveOnce
<1>11. ActiveDone' BY <1>3, <1>8 DEF TableIInv, ActiveDone
<1>12. Fields' BY Zenon, <1>1, <1>3 DEF TableIInv, Fields
<1>13. Own'
  <2> SUFFICES ASSUME NEW r \in Structs, req'[r].interrupted = TRUE
               PROVE  /\ req'[r].kind = "op" /\ req'[r].unique \in Uniques
                      /\ intr'[req'[r].unique] \in {"read", "done"}
    BY Zenon DEF Own
  <2>1. /\ req[r].kind = "op" /\ req'[r].kind = "op" /\ req[r].unique \in Uniques
        /\ req'[r].unique = req[r].unique /\ intr[req[r].unique] \in {"read", "done"}
        /\ req[r].interrupted = TRUE
    BY Zenon, <1>3 DEF TableIInv, Own
  <2>2. CASE intr' = intr BY Zenon, <2>1, <2>2
  <2>3. CASE /\ req[s].kind = "intr"
             /\ intr' = [intr EXCEPT ![u] = IF req[s].again /\ op[u] # "answered"
                                            THEN "queued" ELSE "done"]
    <3>1. CASE req[r].unique = u
      <4>1. req[s].again = FALSE BY Zenon, <1>1, <2>1, <2>3, <3>1 DEF TableIInv, ActiveDone, Active, u
      <4>2. intr' = [intr EXCEPT ![u] = "done"] BY <2>3, <4>1, Zenon
      <4> QED BY Zenon, <1>4, <2>1, <3>1, <4>2 DEF TableIInv
    <3>2. CASE req[r].unique # u BY <1>6, <2>1, <3>2
    <3> QED BY Zenon, <3>1, <3>2
  <2> QED BY <1>1, <2>2, <2>3
<1> QED BY Zenon, <1>1, <1>2, <1>5, <1>7, <1>9, <1>10, <1>11, <1>12, <1>13 DEF TableIInv

\* A request leaves the table, and the last one takes its place.
LEMMA TableReturnIInv == ASSUME TableIInv, NEW s \in Structs, Table!Return(s) PROVE TableIInv'
<1> DEFINE i == req[s].index
           last == Len(reqInflight)
           moved == reqInflight[last]
<1>1. /\ req[s].pc = "return" /\ intr' = intr
      /\ reqInflight' = SubSeq([reqInflight EXCEPT ![i] = moved], 1, last - 1)
      /\ req' = [req EXCEPT ![moved].index = i, ![s].pc = "clear"]
  BY Zenon DEF Table!Return, Table!Remove
<1>2. /\ i \in 1..last /\ reqInflight[i] = s /\ last \in Nat /\ last > 0
      /\ DOMAIN reqInflight = 1..last
      /\ \A j \in 1..last : reqInflight[j] \in Structs
      /\ \A j \in 1..last : req[reqInflight[j]].index = j /\ req[reqInflight[j]].pc \in Table!InTable
  BY <1>1 DEF TableIInv, Table!InflightExact, Table!InTable
<1>3. moved \in Structs /\ req[moved].index = last /\ req[moved].pc \in Table!InTable /\ i \in Nat
  BY <1>2
<1>4. /\ reqInflight' \in Seq(Structs) /\ DOMAIN reqInflight' = 1..(last - 1)
      /\ \A j \in 1..(last - 1) : reqInflight'[j] = IF j = i THEN moved ELSE reqInflight[j]
  <2> DEFINE f == [reqInflight EXCEPT ![i] = moved]
  <2>1. f \in Seq(Structs) /\ Len(f) = last BY <1>2, <1>3 DEF TableIInv
  <2>2. \A j \in 1..last : f[j] = IF j = i THEN moved ELSE reqInflight[j] BY <1>2 DEF TableIInv
  <2> HIDE DEF f
  <2>3. reqInflight' = SubSeq(f, 1, last - 1) BY Zenon, <1>1 DEF f
  <2>4. /\ SubSeq(f, 1, last - 1) \in Seq(Structs)
        /\ Len(SubSeq(f, 1, last - 1)) = last - 1
        /\ \A j \in 1..(last - 1) : SubSeq(f, 1, last - 1)[j] = f[j]
    BY <1>2, <2>1
  <2> QED BY <1>2, <2>2, <2>3, <2>4
<1> HIDE DEF i, last, moved
<1>5. req' \in [Structs -> Req]
  <2> DEFINE g == [req EXCEPT ![moved] = [req[moved] EXCEPT !.index = i]]
  <2>1. req[moved] \in Req BY <1>3 DEF TableIInv
  <2>2. [req[moved] EXCEPT !.index = i] \in Req BY <1>3, <2>1 DEF Req
  <2>3. g \in [Structs -> Req] /\ g = [req EXCEPT ![moved].index = i] BY <1>3, <2>2 DEF TableIInv
  <2> HIDE DEF g
  <2>4. req' = [g EXCEPT ![s] = [g[s] EXCEPT !.pc = "clear"]] BY <1>1, <2>3
  <2>5. g[s] \in Req BY <2>3
  <2>6. [g[s] EXCEPT !.pc = "clear"] \in Req BY <2>5 DEF Req, Table!PCs
  <2> QED BY Zenon, <2>3, <2>4, <2>6
<1>6. /\ \A r \in Structs : /\ req'[r].unique = req[r].unique /\ req'[r].kind = req[r].kind
                            /\ req'[r].interrupted = req[r].interrupted
                            /\ req'[r].again = req[r].again
                            /\ req'[r].pc = IF r = s THEN "clear" ELSE req[r].pc
                            /\ req'[r].index = IF r = moved THEN i ELSE req[r].index
  BY ZenonT(60), <1>1, <1>3 DEF TableIInv, Req
<1>7. Table!InflightExact'
  <2>1. ASSUME NEW j \in 1..(last - 1)
        PROVE  req'[reqInflight'[j]].index = j /\ req'[reqInflight'[j]].pc \in Table!InTable
    <3>1. CASE j = i
      <4>1. moved # s BY <1>2, <1>3, <2>1, <3>1 DEF i
      <4> QED BY ZenonT(60), <1>3, <1>4, <1>6, <3>1, <4>1
    <3>2. CASE j # i
      <4>1. j \in 1..last BY <1>2
      <4>2. reqInflight[j] # s BY Zenon, <1>2, <3>2, <4>1 DEF i
      <4>3. reqInflight[j] # moved BY <1>2, <1>3, <4>1
      <4> QED BY <1>2, <1>4, <1>6, <3>2, <4>1, <4>2, <4>3
    <3> QED BY Zenon, <3>1, <3>2
  <2>2. ASSUME NEW r \in Structs, req'[r].pc \in Table!InTable
        PROVE  req'[r].index \in 1..(last - 1) /\ reqInflight'[req'[r].index] = r
    <3>1. r # s /\ req[r].pc \in Table!InTable BY Zenon, <1>6, <2>2 DEF Table!InTable
    <3>2. req[r].index \in 1..last /\ reqInflight[req[r].index] = r
      BY Zenon, <1>2, <3>1 DEF TableIInv, Table!InflightExact
    <3>3. req[r].index # i BY Zenon, <1>2, <3>1, <3>2
    <3>4. CASE r = moved
      <4>1. i # last BY Zenon, <1>3, <3>3, <3>4
      <4>2. i \in 1..(last - 1) BY <1>2, <4>1
      <4> QED BY Zenon, <1>4, <1>6, <3>4, <4>2
    <3>5. CASE r # moved
      <4>1. req[r].index # last BY Zenon, <3>2, <3>5 DEF moved
      <4>2. req[r].index \in 1..(last - 1) BY <1>2, <3>2, <4>1
      <4> QED BY ZenonT(60), <1>4, <1>6, <3>2, <3>3, <3>5, <4>2
    <3> QED BY Zenon, <3>4, <3>5
  <2> QED BY Zenon, <1>4, <2>1, <2>2 DEF Table!InflightExact
<1>8. \A r \in Structs : Active(r)' => Active(r) /\ r # s BY Zenon, <1>6 DEF Active
<1>9. ActiveRead' BY <1>1, <1>6, <1>8 DEF TableIInv, ActiveRead
<1>10. ActiveOnce' BY ZenonT(60), <1>6, <1>8 DEF TableIInv, ActiveOnce
<1>11. ActiveDone' BY ZenonT(60), <1>6, <1>8 DEF TableIInv, ActiveDone
<1>12. Fields'
  <2>1. \A r \in Structs : r # s => req'[r].pc = req[r].pc BY Zenon, <1>6
  <2>2. req'[s].pc = "clear" BY Zenon, <1>6
  <2> QED BY ZenonT(60), <1>6, <2>1, <2>2 DEF TableIInv, Fields
<1>13. Own'
  <2> SUFFICES ASSUME NEW r \in Structs, req'[r].interrupted = TRUE
               PROVE  req'[r].kind = "op" /\ req'[r].unique \in Uniques /\ intr[req'[r].unique] \in {"read", "done"}
    BY Zenon, <1>1 DEF Own
  <2>1. /\ req'[r].unique = req[r].unique /\ req'[r].kind = req[r].kind
        /\ req[r].interrupted = TRUE
    BY Zenon, <1>6
  <2>2. req[r].kind = "op" /\ req[r].unique \in Uniques /\ intr[req[r].unique] \in {"read", "done"}
    BY Zenon, <2>1 DEF TableIInv, Own
  <2> QED BY <2>1, <2>2
<1> QED BY <1>1, <1>4, <1>5, <1>7, <1>9, <1>10, <1>11, <1>12, <1>13, Zenon DEF TableIInv

\* A struct that was cancelled does not go back to the pool.
LEMMA TableRecycleIInv == ASSUME TableIInv, NEW s \in Structs, Table!Recycle(s) PROVE TableIInv'
<1>1. req[s].pc = "clear" /\ reqInflight' = reqInflight /\ intr' = intr BY DEF Table!Recycle
<1>2. CASE req[s].interrupted = TRUE
  <2>1. req' = [req EXCEPT ![s].pc = "dropped"] BY <1>2 DEF Table!Recycle
  <2>2. req' \in [Structs -> Req] BY <2>1, ZenonT(60) DEF TableIInv, Req, Table!PCs
  <2>3. /\ \A r \in Structs : r # s => req'[r] = req[r]
        /\ req'[s].unique = req[s].unique /\ req'[s].kind = req[s].kind
        /\ req'[s].index = req[s].index /\ req'[s].interrupted = req[s].interrupted
        /\ req'[s].pc = "dropped" /\ req'[s].again = req[s].again
    BY <2>1 DEF TableIInv, Req
  <2>4. Table!InflightExact' BY Zenon, <1>1, <2>3, TableKept DEF TableIInv, Table!InTable
  <2>5. \A r \in Structs : Active(r)' => Active(r) /\ r # s BY Zenon, <2>3 DEF Active
  <2>6. ActiveRead' /\ ActiveOnce' /\ ActiveDone'
    BY <1>1, <2>3, <2>5 DEF TableIInv, ActiveRead, ActiveOnce, ActiveDone
  <2>7. Fields' BY Zenon, <2>3 DEF TableIInv, Fields
  <2>8. Own' BY ZenonT(60), <1>1, <2>3 DEF TableIInv, Own
  <2> QED BY <1>1, <2>2, <2>4, <2>6, <2>7, <2>8 DEF TableIInv
<1>3. CASE req[s].interrupted = FALSE
  <2>1. req' = [req EXCEPT ![s].unique = Nil, ![s].again = FALSE, ![s].pc = "pool"]
    BY <1>3 DEF Table!Recycle, Table!Cleared
  <2>2. req' \in [Structs -> Req]
    <3>1. req[s] \in Req BY DEF TableIInv
    <3>2. [req[s] EXCEPT !.unique = Nil, !.again = FALSE, !.pc = "pool"] \in Req BY <3>1, Zenon DEF Req, Table!PCs
    <3>3. req' = [req EXCEPT ![s] = [req[s] EXCEPT !.unique = Nil, !.again = FALSE, !.pc = "pool"]] BY <2>1, Zenon DEF TableIInv
    <3> QED BY <3>2, <3>3 DEF TableIInv
  <2>3. /\ \A r \in Structs : r # s => req'[r] = req[r]
        /\ req'[s].kind = req[s].kind
        /\ req'[s].index = req[s].index /\ req'[s].interrupted = FALSE
        /\ req'[s].pc = "pool" /\ req'[s].again = FALSE
    BY ZenonT(60), <1>3, <2>1 DEF TableIInv, Req
  <2>4. Table!InflightExact' BY Zenon, <1>1, <2>3, TableKept DEF TableIInv, Table!InTable
  <2>5. \A r \in Structs : Active(r)' => Active(r) /\ r # s BY Zenon, <2>3 DEF Active
  <2>6. ActiveRead' /\ ActiveOnce' /\ ActiveDone'
    BY <1>1, <2>3, <2>5 DEF TableIInv, ActiveRead, ActiveOnce, ActiveDone
  <2>7. Fields' BY Zenon, <2>3 DEF TableIInv, Fields
  <2>8. Own' BY <1>1, <2>3 DEF TableIInv, Own
  <2> QED BY <1>1, <2>2, <2>4, <2>6, <2>7, <2>8 DEF TableIInv
<1>4. req[s].interrupted \in BOOLEAN BY DEF TableIInv, Req
<1> QED BY <1>2, <1>3, <1>4, Zenon

\* The inductive invariant holds in every state.
LEMMA TableInductive == ASSUME NilApart PROVE Table!Spec => []TableIInv
<1>1. TableIInv /\ [Table!Next]_Table!vars => TableIInv'
  <2> SUFFICES ASSUME TableIInv, [Table!Next]_Table!vars PROVE TableIInv' BY Zenon
  <2>1. CASE UNCHANGED Table!vars
    BY ZenonT(60), <2>1 DEF Table!vars, TableIInv, Table!InflightExact, ActiveRead, ActiveOnce, ActiveDone, Active, Fields, Own
  <2>2. CASE Table!Next
    BY Zenon, <2>2, TableKernelIInv, TableReadIInv, TableReadInterruptIInv, TableRegisterIInv, TableDoInterruptIInv, TableWriteIInv,
       TableReturnIInv, TableRecycleIInv, TableHandleIInv DEF Table!Next, Table!Server
  <2> QED BY <2>1, <2>2
<1> QED BY <1>1, TableInitIInv, PTL DEF Table!Spec

\* Server.reqInflight (fuse/server.go) lists exactly the requests being handled, each at
\* its inflightIndex, although the last one takes the place of one that leaves.
THEOREM TableCorrect == ASSUME NilApart PROVE Table!Spec => []Table!InflightExact
<1>1. TableIInv => Table!InflightExact BY Zenon DEF TableIInv
<1> QED BY <1>1, TableInductive, PTL

\* doInterrupt (fuse/opcode.go) cancels only the request that the kernel interrupted, in
\* no later use of its struct, and the table it searches is exact, for any number of
\* requests, interrupts and retries.
THEOREM CancelCorrect == ASSUME NilApart PROVE Table!Spec => []CancelledByOwnInterrupt
<1>1. ASSUME TableIInv PROVE Table!CancelledByOwnInterrupt
  <2> SUFFICES ASSUME NEW s \in Structs, req[s].interrupted
               PROVE  /\ req[s].kind = "op" /\ req[s].unique # Nil
                      /\ intr[req[s].unique] \in {"read", "done"}
    BY DEF Table!CancelledByOwnInterrupt
  <2>1. req[s].interrupted = TRUE BY <1>1 DEF TableIInv, Req
  <2> QED BY Zenon, <1>1, <2>1 DEF TableIInv, Own, NilApart
<1>2. TableIInv => CancelledByOwnInterrupt
  BY <1>1 DEF TableIInv, CancelledByOwnInterrupt
<1> QED BY <1>2, TableInductive, PTL
=============================================================================
