--------------------------- MODULE NodeLocksProofs ---------------------------
(***************************************************************************)
(* The lock order of package nodefs, for any number of nodes and           *)
(* goroutines, as long as no OnAdd but the root's calls NewInode.          *)
(***************************************************************************)
EXTENDS NodeLocks, TLAPS

\* What a goroutine holds is below what it still wants, but in the retry of RmChild.
HeldBelow ==
  \A t \in Threads, n, m \in Nodes :
    busy[t] # "retry" /\ owner[n] = t /\ m \in want[t] => n < m

\* That retry holds at most the mutex it wants.
RetryHolds ==
  \A t \in Threads, n \in Nodes : busy[t] = "retry" /\ owner[n] = t => n \in want[t]

\* Whoever has the bridge's mutex is in its section and wants nothing more.
BridgeLast ==
  \A t \in Threads : bridge = t => busy[t] = "section" /\ want[t] = {} /\ ~wantBridge[t]

\* Outside of a section a goroutine holds no node and wants none.
IdleHoldsNothing ==
  \A t \in Threads : busy[t] \notin {"section", "retry"} =>
    want[t] = {} /\ \A n \in Nodes : owner[n] # t

IInv == TypeOK /\ HeldBelow /\ RetryHolds /\ BridgeLast /\ IdleHoldsNothing

\* Nothing is locked at the start.
LEMMA InitIInv == Init => IInv
BY ThreadsAssumption DEF Init, IInv, TypeOK, HeldBelow, RetryHolds, BridgeLast, IdleHoldsNothing

\* A group is wanted by a goroutine that holds nothing.
LEMMA LockNodesIInv ==
  ASSUME IInv, NEW t \in Threads, NEW S \in SUBSET Nodes, NEW br \in BOOLEAN,
         LockNodes(t, S, br)
  PROVE  IInv'
<1>1. TypeOK' BY DEF IInv, TypeOK, LockNodes
<1>2. HeldBelow' BY DEF IInv, TypeOK, HeldBelow, IdleHoldsNothing, LockNodes
<1>3. BridgeLast' BY DEF IInv, TypeOK, BridgeLast, LockNodes
<1>4. IdleHoldsNothing' BY DEF IInv, TypeOK, IdleHoldsNothing, LockNodes
<1>5. RetryHolds' BY DEF IInv, TypeOK, RetryHolds, LockNodes
<1> QED BY <1>1, <1>2, <1>3, <1>4, <1>5 DEF IInv

\* The node locked next is below all that remain.
LEMMA LockNextIInv ==
  ASSUME IInv, NEW t \in Threads, LockNext(t)
  PROVE  IInv'
<1>1. PICK n \in First(want[t]) :
        /\ owner[n] = Nobody
        /\ owner' = [owner EXCEPT ![n] = t]
        /\ want' = [want EXCEPT ![t] = IF busy[t] = "retry" THEN @ ELSE @ \ {n}]
        /\ UNCHANGED <<bridge, wantBridge, busy>>
  BY Zenon DEF LockNext
<1>2. n \in want[t] /\ n \in Nodes /\ \A m \in want[t] : n <= m
  BY <1>1 DEF First, IInv, TypeOK
<1>3. TypeOK' BY <1>1, <1>2 DEF IInv, TypeOK
<1>4. HeldBelow'
  <2> SUFFICES ASSUME NEW u \in Threads, NEW a \in Nodes, NEW b \in Nodes,
                      busy'[u] # "retry", owner'[a] = u, b \in want'[u]
               PROVE  a < b
    BY DEF HeldBelow
  <2>1. b \in want[u] BY <1>1 DEF IInv, TypeOK
  <2>2. CASE a = n
    <3>1. u = t BY <1>1, <1>2, <2>2 DEF IInv, TypeOK
    <3>2. b # n /\ n <= b BY <1>1, <1>2, <2>1, <3>1 DEF IInv, TypeOK
    <3> QED BY <2>2, <3>2, NodesAssumption
  <2>3. CASE a # n
    BY <1>1, <2>1, <2>3 DEF IInv, TypeOK, HeldBelow
  <2> QED BY <2>2, <2>3
<1>5. BridgeLast' BY <1>1, <1>2 DEF IInv, TypeOK, BridgeLast
<1>6. IdleHoldsNothing'
  <2>1. busy[t] \in {"section", "retry"} BY <1>2 DEF IInv, IdleHoldsNothing
  <2> QED BY <1>1, <1>2, <2>1, ThreadsAssumption DEF IInv, TypeOK, IdleHoldsNothing
<1>7. RetryHolds' BY <1>1, <1>2 DEF IInv, TypeOK, RetryHolds
<1> QED BY <1>3, <1>4, <1>5, <1>6, <1>7 DEF IInv

\* RmChild starts over with nothing but its directory.
LEMMA RmChildRetryIInv ==
  ASSUME IInv, NEW t \in Threads, NEW n \in Nodes, RmChildRetry(t, n)
  PROVE  IInv'
<1>1. TypeOK' BY DEF IInv, TypeOK, RmChildRetry
<1>2. HeldBelow' BY ThreadsAssumption DEF IInv, TypeOK, HeldBelow, RmChildRetry
<1>3. BridgeLast' BY DEF IInv, TypeOK, BridgeLast, RmChildRetry
<1>4. IdleHoldsNothing'
  BY ThreadsAssumption DEF IInv, TypeOK, IdleHoldsNothing, RmChildRetry
<1>5. RetryHolds' BY ThreadsAssumption DEF IInv, TypeOK, RetryHolds, RmChildRetry
<1> QED BY <1>1, <1>2, <1>3, <1>4, <1>5 DEF IInv

\* newInode and OnAdd lock no node, and start without the bridge.
LEMMA NewInodeIInv ==
  ASSUME IInv, NEW t \in Threads, NewInode(t) \/ RootOnAdd(t)
  PROVE  IInv'
<1>1. TypeOK' BY Zenon DEF IInv, TypeOK, NewInode, RootOnAdd
<1>2. HeldBelow' BY DEF IInv, TypeOK, HeldBelow, IdleHoldsNothing, NewInode, RootOnAdd
<1>3. BridgeLast' BY DEF IInv, TypeOK, BridgeLast, NewInode, RootOnAdd
<1>4. IdleHoldsNothing' BY DEF IInv, TypeOK, IdleHoldsNothing, NewInode, RootOnAdd
<1>5. RetryHolds' BY DEF IInv, TypeOK, RetryHolds, NewInode, RootOnAdd
<1> QED BY <1>1, <1>2, <1>3, <1>4, <1>5 DEF IInv

\* The bridge is taken when the group is complete.
LEMMA LockBridgeIInv ==
  ASSUME IInv, NestedOnAdd = FALSE, NEW t \in Threads, LockBridge(t)
  PROVE  IInv'
<1>1. TypeOK' BY DEF IInv, TypeOK, LockBridge
<1>2. HeldBelow' BY DEF IInv, TypeOK, HeldBelow, LockBridge
<1>3. BridgeLast' BY ThreadsAssumption DEF IInv, TypeOK, BridgeLast, LockBridge
<1>4. IdleHoldsNothing' BY DEF IInv, TypeOK, IdleHoldsNothing, LockBridge
<1>5. RetryHolds' BY DEF IInv, TypeOK, RetryHolds, LockBridge
<1> QED BY <1>1, <1>2, <1>3, <1>4, <1>5 DEF IInv

\* After the section everything of the goroutine is free.
LEMMA UnlockIInv ==
  ASSUME IInv, NEW t \in Threads, Unlock(t)
  PROVE  IInv'
<1>1. TypeOK' BY DEF IInv, TypeOK, Unlock
<1>2. HeldBelow' BY ThreadsAssumption DEF IInv, TypeOK, HeldBelow, Unlock
<1>3. BridgeLast' BY ThreadsAssumption DEF IInv, TypeOK, BridgeLast, Unlock
<1>4. IdleHoldsNothing'
  BY ThreadsAssumption DEF IInv, TypeOK, IdleHoldsNothing, Unlock
<1>5. RetryHolds' BY ThreadsAssumption DEF IInv, TypeOK, RetryHolds, Unlock
<1> QED BY <1>1, <1>2, <1>3, <1>4, <1>5 DEF IInv

\* Every step keeps the lock order.
LEMMA NextIInv == NestedOnAdd = FALSE /\ IInv /\ [Next]_vars => IInv'
<1> SUFFICES ASSUME NestedOnAdd = FALSE, IInv, [Next]_vars PROVE IInv' OBVIOUS
<1>1. CASE UNCHANGED vars
  BY <1>1 DEF vars, IInv, TypeOK, HeldBelow, RetryHolds, BridgeLast, IdleHoldsNothing
<1>2. CASE Next
  BY Zenon, <1>2, LockNodesIInv, LockNextIInv, NewInodeIInv, LockBridgeIInv,
    RmChildRetryIInv, UnlockIInv DEF Next
<1> QED BY <1>1, <1>2

\* The lock order implies that waits ascend.
LEMMA OrderAscends == IInv => WaitsAscend
BY DEF IInv, TypeOK, HeldBelow, RetryHolds, BridgeLast, WaitsAscend, WaitsForNode, WaitsForBridge,
       WaitsForItself, First

\* The lock order is an invariant of any number of goroutines.
THEOREM LockOrder == NestedOnAdd = FALSE => (Spec => []IInv)
<1> SUFFICES ASSUME NestedOnAdd = FALSE PROVE Spec => []IInv OBVIOUS
<1>1. IInv /\ [Next]_vars => IInv' BY NextIInv
<1> QED BY InitIInv, <1>1, PTL DEF Spec

\* lockNodes avoids deadlocks: along a chain of goroutines waiting for each
\* other the awaited mutexes ascend, and the holder of the bridge's mutex
\* waits for nothing.  Only an RmChild that waits for itself ends a chain otherwise.
THEOREM NoDeadlock == NestedOnAdd = FALSE => (Spec => []WaitsAscend)
<1> SUFFICES ASSUME NestedOnAdd = FALSE PROVE Spec => []WaitsAscend OBVIOUS
<1>1. Spec => []IInv BY LockOrder
<1> QED BY <1>1, OrderAscends, PTL
=============================================================================
