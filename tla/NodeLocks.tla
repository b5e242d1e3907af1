------------------------------ MODULE NodeLocks ------------------------------
(***************************************************************************)
(* How the goroutines of package nodefs take mutexes.  lockNodes locks the *)
(* nodes of a group one after the other, by address (src/nodefs/inode.go); *)
(* addNewChild and the last section of removeRef then take the bridge's    *)
(* mutex with the group held; newInode takes the bridge's mutex alone and  *)
(* calls the user's OnAdd under it (src/nodefs/bridge.go).  InodeTree has  *)
(* such a section as one step; here the mutexes are taken one by one.      *)
(* Whether a section finds the tree changed and starts over is left open.  *)
(***************************************************************************)
EXTENDS Naturals

CONSTANTS
  Nodes,        \* Inodes; a number stands for the address
  Threads,
  Nobody,       \* the owner of a free mutex
  NestedOnAdd   \* whether the OnAdd of nodes other than the root calls NewInode

ASSUME NodesAssumption == Nodes \subseteq Nat
ASSUME ThreadsAssumption == Nobody \notin Threads
ASSUME NestedAssumption == NestedOnAdd \in BOOLEAN

VARIABLES
  owner,       \* of each Inode.mu
  bridge,      \* owner of rawBridge.mu
  want,        \* the nodes of the group a thread has not locked yet
  wantBridge,  \* whether it locks the bridge once it has the group
  busy         \* what the thread is in

vars == <<owner, bridge, want, wantBridge, busy>>

Init ==
  /\ owner = [n \in Nodes |-> Nobody]
  /\ bridge = Nobody
  /\ want = [t \in Threads |-> {}]
  /\ wantBridge = [t \in Threads |-> FALSE]
  /\ busy = [t \in Threads |-> "idle"]

FirstAny(S) == S

\* sortNodes: the node of a group that is locked first.
First(S) == {n \in S : \A m \in S : n <= m}

-----------------------------------------------------------------------------
\* lockNodes or lockNode2 of a group, nil and duplicates left out, in a
\* section that goes on to lock the bridge or not.
LockNodes(t, S, br) ==
  /\ busy[t] = "idle"
  /\ busy' = [busy EXCEPT ![t] = "section"]
  /\ want' = [want EXCEPT ![t] = S]
  /\ wantBridge' = [wantBridge EXCEPT ![t] = br]
  /\ UNCHANGED <<owner, bridge>>

LockNext(t) ==
  \E n \in First(want[t]) :
    /\ owner[n] = Nobody
    /\ owner' = [owner EXCEPT ![n] = t]
    /\ want' = [want EXCEPT ![t] = IF busy[t] = "retry" THEN @ ELSE @ \ {n}]
    /\ UNCHANGED <<bridge, wantBridge, busy>>

\* RmChild finds that its directory n has changed: it unlocks the group, locks n
\* (inode.go 485) and, at the head of the loop, n again (468).  In "retry" LockNext
\* gets the first of the two, and n stays wanted.
RmChildRetry(t, n) ==
  /\ busy[t] = "section"
  /\ want[t] = {} /\ ~wantBridge[t] /\ bridge # t
  /\ owner[n] = t
  /\ owner' = [m \in Nodes |-> IF owner[m] = t THEN Nobody ELSE owner[m]]
  /\ want' = [want EXCEPT ![t] = {n}]
  /\ busy' = [busy EXCEPT ![t] = "retry"]
  /\ UNCHANGED <<bridge, wantBridge>>

\* newInode, called by the file system; NewNodeFS calls the root's OnAdd,
\* which may call NewInode, without the mutex.
NewInode(t) ==
  /\ busy[t] \in {"idle", "onadd"}
  /\ busy' = [busy EXCEPT ![t] = IF @ = "idle" THEN "newInode" ELSE "section"]
  /\ wantBridge' = [wantBridge EXCEPT ![t] = TRUE]
  /\ UNCHANGED <<owner, bridge, want>>

RootOnAdd(t) ==
  /\ busy[t] = "idle"
  /\ busy' = [busy EXCEPT ![t] = "onadd"]
  /\ UNCHANGED <<owner, bridge, want, wantBridge>>

\* The bridge's mutex is the last one; in newInode the user's OnAdd follows.
LockBridge(t) ==
  /\ want[t] = {} /\ wantBridge[t]
  /\ bridge = Nobody
  /\ bridge' = t
  /\ wantBridge' = [wantBridge EXCEPT ![t] = FALSE]
  /\ busy' = [busy EXCEPT ![t] = IF @ = "newInode" /\ NestedOnAdd THEN "onadd"
                                 ELSE "section"]
  /\ UNCHANGED <<owner, want>>

UnlockRetries(t) ==
  /\ busy[t] = "section"
  /\ want[t] = {} /\ ~wantBridge[t]
  /\ owner' = [n \in Nodes |-> IF owner[n] = t THEN Nobody ELSE owner[n]]
  /\ bridge' = IF bridge = t THEN Nobody ELSE bridge
  /\ wantBridge' = [wantBridge EXCEPT ![t] = TRUE]
  /\ UNCHANGED <<want, busy>>

\* The section ends; all mutexes are unlocked.
Unlock(t) ==
  /\ busy[t] = "section"
  /\ want[t] = {} /\ ~wantBridge[t]
  /\ owner' = [n \in Nodes |-> IF owner[n] = t THEN Nobody ELSE owner[n]]
  /\ bridge' = IF bridge = t THEN Nobody ELSE bridge
  /\ busy' = [busy EXCEPT ![t] = "idle"]
  /\ UNCHANGED <<want, wantBridge>>

Next == \E t \in Threads :
  \/ \E S \in SUBSET Nodes, br \in BOOLEAN : LockNodes(t, S, br)
  \/ NewInode(t)
  \/ RootOnAdd(t)
  \/ LockNext(t)
  \/ \E n \in Nodes : RmChildRetry(t, n)
  \/ LockBridge(t)
  \/ Unlock(t)

Spec == Init /\ [][Next]_vars

\* A goroutine runs, and a sync.Mutex that is unlocked again and again is
\* given to each waiter in the end (its starvation mode).
Fairness == \A t \in Threads :
  /\ SF_vars(LockNext(t))
  /\ SF_vars(LockBridge(t))
  /\ WF_vars(Unlock(t))
  /\ WF_vars(busy[t] = "onadd" /\ NewInode(t))

-----------------------------------------------------------------------------
\* Types of the variables.
TypeOK ==
  /\ owner \in [Nodes -> Threads \cup {Nobody}]
  /\ bridge \in Threads \cup {Nobody}
  /\ want \in [Threads -> SUBSET Nodes]
  /\ wantBridge \in [Threads -> BOOLEAN]
  /\ busy \in [Threads -> {"idle", "section", "retry", "newInode", "onadd"}]

\* The mutex t waits for is a node's, and u holds it.
WaitsForNode(t, n, u) == n \in First(want[t]) /\ owner[n] = u

\* The mutex t waits for is the bridge's.
WaitsForBridge(t) == want[t] = {} /\ wantBridge[t]

\* RmChild in its retry, waiting for the mutex it holds.
WaitsForItself(t) == \E n \in want[t] : owner[n] = t

\* "It always lock the inodes in the same order - to avoid deadlocks"
\* (inode.go 150).  Along every chain of goroutines that wait for each other
\* the awaited mutexes ascend, nodes by address and the bridge last, and the
\* holder of the bridge waits for nothing: no chain closes to a cycle.  A chain
\* may end at an RmChild that waits for itself, which no order of locks prevents.
WaitsAscend ==
  \A t, u \in Threads :
    /\ \A n, m \in Nodes :
         WaitsForNode(t, n, u) /\ m \in First(want[u]) /\ ~WaitsForItself(u) => n < m
    /\ WaitsForBridge(t) /\ bridge = u => want[u] = {} /\ ~wantBridge[u]

\* The retry of RmChild is the only way to get stuck on a mutex: unless some RmChild
\* waits for itself, every goroutine that starts to lock gets all its mutexes and
\* lets go again.
SectionEnds == \A t \in Threads :
  busy[t] # "idle" ~> busy[t] = "idle" \/ \E u \in Threads : WaitsForItself(u)
=============================================================================
