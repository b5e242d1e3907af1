----------------------------- MODULE MCProgress ------------------------------
(***************************************************************************)
(* Whether a request of nodefs can get stuck: on the mutexes it takes      *)
(* (NodeLocks), or in the loops that start over when the tree has changed  *)
(* (InodeTree). The two are independent; a behaviour is of one of them.    *)
(***************************************************************************)
EXTENDS NodeLocks

CONSTANTS t1, t2, t3, Nil

VARIABLES ino, persistent, lookupCount, changeCounter, children, parents, nodes,
          mu, th, crash, kref, disk, calls, load,
          part    \* which of the two

ThreeThreads == {t1, t2, t3}

\* The file 3 below the directory 2, and linked in the root.
Load == [inodes |-> 0..3, inos |-> 1..3, dirInos |-> {1, 2}, maxCalls |-> 4,
         ops |-> {"Lookup", "Mknod", "Rename", "Forget"},
         disk |-> <<<<2, 3>>, <<3, 0>>, <<0, 0>>>>]

Tree == INSTANCE InodeTree WITH
          Root <- 0, Names <- {1, 2}, Threads <- {t1, t2}, LookupWidth <- 8, Loads <- {Load}

locks == <<owner, bridge, want, wantBridge, busy>>
tree == <<ino, persistent, lookupCount, changeCounter, children, parents, nodes, mu, th,
          crash, kref, disk, calls, load>>

MCInit == Init /\ Tree!Init /\ part \in {"locks", "tree"}

MCNext ==
  /\ \/ part = "locks" /\ Next /\ UNCHANGED tree
     \/ part = "tree" /\ Tree!Next /\ UNCHANGED locks
  /\ UNCHANGED part

\* The fairness of the two.
MCSpec ==
  /\ MCInit /\ [][MCNext]_<<locks, tree, part>>
  /\ \/ part = "locks" /\ Fairness
     \/ part = "tree" /\ Tree!Fairness
-----------------------------------------------------------------------------
\* Every request that a handler takes up returns: the retry loops of removeRef and
\* MvChild end.
Returns == Tree!Returns
=============================================================================
