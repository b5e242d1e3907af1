----------------------------- MODULE MCInodeTree -----------------------------
(* Instances of InodeTree for TLC.                                          *)
EXTENDS InodeTree, TLC

CONSTANTS t1, t2

TwoThreads == {t1, t2}
OneThread == {t1}

ThreadSymmetry == Permutations(TwoThreads)

\* A workload over a disk with nothing yet; one over the file 3 below the
\* directory 2, and linked in the root.
Empty(inodes, inos, dirInos, ops, maxCalls) ==
  [inodes |-> inodes, inos |-> inos, dirInos |-> dirInos, ops |-> ops, maxCalls |-> maxCalls,
   disk |-> [k \in inos |-> [x \in Names |-> NoIno]]]
TwoLinks(inos, ops, maxCalls) ==
  [Empty(0..3, inos, {1, 2}, ops, maxCalls) EXCEPT
     !.disk = [@ EXCEPT ![1] = [x \in Names |-> IF x = 1 THEN 2 ELSE 3],
                        ![2] = [x \in Names |-> IF x = 1 THEN 3 ELSE NoIno]]]

\* A kernel that asks for no entry while it forgets one; all requests, in every
\* interleaving; a file system that builds its tree with the methods of Inode
\* while the kernel looks nodes up and forgets them.
SafetyLoads ==
  { TwoLinks(1..4, {"Lookup", "Mkdir", "Mknod", "Create", "Symlink", "Link", "Rename",
                    "Forget", "Ordered"}, 5),
    TwoLinks(1..4, {"Lookup", "Mkdir", "Mknod", "Unlink", "Rmdir", "Rename", "Exchange",
                    "Forget", "Reuse"}, 5),
    Empty(0..2, 1..3, 1..3, {"Lookup", "Forget", "Memory", "NewPersistentInode",
                             "ForgetPersistent", "RmChild", "MvChild"}, 4) }
LostEntryLoads == { Empty(0..3, {1, 3, 4}, {1}, {"Mknod", "Unlink", "Forget"}, 4) }
TwoNodesLoads == { TwoLinks(1..3, {"Lookup", "Forget"}, 5) }
=============================================================================
