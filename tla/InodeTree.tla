------------------------------ MODULE InodeTree ------------------------------
(***************************************************************************)
(* The inode tree of package nodefs (src/nodefs/inode.go) under the        *)
(* requests of the bridge (src/nodefs/bridge.go): nodes with a kernel      *)
(* lookup count, children and parents, and the table from inode numbers to *)
(* nodes.  A step is one critical section: the code takes the mutexes of   *)
(* all nodes it changes (lockNodes), and between two sections any other    *)
(* request may run.  What a request read in an earlier section it keeps in *)
(* its frame, th[t].                                                       *)
(*                                                                         *)
(* Two parties are external.  The kernel sends the requests: it counts the *)
(* references it holds (kref), excludes operations on one directory from   *)
(* one another as the VFS does, and does not forget an inode it is using.  *)
(* The user's file system answers for the contents (disk); it hands the    *)
(* same inode number to NewInode whenever it finds the same file.          *)
(***************************************************************************)
EXTENDS Naturals, FiniteSets, Sequences

CONSTANTS
  Root,         \* the root Inode
  Names,        \* names of directory entries
  Threads,      \* request handlers
  LookupWidth,  \* lookupCount is an unsigned integer below this
  Loads,        \* the workloads, see below
  Nil,          \* the nil pointer
  Nobody        \* no thread: a free mutex

RootIno == 1
NoIno == 0
NoName == 0

(***************************************************************************)
(* A workload: inodes, the Inode objects (a number stands for the address);*)
(* inos, the inode numbers the file system uses; dirInos, those of         *)
(* directories; disk, its directories at the start; ops, the requests;     *)
(* maxCalls, the bound on their number.                                    *)
(***************************************************************************)
ASSUME NameAssumption == Names \subseteq Nat \ {NoName}
ASSUME LoadAssumption ==
  \A w \in Loads :
    /\ w.inodes \subseteq Nat /\ Root \in w.inodes /\ Nil \notin w.inodes
    /\ w.inos \subseteq Nat \ {NoIno} /\ w.dirInos \subseteq w.inos /\ RootIno \in w.dirInos
    /\ w.disk \in [w.inos -> [Names -> w.inos \cup {NoIno}]]
ASSUME ThreadAssumption == Nobody \notin Threads
ASSUME WidthAssumption == LookupWidth \in Nat \ {0, 1}

VARIABLES
  ino,            \* nodeAttr.Ino of an Inode, NoIno before init
  persistent,     \* Inode.persistent
  lookupCount,    \* Inode.lookupCount
  changeCounter,  \* Inode.changeCounter
  children,       \* Inode.children
  parents,        \* Inode.parents: a set of <<name, parent>>
  nodes,          \* rawBridge.nodes
  mu,             \* holder of Inode.mu between two steps
  th,             \* what each request handler is doing
  crash,          \* a handler has panicked
  kref,           \* the kernel's references to an inode number (external)
  disk,           \* the file system's directories (external)
  calls,          \* requests sent so far
  load            \* the workload

node == <<ino, persistent, lookupCount, changeCounter, children, parents>>
env == <<kref, disk, calls>>
vars == <<node, nodes, mu, th, crash, env, load>>

Inodes == load.inodes
Inos == load.inos
DirInos == load.dirInos
Ops == load.ops
MaxCalls == load.maxCalls

-----------------------------------------------------------------------------
(* Frames.  pc names the critical section that comes next; n, name, m and   *)
(* name2 (names for RmChild) are the arguments of the running operation;    *)
(* ch, dst, prs, c1 and c2 what it read; todo the sets of parents removeRef *)
(* still visits, innermost call first; what the request the file system     *)
(* answers.  excl, look and pin are the kernel's: the directories the       *)
(* request holds exclusively, the entry it looks up, and the inodes it      *)
(* keeps from being forgotten.                                              *)

Idle == [pc |-> "idle", n |-> Nil, name |-> NoName, m |-> Nil,
         name2 |-> NoName, over |-> FALSE, ch |-> Nil, dst |-> Nil,
         c1 |-> 0, c2 |-> 0, prs |-> {}, nlookup |-> 0, drop |-> FALSE,
         todo |-> <<>>, names |-> {}, what |-> "none",
         excl |-> {}, look |-> {}, pin |-> {}]

Init ==
  /\ load \in Loads
  /\ ino = [i \in Inodes |-> IF i = Root THEN RootIno ELSE NoIno]
  /\ persistent = [i \in Inodes |-> FALSE]
  /\ lookupCount = [i \in Inodes |-> IF i = Root THEN 1 ELSE 0]
  /\ changeCounter = [i \in Inodes |-> 0]
  /\ children = [i \in Inodes |-> [x \in Names |-> Nil]]
  /\ parents = [i \in Inodes |-> {}]
  /\ nodes = [k \in Inos |-> IF k = RootIno THEN Root ELSE Nil]
  /\ mu = [i \in Inodes |-> Nobody]
  /\ th = [t \in Threads |-> Idle]
  /\ crash = FALSE
  /\ kref = [k \in Inos |-> IF k = RootIno THEN 1 ELSE 0]
  /\ disk = load.disk
  /\ calls = 0

-----------------------------------------------------------------------------
Goto(t, f) == th' = [th EXCEPT ![t] = f]

Return(t) == Goto(t, Idle)

Step(t, pc) == th[t].pc = pc /\ ~crash

\* The mutexes of the nodes in S are free (lockNodes, lockNode2).
Unlocked(S) == \A i \in S \ {Nil} : mu[i] = Nobody

\* changeCounter++ of every node in S.  Only equality with an earlier value is
\* ever tested, so several increments in one section are one.
Bump(S) == changeCounter' = [i \in Inodes |->
             IF i \in S THEN changeCounter[i] + 1 ELSE changeCounter[i]]

\* What keeps a node in the tree: lookups, persistence, children.
Holds(lookups, pers, kids) == lookups > 0 \/ pers \/ \E x \in Names : kids[x] # Nil

Live(i) == Holds(lookupCount[i], persistent[i], children[i])

\* The frame that calls removeRef on i and then visits todo.
RemoveRefFrame(f, i, nlookup, drop, todo) ==
  [f EXCEPT !.pc = "ref", !.n = i, !.nlookup = nlookup, !.drop = drop,
            !.todo = todo, !.prs = {}, !.c1 = 0]

NextRefNone(f) == Idle

\* removeRef has returned: visit the next parent, by address, or return.
NextRef(f) ==
  IF f.todo = <<>> THEN Idle
  ELSE LET top == Head(f.todo)
           e == CHOOSE e \in top : \A x \in top : e[2] <= x[2]
           rest == top \ {e}
       IN RemoveRefFrame(f, e[2], 0, FALSE,
            IF rest = {} THEN Tail(f.todo) ELSE <<rest>> \o Tail(f.todo))

-----------------------------------------------------------------------------
(* Inode.removeRef.                                                         *)

LookupsLeftNone(n, nlookup) == IF nlookup > 0 THEN 0 ELSE lookupCount[n]

\* lookupCount -= nlookup in unsigned arithmetic.
LookupsLeft(n, nlookup) ==
  (lookupCount[n] + LookupWidth - (nlookup % LookupWidth)) % LookupWidth

CurrentAlways(f) == TRUE

\* The node a request locked again has not changed since it was read.
Current(f) == changeCounter[f.n] = f.c1

\* The first section: take off references or persistence, and read what the
\* second one needs.  A retry comes back here with nothing to take off.
RemoveRefRead(t) ==
  LET f == th[t]
      n == f.n
      lookups == LookupsLeft(n, f.nlookup)
      drops == f.nlookup = 0 /\ f.drop /\ persistent[n]
      pers == persistent[n] /\ ~drops
      change == IF f.nlookup > 0 \/ drops THEN 1 ELSE 0
  IN
  /\ Step(t, "ref")
  /\ Unlocked({n})
  /\ lookupCount' = [lookupCount EXCEPT ![n] = lookups]
  /\ persistent' = [persistent EXCEPT ![n] = pers]
  /\ changeCounter' = [changeCounter EXCEPT ![n] = @ + change]
  /\ Goto(t, IF Holds(lookups, pers, children[n]) THEN NextRef(f)
             ELSE [f EXCEPT !.pc = "drop", !.nlookup = 0, !.drop = FALSE,
                            !.prs = parents[n], !.c1 = changeCounter[n] + change])
  /\ UNCHANGED <<ino, children, parents, nodes, mu, crash, env>>

RemoveRefRetryStale(t) ==
  /\ Step(t, "drop")
  /\ ~Current(th[t])
  /\ UNCHANGED vars

\* The second section found n changed: read again.
RemoveRefRetry(t) ==
  LET f == th[t] IN
  /\ Step(t, "drop")
  /\ Unlocked({f.n} \cup {e[2] : e \in f.prs})
  /\ ~Current(f)
  /\ Goto(t, RemoveRefFrame(f, f.n, 0, FALSE, f.todo))
  /\ UNCHANGED <<node, nodes, mu, crash, env>>

\* The second section: unlink n from its parents and from the bridge's table,
\* then visit the parents.
RemoveRefDrop(t) ==
  LET f == th[t]
      n == f.n
      up == {e \in f.prs : e[2] # n}
  IN
  /\ Step(t, "drop")
  /\ Unlocked({n} \cup {e[2] : e \in f.prs})
  /\ Current(f)
  /\ children' = [i \in Inodes |-> [x \in Names |->
                    IF <<x, i>> \in f.prs THEN Nil ELSE children[i][x]]]
  /\ parents' = [parents EXCEPT ![n] = {}]
  /\ Bump({n} \cup {e[2] : e \in f.prs})
  /\ crash' = (lookupCount[n] # 0)
  /\ nodes' = [nodes EXCEPT ![ino[n]] = IF lookupCount[n] # 0 THEN @ ELSE Nil]
  /\ Goto(t, NextRef([f EXCEPT !.todo = IF up = {} THEN @ ELSE <<up>> \o @]))
  /\ UNCHANGED <<ino, persistent, lookupCount, mu, env>>

-----------------------------------------------------------------------------
(* Adding entries: rawBridge.addNewChild and Inode.AddChild.                *)

\* children[i][x] = c, and the record of it in c.parents.
SetEntry(i, x, c) ==
  /\ children' = [children EXCEPT ![i][x] = c]
  /\ parents' = [parents EXCEPT ![c] = @ \cup {<<x, i>>}]
  /\ Bump({i, c})

\* The reply gives the kernel one more reference to the child.
AddNewChild(t) ==
  LET f == th[t] IN
  /\ Step(t, "add")
  /\ Unlocked({f.n, f.ch})
  /\ SetEntry(f.n, f.name, f.ch)
  /\ lookupCount' = [lookupCount EXCEPT ![f.ch] = (@ + 1) % LookupWidth]
  /\ kref' = [kref EXCEPT ![ino[f.ch]] = @ + 1]
  /\ Return(t)
  /\ UNCHANGED <<ino, persistent, nodes, mu, crash, disk, calls>>

AddChildRead(t) ==
  LET f == th[t]
      prev == children[f.n][f.name]
  IN
  /\ Step(t, "addch")
  /\ Unlocked({f.n, f.ch})
  /\ \/ /\ prev = Nil
        /\ SetEntry(f.n, f.name, f.ch)
        /\ Return(t)
     \/ /\ prev # Nil
        /\ Goto(t, IF f.over THEN [f EXCEPT !.pc = "addch2", !.dst = prev,
                                            !.c1 = changeCounter[f.n]]
                   ELSE Idle)
        /\ UNCHANGED <<children, parents, changeCounter>>
  /\ UNCHANGED <<ino, persistent, lookupCount, nodes, mu, crash, env>>

\* The entry leaves the parents of the old child and joins the new one's.
OverwriteParents(f) ==
  LET e == <<f.name, f.n>> IN
  [i \in Inodes |-> (parents[i] \ (IF i = f.dst THEN {e} ELSE {}))
                       \cup (IF i = f.ch THEN {e} ELSE {})]

AddChildOverwrite(t) ==
  LET f == th[t] IN
  /\ Step(t, "addch2")
  /\ Unlocked({f.n, f.ch, f.dst})
  /\ \/ /\ ~Current(f)
        /\ Goto(t, [f EXCEPT !.pc = "addch", !.dst = Nil, !.c1 = 0])
        /\ UNCHANGED <<children, parents, changeCounter>>
     \/ /\ Current(f)
        /\ children' = [children EXCEPT ![f.n][f.name] = f.ch]
        /\ parents' = OverwriteParents(f)
        /\ Bump({f.n, f.ch, f.dst})
        /\ Return(t)
  /\ UNCHANGED <<ino, persistent, lookupCount, nodes, mu, crash, env>>

-----------------------------------------------------------------------------
(* Inode.RmChild.                                                           *)

RmChildRead(t) ==
  LET f == th[t] IN
  /\ Step(t, "rm")
  /\ Unlocked({f.n})
  /\ Goto(t, IF \E x \in f.names : children[f.n][x] = Nil THEN Idle
             ELSE [f EXCEPT !.pc = "rm2", !.c1 = changeCounter[f.n],
                            !.prs = {<<x, children[f.n][x]>> : x \in f.names}])
  /\ UNCHANGED <<node, nodes, mu, crash, env>>

\* On a change the code locks n.mu and goes back to a section that locks it.
RmChildRetry(t) ==
  LET f == th[t] IN
  /\ Step(t, "rm2")
  /\ Unlocked({f.n} \cup {e[2] : e \in f.prs})
  /\ ~Current(f)
  /\ Goto(t, [f EXCEPT !.pc = "rmlock", !.prs = {}, !.c1 = 0])
  /\ UNCHANGED <<node, nodes, mu, crash, env>>

RmChildRelock(t) ==
  LET f == th[t] IN
  /\ Step(t, "rmlock")
  /\ Unlocked({f.n})
  /\ mu' = [mu EXCEPT ![f.n] = t]
  /\ Goto(t, [f EXCEPT !.pc = "rm"])
  /\ UNCHANGED <<node, nodes, crash, env>>

\* The children keep their record of the entry in parents.
RmChildRemove(t) ==
  LET f == th[t]
      kids == [x \in Names |-> IF x \in f.names THEN Nil ELSE children[f.n][x]]
  IN
  /\ Step(t, "rm2")
  /\ Unlocked({f.n} \cup {e[2] : e \in f.prs})
  /\ Current(f)
  /\ children' = [children EXCEPT ![f.n] = kids]
  /\ Bump({f.n} \cup {e[2] : e \in f.prs})
  /\ Goto(t, IF Holds(lookupCount[f.n], persistent[f.n], kids) THEN Idle
             ELSE RemoveRefFrame(f, f.n, 0, FALSE, <<>>))
  /\ UNCHANGED <<ino, persistent, lookupCount, parents, nodes, mu, crash, env>>

-----------------------------------------------------------------------------
(* Inode.MvChild and Inode.ExchangeChild, from (n, name) to (m, name2).     *)

MvChildRead(t) ==
  LET f == th[t]
      dst == children[f.m][f.name2]
  IN
  /\ Step(t, "mv")
  /\ Unlocked({f.n, f.m})
  /\ Goto(t, IF dst # Nil /\ ~f.over THEN Idle
             ELSE [f EXCEPT !.pc = "mv2", !.ch = children[f.n][f.name], !.dst = dst,
                            !.c1 = changeCounter[f.n], !.c2 = changeCounter[f.m]])
  /\ UNCHANGED <<node, nodes, mu, crash, env>>

ExchangeChildRead(t) ==
  LET f == th[t]
      ch == children[f.n][f.name]
      dst == children[f.m][f.name2]
  IN
  /\ Step(t, "ex")
  /\ Unlocked({f.n, f.m})
  /\ Goto(t, IF dst = ch THEN Idle
             ELSE [f EXCEPT !.pc = "ex2", !.ch = ch, !.dst = dst,
                            !.c1 = changeCounter[f.n], !.c2 = changeCounter[f.m]])
  /\ UNCHANGED <<node, nodes, mu, crash, env>>

\* Nothing that was read of the two parents has changed.
Fresh(f) == changeCounter[f.n] = f.c1 /\ changeCounter[f.m] = f.c2

MoveRetry(t, pc, again) ==
  LET f == th[t] IN
  /\ Step(t, pc)
  /\ Unlocked({f.n, f.m, f.ch, f.dst})
  /\ ~Fresh(f)
  /\ Goto(t, [f EXCEPT !.pc = again, !.ch = Nil, !.dst = Nil, !.c1 = 0, !.c2 = 0])
  /\ UNCHANGED <<node, nodes, mu, crash, env>>

MvChildRetry(t) == MoveRetry(t, "mv2", "mv")
ExchangeChildRetry(t) == MoveRetry(t, "ex2", "ex")

MovedNotDst(f) == IF f.ch = Nil THEN {} ELSE {f.n, f.m, f.ch}

\* The nodes whose changeCounter a move of ch, and one of dst, increments.
Moved(f) == (IF f.ch = Nil THEN {} ELSE {f.n, f.m, f.ch})
              \cup (IF f.dst = Nil THEN {} ELSE {f.m, f.dst})

MvParentsKeepsDst(f) ==
  [i \in Inodes |-> IF i = f.ch THEN (parents[i] \ {<<f.name, f.n>>}) \cup {<<f.name2, f.m>>}
                    ELSE parents[i]]

\* What a rename does to parents: of the moved child, and of the one it replaces.
MvParents(f) ==
  LET from == <<f.name, f.n>>
      to == <<f.name2, f.m>>
  IN [i \in Inodes |-> CASE i = f.ch -> (parents[i] \ {from}) \cup {to}
                         [] i = f.dst /\ i # f.ch -> parents[i] \ {to}
                         [] OTHER -> parents[i]]

MvChildMove(t) ==
  LET f == th[t]
      from == <<f.name, f.n>>
      to == <<f.name2, f.m>>
  IN
  /\ Step(t, "mv2")
  /\ Unlocked({f.n, f.m, f.ch, f.dst})
  /\ Fresh(f)
  /\ children' = [i \in Inodes |-> [x \in Names |->
       CASE <<x, i>> = to -> f.ch
         [] <<x, i>> = from /\ from # to -> Nil
         [] OTHER -> children[i][x]]]
  /\ parents' = MvParents(f)
  /\ Bump(Moved(f))
  /\ Goto(t, IF f.dst = Nil THEN Idle ELSE RemoveRefFrame(f, f.dst, 0, FALSE, <<>>))
  /\ UNCHANGED <<ino, persistent, lookupCount, nodes, mu, crash, env>>

\* Both entries get oldChild: line 620 stores it where destChild is meant.
ExchangeChildMove(t) ==
  LET f == th[t]
      from == <<f.name, f.n>>
      to == <<f.name2, f.m>>
  IN
  /\ Step(t, "ex2")
  /\ Unlocked({f.n, f.m, f.ch, f.dst})
  /\ Fresh(f)
  /\ children' = [i \in Inodes |-> [x \in Names |->
       CASE <<x, i>> = from -> IF f.dst = Nil THEN Nil ELSE f.ch
         [] <<x, i>> = to /\ from # to -> f.ch
         [] OTHER -> children[i][x]]]
  /\ parents' = [i \in Inodes |->
       CASE i = f.ch -> (parents[i] \ {from}) \cup {to}
         [] i = f.dst /\ i # f.ch -> (parents[i] \ {to}) \cup {from}
         [] OTHER -> parents[i]]
  /\ Bump(Moved(f) \cup (IF f.dst = Nil THEN {} ELSE {f.n}))
  /\ Return(t)
  /\ UNCHANGED <<ino, persistent, lookupCount, nodes, mu, crash, env>>

-----------------------------------------------------------------------------
(* rawBridge.newInode, called by the file system while it answers a request *)
(* of thread t: the node that has the number already, or a new one.  With   *)
(* "Reuse" the file system may pass Operations it passed before for this    *)
(* file: newInode returns their Inode as it is, in the table or not.        *)

NewInodeAlways(t, k, pers, f) ==
  \E i \in Inodes :
    /\ ino[i] = NoIno
    /\ nodes' = [nodes EXCEPT ![k] = i]
    /\ ino' = [ino EXCEPT ![i] = k]
    /\ persistent' = [persistent EXCEPT ![i] = pers]
    /\ Goto(t, [f EXCEPT !.ch = i])
    /\ UNCHANGED <<lookupCount, changeCounter, children, parents>>

NewInode(t, k, pers, f) ==
  \/ /\ nodes[k] # Nil
     /\ Goto(t, [f EXCEPT !.ch = nodes[k]])
     /\ UNCHANGED <<node, nodes>>
  \/ \E i \in Inodes :
       /\ "Reuse" \in Ops /\ ino[i] = k /\ i # nodes[k]
       /\ Goto(t, [f EXCEPT !.ch = i])
       /\ UNCHANGED <<node, nodes>>
  \/ \E i \in Inodes :
       /\ nodes[k] = Nil
       /\ ino[i] = NoIno
       /\ nodes' = [nodes EXCEPT ![k] = i]
       /\ ino' = [ino EXCEPT ![i] = k]
       /\ persistent' = [persistent EXCEPT ![i] = pers]
       /\ Goto(t, [f EXCEPT !.ch = i])
       /\ UNCHANGED <<lookupCount, changeCounter, children, parents>>

\* The numbers newInode picks by itself are ones it never used before.
AutomaticIno == CHOOSE k \in Inos : \A i \in Inodes : ino[i] # k

-----------------------------------------------------------------------------
(* The kernel's side of a request (external).                               *)

Excl == UNION {th[t].excl : t \in Threads}
Look == UNION {th[t].look : t \in Threads}
Pinned == UNION {th[t].pin : t \in Threads}

\* Lookups of different names in one directory run in parallel; requests that
\* change a directory have it for themselves.
MayLookup(d, x) == d \notin Excl /\ <<d, x>> \notin Look
MayChange(d) == d \notin Excl /\ \A e \in Look : e[1] # d

\* In an "Ordered" workload the kernel asks for no entry while it gives
\* references back, and the other way round.
EntryRunning == \E t \in Threads : th[t].what \in {"Lookup", "Mkdir", "Mknod", "Link"}
ForgetRunning == \E t \in Threads : th[t].pc \in {"ref", "drop"}

\* Thread t takes up a request about the inodes ks, which the kernel refers
\* to; rawBridge.inode panics when it does not know one of them.
Begin(t, ks, f) ==
  /\ \A k \in ks : kref[k] > 0
  /\ calls' = calls + 1
  /\ crash' = \E k \in ks : nodes[k] = Nil
  /\ Goto(t, IF crash' THEN Idle ELSE f)
  /\ UNCHANGED <<node, nodes, mu, disk>>

\* A request about the entry x of directory d that the file system answers.
EntryFrame(what, d, x) ==
  [Idle EXCEPT !.pc = "fs", !.what = what, !.n = nodes[d], !.name = x, !.pin = {d}]

-----------------------------------------------------------------------------
(* The bridge's handlers up to the call of the file system.                 *)

Lookup(t, d, x) ==
  /\ "Lookup" \in Ops
  /\ d \in DirInos
  /\ MayLookup(d, x)
  /\ "Ordered" \in Ops => ~ForgetRunning
  /\ Begin(t, {d}, [EntryFrame("Lookup", d, x) EXCEPT
       !.look = {<<d, x>>},
       !.pin = {d} \cup {k \in Inos : disk[d][x] = k /\ kref[k] > 0}])
  /\ UNCHANGED kref

\* Mkdir, Mknod, Create and Symlink differ in what the file system makes.
CreateEntry(t, what, d, x) ==
  /\ d \in DirInos
  /\ MayChange(d)
  /\ "Ordered" \in Ops => ~ForgetRunning
  /\ Begin(t, {d}, [EntryFrame(what, d, x) EXCEPT !.excl = {d}])
  /\ UNCHANGED kref

Mkdir(t, d, x) == "Mkdir" \in Ops /\ CreateEntry(t, "Mkdir", d, x)
Mknod(t, d, x) == "Mknod" \in Ops /\ CreateEntry(t, "Mknod", d, x)
Create(t, d, x) == "Create" \in Ops /\ CreateEntry(t, "Mknod", d, x)
Symlink(t, d, x) == "Symlink" \in Ops /\ CreateEntry(t, "Mknod", d, x)

\* name2 carries the number of the target.
Link(t, k, d, x) ==
  /\ "Link" \in Ops
  /\ d \in DirInos /\ k \notin DirInos
  /\ MayChange(d)
  /\ "Ordered" \in Ops => ~ForgetRunning
  /\ Begin(t, {d, k}, [EntryFrame("Link", d, x) EXCEPT !.name2 = k, !.excl = {d},
                                                     !.pin = {d, k}])
  /\ UNCHANGED kref

\* The kernel holds the entry it removes.
RemoveEntry(t, what, d, x) ==
  LET k == disk[d][x] IN
  /\ d \in DirInos
  /\ k # NoIno
  /\ (what = "Rmdir") <=> (k \in DirInos)
  /\ MayChange(d) /\ MayChange(k)
  /\ kref[k] > 0
  /\ Begin(t, {d}, [EntryFrame(what, d, x) EXCEPT !.excl = {d, k}, !.pin = {d, k}])
  /\ UNCHANGED kref

Unlink(t, d, x) == "Unlink" \in Ops /\ RemoveEntry(t, "Unlink", d, x)
Rmdir(t, d, x) == "Rmdir" \in Ops /\ RemoveEntry(t, "Rmdir", d, x)

\* Directories are renamed within their directory only.
RenameEntry(t, what, d1, x1, d2, x2) ==
  LET k1 == disk[d1][x1]
      k2 == disk[d2][x2]
      ks == {k1, k2} \ {NoIno}
  IN
  /\ d1 \in DirInos /\ d2 \in DirInos
  /\ k1 # NoIno /\ k1 # k2
  /\ what = "Exchange" => k2 # NoIno
  /\ ks \cap DirInos # {} => d1 = d2
  /\ \A k \in ks \cup {d1, d2} : MayChange(k)
  /\ \A k \in ks : kref[k] > 0
  /\ Begin(t, {d1, d2}, [EntryFrame(what, d1, x1) EXCEPT
       !.m = nodes[d2], !.name2 = x2, !.excl = {d1, d2} \cup ks,
       !.pin = {d1, d2} \cup ks])
  /\ UNCHANGED kref

Rename(t, d1, x1, d2, x2) ==
  \/ "Rename" \in Ops /\ RenameEntry(t, "Rename", d1, x1, d2, x2)
  \/ "Exchange" \in Ops /\ RenameEntry(t, "Exchange", d1, x1, d2, x2)

\* The kernel gives back references, the last ones only of an inode not in use.
Forget(t, k, nlookup) ==
  /\ "Forget" \in Ops
  /\ k # RootIno
  /\ nlookup \in 1..kref[k]
  /\ nlookup = kref[k] => k \notin Pinned
  /\ "Ordered" \in Ops => ~EntryRunning
  /\ Begin(t, {k}, RemoveRefFrame(Idle, nodes[k], nlookup, FALSE, <<>>))
  /\ kref' = [kref EXCEPT ![k] = @ - nlookup]

-----------------------------------------------------------------------------
(* The file system's answer (external) and what the handler goes on to do.  *)

SetDisk(d, x, k) == disk' = [disk EXCEPT ![d][x] = k]

OnDisk(k) == \E d \in Inos, x \in Names : disk[d][x] = k

\* Any request may fail: the handler returns the error.
FsError(t) ==
  /\ Step(t, "fs")
  /\ Return(t)
  /\ UNCHANGED <<node, nodes, mu, crash, env>>

\* A file system with contents of its own finds the file and calls NewInode.
FsLookup(t) ==
  LET f == th[t]
      k == disk[ino[f.n]][f.name]
  IN
  /\ Step(t, "fs")
  /\ f.what = "Lookup" /\ "Memory" \notin Ops
  /\ k # NoIno
  /\ NewInode(t, k, FALSE, [f EXCEPT !.pc = "add"])
  /\ UNCHANGED <<mu, crash, env>>

\* OperationStubs.Lookup: the tree is the contents.
FsLookupChild(t) ==
  LET f == th[t]
      ch == children[f.n][f.name]
  IN
  /\ Step(t, "fs")
  /\ f.what = "Lookup" /\ "Memory" \in Ops
  /\ Unlocked({f.n})
  /\ ch # Nil
  /\ Goto(t, [f EXCEPT !.pc = "add", !.ch = ch])
  /\ UNCHANGED <<node, nodes, mu, crash, env>>

\* A new file has a number nothing else has.
FsCreate(t) ==
  LET f == th[t]
      d == ino[f.n]
  IN
  /\ Step(t, "fs")
  /\ f.what \in {"Mkdir", "Mknod"}
  /\ disk[d][f.name] = NoIno
  /\ \E k \in Inos \ {RootIno} :
       /\ (f.what = "Mkdir") <=> (k \in DirInos)
       /\ ~OnDisk(k) /\ kref[k] = 0
       /\ SetDisk(d, f.name, k)
       /\ NewInode(t, k, FALSE, [f EXCEPT !.pc = "add"])
  /\ UNCHANGED <<mu, crash, kref, calls>>

FsLink(t) ==
  LET f == th[t]
      d == ino[f.n]
  IN
  /\ Step(t, "fs")
  /\ f.what = "Link"
  /\ disk[d][f.name] = NoIno /\ OnDisk(f.name2)
  /\ SetDisk(d, f.name, f.name2)
  /\ NewInode(t, f.name2, FALSE, [f EXCEPT !.pc = "add", !.name2 = NoName])
  /\ UNCHANGED <<mu, crash, kref, calls>>

FsRemove(t) ==
  LET f == th[t]
      d == ino[f.n]
  IN
  /\ Step(t, "fs")
  /\ f.what \in {"Unlink", "Rmdir"}
  /\ \A x \in Names : disk[disk[d][f.name]][x] = NoIno
  /\ SetDisk(d, f.name, NoIno)
  /\ Goto(t, [f EXCEPT !.pc = "rm", !.names = {f.name}])
  /\ UNCHANGED <<node, nodes, mu, crash, kref, calls>>

FsRename(t) ==
  LET f == th[t]
      d1 == ino[f.n]
      d2 == ino[f.m]
      k1 == disk[d1][f.name]
      k2 == disk[d2][f.name2]
  IN
  /\ Step(t, "fs")
  /\ \/ /\ f.what = "Rename"
        /\ k2 # NoIno => \A x \in Names : disk[k2][x] = NoIno
        /\ disk' = [disk EXCEPT ![d1][f.name] = NoIno, ![d2][f.name2] = k1]
        /\ Goto(t, [f EXCEPT !.pc = "mv", !.over = TRUE])
     \/ /\ f.what = "Exchange"
        /\ disk' = [disk EXCEPT ![d1][f.name] = k2, ![d2][f.name2] = k1]
        /\ Goto(t, [f EXCEPT !.pc = "ex"])
  /\ UNCHANGED <<node, nodes, mu, crash, kref, calls>>

-----------------------------------------------------------------------------
(* A file system that builds its tree itself: calls of the package's API on *)
(* nodes it knows, those in the bridge's table.                             *)

Known(i) == i # Nil /\ \E k \in Inos : nodes[k] = i

ApiCall(t, op) ==
  /\ op \in Ops
  /\ calls' = calls + 1
  /\ UNCHANGED <<mu, crash, kref, disk>>

\* NewPersistentInode, then AddChild of what it returns.
NewPersistentInode(t, i, x, over) ==
  /\ ApiCall(t, "NewPersistentInode")
  /\ Known(i)
  /\ \E k \in Inos : \A j \in Inodes : ino[j] # k
  /\ NewInode(t, AutomaticIno, TRUE, [Idle EXCEPT !.pc = "addch", !.n = i, !.name = x,
                                                 !.over = over])

ForgetPersistent(t, i) ==
  /\ ApiCall(t, "ForgetPersistent")
  /\ Known(i) /\ persistent[i]
  /\ Goto(t, RemoveRefFrame(Idle, i, 0, TRUE, <<>>))
  /\ UNCHANGED <<node, nodes>>

RmChild(t, i, xs) ==
  /\ ApiCall(t, "RmChild")
  /\ Known(i) /\ xs # {}
  /\ Goto(t, [Idle EXCEPT !.pc = "rm", !.n = i, !.names = xs])
  /\ UNCHANGED <<node, nodes>>

\* A node is moved within its directory or to the root, never below itself.
MvChild(t, i, x, j, y, over) ==
  /\ ApiCall(t, "MvChild")
  /\ Known(i) /\ j \in {i, Root}
  /\ <<i, x>> # <<j, y>>
  /\ Goto(t, [Idle EXCEPT !.pc = "mv", !.n = i, !.name = x, !.m = j,
                          !.name2 = y, !.over = over])
  /\ UNCHANGED <<node, nodes>>

-----------------------------------------------------------------------------
\* A request, or a call of the API, begins.
Call(t) ==
  /\ Step(t, "idle") /\ calls < MaxCalls
  /\ \/ \E d \in Inos, x \in Names :
          \/ Lookup(t, d, x)
          \/ Mkdir(t, d, x)
          \/ Mknod(t, d, x)
          \/ Create(t, d, x)
          \/ Symlink(t, d, x)
          \/ Unlink(t, d, x)
          \/ Rmdir(t, d, x)
          \/ \E k \in Inos : Link(t, k, d, x)
          \/ \E d2 \in Inos, x2 \in Names : Rename(t, d, x, d2, x2)
     \/ \E k \in Inos : \E nlookup \in 1..kref[k] : Forget(t, k, nlookup)
     \/ \E i \in Inodes :
          \/ \E x \in Names, over \in BOOLEAN : NewPersistentInode(t, i, x, over)
          \/ ForgetPersistent(t, i)
          \/ \E xs \in SUBSET Names : RmChild(t, i, xs)
          \/ \E x, y \in Names, j \in Inodes, over \in BOOLEAN : MvChild(t, i, x, j, y, over)

\* The next critical section of a running one.
Section(t) ==
  \/ FsError(t) \/ FsLookup(t) \/ FsLookupChild(t) \/ FsCreate(t)
  \/ FsLink(t) \/ FsRemove(t) \/ FsRename(t)
  \/ AddNewChild(t)
  \/ AddChildRead(t) \/ AddChildOverwrite(t)
  \/ RmChildRead(t) \/ RmChildRetry(t) \/ RmChildRelock(t) \/ RmChildRemove(t)
  \/ MvChildRead(t) \/ MvChildRetry(t) \/ MvChildMove(t)
  \/ ExchangeChildRead(t) \/ ExchangeChildRetry(t) \/ ExchangeChildMove(t)
  \/ RemoveRefRead(t) \/ RemoveRefRetry(t) \/ RemoveRefDrop(t)

AllIdle == \A t \in Threads : th[t].pc = "idle"

\* The process is gone, or no request comes.
Rest == (crash \/ AllIdle) /\ UNCHANGED vars

Next == ((\E t \in Threads : Call(t) \/ Section(t)) \/ Rest) /\ UNCHANGED load

Spec == Init /\ [][Next]_vars

Fairness == \A t \in Threads : WF_vars(Section(t) /\ UNCHANGED load)

-----------------------------------------------------------------------------
Pcs == {"idle", "fs", "add", "addch", "addch2", "rm", "rm2", "rmlock",
        "mv", "mv2", "ex", "ex2", "ref", "drop"}

\* Types of the variables; of a frame, what the steps rely on.
TypeOK ==
  /\ ino \in [Inodes -> Inos \cup {NoIno}]
  /\ persistent \in [Inodes -> BOOLEAN]
  /\ lookupCount \in [Inodes -> 0..(LookupWidth - 1)]
  /\ changeCounter \in [Inodes -> Nat]
  /\ children \in [Inodes -> [Names -> Inodes \cup {Nil}]]
  /\ parents \in [Inodes -> SUBSET (Names \X Inodes)]
  /\ nodes \in [Inos -> Inodes \cup {Nil}]
  /\ mu \in [Inodes -> Threads \cup {Nobody}]
  /\ crash \in BOOLEAN
  /\ kref \in [Inos -> Nat]
  /\ disk \in [Inos -> [Names -> Inos \cup {NoIno}]]
  /\ calls \in Nat
  /\ \A t \in Threads :
       /\ th[t].pc \in Pcs
       /\ th[t].pc = "idle" => th[t] = Idle
       /\ th[t].pc # "idle" => th[t].n \in Inodes

\* The node removeRef drops has no kernel lookups, children or persistence then,
\* whatever the other requests did since it was read.
DropsUnused ==
  \A t \in Threads, n \in Inodes :
    th[t].pc = "drop" /\ th[t].n = n /\ th'[t] # th[t] /\ changeCounter'[n] # changeCounter[n]
      => ~Live(n) /\ ~Live(n)'

\* What the table loses is such a node.
TableKeepsLive == \A k \in Inos : nodes[k] # Nil /\ nodes'[k] = Nil => ~Live(nodes[k])

\* "changeCounter increments every time the mutable state (lookupCount,
\* persistent, children, parents) protected by mu is modified" (inode.go 77):
\* the requests that retry on a changed counter depend on it.
CountsChanges ==
  \A i \in Inodes :
    (lookupCount[i] # lookupCount'[i] \/ persistent[i] # persistent'[i]
       \/ children[i] # children'[i] \/ parents[i] # parents'[i])
      => changeCounter'[i] > changeCounter[i] \/ ino[i] = NoIno
CounterCoversState == [][CountsChanges]_vars

\* The kernel asks for no entry while it forgets one. Without that, what
\* lookup_forget_race and stale_parent_entry show breaks the properties below.
Ordered == "Ordered" \in Ops

\* removeRef never drops a node that has kernel lookups, children or persistence,
\* whatever the other requests do in between; nor, if the kernel asks for no entry
\* while it forgets one, does the table lose such a node.
NoLiveDrop == [][DropsUnused /\ (Ordered => TableKeepsLive)]_vars

\* The same of the table, whatever the kernel sends.
LiveNodesKept == [][TableKeepsLive]_vars

\* With no request running, every node in the table but the root is held by
\* the kernel, by persistence or by its children: removeRef forgot none. At any time
\* an entry of a directory is recorded in its child's parents, which removeRef walks;
\* but for ExchangeChild, which writes one of the two entries wrong (ExchangeSwaps).
NothingLeaks ==
  /\ Ordered /\ AllIdle /\ ~crash =>
       \A k \in Inos \ {RootIno} : nodes[k] # Nil => Live(nodes[k])
  /\ "Exchange" \notin Ops =>
       \A i, c \in Inodes, x \in Names : children[i][x] = c => <<x, i>> \in parents[c]

\* No handler waits for a mutex it holds itself.
NoSelfWait == \A t \in Threads : th[t].pc \in {"rm", "rmlock"} => mu[th[t].n] # t

\* The kernel's references are to nodes of the table, which count them; so
\* rawBridge.inode and removeRef do not panic.
KernelKnown == Ordered =>
  /\ ~crash
  /\ AllIdle => \A k \in Inos : kref[k] > 0 =>
       nodes[k] # Nil /\ lookupCount[nodes[k]] = kref[k]

\* parents records entries that are there.
ParentHasEntry == Ordered =>
  \A c, i \in Inodes, x \in Names : <<x, i>> \in parents[c] => children[i][x] = c

\* When removeRef drops a node, the entries that disappear are that node's:
\* no entry of a node that is still live goes with it.
KeepsLiveEntries ==
  \A t \in Threads, i \in Inodes, x \in Names :
    th[t].pc = "drop" /\ th'[t] # th[t]
      /\ children[i][x] # Nil /\ children'[i][x] = Nil => ~Live(children[i][x])
NoLiveEntryLost == [][Ordered => KeepsLiveEntries]_vars

\* "When a node has no children, and no kernel references, it is removed from
\* the file system trees" (api.go 42), and nothing else is: the same, whatever
\* the kernel sends.
EntriesKept == [][KeepsLiveEntries]_vars

\* Two nodes for one inode number are never in use at once: newInode returns
\* the node that has the number.
SameNode ==
  \A i, j \in Inodes : i # j /\ ino[i] = ino[j] /\ ino[i] # NoIno => ~(Live(i) /\ Live(j))
OneNodePerIno == Ordered => SameNode

\* "ExchangeChild swaps the entries at (n, oldName) and (newParent, newName)".
ExchangeSwaps ==
  [][\A t \in Threads : LET f == th[t] IN
       f.pc = "ex2" /\ th'[t].pc = "idle" =>
         /\ children'[f.n][f.name] = children[f.m][f.name2]
         /\ children'[f.m][f.name2] = children[f.n][f.name]]_vars

\* Every request that a handler takes up returns (or the process ends).
Returns == \A t \in Threads : th[t].pc # "idle" ~> (th[t].pc = "idle" \/ crash)
=============================================================================
