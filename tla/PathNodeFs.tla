------------------------------ MODULE PathNodeFs ------------------------------
(***************************************************************************)
(* fuse/pathfs/pathfs.go on fuse/nodefs: the file systems of the old API.  *)
(* A FileSystem is addressed by path; PathNodeFs gives the kernel nodes,   *)
(* kept in the tree of fuse/nodefs/inode.go, turns each node back into a   *)
(* path by walking up the tree, and recognises hard links by the inode     *)
(* number of the file (clientInodeMap).  FileSystemConnector counts what   *)
(* the kernel holds and mounts other file systems in the tree.             *)
(*                                                                         *)
(* A handler is an operator from state to state.  Handlers run one at a    *)
(* time but LOOKUP, whose reply counts the node in a second step, and      *)
(* Unmount, which waits for the kernel in the middle.                      *)
(***************************************************************************)
EXTENDS Integers, FiniteSets, Sequences, SequencesExt

CONSTANTS
  Names,        \* the names in every directory
  MaxNode,      \* nodes are 1..MaxNode, the root is 1
  MaxObj,       \* files and directories of the FileSystem; its root is 1
  MaxIno,       \* its inode numbers, reused when free
  Handles,      \* open files
  MaxRefs,      \* bound on the lookup count of a node
  MaxOps,       \* bound on the requests
  Starts,       \* records of links, kind and ino: the files at first
  Options,      \* records of client (ClientInodes) and known (LookupKnownChildren)
  OutOfBand,    \* whether the files may change, once, behind the mount's back
  LateForget    \* whether Unmount may end while the kernel holds the root

ASSUME BoundsAssumption ==
  /\ {MaxNode, MaxObj, MaxIno, MaxRefs, MaxOps} \subseteq Nat \ {0}
  /\ {OutOfBand, LateForget} \subseteq BOOLEAN

VARIABLES st, ops
vars == <<st, ops>>

Nodes == 1..MaxNode
Objs == 1..MaxObj
Inos == 1..MaxIno
None == [node |-> 0, refCount |-> 0]
Closed == [node |-> 0, obj |-> 0, w |-> FALSE]
Blank == [obj |-> 0, dir |-> FALSE, ino |-> 0, cut |-> FALSE]

(***************************************************************************)
(* st.bk     the links <<directory, name, file>> of the FileSystem, with   *)
(*           st.kind and st.ino of each file (external)                    *)
(* st.kids   <<p, name, c>>: p.children[name] = c;                         *)
(* st.pars   the same triple when c.parents has {p, name}                  *)
(* st.node   obj: the file a node was made for; dir: IsDir(); ino:         *)
(*           clientInode; cut: some name of it was removed on purpose      *)
(* st.cim    clientInodeMap                                                *)
(* st.refs   the count of the node in inodeMap, which the kernel holds     *)
(* st.open   the open files of the nodes                                   *)
(* st.pend   the LOOKUP that holds lookupLock: directory and node, or 0, 0 *)
(* st.mnt    the root of a mounted file system, or 0, with parentInode     *)
(*           and the state of Unmount                                      *)
(* st.opt    the options of the mount                                      *)
(* st.oob    the files have changed behind the mount's back                *)
(***************************************************************************)
Init ==
  /\ \E opt \in Options, fs \in Starts :
     st = [opt |-> opt, bk |-> fs.links, kind |-> fs.kind, ino |-> fs.ino,
           kids |-> {}, pars |-> {},
           node |-> [n \in Nodes |-> IF n = 1 THEN [Blank EXCEPT !.obj = 1, !.dir = TRUE] ELSE Blank],
           cim |-> [i \in Inos |-> None], refs |-> [n \in Nodes |-> 0],
           open |-> [h \in Handles |-> Closed], pend |-> <<0, 0>>,
           mnt |-> 0, mpar |-> 0, um |-> FALSE, oob |-> FALSE]
  /\ ops = 0

-----------------------------------------------------------------------------
(* The FileSystem (external): a tree with hard links. *)

At(s, d, nm) == LET found == {t \in s.bk : t[1] = d /\ t[2] = nm}
                IN IF found = {} THEN 0 ELSE (CHOOSE t \in found : TRUE)[3]
Linked(s, o) == o = 1 \/ \E t \in s.bk : t[3] = o
InUse(s, o) == Linked(s, o) \/ \E h \in Handles : s.open[h].obj = o
Remembered(s, o) == InUse(s, o) \/ \E n \in Nodes : s.node[n].obj = o
FreeObjs(s) == {o \in Objs : ~Remembered(s, o)}
FreeInos(s) == {i \in Inos : \A o \in Objs : InUse(s, o) => s.ino[o] # i}
Least(S) == CHOOSE x \in S : \A y \in S : x <= y

Room(s) == FreeObjs(s) # {} /\ FreeInos(s) # {}
FsNew(s, d, nm, kind) ==
  LET o == Least(FreeObjs(s))
  IN [s EXCEPT !.bk = @ \cup {<<d, nm, o>>}, !.kind[o] = kind, !.ino[o] = Least(FreeInos(s))]
FsRemove(s, d, nm) == [s EXCEPT !.bk = {t \in @ : t[1] # d \/ t[2] # nm}]

\* What a path denotes; 0 when nothing.
Deleted == <<".deleted.">>
Resolve(s, path) ==
  IF path = Deleted THEN 0
  ELSE FoldLeft(LAMBDA o, nm : IF o = 0 THEN 0 ELSE At(s, o, nm), 1, path)

-----------------------------------------------------------------------------
(* fuse/nodefs/inode.go: the tree. *)

Kid(s, p, nm) == LET found == {t \in s.kids : t[1] = p /\ t[2] = nm}
                 IN IF found = {} THEN 0 ELSE (CHOOSE t \in found : TRUE)[3]

AddChild(s, p, nm, c) ==
  [s EXCEPT !.kids = {t \in @ : t[1] # p \/ t[2] # nm} \cup {<<p, nm, c>>},
            !.pars = @ \cup {<<p, nm, c>>}]

OnRemoveKeeps(s, c) ==
  LET i == s.node[c].ino IN
  IF i = 0 \/ ~s.opt.client \/ s.node[c].dir \/ s.cim[i].node = 0 \/ s.cim[i].refCount = 1 THEN s
  ELSE [s EXCEPT !.cim[i].refCount = @ - 1]

\* pathInode.OnRemove: a name less for the number of the file.
OnRemove(s, c) ==
  LET i == s.node[c].ino IN
  IF i = 0 \/ ~s.opt.client \/ s.node[c].dir \/ s.cim[i].node = 0 THEN s
  ELSE IF s.cim[i].refCount = 1 THEN [s EXCEPT !.cim[i] = None]
  ELSE [s EXCEPT !.cim[i].refCount = @ - 1]

RmChild(s, p, nm) ==
  LET c == Kid(s, p, nm)
      t == [s EXCEPT !.kids = @ \ {<<p, nm, c>>}, !.pars = @ \ {<<p, nm, c>>}]
  IN IF c = 0 THEN s ELSE IF c = s.mnt THEN t ELSE OnRemove(t, c)

\* The same on behalf of the file system, which knows that the name is gone.
Cut(s, p, nm) ==
  LET c == Kid(s, p, nm) IN IF c = 0 THEN s ELSE [RmChild(s, p, nm) EXCEPT !.node[c].cut = TRUE]

\* Inode.Parent gives one parent, any, and none for the root of a mount.
Parents(s, n) == IF n \in {1, s.mnt} THEN {} ELSE {t \in s.pars : t[3] = n}

\* GetPath walks up until there is no parent; the paths it can return. One step here,
\* while the code takes treeLock once per parent.
GetPath(s, n) ==
  LET step(W) == UNION {IF Parents(s, w[1]) = {} THEN {w}
                        ELSE {<<t[1], <<t[2]>> \o w[2]>> : t \in Parents(s, w[1])} : w \in W}
      up[k \in Nat] == IF k = 0 THEN {<<n, <<>>>>} ELSE step(up[k - 1])
  IN {IF w[1] = 1 THEN w[2] ELSE Deleted : w \in up[MaxNode]}

\* filepath.Join(n.GetPath(), name)
Join(path, nm) == IF path = Deleted THEN Deleted ELSE Append(path, nm)

\* FileSystemConnector.Node: the deepest node on a path, and the rest.
Node(s, path) ==
  FoldLeft(LAMBDA w, nm : IF w[2] = <<>> /\ Kid(s, w[1], nm) # 0
                            THEN <<Kid(s, w[1], nm), <<>>>> ELSE <<w[1], Append(w[2], nm)>>,
           <<1, <<>>>>, path)

\* The memory of nodes and files that nothing refers to is used again.
Used(s, n) ==
  \/ n \in {1, s.mnt, s.mpar, s.pend[1], s.pend[2]} \/ s.refs[n] > 0
  \/ \E t \in s.kids : n \in {t[1], t[3]}
  \/ \E h \in Handles : s.open[h].node = n
  \/ \E i \in Inos : s.cim[i].node = n
Tidy(s) ==
  LET t == [s EXCEPT !.node = [n \in Nodes |-> IF Used(s, n) THEN @[n] ELSE Blank],
                     !.pars = {x \in @ : Used(s, x[1]) /\ Used(s, x[3])}]
  IN [t EXCEPT !.kind = [o \in Objs |-> IF Remembered(t, o) THEN @[o] ELSE "none"],
               !.ino = [o \in Objs |-> IF Remembered(t, o) THEN @[o] ELSE 0]]
FreeNodes(s) == {n \in Nodes : ~Used(s, n)}


-----------------------------------------------------------------------------
(* fuse/pathfs/pathfs.go.  What a handler may find depends on the parent    *)
(* that GetPath meets: a handler is a set of outcomes.                      *)

Done(s, n) == [s |-> s, ok |-> TRUE, node |-> n]
Failed(s) == [s |-> s, ok |-> FALSE, node |-> 0]

SetClientInode(s, n, i) ==
  IF i = 0 \/ s.node[n].ino # 0 \/ ~s.opt.client \/ s.node[n].dir THEN s
  ELSE [s EXCEPT !.node[n].ino = i, !.cim[i] = [node |-> n, refCount |-> 1]]

CreateChild(s, p, nm, o) ==
  LET n == Least(FreeNodes(s))
  IN AddChild([s EXCEPT !.node[n] = [Blank EXCEPT !.obj = o, !.dir = (s.kind[o] = "dir")]], p, nm, n)

\* The node of a file met under a new name: the known one, if its number is.
FindChild(s, p, nm, o) ==
  LET i == s.ino[o]
      t == CreateChild(s, p, nm, o)
  IN IF s.cim[i].node # 0
       THEN AddChild([s EXCEPT !.cim[i].refCount = @ + 1], p, nm, s.cim[i].node)
     ELSE SetClientInode(t, Kid(t, p, nm), i)

Files(s, n) == {h \in Handles : s.open[h].node = n}

\* What an operation on the path of a node finds: Readlink, Access, the
\* extended attributes, StatFs and OpenDir.
ByPath(s, n) == {Resolve(s, path) : path \in GetPath(s, n)}

\* What an operation on an open file finds: Read, Write, Flush, the locks.
ByHandle(s, h) == s.open[h].obj

\* GetAttr: from an open file, or by path when there is none or it cannot.
GetAttr(s, n) ==
  LET stat(o) == IF o = 0 THEN Failed(s) ELSE Done(SetClientInode(s, n, s.ino[o]), n)
  IN {Done(s, n) : h \in Files(s, n)} \cup {stat(o) : o \in ByPath(s, n)}

\* The files that Chmod, Chown, Truncate and Utimens may act on: the one of
\* the request, those open for writing, and by path when none will do.
SetAttrTargets(s, n) ==
  {ByHandle(s, h) : h \in {x \in Files(s, n) : ~s.node[n].dir}} \cup ByPath(s, n)

\* pathInode.Lookup: a node that the file contradicts is dropped first.
PathLookup(s, p, nm) ==
  LET at(path) ==
        LET o == Resolve(s, Join(path, nm))
            c == Kid(s, p, nm)
            t == IF c # 0 /\ (o = 0 \/ s.node[c].dir # (s.kind[o] = "dir")) THEN Cut(s, p, nm) ELSE s
            u == IF Kid(t, p, nm) = 0 THEN FindChild(t, p, nm, o) ELSE t
        IN IF o = 0 THEN Failed(t) ELSE Done(u, Kid(u, p, nm))
  IN {at(path) : path \in GetPath(s, p)}

-----------------------------------------------------------------------------
(* fuse/nodefs/fsconnector.go and fsops.go. *)

\* A mount is entered; a known child is not looked up again by default.
InternalLookup(s, p, nm) ==
  LET c == Kid(s, p, nm) IN
  IF c # 0 /\ c = s.mnt THEN {Done(s, c)}
  ELSE IF c # 0 /\ ~s.opt.known THEN GetAttr(s, c)
  ELSE PathLookup(s, p, nm)

LookupUpdate(s, n) == [s EXCEPT !.refs[n] = @ + 1]

\* childLookup, for a node just made; what GetAttr says does not matter.
ChildLookup(s, n) == {LookupUpdate(r.s, n) : r \in GetAttr(s, n)}

OnForget(s, n) ==
  LET i == s.node[n].ino
  IN IF i = 0 \/ ~s.opt.client \/ s.node[n].dir THEN s ELSE [s EXCEPT !.cim[i] = None]

ForgetAny(s, n, k) ==
  LET t == [s EXCEPT !.refs[n] = @ - k]
      leave(u, x) == RmChild(u, x[1], x[2])
  IN IF t.refs[n] > 0 \/ (\E x \in s.kids : x[1] = n) THEN t
     ELSE OnForget(FoldLeft(leave, t, SetToSeq({x \in s.pars : x[3] = n})), n)

\* forgetUpdate: the last count takes the node out of all its parents.
ForgetUpdate(s, n, k) ==
  LET t == [s EXCEPT !.refs[n] = @ - k]
      leave(u, x) == RmChild(u, x[1], x[2])
  IN IF t.refs[n] > 0 \/ n = s.mnt \/ (\E x \in s.kids : x[1] = n) THEN t
     ELSE OnForget(FoldLeft(leave, t, SetToSeq({x \in s.pars : x[3] = n})), n)

\* Inodes of this file system below the root (FsChildren).
Below(s) == {n \in Nodes \ {1, s.mnt} : \E x \in s.kids : x[3] = n}

\* ForgetClientInodes drops all numbers; updateClientInodes stats every node.
ForgetClientInodes(s) ==
  [s EXCEPT !.cim = [i \in Inos |-> None],
            !.node = [n \in Nodes |-> IF n \in Below(s) THEN [@[n] EXCEPT !.ino = 0] ELSE @[n]]]

UpdateClientInodes(s) ==
  LET stat(S, n) == UNION {{r.s : r \in GetAttr(t, n)} : t \in S}
  IN UNION {FoldLeft(stat, {s}, order) : order \in SetToSeqs(Below(s))}

-----------------------------------------------------------------------------
(* The requests of the kernel, which names nodes it holds, and of the       *)
(* program.  The VFS locks a directory while it is looked up in or changed. *)

Knows(n) == n = 1 \/ st.refs[n] > 0
Directory(p) == Knows(p) /\ st.node[p].dir /\ p # st.mnt
Counts(n) == st.refs[n] < MaxRefs
Step(s) == ops' = ops + 1 /\ st' = Tidy(s)
\* registerFileHandle and unregisterFileHandle.
Opened(s, h, n, o, w) == [s EXCEPT !.open[h] = [node |-> n, obj |-> o, w |-> w]]
Unregistered(s, h) == [s EXCEPT !.open[h] = Closed]

\* LOOKUP, first half: the lock is taken and the node found.
Lookup(p, nm) ==
  /\ Directory(p) /\ st.pend = <<0, 0>> /\ FreeNodes(st) # {}
  /\ \E r \in InternalLookup(st, p, nm) :
       Step([r.s EXCEPT !.pend = IF r.ok THEN <<p, r.node>> ELSE @])
\* Second half: the node is counted, the lock released and the reply sent.
LookupReply ==
  /\ st.pend # <<0, 0>> /\ Counts(st.pend[2])
  /\ st' = Tidy([LookupUpdate(st, st.pend[2]) EXCEPT !.pend = <<0, 0>>])
  /\ UNCHANGED ops

ForgetUnlocked(n, k) ==
  /\ k \in 1..st.refs[n] /\ Files(st, n) = {}
  /\ Step(ForgetUpdate(st, n, k))

\* FORGET, of k of the counts of a node that is not open.
Forget(n, k) ==
  /\ k \in 1..st.refs[n] /\ Files(st, n) = {} /\ st.pend = <<0, 0>>
  /\ Step(ForgetUpdate(st, n, k))

StatNode(n) == Knows(n) /\ n # st.mnt /\ \E r \in GetAttr(st, n) : Step(r.s)

\* SetAttr changes a file, and asks for the attributes by node, not by file.
SetAttr(n) ==
  /\ Knows(n) /\ n # st.mnt /\ SetAttrTargets(st, n) \ {0} # {}
  /\ \E r \in GetAttr(st, n) : Step(r.s)

\* Mknod, Symlink (kind "file"), Mkdir, and Create, which also opens.
Free(p, nm) ==
  /\ Directory(p) /\ st.pend[1] # p /\ FreeNodes(st) # {} /\ Room(st)
  /\ Kid(st, p, nm) = 0 \/ (st.oob /\ Kid(st, p, nm) # st.mnt)
Made(p, nm, kind, path) ==
  LET d == Resolve(st, path)
      s == FsNew(st, d, nm, kind)
  IN [s |-> CreateChild(s, p, nm, At(s, d, nm)), ok |-> d # 0 /\ At(st, d, nm) = 0]
Mknod(p, nm, kind) ==
  /\ Free(p, nm)
  /\ \E path \in GetPath(st, p) :
       LET m == Made(p, nm, kind, path)
       IN m.ok /\ \E s \in ChildLookup(m.s, Kid(m.s, p, nm)) : Step(s)
Create(p, nm, h) ==
  /\ Free(p, nm) /\ st.open[h] = Closed
  /\ \E path \in GetPath(st, p) :
       LET m == Made(p, nm, "file", path)
           n == Kid(m.s, p, nm)
       IN m.ok /\ \E s \in ChildLookup(m.s, n) : Step(Opened(s, h, n, m.s.node[n].obj, TRUE))

UnlinkKeeps(p, nm) ==
  LET c == Kid(st, p, nm) IN
  /\ Directory(p) /\ st.pend[1] # p /\ c # 0 /\ st.refs[c] > 0 /\ c # st.mnt
  /\ \E path \in GetPath(st, p) :
       LET d == Resolve(st, path) IN
       /\ d # 0 /\ At(st, d, nm) # 0 /\ ~\E t \in st.bk : t[1] = At(st, d, nm)
       /\ st.node[c].dir = (st.kind[At(st, d, nm)] = "dir")
       /\ Step(FsRemove(st, d, nm))

\* Unlink and Rmdir of a name the kernel has looked up.
Unlink(p, nm) ==
  LET c == Kid(st, p, nm) IN
  /\ Directory(p) /\ st.pend[1] # p /\ c # 0 /\ st.refs[c] > 0 /\ c # st.mnt
  /\ \E path \in GetPath(st, p) :
       LET d == Resolve(st, path) IN
       /\ d # 0 /\ At(st, d, nm) # 0 /\ ~\E t \in st.bk : t[1] = At(st, d, nm)
       /\ st.node[c].dir = (st.kind[At(st, d, nm)] = "dir")
       /\ Step(Cut(FsRemove(st, d, nm), p, nm))

RECURSIVE Within(_, _, _)
Within(s, o, d) == o = d \/ \E t \in s.bk : t[3] = o /\ Within(s, t[1], d)

RenamedOver(s, p, old, q, nm) ==
  LET c == Kid(s, p, old) IN AddChild(RmChild(s, p, old), q, nm, c)

\* The tree after a Rename that the FileSystem has done.
Renamed(s, p, old, q, nm) ==
  LET t == Cut(s, q, nm)
      c == Kid(t, p, old)
      u == RmChild(t, p, old)
  IN IF c = 0 THEN t ELSE AddChild(u, q, nm, c)

\* rename(2) on the FileSystem: nothing when both are links of one file.
FsRename(s, d, old, e, nm) ==
  LET o == At(s, d, old)
  IN IF At(s, e, nm) = o THEN s
     ELSE [s EXCEPT !.bk = (FsRemove(FsRemove(s, d, old), e, nm)).bk \cup {<<e, nm, o>>}]
Rename(p, old, q, nm) ==
  LET c == Kid(st, p, old)
      x == Kid(st, q, nm)
  IN /\ Directory(p) /\ Directory(q) /\ st.pend[1] \notin {p, q} /\ <<p, old>> # <<q, nm>>
     /\ c # 0 /\ c # st.mnt /\ st.refs[c] > 0 /\ c # x
     /\ x # 0 => st.refs[x] > 0 /\ (x = st.mnt => st.node[c].dir)
     /\ \E a \in GetPath(st, p), b \in GetPath(st, q) :
          LET d == Resolve(st, a)
              e == Resolve(st, b)
              o == At(st, d, old)
              y == At(st, e, nm)
          IN /\ d # 0 /\ e # 0 /\ o # 0 /\ ~Within(st, e, o)
             /\ y # 0 => /\ x # 0 /\ st.kind[o] = st.kind[y]
                         /\ ~\E t \in st.bk : t[1] = y
             /\ Step(Renamed(FsRename(st, d, old, e, nm), p, old, q, nm))

\* The tree after a Link that the FileSystem has done: the node of the file
\* gets the name, if its number is known to be that of the file.
Relinked(s, p, nm, n, o) ==
  LET new == CreateChild(s, p, nm, o)
  IN IF s.node[n].ino # 0 /\ s.node[n].ino = s.ino[o] THEN AddChild(s, p, nm, n)
     ELSE [new EXCEPT !.node[Kid(new, p, nm)].ino = s.ino[o]]

\* Link: the new name is stat'ed, which may fail, before the tree has it.
Link(p, nm, n) ==
  /\ Free(p, nm) /\ Knows(n) /\ ~st.node[n].dir /\ st.opt.client /\ Counts(n)
  /\ \E a \in GetPath(st, p), o \in ByPath(st, n), stat \in BOOLEAN :
       LET d == Resolve(st, a)
           s == [st EXCEPT !.bk = @ \cup {<<d, nm, o>>}]
           t == Relinked(s, p, nm, n, o)
       IN /\ d # 0 /\ o # 0 /\ st.kind[o] = "file" /\ At(st, d, nm) = 0
          /\ IF stat THEN \E u \in ChildLookup(t, Kid(t, p, nm)) : Step(u) ELSE Step(s)

\* Open, of a file by path; OpenDir needs none.  Release and ReleaseDir.
Open(n, h, w) ==
  /\ Knows(n) /\ ~st.node[n].dir /\ st.open[h] = Closed
  /\ \E o \in ByPath(st, n) : o # 0 /\ Step(Opened(st, h, n, o, w))
OpenDir(n, h) ==
  /\ Knows(n) /\ st.node[n].dir /\ st.open[h] = Closed
  /\ Step(Opened(st, h, n, 0, FALSE))
Release(h) == st.open[h] # Closed /\ Step(Unregistered(st, h))

\* The program: LookupNode, which counts nothing, and the client inodes.
LookupNode(p, nm) ==
  /\ st.node[p].dir /\ p # st.mnt /\ (p = 1 \/ Parents(st, p) # {}) /\ FreeNodes(st) # {}
  /\ \E r \in InternalLookup(st, p, nm) : Step(r.s)
Forgotten == st.opt.client /\ Step(ForgetClientInodes(st))
RereadClientInodes ==
  st.opt.client /\ \E s \in UpdateClientInodes(ForgetClientInodes(st)) : Step(s)

\* lockMount: a new root under a name that the FileSystem does not have.
Mount(p, nm) ==
  LET m == Least(FreeNodes(st)) IN
  /\ st.mnt = 0 /\ FreeNodes(st) # {} /\ st.node[p].dir /\ Kid(st, p, nm) = 0
  /\ \E path \in GetPath(st, p) : Resolve(st, path) # 0 /\ At(st, Resolve(st, path), nm) = 0
  /\ Step(AddChild([st EXCEPT !.node[m] = [Blank EXCEPT !.dir = TRUE], !.mnt = m, !.mpar = p], p, nm, m))

\* mountName searches the parent; nothing found is a panic.
MountNames(s) == {t[2] : t \in {x \in s.kids : x[1] = s.mpar /\ x[3] = s.mnt}}

\* No open files on the mount; there is one mount, so none below it.
CanUnmount(s) == Files(s, s.mnt) = {}

\* Unmount, until DeleteNotify: the child goes, its parents stay as they are.
Unmount ==
  /\ st.mnt # 0 /\ ~st.um /\ CanUnmount(st) /\ MountNames(st) # {}
  /\ Step([st EXCEPT !.kids = {t \in @ : t[3] # st.mnt}, !.node[st.mnt].cut = TRUE, !.um = TRUE])
\* Its end, when the kernel has forgotten the root or the wait is over.
Unmounted ==
  /\ st.um /\ ((st.mnt # st.pend[2] /\ st.refs[st.mnt] = 0) \/ LateForget)
  /\ Step([st EXCEPT !.mnt = 0, !.mpar = 0, !.um = FALSE])

\* The files change without the mount.
ElseCreate(d, nm, kind) ==
  /\ OutOfBand /\ ~st.oob /\ st.kind[d] = "dir" /\ Linked(st, d) /\ Room(st) /\ At(st, d, nm) = 0
  /\ Step([FsNew(st, d, nm, kind) EXCEPT !.oob = TRUE])
ElseRemove(d, nm) ==
  /\ OutOfBand /\ ~st.oob /\ At(st, d, nm) # 0 /\ ~\E t \in st.bk : t[1] = At(st, d, nm)
  /\ Step([FsRemove(st, d, nm) EXCEPT !.oob = TRUE])

Request ==
  \/ \E p \in Nodes, nm \in Names :
       \/ Lookup(p, nm) \/ LookupNode(p, nm) \/ Unlink(p, nm) \/ Mount(p, nm)
       \/ \E kind \in {"file", "dir"} : Mknod(p, nm, kind)
       \/ \E h \in Handles : Create(p, nm, h)
       \/ \E n \in Nodes : Link(p, nm, n)
       \/ \E q \in Nodes, old \in Names : Rename(p, old, q, nm)
  \/ \E n \in Nodes :
       \/ StatNode(n) \/ SetAttr(n)
       \/ \E k \in 1..MaxRefs : Forget(n, k)
       \/ \E h \in Handles : OpenDir(n, h) \/ (\E w \in BOOLEAN : Open(n, h, w))
  \/ \E h \in Handles : Release(h)
  \/ \E d \in Objs, nm \in Names :
       ElseRemove(d, nm) \/ (\E kind \in {"file", "dir"} : ElseCreate(d, nm, kind))
  \/ Forgotten \/ RereadClientInodes \/ Unmount \/ Unmounted

Next == (ops < MaxOps /\ Request) \/ LookupReply

Spec == Init /\ [][Next]_vars

-----------------------------------------------------------------------------
(* Properties. *)

InTree(n) == \E t \in st.kids : t[3] = n

(* PathTranslates: as long as the files change through the mount only, every *)
(* path that GetPath can return for a node leads back to it: through the     *)
(* children maps to the node itself, and in the FileSystem to its own file,  *)
(* whichever of the parents of a hard link the walk met.                     *)
PathTranslates ==
  ~st.oob => \A n \in Nodes : \A path \in GetPath(st, n) :
    path # Deleted /\ st.node[n].obj # 0 =>
      /\ Node(st, path) = <<n, <<>>>>
      /\ Resolve(st, path) = st.node[n].obj

(* ActsOnOwnFile: attributes set through a node, by an open file or by path, *)
(* are set on the file the node stands for or on none, though it was         *)
(* renamed, unlinked while open, or its name given to another file.          *)
ActsOnOwnFile ==
  ~st.oob => \A n \in Nodes : Knows(n) /\ st.node[n].obj # 0 =>
    SetAttrTargets(st, n) \subseteq {0, st.node[n].obj}

(* MapEntriesLive: an entry of clientInodeMap is for the number of its node, *)
(* which has a name, and its count is positive.  As long as the files change *)
(* through the mount only, it counts at most the names the node has: it is   *)
(* dropped when the last name goes (OnRemove), though Link and Rename do not *)
(* count the name they add.                                                  *)
MapEntriesLive ==
  \A i \in Inos : LET r == st.cim[i]
                      names == {t \in st.pars : t[3] = r.node} IN
    r.node # 0 => /\ st.node[r.node].ino = i /\ names # {} /\ r.refCount >= 1
                  /\ ~st.oob => r.refCount <= Cardinality(names)

(* NumberOfLiveFile: as long as the files change through the mount only, a   *)
(* number in clientInodeMap is the number of the very file of the node: when *)
(* the FileSystem gives the number of a removed file to a new one, the new   *)
(* one is never taken for a link of the old (findChild).                     *)
NumberOfLiveFile ==
  ~st.oob => \A i \in Inos : LET o == st.node[st.cim[i].node].obj IN
    st.cim[i].node # 0 => Linked(st, o) /\ st.ino[o] = i

(* ClientInodeMapSound: both hold of clientInodeMap.                         *)
ClientInodeMapSound == MapEntriesLive /\ NumberOfLiveFile

(* KnownNodesReachable: a node the kernel holds, no name of which was        *)
(* removed or replaced, is in the tree: lookupLock keeps a FORGET from       *)
(* dropping a node between the time a LOOKUP finds it and counts it.         *)
KnownNodesReachable ==
  ~st.oob => \A n \in Nodes \ {1} : st.refs[n] > 0 /\ ~st.node[n].cut => InTree(n)

(* MountNamed: as long as the files change through the mount only, the root  *)
(* of a mount stays the child of its parentInode until it is unmounted, so   *)
(* that mountName finds it and Unmount does not panic, with one exception:   *)
(* Rename takes out the child it replaces without looking whether that is a  *)
(* mount (pathfs.go:470), and the root of the mount is then cut.             *)
MountNamed ==
  ~st.oob /\ st.mnt # 0 /\ ~st.um /\ ~st.node[st.mnt].cut => MountNames(st) # {}

(* NoLostMount: the same without the exception does not hold: a directory    *)
(* renamed onto the mount point removes the mount, and Unmount panics.       *)
NoLostMount == ~st.oob /\ st.mnt # 0 /\ ~st.um => MountNames(st) # {}
====
