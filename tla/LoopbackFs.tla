----------------------------- MODULE LoopbackFs ------------------------------
(***************************************************************************)
(* The loopback file system of nodefs (nodefs/loopback.go), which serves a *)
(* directory of the operating system.  A node has no name of its own: for  *)
(* each request its path is computed from the parents in the tree, one     *)
(* node after the other (Inode.Path), and given to a system call; when the *)
(* call has succeeded the bridge changes the tree.  Between these steps    *)
(* other requests run, but for what the kernel locks: the directories      *)
(* whose entries a request reads or changes.                               *)
(*                                                                         *)
(* A node is the number of its file (idFromStat); FORGET is in InodeTree,  *)
(* here the kernel keeps what it has seen.                                 *)
(***************************************************************************)
EXTENDS Naturals, Sequences, SequencesExt

CONSTANTS
  Threads, Names,
  Root, Dirs, Others, \* files by their numbers; Root is one of Dirs
  Zero,               \* the number idFromStat makes of an empty Stat_t
  None,
  Starts              \* states to begin with: the directories, as functions of their
                      \* entries, and the bound on the requests

Inos == Dirs \cup Others \cup {Zero}

VARIABLES
  disk,      \* directory -> name -> file, of the operating system
  children,  \* Inode.children
  parents,   \* Inode.parents, pairs of directory and name
  made,      \* the files that were made so far
  lost,      \* those that have lost a name to Unlink or Rmdir
  th,        \* thread -> the request it handles
  astray,    \* the tree may be wrong: a request that overlapped a rename met another
             \* file, or ExchangeChild has written its entries
  left       \* the requests still to come

vars == <<disk, children, parents, made, lost, th, astray, left>>

\* todo: the nodes whose paths are still to be computed; at, seg: the walk; paths: the
\* results; stat: the file made or found; fd: an open directory; hits: the files the
\* calls were made for, with those they met. raced: something on the way was being moved.
Idle == [pc |-> "idle", op |-> None, d |-> None, x |-> None, m |-> None, y |-> None,
         todo |-> <<>>, at |-> None, seg |-> <<>>, paths |-> <<>>, stat |-> None, fd |-> None,
         hits |-> {}, raced |-> FALSE]
-----------------------------------------------------------------------------
(* The kernel (external).                                                  *)

\* What a request locks, and what it moves or removes.
Entry(d, x) == {children[d][x]} \ {None}
Locks(r) ==
  CASE r.op = "ByPath" -> {}
    [] r.op = "Link" -> {r.d, r.m}
    [] r.op = "Remove" -> {r.d} \cup Entry(r.d, r.x)
    [] r.op \in {"Rename", "Exchange"} ->
         {r.d, r.m} \cup (Entry(r.d, r.x) \ Dirs) \cup Entry(r.m, r.y)
    [] OTHER -> {r.d}
Moves(r) ==
  CASE r.op = "Remove" -> Entry(r.d, r.x)
    [] r.op \in {"Rename", "Exchange"} -> Entry(r.d, r.x) \cup Entry(r.m, r.y)
    [] OTHER -> {}

\* A file and the directories above it.
Above(ks) == {d \in Dirs : \E x \in Names : disk[d][x] \in ks}
Way(ks) == ks \cup Above(ks) \cup Above(Above(ks))
Targets(r) == {r.d} \cup (IF r.op \in {"Link", "Rename", "Exchange"} THEN {r.m} ELSE {})

Busy(t) == th[t].pc # "idle"
Overlap(r, q) == Moves(r) \cap Way(Targets(q)) # {}

\* A request begins; todo are the nodes in the order of the calls of path().
Begin(t, op, d, x, m, y, todo) ==
  LET r == [Idle EXCEPT !.pc = "walk", !.op = op, !.d = d, !.x = x, !.m = m, !.y = y,
                        !.todo = Tail(todo), !.at = Head(todo)]
      others == {u \in Threads \ {t} : Busy(u)}
  IN /\ left' = left - 1
     /\ \A u \in others : Locks(r) \cap Locks(th[u]) = {}
     /\ th' = [u \in Threads |->
          IF u = t THEN [r EXCEPT !.raced = \E v \in others : Overlap(th[v], r)]
          ELSE IF u \in others THEN [th[u] EXCEPT !.raced = @ \/ Overlap(r, th[u])] ELSE th[u]]
     /\ UNCHANGED <<disk, children, parents, made, lost, astray>>

Known == {Root} \cup {k \in Inos : parents[k] # {}} \cup lost

Request(t) ==
  /\ ~Busy(t) /\ left > 0
  /\ \/ \E k \in Known : Begin(t, "ByPath", k, None, None, None, <<k>>)
     \/ \E d \in Known \cap Dirs, x \in Names :
        \/ Begin(t, "Lookup", d, x, None, None, <<d>>)
        \/ /\ disk[d][x] = None
           /\ \E op \in {"Mknod", "Mkdir", "Symlink", "Create"} : Begin(t, op, d, x, None, None, <<d>>)
        \/ /\ disk[d][x] = None
           /\ \E k \in Known \ Dirs : Begin(t, "Link", d, x, k, None, <<d, k>>)
        \/ Entry(d, x) # {} /\ Begin(t, "Remove", d, x, None, None, <<d>>)
        \/ \E m \in Known \cap Dirs, y \in Names :
           /\ children[d][x] \notin {None, m, children[m][y]}
           /\ m = d \/ children[d][x] \notin Dirs \/ m \notin Way({d})
           /\ \/ Begin(t, "Rename", d, x, m, y, <<d, m>>)
              \/ children[m][y] \notin {None, d} /\ Begin(t, "Exchange", d, x, m, y, <<d>>)
-----------------------------------------------------------------------------
(* Paths.                                                                  *)

\* Inode.Path: one step of the walk, under the lock of the node it is at. A node
\* without parents ends the walk, as the root does.
PathStep(t) ==
  LET r == th[t]
      found == [r EXCEPT !.paths = Append(@, r.seg), !.seg = <<>>]
  IN /\ r.pc = "walk"
     /\ \/ /\ parents[r.at] = {}
           /\ th' = [th EXCEPT ![t] =
                IF r.todo = <<>> THEN [found EXCEPT !.pc = "call"]
                ELSE [found EXCEPT !.at = Head(r.todo), !.todo = Tail(r.todo)]]
        \/ \E p \in parents[r.at] :
           th' = [th EXCEPT ![t].at = p[1], ![t].seg = <<p[2]>> \o @]
     /\ UNCHANGED <<disk, children, parents, made, lost, astray, left>>

\* The file the operating system has at a path (external).
Resolve(path) ==
  FoldLeft(LAMBDA k, x : IF k \in Dirs THEN disk[k][x] ELSE None, Root, path)
-----------------------------------------------------------------------------
(* The system calls.                                                       *)

\* The handler has made its call, which acted on got where want was meant.
Acted(t, pc, stat, pairs) ==
  LET hits == {p \in pairs : p[2] # None}
  IN /\ th' = [th EXCEPT ![t].pc = pc, ![t].stat = stat, ![t].hits = hits]
     /\ astray' = (astray \/ (th[t].raced /\ \E p \in pairs : p[1] # p[2]))

Fails(t, pairs) ==
  /\ Acted(t, "end", None, pairs)
  /\ UNCHANGED <<disk, made, lost>>

\* Statfs, Readlink, Open, Opendir, Readdir, Fgetattr without a file, and the calls
\* on extended attributes: the file at the path of the node.
ByPath(t) ==
  LET r == th[t]
  IN r.op = "ByPath" /\ Fails(t, {<<r.d, Resolve(r.paths[1])>>})

\* Lookup: Lstat of the name in the directory.
Lookup(t) ==
  LET r == th[t]
      dir == Resolve(r.paths[1])
      k == Resolve(Append(r.paths[1], r.x))
  IN /\ r.op = "Lookup"
     /\ Acted(t, IF k = None THEN "end" ELSE "tree", k, {<<r.d, dir>>})
     /\ UNCHANGED <<disk, made, lost>>

\* Mknod, Mkdir, Symlink and Link: the call that makes the entry.
Made(r) == IF r.op = "Link" THEN {Resolve(r.paths[2])}
           ELSE (IF r.op = "Mkdir" THEN Dirs ELSE Others) \ made

Make(t) ==
  LET r == th[t]
      dir == Resolve(r.paths[1])
      pairs == {<<r.d, dir>>} \cup (IF r.op = "Link" THEN {<<r.m, Resolve(r.paths[2])>>} ELSE {})
  IN /\ r.op \in {"Mknod", "Mkdir", "Symlink", "Link"}
     /\ IF dir \notin Dirs \/ Resolve(Append(r.paths[1], r.x)) # None
        THEN Fails(t, pairs)
        ELSE \/ /\ Made(r) \subseteq Dirs \cup {None} /\ r.op = "Link"
                /\ Fails(t, pairs)
             \/ \E k \in Made(r) \ {None} :
                /\ r.op = "Link" => k \notin Dirs
                /\ disk' = [disk EXCEPT ![dir][r.x] = k]
                /\ made' = made \cup {k}
                /\ Acted(t, "stat", k, pairs)
                /\ lost' = lost

\* The Lstat after it. Mknod and Mkdir fail when the entry has gone (their Rmdir then
\* finds nothing); Symlink and Link look at the error of the call before, and go on with
\* an empty Stat_t.
StatMade(t) ==
  LET r == th[t]
      k == Resolve(Append(r.paths[1], r.x))
  IN /\ r.pc = "stat"
     /\ th' = [th EXCEPT ![t] =
          IF k # None THEN [r EXCEPT !.pc = "tree", !.stat = k]
          ELSE IF r.op \in {"Symlink", "Link"} THEN [r EXCEPT !.pc = "tree", !.stat = Zero]
          ELSE [r EXCEPT !.pc = "end"]]
     /\ astray' = (astray \/ (r.raced /\ k # r.stat))
     /\ UNCHANGED <<disk, children, parents, made, lost, left>>

\* Create: open(2) with O_CREATE; Fstat of the descriptor cannot miss.
Create(t) ==
  LET r == th[t]
      dir == Resolve(r.paths[1])
      k == Resolve(Append(r.paths[1], r.x))
  IN /\ r.op = "Create"
     /\ IF dir \notin Dirs \/ k \in Dirs THEN Fails(t, {<<r.d, dir>>})
        ELSE \E f \in (IF k = None THEN Others \ made ELSE {k}) :
             /\ disk' = [disk EXCEPT ![dir][r.x] = f]
             /\ made' = made \cup {f}
             /\ Acted(t, "tree", f, {<<r.d, dir>>})
             /\ lost' = lost

Empty(k) == k \notin Dirs \/ \A x \in Names : disk[k][x] = None

\* Unlink and Rmdir.
Unlink(t) ==
  LET r == th[t]
      dir == Resolve(r.paths[1])
      k == Resolve(Append(r.paths[1], r.x))
  IN /\ r.op = "Remove"
     /\ IF k = None \/ ~Empty(k) THEN Fails(t, {<<r.d, dir>>})
        ELSE /\ disk' = [disk EXCEPT ![dir][r.x] = None]
             /\ lost' = lost \cup {k}
             /\ Acted(t, "tree", None, {<<r.d, dir>>})
             /\ made' = made

\* Rename: rename(2), which replaces a file by a file and an empty directory by a
\* directory.
Rename(t) ==
  LET r == th[t]
      d == Resolve(r.paths[1])
      m == Resolve(r.paths[2])
      k == Resolve(Append(r.paths[1], r.x))
      l == Resolve(Append(r.paths[2], r.y))
      pairs == {<<r.d, d>>, <<r.m, m>>}
  IN /\ r.op = "Rename"
     /\ IF \/ k = None \/ m \notin Dirs \/ k \in Way({m})
           \/ l # None /\ ((k \in Dirs) # (l \in Dirs) \/ ~Empty(l))
        THEN Fails(t, pairs)
        ELSE /\ disk' = IF k = l THEN disk ELSE [disk EXCEPT ![d][r.x] = None, ![m][r.y] = k]
             /\ Acted(t, "tree", None, pairs)
             /\ UNCHANGED <<made, lost>>

\* renameExchange opens the first directory, then computes the path of the second.
OpenFirst(t) ==
  LET r == th[t]
      d == Resolve(r.paths[1])
  IN /\ r.op = "Exchange" /\ Len(r.paths) = 1
     /\ IF d \notin Dirs THEN Fails(t, {<<r.d, None>>})
        ELSE /\ th' = [th EXCEPT ![t].pc = "walk", ![t].at = r.m, ![t].fd = d]
             /\ UNCHANGED <<disk, made, lost, astray>>

\* "Double check that nodes didn't change from under us": EBUSY when an open directory
\* is not that of its node. Then renameat2(2) on the two descriptors.
Changed(k, fd) == k # Root /\ k # fd

Exchange(t) ==
  LET r == th[t]
      m == Resolve(r.paths[2])
      k == disk[r.fd][r.x]
      l == disk[m][r.y]
  IN /\ r.op = "Exchange" /\ Len(r.paths) = 2
     /\ IF \/ m \notin Dirs \/ Changed(r.d, r.fd) \/ Changed(r.m, m)
           \/ k = None \/ l = None \/ k \in Way({m}) \/ l \in Way({r.fd})
        THEN Fails(t, {<<r.d, None>>})
        ELSE /\ disk' = [disk EXCEPT ![r.fd][r.x] = l, ![m][r.y] = k]
             /\ Acted(t, "tree", None, {<<r.d, r.fd>>, <<r.m, m>>})
             /\ UNCHANGED <<made, lost>>

Call(t) ==
  /\ th[t].pc = "call"
  /\ ByPath(t) \/ Lookup(t) \/ Make(t) \/ Create(t) \/ Unlink(t) \/ Rename(t) \/ OpenFirst(t) \/ Exchange(t)
  /\ UNCHANGED <<children, parents, left>>
-----------------------------------------------------------------------------
(* The bridge, after a call that has succeeded.                            *)

\* addNewChild, for Lookup, Mknod, Mkdir, Symlink, Link and Create.
AddNewChild(r) ==
  /\ children' = [children EXCEPT ![r.d][r.x] = r.stat]
  /\ parents' = [parents EXCEPT ![r.stat] = @ \cup {<<r.d, r.x>>}]

\* RmChild leaves the parents of the child.
RmChild(r) ==
  /\ children' = [children EXCEPT ![r.d][r.x] = None]
  /\ parents' = parents

MvParentsKeepsDest(r, old, dest) ==
  [k \in Inos |-> IF k = old THEN (parents[k] \ {<<r.d, r.x>>}) \cup {<<r.m, r.y>>} ELSE parents[k]]

\* MvChild, overwriting; the child may be one the tree does not have.
MvParents(r, old, dest) ==
  [k \in Inos |-> (parents[k] \ ({e \in {<<r.d, r.x>>} : k = old} \cup {e \in {<<r.m, r.y>>} : k = dest}))
                   \cup {e \in {<<r.m, r.y>>} : k = old}]

MvChild(r) ==
  LET old == children[r.d][r.x]
      dest == children[r.m][r.y]
  IN /\ children' = IF old # None THEN [children EXCEPT ![r.d][r.x] = None, ![r.m][r.y] = old]
                    ELSE [children EXCEPT ![r.m][r.y] = None]
     /\ parents' = MvParents(r, old, dest)

\* ExchangeChild, with the child it writes under the old name.
ExchangeChild(r) ==
  LET old == children[r.d][r.x]
      dest == children[r.m][r.y]
  IN /\ children' = IF old = dest THEN children
                    ELSE [children EXCEPT ![r.d][r.x] = IF dest # None THEN old ELSE None,
                                          ![r.m][r.y] = old]
     /\ parents' = [k \in Inos |->
          CASE old = dest -> parents[k]
            [] k = old -> (parents[k] \ {<<r.d, r.x>>}) \cup {<<r.m, r.y>>}
            [] k = dest -> (parents[k] \ {<<r.m, r.y>>}) \cup {<<r.d, r.x>>}
            [] OTHER -> parents[k]]

ChangeTree(t) ==
  LET r == th[t]
  IN /\ r.pc = "tree"
     /\ CASE r.op = "Remove" -> RmChild(r)
          [] r.op = "Rename" -> MvChild(r)
          [] r.op = "Exchange" -> ExchangeChild(r)
          [] OTHER -> AddNewChild(r)
     /\ th' = [th EXCEPT ![t] = Idle]
     /\ astray' = (astray \/ r.op = "Exchange")
     /\ UNCHANGED <<disk, made, lost, left>>

\* A request that changes nothing in the tree, or has failed.
Return(t) ==
  /\ th[t].pc = "end"
  /\ th' = [th EXCEPT ![t] = Idle]
  /\ UNCHANGED <<disk, children, parents, made, lost, astray, left>>
-----------------------------------------------------------------------------
\* The kernel has looked up everything there is.
Init ==
  /\ \E s \in Starts : disk = s.disk /\ left = s.left
  /\ children = disk
  /\ parents = [k \in Inos |-> {<<d, x>> \in Dirs \X Names : disk[d][x] = k}]
  /\ made = {Root} \cup {k \in Inos : \E d \in Dirs, x \in Names : disk[d][x] = k}
  /\ lost = {} /\ astray = FALSE
  /\ th = [t \in Threads |-> Idle]

Next ==
  \E t \in Threads :
    Request(t) \/ PathStep(t) \/ Call(t) \/ StatMade(t) \/ ChangeTree(t) \/ Return(t)

Spec == Init /\ [][Next]_vars
-----------------------------------------------------------------------------
(* Properties.                                                             *)

\* A system call acts on the file of the node it was made for, although the path is
\* computed beforehand: unless something on the way was moved or removed at the same
\* time, the tree is astray since such a move or an exchange, or the file has lost a
\* name. An exchange does so always: "Double check that nodes didn't change from under
\* us" (loopback_linux.go:51).
CallsOwnFile ==
  \A t \in Threads : \A p \in th[t].hits :
     \/ p[1] = p[2]
     \/ /\ th[t].op # "Exchange"
        /\ th[t].raced \/ astray \/ p[1] \in lost
=============================================================================
