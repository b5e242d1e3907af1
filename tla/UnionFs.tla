------------------------------- MODULE UnionFs -------------------------------
(***************************************************************************)
(* The union file system (src/unionfs/unionfs.go) over one writable and    *)
(* one read-only branch, with its two caches: branchCache                  *)
(* (src/unionfs/timedcache.go) and deletionCache (src/unionfs/dircache.go).*)
(*                                                                         *)
(* A method of unionFS is an operator from the state to the state it       *)
(* leaves, whose field ok is the status it returns; Operate is the call.   *)
(* The branches are external: pathfs.FileSystems that behave like a file   *)
(* system.  Calls that change the writable one go through Call, where one  *)
(* of them may fail, or the process may die: its storage then keeps what   *)
(* was written, and a new process starts with empty caches.                *)
(*                                                                         *)
(* A path is a sequence of names.  What a file holds is "ro" (as in the    *)
(* read-only branch), "new" (created through the union), "set" (changed    *)
(* by Truncate, Utimens, Chown, Chmod or a write) or "cut" (a copy that    *)
(* stopped half way).                                                      *)
(***************************************************************************)
EXTENDS Integers, Sequences, FiniteSets, SequencesExt

CONSTANTS
  Nil,
  Paths,       \* the paths below the root: a name, or a directory and a name
  RoTrees,     \* what the read-only branch may hold: a set of Path -> kind
  Fids,        \* open files the kernel may hold
  MaxOps,      \* bound: operations in a behaviour, for each of RoTrees
  MaxEvents,   \* bound: events of the caches in a behaviour
  MaxSteps,    \* bound: operations and events together
  Faults       \* pairs: calls that succeed before the fault, and whether it is
               \* a crash

Root == <<>>
Absent == "absent"
Kinds == {"file", "dir", "link", Absent}
Inos == 1..(Cardinality(Paths) + Cardinality(Fids))
Parent(p) == Front(p)
Under(p, q) == Len(p) >= Len(q) /\ SubSeq(p, 1, Len(q)) = q
Moved(p, src, dst) == dst \o SubSeq(p, Len(src) + 1, Len(p))

VARIABLES
  st,     \* the state of the union and of its writable branch
  ro,     \* the read-only branch: Path -> kind
  last,   \* the operation the kernel is about to hear the result of, or Nil
  ops,    \* operations so far
  events  \* events of the caches so far

vars == <<st, ro, last, ops, events>>

(***************************************************************************)
(* st.rw      writable branch: Path -> inode number, 0 when absent         *)
(* st.ino     its inodes: number -> [kind, v]                              *)
(* st.markers the paths with a file in the deletion directory              *)
(* st.bc      branchCache: Path -> [branch, kind] or Nil                   *)
(* st.names   deletionCache.names, Nil when it has to be read              *)
(* st.wanted  a "go maybeRefresh()" has not run yet                        *)
(* st.map     what the running refresh has read; Nil when none runs        *)
(* st.suspect the deletion cache was filled, or a marker kept, by an error *)
(*            or from a listing older than the store                       *)
(* st.files   open unionFsFiles: [path (Nil: unlinked), layer, obj, w] or  *)
(*            Nil; obj is the inode of the writable branch, w: for writing *)
(* st.left    calls that still succeed before the fault, -1: no fault to   *)
(*            come; st.crash: it is a crash; st.dead: it has happened;     *)
(*            st.faulted: some fault has happened                          *)
(***************************************************************************)
Init ==
  /\ ro \in RoTrees
  /\ st = [rw |-> [p \in Paths |-> 0],
           ino |-> [i \in Inos |-> [kind |-> Absent, v |-> Nil]],
           markers |-> {}, bc |-> [p \in Paths |-> Nil],
           names |-> Nil, wanted |-> FALSE, map |-> Nil, suspect |-> FALSE,
           files |-> [f \in Fids |-> Nil],
           left |-> -1, crash |-> FALSE, dead |-> FALSE, faulted |-> FALSE, ok |-> TRUE]
  /\ last = Nil
  /\ ops = 0
  /\ events = 0

-----------------------------------------------------------------------------
\* A call that turns the writable branch of s into that of t, when pre holds.
Call(s, pre, t) ==
  IF s.dead \/ ~pre THEN [s EXCEPT !.ok = FALSE]
  ELSE IF s.left = 0 THEN [s EXCEPT !.ok = FALSE, !.left = -1, !.dead = s.crash]
  ELSE [t EXCEPT !.ok = TRUE, !.left = IF @ > 0 THEN @ - 1 ELSE @]

Ok(s) == [s EXCEPT !.ok = TRUE]
Then(s, F(_)) == IF s.ok THEN F(s) ELSE s

RwKind(s, p) == IF s.rw[p] = 0 THEN Absent ELSE s.ino[s.rw[p]].kind
RwDir(s, p) == p = Root \/ RwKind(s, p) = "dir"
RwEmpty(s, p) == \A q \in Paths : Under(q, p) /\ q # p => s.rw[q] = 0
Free(s) ==
  CHOOSE i \in Inos : /\ \A p \in Paths : s.rw[p] # i
                      /\ \A f \in Fids : s.files[f] # Nil => s.files[f].obj # i

\* writable.Create, Mkdir, Symlink; Unlink and Rmdir; Rename; a change of p.
RwNew(s, p, kind, v) ==
  Call(s, s.rw[p] = 0 /\ RwDir(s, Parent(p)),
       [s EXCEPT !.rw[p] = Free(s), !.ino[Free(s)] = [kind |-> kind, v |-> v]])
RwRemove(s, p) == Call(s, s.rw[p] # 0 /\ RwEmpty(s, p), [s EXCEPT !.rw[p] = 0])
RwRename(s, src, dst) ==
  Call(s, /\ s.rw[src] # 0 /\ RwDir(s, Parent(dst)) /\ ~Under(dst, src)
          /\ s.rw[dst] # 0 => RwEmpty(s, dst) /\ (RwDir(s, src) <=> RwDir(s, dst)),
       IF s.rw[src] = s.rw[dst] THEN s ELSE [s EXCEPT !.rw = [p \in Paths |->
          IF Under(p, dst)
            THEN LET q == Moved(p, dst, src) IN IF q \in Paths THEN s.rw[q] ELSE 0
          ELSE IF Under(p, src) THEN 0 ELSE s.rw[p]]])
RwSet(s, p, v) == Call(s, s.rw[p] # 0, [s EXCEPT !.ino[s.rw[p]].v = v])
RwTouch(s, p) == Call(s, s.rw[p] # 0, s)

-----------------------------------------------------------------------------
(* dircache.go: the cache of the deletion directory. *)

HasMap(s) == s.names # Nil
Ask(s) == IF HasMap(s) THEN s ELSE [s EXCEPT !.wanted = TRUE]

AddEntry(s, p) == IF HasMap(s) THEN [s EXCEPT !.names = @ \cup {p}] ELSE Ask(s)

RemoveEntry(s, p) == IF HasMap(s) THEN [s EXCEPT !.names = @ \ {p}] ELSE Ask(s)

Dropped(s) == [s EXCEPT !.names = Nil, !.suspect = FALSE]

\* isDeleted, after HasEntry.
IsDeleted(s, p) == p \in (IF HasMap(s) THEN s.names ELSE s.markers)

-----------------------------------------------------------------------------
(* timedcache.go and getBranch: where a path is, from the cache or not. *)

RECURSIVE GetBranch(_, _)
\* getBranchAttrNoCache: the first branch, from the parent's on, that has p.
Fetch(s, p) ==
  LET from == IF Len(p) = 1 THEN 0 ELSE GetBranch(s, Parent(p)).branch
  IN IF from <= 0 /\ s.rw[p] # 0 THEN [branch |-> 0, kind |-> RwKind(s, p)]
     ELSE IF ro[p] # Absent THEN [branch |-> 1, kind |-> ro[p]]
     ELSE [branch |-> -1, kind |-> Absent]
GetBranch(s, p) ==
  IF p = Root THEN [branch |-> 0, kind |-> "dir"]
  ELSE IF s.bc[p] # Nil THEN s.bc[p] ELSE Fetch(s, p)

\* The state after getBranch(p): p, and what was fetched for it, is cached.
RECURSIVE Got(_, _)
GetFresh(s, p) ==
  LET t == Got(s, Parent(p)) IN [t EXCEPT !.bc[p] = Fetch(t, p)]
Got(s, p) == IF p = Root \/ s.bc[p] # Nil THEN s ELSE GetFresh(s, p)

SetBranch(s, p, r) == [s EXCEPT !.bc[p] = r]
DropEntry(s, p) == [s EXCEPT !.bc[p] = Nil]
DropAll(s) == [s EXCEPT !.bc = [p \in Paths |-> Nil]]

-----------------------------------------------------------------------------
(* unionfs.go: deletion markers. *)

\* The marker is created, which may fail, and its content written: when that
\* fails the process panics.  A marker hides p whatever it holds.
PutDeletion(s, p) ==
  LET marker == Call(s, TRUE, [s EXCEPT !.markers = @ \cup {p}])
      write(t) == LET u == Call(t, TRUE, t) IN [u EXCEPT !.dead = ~u.ok]
  IN IF p \in s.markers THEN Ok(s)
     ELSE Then(Then(marker, write), LAMBDA t : AddEntry(t, p))

\* The marker's Unlink may fail: that is logged, and the cache updated.
RemoveDeletion(s, p) ==
  LET a == Call(s, p \in s.markers, [s EXCEPT !.markers = @ \ {p}])
      kept == p \in a.markers
  IN Ok(RemoveEntry([a EXCEPT !.suspect = @ \/ kept], p))

\* What the read-only branch still has at p is marked deleted.
Hide(s, p) == IF GetBranch(s, p).branch > 0 THEN PutDeletion(s, p) ELSE s

\* The names of OpenDir: the branches are read, not the caches.
OpenDir(s, p) ==
  LET in(q) == Len(q) = Len(p) + 1 /\ Under(q, p)
      first == GetBranch(s, p).branch
  IN {q \in Paths : in(q) /\ ( \/ first = 0 /\ s.rw[q] # 0
                               \/ ro[q] # Absent /\ q \notin s.markers )}

-----------------------------------------------------------------------------
(* unionfs.go: promotion to the writable branch. *)

Ancestors(p) == [i \in 1..(Len(p) - 1) |-> SubSeq(p, 1, i)]

PromoteDirsBlank(s, p) ==
  LET mkdir(t, d) ==
        Then(Then(t, LAMBDA u : RwNew(u, d, "dir", "new")),
             LAMBDA u : SetBranch(Ok(RwTouch(u, d)), d, [branch |-> 0, kind |-> "dir"]))
      make(t) ==
        IF \E d \in ToSet(Ancestors(p)) : GetBranch(t, d).kind # "dir" THEN [t EXCEPT !.ok = FALSE]
        ELSE FoldLeft(mkdir, Ok(t),
                      SelectSeq(Ancestors(p), LAMBDA d : GetBranch(t, d).branch # 0))
  IN make(FoldLeft(Got, s, Reverse(Ancestors(p))))

\* promoteDirsTo: the directories above p that are not writable yet, from
\* the outermost on.  The times are copied too; that call is not checked.
PromoteDirsTo(s, p) ==
  LET mkdir(t, d) ==
        Then(Then(t, LAMBDA u : RwNew(u, d, "dir", "ro")),
             LAMBDA u : SetBranch(Ok(RwTouch(u, d)), d, [branch |-> 0, kind |-> "dir"]))
      make(t) ==
        IF \E d \in ToSet(Ancestors(p)) : GetBranch(t, d).kind # "dir" THEN [t EXCEPT !.ok = FALSE]
        ELSE FoldLeft(mkdir, Ok(t),
                      SelectSeq(Ancestors(p), LAMBDA d : GetBranch(t, d).branch # 0))
  IN make(FoldLeft(Got, s, Reverse(Ancestors(p))))

\* pathfs.CopyFile: Create truncates what is there, then the data is written.
CopyFile(s, p, v) == Then(RwNew(s, p, "file", "cut"), LAMBDA t : RwSet(t, p, v))

ReopenNone(s, p) == s

\* Files of p opened in the read-only branch are opened again in the writable.
Reopen(s, p) ==
  [s EXCEPT !.files = [f \in Fids |->
     IF s.files[f] # Nil /\ s.files[f].path = p /\ s.files[f].layer > 0
       THEN [s.files[f] EXCEPT !.layer = 0, !.obj = s.rw[p]] ELSE s.files[f]]]

Promote(s, p) ==
  LET kind == GetBranch(s, p).kind
      copy(t) == Then(Then(CopyFile(t, p, "ro"), LAMBDA u : RwTouch(u, p)), \* Chmod
                      LAMBDA u : RwTouch(u, p))                             \* Utimens
      make(t) == IF kind = "file" THEN Then(copy(t), LAMBDA u : Reopen(u, p))
                 ELSE RwNew(t, p, kind, "ro")
      settle(t) == IF t.ok THEN SetBranch(Got(t, p), p, [branch |-> 0, kind |-> kind])
                   ELSE GetFresh(t, p)
  IN settle(make(Ok(PromoteDirsTo(s, p))))

\* What every change of a file begins with.
PromoteFirst(s, p) == IF GetBranch(s, p).branch > 0 THEN Promote(s, p) ELSE Ok(s)

-----------------------------------------------------------------------------
(* unionfs.go: the methods. *)

LookupOne(s, p) == IF IsDeleted(s, p) THEN Ask(s) ELSE Got(Ask(s), p)
Sees(s, p) == ~IsDeleted(s, p) /\ GetBranch(s, p).branch >= 0

\* GetAttr: what the kernel is told of p, whose directory it knows.
GetAttr(s, p) == IF p = Root THEN "dir" ELSE IF Sees(s, p) THEN GetBranch(s, p).kind ELSE Absent

\* What Create, Symlink and Mkdir begin with.
MakeNode(s, p, kind) == Then(PromoteDirsTo(s, p), LAMBDA t : RwNew(t, p, kind, "new"))

Create(s, p) ==
  Then(MakeNode(s, p, "file"),
       LAMBDA t : SetBranch(RemoveDeletion(t, p), p, [branch |-> 0, kind |-> "file"]))

SymlinkKeepsBranch(s, p) ==
  Then(MakeNode(s, p, "link"), LAMBDA t : RemoveDeletion(t, p))

Symlink(s, p) ==
  Then(MakeNode(s, p, "link"), LAMBDA t : GetFresh(RemoveDeletion(t, p), p))

\* Mkdir returns the status of the listing at its end, which hides what the
\* read-only branch has below p.
Mkdir(s, p) ==
  LET make(t) ==
        Then(MakeNode(t, p, "dir"),
             LAMBDA u : SetBranch(RemoveDeletion(u, p), p, [branch |-> 0, kind |-> "dir"]))
      hide(t) == IF GetBranch(t, p).branch < 0 THEN [t EXCEPT !.ok = FALSE]
                 ELSE Ok(FoldLeft(PutDeletion, t, SetToSeq(OpenDir(t, p))))
  IN IF Sees(s, p) THEN [LookupOne(s, p) EXCEPT !.ok = FALSE]
     ELSE hide(Got(make(LookupOne(s, p)), p))

Link(s, p, q) ==
  LET had == GetBranch(s, p).branch
      orig == Then(PromoteFirst(Got(s, p), p), LAMBDA t : IF had > 0 THEN GetFresh(t, p) ELSE t)
      linked == Then(Then(orig, LAMBDA t : PromoteDirsTo(t, q)),
                     LAMBDA t : Call(t, t.rw[p] # 0 /\ t.rw[q] = 0 /\ RwDir(t, Parent(q)),
                                     [t EXCEPT !.rw[q] = t.rw[p]]))
  IN Then(linked, LAMBDA t : GetFresh(RemoveDeletion(t, q), q))

UnlinkWritable(s, p) ==
  IF GetBranch(s, p).branch = 0 THEN Then(RwRemove(Got(s, p), p), LAMBDA t : GetFresh(t, p))
  ELSE PutDeletion(Got(s, p), p)

\* Unlink, and the end of Rmdir: p leaves the writable branch, and what the
\* read-only branch still has is marked deleted.
Unlink(s, p) ==
  LET remove(t) == IF GetBranch(t, p).branch = 0 THEN Then(RwRemove(t, p), LAMBDA u : GetFresh(u, p))
                   ELSE Ok(t)
  IN Then(remove(Got(s, p)), LAMBDA t : Hide(t, p))

Rmdir(s, p) ==
  IF OpenDir(Got(s, p), p) # {} THEN [Got(s, p) EXCEPT !.ok = FALSE] ELSE Unlink(s, p)

\* Truncate and Utimens check the status of the call in the writable branch.
Truncate(s, p) ==
  Then(Then(PromoteFirst(Got(s, p), p), LAMBDA t : RwSet(t, p, "set")),
       LAMBDA t : SetBranch(t, p, [GetBranch(t, p) EXCEPT !.branch = 0]))
Utimens(s, p) == IF GetBranch(s, p).branch < 0 THEN [Got(s, p) EXCEPT !.ok = FALSE] ELSE Truncate(s, p)

\* Chown (as root) and Chmod skip it when there is nothing to change, and
\* ignore it.
Chmod(s, p, same) ==
  IF same THEN SetBranch(Got(s, p), p, GetBranch(s, p))
  ELSE Then(PromoteFirst(Got(s, p), p),
            LAMBDA t : SetBranch(Ok(RwSet(t, p, "set")), p, [GetBranch(t, p) EXCEPT !.branch = 0]))
Chown(s, p, same) == Chmod(s, p, same)

\* recursivePromote: p and what is below; the second field lists what it did.
RECURSIVE RecursivePromote(_, _)
RecursivePromote(s, p) ==
  LET join(r, names) == [s |-> r.s, names |-> names \o r.names]
      below(acc, q) == IF acc.s.ok THEN join(RecursivePromote(acc.s, q), acc.names) ELSE acc
      from(t) == FoldLeft(below, [s |-> t, names |-> <<p>>],
                          IF t.ok /\ GetBranch(t, p).kind = "dir" THEN SetToSeq(OpenDir(t, p)) ELSE <<>>)
  IN from(PromoteFirst(Got(s, p), p))

RenameDirectory(s, src, dst) ==
  LET set(t, p, to) == SetBranch(t, to, [GetBranch(t, p) EXCEPT !.branch = 0])
      move(t, p) ==
        LET to == Moved(p, src, dst)
            u == GetFresh(set(Got(RemoveDeletion(t, to), p), p, to), p)
        IN Hide([u EXCEPT !.ok = t.ok], p)
      rename(up) ==
        Then(Then(Then(up.s, LAMBDA t : PromoteDirsTo(t, dst)), LAMBDA t : RwRename(t, src, dst)),
             LAMBDA t : FoldLeft(move, t, up.names))
  IN rename(RecursivePromote(s, src))

Rename(s, src, dst) ==
  LET up == Then(PromoteFirst(s, src), LAMBDA t : PromoteDirsTo(t, dst))
      renamed == Then(up, LAMBDA t : RwRename(t, src, dst))
      settle(t) == Ok(GetFresh(DropEntry(RemoveDeletion(t, dst), dst), src))
  IN IF GetBranch(s, src).kind = "dir" THEN RenameDirectory(s, src, dst)
     ELSE Then(renamed, LAMBDA t : Hide(settle(t), src))

\* Open, for reading or (w) for writing, as file f.
Open(s, p, f, w) ==
  LET a == IF w THEN PromoteFirst(Got(s, p), p) ELSE Ok(Got(s, p))
      layer == GetBranch(a, p).branch
  IN Then(a, LAMBDA t : [t EXCEPT !.files[f] =
       [path |-> p, layer |-> layer, obj |-> IF layer = 0 THEN t.rw[p] ELSE 0, w |-> w]])


-----------------------------------------------------------------------------
(* The kernel (external) looks every component of a path up before it asks *)
(* for an operation on it, and asks only for what the VFS allows.          *)

Lookup(s, p) ==
  LET one(t, q) == IF GetAttr(t, Parent(q)) = "dir" THEN LookupOne(t, q) ELSE t
  IN FoldLeft(one, s, Append(Ancestors(p), p))
Has(s, p) == (\A q \in ToSet(Ancestors(p)) : GetAttr(s, q) = "dir") /\ GetAttr(s, p) # Absent
HasFile(s, p) == Has(s, p) /\ GetAttr(s, p) # "dir"
CanMake(s, p) == (\A q \in ToSet(Ancestors(p)) : GetAttr(s, q) = "dir") /\ GetAttr(s, p) = Absent

\* A new process knows the storage only.
Restarted(s) ==
  [DropAll(Dropped(s)) EXCEPT !.dead = FALSE, !.wanted = FALSE, !.map = Nil,
                              !.files = [f \in Fids |-> Nil]]

\* pathfs moves and drops the nodes, and their open files, when it has OK.
Renamed(s, src, dst) ==
  [s EXCEPT !.files = [f \in Fids |->
     LET o == s.files[f] IN
     IF o = Nil \/ o.path = Nil THEN o
     ELSE IF Under(o.path, src) THEN [o EXCEPT !.path = Moved(@, src, dst)]
     ELSE IF Under(o.path, dst) THEN [o EXCEPT !.path = Nil] ELSE o]]
Removed(s, p) ==
  [s EXCEPT !.files = [f \in Fids |->
     IF s.files[f] # Nil /\ s.files[f].path = p THEN [s.files[f] EXCEPT !.path = Nil]
     ELSE s.files[f]]]

Known(p, q) == Lookup(Lookup(st, p), q)

\* One call of the method F by the kernel, with at most one fault in it.
Operate(op, p, q, Allowed(_), F(_)) ==
  /\ \E known \in {Known(p, q)} :
       /\ Allowed(known)
       /\ \E fault \in (IF st.faulted THEN {} ELSE Faults) \cup {<<-1, FALSE>>} :
          \E s \in {F([known EXCEPT !.left = fault[1], !.crash = fault[2]])} :
            /\ s.left = -1
            /\ st' = [(IF s.dead THEN Restarted(s) ELSE s) EXCEPT !.ok = TRUE, !.crash = FALSE,
                                                     !.faulted = @ \/ fault[1] # -1]
            /\ last' = [op |-> op, p |-> p, q |-> q, ok |-> s.ok, hit |-> fault[1] # -1]
  /\ ops' = ops + 1
  /\ UNCHANGED <<ro, events>>

DoCreate(p) == Operate("create", p, p, LAMBDA k : CanMake(k, p), LAMBDA s : Create(s, p))
DoSymlink(p) == Operate("symlink", p, p, LAMBDA k : CanMake(k, p), LAMBDA s : Symlink(s, p))
DoMkdir(p) ==
  Len(p) = 1 /\ Operate("mkdir", p, p, LAMBDA k : CanMake(k, p), LAMBDA s : Mkdir(s, p))
DoLink(p, q) ==
  Operate("link", p, q, LAMBDA k : HasFile(k, p) /\ CanMake(k, q), LAMBDA s : Link(s, p, q))
DoUnlink(p) ==
  Operate("unlink", p, p, LAMBDA k : HasFile(k, p),
          LAMBDA s : Then(Unlink(s, p), LAMBDA t : Removed(t, p)))
DoRmdir(p) ==
  Operate("rmdir", p, p, LAMBDA k : GetAttr(k, p) = "dir", LAMBDA s : Rmdir(s, p))
DoTruncate(p) == Operate("set", p, p, LAMBDA k : HasFile(k, p), LAMBDA s : Truncate(s, p))
DoUtimens(p) == Operate("set", p, p, LAMBDA k : Has(k, p), LAMBDA s : Utimens(s, p))
DoChmod(p, same) ==
  Operate(IF same THEN "stat" ELSE "set", p, p, LAMBDA k : Has(k, p), LAMBDA s : Chmod(s, p, same))
DoChown(p) == Operate("set", p, p, LAMBDA k : Has(k, p), LAMBDA s : Chown(s, p, FALSE))
DoRename(src, dst) ==
  /\ src # dst /\ ~Under(dst, src) /\ ~Under(src, dst)
  /\ Operate("rename", src, dst,
       LAMBDA k : /\ Has(k, src)
                  /\ \/ CanMake(k, dst) /\ (GetAttr(k, src) = "dir" => Len(dst) = 1)
                     \/ Has(k, dst) /\ (GetAttr(k, src) = "dir" <=> GetAttr(k, dst) = "dir"),
       LAMBDA s : Then(Rename(s, src, dst), LAMBDA t : Renamed(t, src, dst)))
DoOpen(p, f, w) ==
  /\ st.files[f] = Nil
  /\ Operate("open", p, p, LAMBDA k : GetAttr(k, p) = "file" /\ Has(k, p), LAMBDA s : Open(s, p, f, w))

\* The kernel has the result.
Return == last # Nil /\ last' = Nil /\ UNCHANGED <<st, ro, ops, events>>

\* A write through an open file; Flush, which reads the branch again, with
\* the Release after it.  unionFsFile.File is the file of the branch.
Write(f) ==
  /\ last = Nil /\ st.files[f] # Nil /\ st.files[f].w
  /\ st' = [st EXCEPT !.ino[st.files[f].obj].v = "set"]
  /\ UNCHANGED <<ro, last, ops, events>>
Flush(f) ==
  /\ last = Nil /\ st.files[f] # Nil
  /\ LET p == st.files[f].path
         t == IF p = Nil THEN st ELSE GetFresh(st, p)
     IN st' = [t EXCEPT !.files[f] = Nil]
  /\ UNCHANGED <<ro, last, ops, events>>

\* An entry of branchCache outlives its ttl; the timer of dirCache.setMap
\* fires; or both caches are dropped by opening .drop_cache for writing.
Event(s) ==
  /\ last = Nil /\ events < MaxEvents /\ ops + events < MaxSteps
  /\ st' = s
  /\ events' = events + 1
  /\ UNCHANGED <<ro, last, ops>>

Expire(p) == st.bc[p] # Nil /\ Event(DropEntry(st, p))
DropCache == st.names # Nil /\ Event(Dropped(st))
DropCaches == Event(DropAll(Dropped(st)))

\* maybeRefresh, in a goroutine of its own: it lists the directory, unless a
\* refresh runs, and installs the listing later.
NewDirnameMap(s) == s.markers
MaybeRefresh ==
  st.wanted /\ Event([st EXCEPT !.wanted = FALSE, !.map = IF @ = Nil THEN NewDirnameMap(st) ELSE @])
SetMap ==
  st.map # Nil /\ Event([st EXCEPT !.names = st.map, !.map = Nil, !.suspect = st.map # st.markers])

Request ==
  \E p \in Paths :
    \/ DoCreate(p) \/ DoSymlink(p) \/ DoMkdir(p) \/ DoUnlink(p) \/ DoRmdir(p)
    \/ DoTruncate(p) \/ DoUtimens(p) \/ DoChown(p) \/ (\E same \in BOOLEAN : DoChmod(p, same))
    \/ \E q \in Paths : DoLink(p, q) \/ DoRename(p, q)
    \/ \E f \in Fids, w \in BOOLEAN : DoOpen(p, f, w)

Next ==
  \/ last = Nil /\ ops < MaxOps[ro] /\ ops + events < MaxSteps /\ Request
  \/ \E p \in Paths : Expire(p)
  \/ \E f \in Fids : Write(f) \/ Flush(f)
  \/ Return \/ DropCache \/ DropCaches \/ MaybeRefresh \/ SetMap

Spec == Init /\ [][Next]_vars
-----------------------------------------------------------------------------
(* What the union shows: a plain tree.  A marker hides the read-only branch. *)

Visible(s, p) ==
  LET here(q) == s.rw[q] # 0 \/ (ro[q] # Absent /\ q \notin s.markers)
      kind(q) == IF s.rw[q] # 0 THEN RwKind(s, q) ELSE ro[q]
  IN here(p) /\ \A q \in ToSet(Ancestors(p)) : here(q) /\ kind(q) = "dir"
Node(s, p) ==
  IF ~Visible(s, p) THEN [kind |-> Absent, v |-> Nil]
  ELSE IF s.rw[p] # 0 THEN s.ino[s.rw[p]] ELSE [kind |-> ro[p], v |-> "ro"]
View(s) ==
  [node |-> [p \in Paths |-> Node(s, p)],
   same |-> {pq \in Paths \X Paths :
               /\ s.rw[pq[1]] # 0 /\ s.rw[pq[1]] = s.rw[pq[2]]
               /\ Visible(s, pq[1]) /\ Visible(s, pq[2]) /\ pq[1] # pq[2]}]

\* A marker left on a path of the writable branch by a fault hides it from
\* GetAttr and not from OpenDir; a stale listing misleads GetAttr alone.
Sound(s) == s.names \in {Nil, s.markers} /\ \A p \in s.markers : s.rw[p] = 0

\* The same operations on a plain tree.  from[x] is the path whose file x has
\* afterwards.
From(o) ==
  [x \in Paths |->
     CASE o.op \in {"unlink", "rmdir"} /\ x = o.p -> Nil
       [] o.op = "link" /\ x = o.q -> o.p
       [] o.op = "rename" /\ Under(x, o.q) ->
            LET y == Moved(x, o.q, o.p) IN IF y \in Paths THEN y ELSE Nil
       [] o.op = "rename" /\ Under(x, o.p) -> Nil
       [] OTHER -> x]
Same(view, p, q) == p = q \/ <<p, q>> \in view.same
New(o, x) ==
  CASE o.op = "create" /\ x = o.p -> [kind |-> "file", v |-> "new"]
    [] o.op = "symlink" /\ x = o.p -> [kind |-> "link", v |-> "new"]
    [] o.op = "mkdir" /\ x = o.p -> [kind |-> "dir", v |-> "new"]
    [] OTHER -> Nil
Plain(view, o) ==
  LET from == From(o)
      old(x) == IF from[x] = Nil THEN [kind |-> Absent, v |-> Nil] ELSE view.node[from[x]]
      node(x) == IF New(o, x) # Nil THEN New(o, x)
                 ELSE IF o.op = "set" /\ Same(view, x, o.p) THEN [old(x) EXCEPT !.v = "set"]
                 ELSE old(x)
  IN IF o.op = "rename" /\ Same(view, o.p, o.q) THEN view
     ELSE [node |-> [x \in Paths |-> node(x)],
           same |-> {pq \in Paths \X Paths :
                       /\ pq[1] # pq[2] /\ from[pq[1]] # Nil /\ from[pq[2]] # Nil
                       /\ Same(view, from[pq[1]], from[pq[2]])
                       /\ view.node[from[pq[1]]].kind # Absent}]

\* A directory may be renamed onto an empty one only; the union does not see
\* that a read-only one is not empty, and merges the two.
Merges(s, o) ==
  /\ o.op = "rename" /\ GetAttr(s, o.q) = "dir"
  /\ \E x \in Paths : x # o.q /\ Under(x, o.q) /\ Visible(s, x)

(* OverlaySemantics: an operation without a fault that returns OK does to    *)
(* the tree the union shows what it does to one plain file system, hard      *)
(* links included, and one that fails leaves the tree alone: copies to the   *)
(* writable branch, markers and branches never show (all of unionfs.go).     *)
OverlaySemantics ==
  [][ last = Nil /\ last' # Nil /\ ~last'.hit /\ Sound(st) /\ ~Merges(Known(last'.p, last'.q), last')
      => \E before \in {View(st)} :
           View(st') = IF last'.ok THEN Plain(before, last') ELSE before ]_vars

(* AnswersAgree: whatever the caches hold, GetAttr finds exactly what the    *)
(* storage shows, in the branch it is in, and OpenDir lists the same names:  *)
(* the two caches are transparent (getBranch, isDeleted, OpenDir), unless    *)
(* the listing of the deletion directory was read before its last change, or *)
(* a fault left a marker.                                                    *)
AnswersAgree ==
  (st.names = Nil \/ ~st.suspect) /\ (\A p \in st.markers : st.rw[p] = 0) =>
    \A p \in Paths :
      LET up == Parent(p) IN
      (up = Root \/ (Visible(st, up) /\ Node(st, up).kind = "dir")) =>
        /\ GetAttr(st, p) = Node(st, p).kind
        /\ p \in OpenDir(st, up) <=> Visible(st, p)
        /\ Visible(st, p) => GetBranch(st, p).branch = IF st.rw[p] # 0 THEN 0 ELSE 1

(* OpenFilesFollow: as long as no call fails, an open file is the file its   *)
(* path shows: copying a file to the writable branch moves the files open on *)
(* it, and no rename or link loses them (Promote).                           *)
OpenFilesFollow ==
  ~st.faulted => \A f \in Fids :
    LET o == st.files[f] IN
    o # Nil /\ o.path # Nil =>
      /\ o.layer = 0 => st.rw[o.path] = o.obj
      /\ o.layer = 1 => st.rw[o.path] = 0

(* FaultConfined: when a call on the writable branch fails in the middle of  *)
(* an operation, or the process dies there, no path but the operands (and    *)
(* what is below them) changes (Promote, Rename, putDeletion).               *)
FaultConfined ==
  [][ last = Nil /\ last' # Nil /\ last'.hit /\ Sound(st)
      => \A x \in Paths : ~Under(x, last'.p) /\ ~Under(x, last'.q) =>
           Node(st', x) = Node(st, x)
           \/ \E y \in {last'.p, last'.q} : Same(View(st), x, y) ]_vars
====
