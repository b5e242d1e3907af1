# A TLA+ model of go-fuse

go-fuse serves a FUSE file system from a Go process. The kernel sends requests
over `/dev/fuse`; `fuse.Server` reads them, runs each in a goroutine and
dispatches it to a `RawFileSystem`. Two packages implement `RawFileSystem` on
top of a tree of nodes: the new `nodefs` (`rawBridge`, `Inode`) and the old
`fuse/nodefs` (`FileSystemConnector`), with `fuse/pathfs`, `unionfs` and
`zipfs` on top of the latter.

This directory holds TLA+ modules that model those parts, TLC configurations
that check them on small instances, and TLAPS proofs. `PROJECT.json` maps every
definition to the source lines it stands for.

## Parts and modules

| part of the code | state | module | what is hard |
|---|---|---|---|
| `fuse/server.go`: Serve, loop, Unmount | readers, loops | `ReaderPool` | readers that start others and leave |
| `fuse/server.go`, `opcode.go`: requests in flight | request structs, their pool, the table | `Inflight` (`Server` puts the two together) | an INTERRUPT for a struct that is used again |
| `fuse/server.go`, `request.go`, `opcode.go`, `bufferpool.go`, `server_linux.go`, `splice_linux.go`, `splice/` | a request from read to return, buffers, pipe pairs | `Requests` | lengths, ownership of buffers, splicing that fails half-way |
| `fuse/server.go`: notifications | table of retrieves, write lock, end of Serve | `Notify` | an answer against an unmount and a failed write |
| `nodefs/inode.go`, `bridge.go` (tree) | counts, children, parents, change counters, inode numbers | `InodeTree` | relock-and-check loops, FORGET against LOOKUP |
| the mutexes below it | one mutex per node, the bridge's | `NodeLocks` | lock order |
| `nodefs/bridge.go` (files) | file table, free list, wait groups, streams | `FileTable`, with its state and properties in `OpenFiles` | RELEASE against a running GETATTR |
| `nodefs/bridge.go` (READDIR, READDIRPLUS) | stream position, overflow entry | `DirReader` | replies that fill up at any entry |
| `nodefs/loopback.go` | a directory of the operating system, paths from the tree | `LoopbackFs` | a path computed, used and stored in separate steps |
| `fuse/nodefs/handle.go` | slots, free list, generation | `HandleMap`, `AbstractHandles` | reuse of ids |
| `fuse/nodefs/fsconnector.go`, `inode.go`, `fsmount.go`, `fsops.go`; `fuse/pathfs/pathfs.go` | tree, counts, open files, one sub-mount, client inodes | `PathNodeFs` | hard links, FORGET, mounts |
| `fuse/nodefs/dir.go` | a listing kept while the directory is open | `ConnectorDir` | offsets |
| `unionfs/unionfs.go`, `dircache.go`, `timedcache.go` | writable branch, markers, two caches, open files | `UnionFs` | promotion, caches, a fault in the middle |
| `unionfs/cachingfs.go`, `timedcache.go` | four caches of a branch | `CachingFs` | a fetch that overlaps a drop |
| `unionfs/autounion.go` | tables of unions | `AutoUnion` | a lock given up during the unmount |
| `zipfs/multizip.go` | tables of archives | `MultiZip` (`Branches` puts it, `AutoUnion` and `CachingFs` together) | the same |

How the modules correspond to the code:

* A step is one critical section, one system call, or one call of the file
  system; what a goroutine carries from one to the next is a record (`th`,
  `proc`, `wk`, `caller`, `req`).
* `InodeTree`: `removeRef`, `RmChild`, `MvChild` and `ExchangeChild` read under
  one lock, lock again and start over if the change counter moved. The answers
  of the file system (`Fs...`) and the VFS locks of the kernel (`Excl`, `Look`,
  `Pinned`) are external. It takes a group of mutexes in one step; `NodeLocks`
  shows that taking them one by one cannot deadlock, but when RmChild starts over.
* `Requests`: data is the number of the request it belongs to, with a length.
  The opcode tables are sets; every handler is an operator.
* `PathNodeFs` and `UnionFs`: a handler is an operator on a record of the whole
  state, since it runs alone; what may come in between (the reply of a LOOKUP,
  the wait of an unmount, the background refresh of the deletion directory, the
  expiry of an entry) is an action of its own. In `UnionFs` each call on the
  writable branch may be the one that fails or at which the process dies.
* `LoopbackFs`: the walk up the tree of `Inode.Path`, the system calls and the
  change of the tree are steps of their own, as other requests run in between.
* `AbstractHandles` says what users of the handle map are promised: an object has a
  handle while its count is positive, a handle given out is never one in use,
  and the pair of handle and generation is new each time. `HandleMap`
  implements it; the refinement mapping is its last section.

Each `MC...` module gives one run its constants and puts independent components
side by side: a behaviour is of one of them (`part`), the others stay in their
initial state. Operators that stand directly before a definition and carry a
variant of its name (`GotNoSpawn` before `Got`) are plausible mistakes in that
piece of code; no specification uses them. Each property of a passing run fails
when one of them takes the place of the definition.

How the parts interact: `ReaderPool`, `Inflight` and `Requests` are three views of
`readRequest` and what follows it, and run below everything else; `InodeTree`
and `FileTable` are the bridge's two tables, which share a mutex and no data
but the node a handle belongs to; `DirReader` details what `FileTable`
calls `ReadDir`; `LoopbackFs` is a user of the tree of `InodeTree`, with FORGET
left to the latter; `HandleMap` is the table below `PathNodeFs`, where a node
is its own number; `UnionFs` is called through `PathNodeFs` (`Renamed` and
`Removed` are what that does to open files) and is made by `AutoUnion`.

## Runs

| run | modules | bounds | shows |
|---|---|---|---|
| `handles` | HandleMap, FileTable, DirReader, ConnectorDir | 3 objects, 2 counts each, 5 registrations; 2 handlers, 3 opens on 2 nodes, 2 streams; directories of up to 4 entries of 2 sizes, 2 buffer sizes | the abstract table is implemented; a handle stays with its file, no file is used after its release, RELEASE ends; a directory is listed in order, and completely but for a last entry that a READDIRPLUS reply had no room for |
| `tree` | InodeTree | 2 handlers, 4 or 5 requests, 4 inode numbers, 3 workloads | where entry requests and forgets are kept apart: kernel counts and nodes agree, nothing leaks, no live node or entry is lost; always: children are in their parents' records, change counters cover the state, removeRef drops no node that is used |
| `progress` | NodeLocks, InodeTree | 3 goroutines, 2 nodes and the bridge; 2 handlers, 4 requests | waits ascend and every section ends, unless RmChild starts over and locks its directory twice, the only way to get stuck; the loops of removeRef and MvChild end |
| `server` | ReaderPool, Inflight | 4 loops, 3 requests, limit 2, both reading modes; 3 structs, 2 requests with interrupts | a reader is always left, the device is closed after the last loop, an unmount ends; only the interrupted request is cancelled, and it is |
| `requests` | Requests | every opcode alone under 5 kernel versions; READ, WRITE, READDIR, GETXATTR, INTERRUPT on two workers | replies have the form and the length they announce and only their own data, are sent once, and pools stay exact |
| `notify` | Notify | 2 callers, 2 calls, a file of 2 units read one by one | a retrieve ends once and has a prefix of the file; every call returns |
| `path_fs` | PathNodeFs, LoopbackFs | 5 requests on 4 nodes, 4 files, 2 trees with hard links under 3 sets of options, a tree with one directory under one; 2 requests at a time on 2 disks | paths lead back to their nodes, the map of client inodes confuses no two files, known nodes are reachable, a mount keeps its name unless a directory is renamed onto it; a system call acts on the file of its node |
| `union_fs` | UnionFs, CachingFs, AutoUnion, MultiZip | 3 read-only trees, 2 operations on the full one and 3 on the others (`MaxOps`), 2 cache events, one fault out of 4 (the 1st or 2nd call on the writable branch fails, or the process dies at the 1st or 3rd), at most 4 operations and events together (`MaxSteps`); 2 requests at a time, 3 unions, 3 archives, 2 changes of a cached branch | a union is one plain file system, its caches are transparent, open files follow promotion, a fault is confined; config/ tells what is mounted, and unions have different writable directories unless one is being removed or an unmount fails; DropCache drops |
| `lookup_forget_race` | InodeTree | 2 handlers, 5 requests | violated: two live nodes for one inode number |
| `stale_parent_entry` | InodeTree | 1 handler, 4 requests | violated: forgetting an unlinked file deletes the entry of a newer one |
| `xattr_size_probe` | Requests | as `requests` | violated: a size probe that the loopback node answers slices a nil buffer |
| `reinstated_twin` | AutoUnion | as `union_fs` | violated: two unions on one directory after a failed unmount |

The bounds let the interesting cases happen: three mutexes and three goroutines
for a cycle of waits; an id, handle or struct that is used again (one more user
than entries); a moved last element in a swap-removal; four loops so that one
finds more than `_MAX_READERS` readers; an overflow in the middle and at the end
of a directory; a pipe that must grow and one that cannot; a hard link inside
and outside of a directory that is renamed; a file that is copied to the
writable branch, removed, marked and made again (three operations), with an
expiry and an old listing in between.

Symmetry is used for invariants and action properties only: over the handlers
of `InodeTree` in `tree`, those of `LoopbackFs` in `path_fs` and the callers of
`AutoUnion`, `CachingFs` and `MultiZip` in `union_fs`. In `server` one idle struct of
the request pool stands for any other (`FirstOfPool`): what it holds is overwritten
before it is read. In every run a bounded
number of calls runs out, so the configurations do not check deadlock; what must
not stop is stated as a liveness property (`SectionEnds`, `Returns`, `UnmountEnds`,
`CallsReturn`, `ReleaseEnds`).

## Fairness

Weak fairness of the steps of a goroutine says that it is scheduled. Strong
fairness of taking a mutex in `NodeLocks` is the starvation mode of Go's
mutexes. `FileTable` and `InodeTree` assume that calls of the file system
return. `ReaderPool` and `Inflight` do not: requests are read and interrupts
arrive however long it takes, and `UnmountEnds` has as its hypothesis that the
calls return. `Notify` assumes that the kernel answers a retrieve it accepted
while the file system is mounted, and that handlers of other operations end.
The kernel is never assumed to send a request.

## Proofs

TLAPS proves the following for every value of the constants; each theorem
follows from an inductive invariant `IInv`.

* `HandleMapProofs`: types, the invariants of the table, and that `HandleMap`
  implements `AbstractHandles`. `IInv` adds that each used slot and its object
  name each other and that the free list has no duplicates and holds exactly
  the empty slots.
* `NodeLocksProofs`: every chain of waits ascends in the lock order, so that it
  ends, unless it ends at an RmChild that starts over and waits for itself.
  `IInv` says that what a goroutine holds is below what it still wants (but for
  that RmChild) and that the bridge's mutex is last. Assumes, as the code does,
  that only the root's OnAdd calls NewInode.
* `FileTableProofs`: a handle names its own file, the open files of a node are
  listed exactly and no stream is left open; no call reaches a file after its
  release. `IInv` says that an entry of the table has one handle, or one
  handler that releases it, or is in the free list once, and that a wait group
  counts the handlers that borrow the file; so a RELEASE waits for all of them.
* `ServerProofs`, of the readers (`ReaderPool`): a mounted file system has a loop
  that reads or is about to, there is at most one reader above the limit, and the
  device is closed after the last loop. A loop may exit only because `reqReaders`
  is the number of other readers, so `IInv` adds that both counters are exact.
  Of the requests in flight (`Inflight`): `reqInflight` is exact, and a request is
  cancelled only by its own INTERRUPT. Structs are reused, so the invariant
  follows each INTERRUPT from its read to its answer: the kernel waits for it,
  there is one per request, and one whose request is cancelled has done it.
  Assumes that `Nil` is no request.
* `NotifyProofs`: a retrieve is ended once, and what a caller has retrieved is a
  prefix of the file. `IInv` says that an entry of the table is the retrieve its
  caller is making, that those Serve is waking are no longer in the table, and
  that a question or an answer of the kernel is for the piece its caller waits for.
* `BranchesProofs`, of `AutoUnion`: `config/` tells what is mounted; and, as long as
  no unmount fails, two mounted unions have different writable directories unless
  rmFs is removing one of them. rmFs unmounts without the lock; `IInv` says that a
  name in `zombies` belongs to one request at most, which keeps what it needs to
  put the name back. `ZombiesOwned` adds that it belongs to one at least, so that
  a union that `nameRootMap` does not list is one that is being removed. Assumes
  that `AutoName` gives a name and that `None` is no directory. Of `MultiZip`: its
  tables agree with the archives that are mounted. Of `CachingFs`: an answer is not
  older than the last DropCache that had returned before the request, unless it
  was on its way into a cache during a drop. A drop empties the caches one at a
  time, so the invariant says what is already true of those it has done, and of
  what is on its way into them.

Only model-checked: `UnionFs` and `PathNodeFs` (they have recursive operators,
with which the prover loses arithmetic and functions); `Requests`, `DirReader`
and `ConnectorDir` (what they compute is checked over all inputs within the
bounds; for all inputs it takes an induction over sequences, beyond the prover);
`InodeTree` and `LoopbackFs` (no inductive invariant has been worked out, since
what holds of them has the exceptions listed below); and all liveness (the prover
has no fairness and no ENABLED).

## Known deviations

Four runs end in a violation and have an entry under `findings`. While the
modules were written TLC also showed the following. The first table names
properties that are defined in the modules and hold in no run; each is seen to
fail when it is added to the configuration, with the given constants, by way
of an alias in the `MC` module where the component is instantiated. A workload
of `InodeTree` is a set of operations; `Ordered` in it keeps entry requests and
forgets apart, which most of its properties presuppose because of what
`lookup_forget_race` and `stale_parent_entry` show.

| property | where | what the code does |
|---|---|---|
| `InodeTree!ExchangeSwaps` | Tree.cfg, operations Lookup and Exchange | ExchangeChild stores one child under both names (inode.go:620) |
| `InodeTree!NoSelfWait` | Tree.cfg, Lookup, Unlink, Forget | the retry of RmChild locks a mutex it holds (inode.go:485); `NodeLocks` has it as `RmChildRetry`, which `WaitsAscend` and `SectionEnds` except |
| `InodeTree!LiveNodesKept` | Tree.cfg | a second removeRef of a dropped node deletes the live Inode that has its number since (inode.go:357) |
| `InodeTree!ParentHasEntry` | Tree.cfg, Lookup, Unlink, Ordered | a removed inode still reports its parent (inode.go:491) |
| `~crash` in `InodeTree` | Tree.cfg, Lookup, Unlink, Forget, one thread, 7 calls | following a stale parent, removeRef takes the new Inode of a directory out of the table; the next request panics (bridge.go:208) |
| `InodeTree!NothingLeaks` | Tree.cfg, Memory, NewPersistentInode, ForgetPersistent, MvChild, Ordered | a directory emptied by MvChild is not removed (inode.go:538) |
| `NodeLocks!WaitsAscend` | Progress.cfg, NestedOnAdd = TRUE | OnAdd runs under the mutex that NewInode takes (bridge.go:115) |
| `OpenFiles!StreamClosedOnce` | Handles.cfg | ReleaseDir leaves the closed stream in the entry; the next directory with that handle closes it again (bridge.go:577) |
| `DirReader!CompleteAtEndPlus` | Handles.cfg | READDIRPLUS looks at the overflow only while HasNext, and loses an overflow that is the last entry (bridge.go:692) |
| `ReaderPool!RepliesBeforeClose` | Server.cfg | with a single reader, goroutines that handle requests are not waited for, and write their replies to a closed device (server.go:434) |
| `ReaderPool!MainLoopStays` | Server.cfg | readRequest ignores exitIdle, so Serve's loop may exit early; harmless, since Serve waits for the others (server.go:259) |
| `Notify!KernelKnowsMessage` | Notify.cfg | SupportsVersion holds for every minor of major 7 (server.go:810-813), so a notification is written that an old kernel does not know |
| `Notify!CallsReturn` | Notify.cfg, HoldsLocks = TRUE | a caller that holds a lock handlers take waits for ever, as server.go:736-737 and 774-776 warn |
| `PathNodeFs!NoLostMount` | PathNodeFs.cfg | a directory renamed onto a mount point removes the mount; the later Unmount panics; `MountNamed` excepts it (fsconnector.go:296) |

The others are in the models as the code has them, and the properties except the
states they lead to or do not speak of them:

* `LoopbackFs`: RmChild leaves `parents`, so `Inode.Path` (inode.go:221-259) of
  a node that has lost a name may use that name, and a node without parents
  gets the path of the root; Symlink and Link look at the wrong error after
  Lstat and go on with an empty `Stat_t` (loopback.go:191, 211); Mknod cleans up
  with Rmdir (loopback.go:81); a request that overlaps a rename may act on
  another file.
* `AutoUnion`: while rmFs unmounts a union without the lock, another request may make
  a union of the same directory under another name.
* `CachingFs`: a fetch that overlaps DropCache stores the old value, for ever
  with a ttl of zero.
* `ConnectorDir`: entries with empty names are not counted in the offset, so
  that others may come twice.
* `PathNodeFs`: Unmount leaves the parents of the root it removes
  (LateForget = TRUE shows the effect); addChild over an existing child leaves
  the parent of the replaced one; Link and Rename do not count the name they
  add, while Mknod, Mkdir and Link count the node before a GetAttr whose failure
  they return; Link may set clientInode without an entry in the map; a second
  Unmount at the same time panics; an inode number used again after a removal behind
  the mount's back may be taken for the old file, and is then counted once more than
  it has names.
* `UnionFs`: a marker that is created and cannot be written panics; the listing at the end of Mkdir overwrites a failure; a directory
  renamed onto a non-empty read-only one merges with it; Promote ignores the
  result of promoteDirsTo, and a copy that fails stays, cut short; a marker
  that could not be removed hides a file from GetAttr and not from OpenDir;
  setMap may install a listing older than the last putDeletion (dircache.go:81).
* `Requests`: a directory read that fails part-way has an error reply with
  data; ReadResult.Done is not called for an empty result (api.go:103);
  usedCount grows with every pair that cannot be made; a failed INIT is
  ignored; a read error drops the destination buffer; BATCH_FORGET ignores
  RememberInodes.
* `Notify`: the number of the descriptor is kept after it is closed; a retrieve
  that has filled its buffer asks once more for nothing.

## Not modelled

* Input and output only, or without state: mounting, wire types, printing,
  file handles of the loopback file systems, archives, wrappers that pass calls on,
  examples and benchmarks. They are listed one by one in `PROJECT.json`.
* What the kernel does not send: a message too short for its header (`ReaderPool`) or
  its operation (`Requests`). The panic of NewInode for a reserved inode number.
* `handleInit` (the first request, read alone) is not in `ReaderPool`; the
  Darwin build is there only as the single reader.
* `PathNodeFs` computes a path in one step (the code takes treeLock once per parent),
  has one opaque sub-mount, runs handlers one at a time (but
  LOOKUP and Unmount), treats READDIRPLUS as a sequence of LOOKUPs, and leaves a
  Mkdir that overlaps a Mount out. `LookupNode` and `Mount` do not take
  `lookupLock`, as in the code.
* `UnionFs` has one read-only branch, one operation at a time, attributes as
  one value per file, Chown as root, and no failing reads. Special names but
  `.drop_cache`, StatFs and TimedCache.Purge are left out.
* `LoopbackFs` leaves out FORGET, CopyFileRange and calls on an open descriptor.
* The composed runs put components side by side; no single model has the
  server, the bridge and a file system interleaved, which is beyond TLC.
