------------------------------ MODULE Requests ------------------------------
(***************************************************************************)
(* The life of a request in fuse.Server, from the read of the device to    *)
(* the reply: readRequest, request.parse, the table of operations and its  *)
(* handlers (opcode.go), write, systemWrite with its splice path           *)
(* (server_linux.go, splice_linux.go), returnRequest, and the three pools  *)
(* behind them: read buffers, output buffers by page count                 *)
(* (bufferpool.go) and pipe pairs (splice/).                               *)
(*                                                                         *)
(* Several workers (goroutines of Server.loop) serve requests at the same  *)
(* time. What a buffer or a pipe holds is abstracted to the number of the  *)
(* request whose data it is, with a length; lengths are counted in units   *)
(* of which a page has PageSize and a header one.                          *)
(***************************************************************************)
EXTENDS Naturals, Sequences, FiniteSets, SequencesExt

CONSTANTS
    Workers,      \* goroutines that serve requests
    Loads,        \* workloads: [ops, minors (versions of the kernel), two (both workers
                  \* run), single (SingleThreaded), copy (CopyFds runs too), max]
    Sizes,        \* sizes the kernel asks for in READ, READDIR and GETXATTR
    InBufs, OutBufs, Pairs,   \* identities of buffers and of pipe pairs
    PageSize,     \* units in a page
    DefaultPipe, MaxPipe,     \* size of a new pipe, fs.pipe-max-size
    MaxFail,      \* how often a pipe cannot be made
    LoopbackXAttr \* the file system answers an empty buffer as loopbackNode does

None == "none"

VARIABLES
    load,      \* the workload of this run
    count,     \* requests the kernel has sent
    minor,     \* kernelSettings.Minor, 0 before INIT
    wk,        \* worker -> the request it serves and where it is
    readPool,  \* free read buffers
    inData,    \* read buffer -> request whose bytes it holds
    outPool,   \* free output buffers
    pages,     \* output buffer -> its pages, 0 before it is made
    outData,   \* output buffer -> request whose bytes it holds
    unused,    \* pairPool.unused
    usedCount, \* pairPool.usedCount
    pipe,      \* pair -> what its pipe holds, unit by unit: [h (header), id]
    psize,     \* pair -> Pair.size, 0 before it is made
    failedNew, \* how often newSplicePair has failed
    copier,    \* the pair a running CopyFds uses
    left       \* interrupted requests whose handler left a goroutine behind

pools == <<readPool, inData, outPool, pages, outData>>
splices == <<unused, usedCount, pipe, psize, failedNew, copier>>
vars == <<load, count, minor, wk, pools, splices, left>>

Min2(a, b) == IF a < b THEN a ELSE b
-----------------------------------------------------------------------------
(* The table of operations, opcode.go init().                              *)

InputSize == {"FORGET", "BATCH_FORGET", "GETATTR", "SETATTR", "MKNOD", "MKDIR",
    "RENAME", "LINK", "OPEN", "READ", "WRITE", "RELEASE", "FSYNC", "SETXATTR",
    "GETXATTR", "LISTXATTR", "FLUSH", "INIT", "OPENDIR", "READDIR", "RELEASEDIR",
    "FSYNCDIR", "GETLK", "SETLK", "SETLKW", "ACCESS", "CREATE", "INTERRUPT",
    "BMAP", "IOCTL", "POLL", "NOTIFY_REPLY", "FALLOCATE", "READDIRPLUS",
    "RENAME2", "LSEEK", "COPY_FILE_RANGE"}

\* Operations with a structured answer; sizes are told apart for INIT only.
OutputSizes == {"LOOKUP", "GETATTR", "SETATTR", "SYMLINK", "MKNOD", "MKDIR", "LINK",
    "OPEN", "WRITE", "STATFS", "GETXATTR", "LISTXATTR", "INIT", "OPENDIR", "GETLK",
    "CREATE", "BMAP", "IOCTL", "POLL", "LSEEK", "COPY_FILE_RANGE"}

Func == {"OPEN", "READDIR", "WRITE", "OPENDIR", "CREATE", "SETATTR", "GETXATTR",
    "LISTXATTR", "GETATTR", "FORGET", "BATCH_FORGET", "READLINK", "INIT", "LOOKUP",
    "MKNOD", "MKDIR", "UNLINK", "RMDIR", "LINK", "READ", "FLUSH", "RELEASE", "FSYNC",
    "RELEASEDIR", "FSYNCDIR", "SETXATTR", "REMOVEXATTR", "GETLK", "SETLK", "SETLKW",
    "ACCESS", "SYMLINK", "RENAME", "STATFS", "IOCTL", "DESTROY", "NOTIFY_REPLY",
    "FALLOCATE", "READDIRPLUS", "RENAME2", "INTERRUPT", "COPY_FILE_RANGE", "LSEEK"}

FileNames(op) ==
    CASE op \in {"RENAME", "RENAME2", "SYMLINK"} -> 2
      [] op \in {"CREATE", "SETXATTR", "GETXATTR", "LINK", "LOOKUP", "MKDIR", "MKNOD",
                 "REMOVEXATTR", "RMDIR", "UNLINK"} -> 1
      [] OTHER -> 0
-----------------------------------------------------------------------------
(* Requests.                                                               *)

Idle == [pc |-> "idle", id |-> 0, op |-> None, size |-> 0, node |-> None,
         status |-> "OK", old |-> FALSE, inb |-> None, outb |-> None, flat |-> 0,
         fd |-> 0, interrupted |-> FALSE, panic |-> FALSE,
         p1 |-> None, p2 |-> None, n |-> 0, sent |-> FALSE, reply |-> <<>>]

\* Where a request carries its size: in the input of these operations.
Sized == {"READ", "READDIR", "READDIRPLUS", "GETXATTR", "LISTXATTR"}

\* The node of a request, as far as handleRequest tells them apart: the inode of
\* the poll hack, the root with the name of the poll hack as argument, others.
Nodes(op) == {"plain"}
    \cup (IF op \in {"POLL", "RELEASE", "FORGET", "GETATTR"} THEN {"hack"} ELSE {})
    \cup (IF op \in {"CREATE", "LOOKUP", "UNLINK"} THEN {"hackName"} ELSE {})

\* readRequest: a read buffer is taken from its pool (a new one when it is
\* empty). setInput copies an input of less than 128 bytes, and the buffer goes
\* back; a larger one (that of a WRITE or a SETXATTR) keeps it.
ReadRequestAlwaysPut(w, op, size, node, b, big) ==
    /\ wk' = [wk EXCEPT ![w] = [Idle EXCEPT !.pc = "handle", !.id = count + 1, !.op = op,
                 !.size = size, !.node = node, !.inb = IF big THEN b ELSE None]]
    /\ readPool' = readPool \cup {b}
    /\ inData' = [inData EXCEPT ![b] = count + 1]

ReadRequest(w, op, size, node, b, big) ==
    /\ wk' = [wk EXCEPT ![w] = [Idle EXCEPT !.pc = "handle", !.id = count + 1, !.op = op,
                 !.size = size, !.node = node, !.inb = IF big THEN b ELSE None]]
    /\ readPool' = IF big THEN readPool \ {b} ELSE readPool \cup {b}
    /\ inData' = [inData EXCEPT ![b] = count + 1]

\* The buffers a pool can hand out: its own, a new one when it has none.
GetBuf(pool, all, made) == IF pool # {} THEN pool ELSE {CHOOSE b \in all : ~made[b]}

\* The kernel sends INIT first, and nothing more when INIT has failed.
Receive(w) ==
    /\ wk[w].pc = "idle" /\ count < load.max
    /\ load.two \/ \A v \in Workers : wk[v].pc = "idle"
    /\ minor = 0 => count = 0
    /\ \E op \in IF count = 0 THEN {"INIT"} ELSE load.ops :
       \E size \in IF op \in Sized THEN Sizes ELSE {0}, node \in Nodes(op) :
       \E b \in GetBuf(readPool, InBufs, [x \in InBufs |-> inData[x] # 0]) :
          ReadRequest(w, op, size, node, b, op \in {"WRITE", "SETXATTR"})
    /\ count' = count + 1
    /\ UNCHANGED <<load, minor, outPool, pages, outData, splices, left>>
-----------------------------------------------------------------------------
(* Output buffers.                                                         *)

\* AllocBuffer: the number of pages of a buffer for size units.
PagesFor(size) ==
    LET sz == IF size < PageSize THEN PageSize ELSE size
    IN (IF sz % PageSize # 0 THEN sz + PageSize ELSE sz) \div PageSize

AllocBuffer(size) ==
    LET fit == {b \in outPool : pages[b] = PagesFor(size)}
    IN GetBuf(fit, OutBufs, [b \in OutBufs |-> pages[b] # 0])

FreeBuffer(b) == outPool \cup {b}

Cap(b) == IF b = None THEN 0 ELSE pages[b] * PageSize

\* allocOut: the buffer of the request when it is large enough (also no buffer
\* at all for no bytes), else a new one in place of it. The outcomes as records.
AllocOut(r, size) ==
    IF Cap(r.outb) >= size
    THEN {[outb |-> r.outb, pool |-> outPool, pages |-> pages]}
    ELSE {[outb |-> b, pages |-> [pages EXCEPT ![b] = PagesFor(size)],
           pool |-> (IF r.outb # None THEN FreeBuffer(r.outb) ELSE outPool) \ {b}]
             : b \in AllocBuffer(size)}

-----------------------------------------------------------------------------
(* Handlers: the outcomes of one, each with the buffers after it. The file *)
(* system behind them is external: any outcome its interface allows.       *)

Same(r) == [r |-> r, pool |-> outPool, pages |-> pages, outData |-> outData]

\* The operation is passed to the file system, which answers in the structured
\* output or with a status.
Passed(r) == {Same([r EXCEPT !.status = s]) : s \in {"OK", "ERR"}}

\* What the handlers read: the structured input, and how many names.
InDataUsed == {"INIT", "OPEN", "CREATE", "READDIR", "READDIRPLUS", "OPENDIR", "SETATTR",
    "WRITE", "NOTIFY_REPLY", "GETXATTR", "LISTXATTR", "GETATTR", "FORGET", "BATCH_FORGET",
    "MKNOD", "MKDIR", "LINK", "READ", "FLUSH", "RELEASE", "FSYNC", "RELEASEDIR", "FSYNCDIR",
    "SETXATTR", "ACCESS", "RENAME", "RENAME2", "FALLOCATE", "GETLK", "SETLK", "SETLKW",
    "LSEEK", "COPY_FILE_RANGE", "INTERRUPT"}

NamesUsed(op) ==
    CASE op \in {"SYMLINK", "RENAME", "RENAME2"} -> 2
      [] op \in {"CREATE", "GETXATTR", "LOOKUP", "MKNOD", "MKDIR", "UNLINK", "RMDIR",
                 "LINK", "REMOVEXATTR"} -> 1
      [] OTHER -> 0

\* doOpen to doCreate, doOpenDir to doWrite.
DoOpen(r) == Passed(r)
DoOpenDir(r) == Passed(r)

\* doLookup, doMknod, doMkdir, doUnlink, doRmdir, doLink.
DoName(r) == Passed(r)

\* doFlush to doRename2; the two releases have no status.
DoFile(r) == IF r.op \in {"RELEASE", "RELEASEDIR"} THEN {Same(r)} ELSE Passed(r)

\* doStatFs to doCopyFileRange; doIoctl is not implemented, doDestroy is nothing.
DoOther(r) ==
    CASE r.op = "IOCTL" -> {Same([r EXCEPT !.status = "ERR"])}
      [] r.op = "DESTROY" -> {Same(r)}
      [] OTHER -> Passed(r)

\* doInit: the answer to a kernel of before version 23 is shorter.
DoInit(r, m) ==
    IF m < 12 THEN Same([r EXCEPT !.status = "ERR"])
    ELSE Same([r EXCEPT !.status = "OK", !.old = Min2(23, m) <= 22])

\* A file system that fills the output buffer with n units of its answer.
Filled(r, a, n, s) ==
    [r |-> [r EXCEPT !.outb = a.outb, !.flat = n, !.status = s], pool |-> a.pool,
     pages |-> a.pages, outData |-> IF n > 0 THEN [outData EXCEPT ![a.outb] = r.id] ELSE outData]

\* doReadDir, doReadDirPlus: also a directory that fails part of the way has
\* its entries in the answer.
DoReadDir(r) == {Filled(r, a, n, s) : a \in AllocOut(r, r.size), n \in 0..r.size, s \in {"OK", "ERR"}}

\* doReadlink: the file system's own bytes.
DoReadlink(r) == {Same([r EXCEPT !.status = "ERR"]), Same([r EXCEPT !.flat = 1])}

\* doRead: an error, bytes in the buffer, or a descriptor to take them from.
DoRead(r) ==
    UNION {{Filled(r, a, 0, "ERR"), Filled([r EXCEPT !.fd = r.size], a, 0, "OK")}
              \cup {Filled(r, a, n, "OK") : n \in 0..r.size} : a \in AllocOut(r, r.size)}

\* GetXAttr or ListXAttr of the file system for a value of n units and a buffer
\* of size: its result, ERANGE when the value does not fit. loopbackNode asks the
\* operating system, for which an empty buffer means to return the size.
XAttr(size, n) ==
    IF n <= size \/ (LoopbackXAttr /\ size = 0) THEN "OK" ELSE "ERANGE"

\* doGetXAttr. Slicing the buffer past its capacity panics.
DoGetXAttr(r) ==
    {Same([r EXCEPT !.status = "ERR"])} \cup
    UNION {LET s == XAttr(r.size, n)
           IN {IF r.size = 0 /\ s = "ERANGE" THEN Filled(r, a, 0, "OK")
               ELSE IF s # "OK" THEN Filled(r, a, 0, "ERR")
               ELSE IF n > (IF a.outb = None THEN 0 ELSE a.pages[a.outb] * PageSize)
               THEN Same([r EXCEPT !.panic = TRUE])
               ELSE Filled(r, a, n, "OK") : a \in AllocOut(r, r.size)} : n \in Sizes \cup {0}}

\* doForget, doBatchForget: passed on, nothing is answered.
DoForget(r) == {Same(r)}

\* parse: the structured input is set for an operation that has one, and the
\* names are split off what follows it. A message too short for its operation, which
\* the kernel does not send, would be answered with EIO; it is left out.
Parse(op) == [inData |-> op \in InputSize, filenames |-> FileNames(op)]

\* The handler of the table, with the check that what it reads has been parsed.
CallFunc(r, m) ==
    IF (r.op \in InDataUsed /\ ~Parse(r.op).inData) \/ NamesUsed(r.op) > Parse(r.op).filenames
    THEN {Same([r EXCEPT !.panic = TRUE])}
    ELSE CASE r.op = "INIT" -> {DoInit(r, m)}
           [] r.op \in {"OPEN", "CREATE"} -> DoOpen(r)
           [] r.op \in {"OPENDIR", "SETATTR", "WRITE", "GETATTR"} -> DoOpenDir(r)
           [] r.op \in {"LOOKUP", "MKNOD", "MKDIR", "UNLINK", "RMDIR", "LINK"} -> DoName(r)
           [] r.op \in {"READDIR", "READDIRPLUS"} -> DoReadDir(r)
           [] r.op = "READLINK" -> DoReadlink(r)
           [] r.op = "READ" -> DoRead(r)
           [] r.op \in {"GETXATTR", "LISTXATTR"} -> DoGetXAttr(r)
           [] r.op \in {"FORGET", "BATCH_FORGET", "NOTIFY_REPLY"} -> DoForget(r)
           [] r.op \in {"STATFS", "IOCTL", "DESTROY", "FALLOCATE", "GETLK", "SETLK", "SETLKW",
                        "LSEEK", "COPY_FILE_RANGE"} -> DoOther(r)
           [] OTHER -> DoFile(r)

\* doPollHackLookup.
DoPollHackLookup(r) == {Same([r EXCEPT !.status = IF r.op = "CREATE" THEN "OK" ELSE "ERR"])}

\* handleRequest up to the write.
HandleRequest(r, m) ==
    CASE r.node = "hack" -> {Same([r EXCEPT !.status = "ERR"])}
      [] r.node = "hackName" -> DoPollHackLookup(r)
      [] r.node = "plain" /\ r.op \notin Func -> {Same([r EXCEPT !.status = "ERR"])}
      [] OTHER -> CallFunc(r, m)

\* With SingleThreaded one request is handled at a time.
Busy(v) == wk[v].pc \notin {"idle", "handle"}

Handle(w) ==
    /\ wk[w].pc = "handle" /\ wk[w].op # "INTERRUPT"
    /\ load.single => \A v \in Workers : ~Busy(v)
    /\ \E m \in IF wk[w].op = "INIT" THEN load.minors ELSE {minor} :
       \E o \in HandleRequest(wk[w], m) :
          /\ wk' = [wk EXCEPT ![w] = [o.r EXCEPT !.pc = "write"]]
          /\ minor' = IF wk[w].op = "INIT" /\ o.r.status = "OK" THEN m ELSE minor
          /\ outPool' = o.pool /\ pages' = o.pages /\ outData' = o.outData
    /\ UNCHANGED <<load, count, readPool, inData, splices, left>>

\* doInterrupt: a request in flight that is not interrupted yet is, or EAGAIN.
DoInterrupt(w) ==
    /\ wk[w].pc = "handle" /\ wk[w].op = "INTERRUPT"
    /\ load.single => \A v \in Workers : ~Busy(v)
    /\ \/ \E v \in Workers \ {w} :
             /\ wk[v].pc # "idle" /\ ~wk[v].interrupted
             /\ wk[v].op \notin {"INTERRUPT", "FORGET", "BATCH_FORGET", "NOTIFY_REPLY"}
             /\ wk' = [wk EXCEPT ![v].interrupted = TRUE, ![w].pc = "write"]
       \/ wk' = [wk EXCEPT ![w].status = "ERR", ![w].pc = "write"]
    /\ UNCHANGED <<load, count, minor, pools, splices, left>>

-----------------------------------------------------------------------------
(* The reply.                                                              *)

\* serializeHeader: the length of the structured part.
DataLength(r) ==
    IF r.status # "OK" \/ r.op \notin OutputSizes
       \/ (r.op \in {"GETXATTR", "LISTXATTR"} /\ r.size # 0)
    THEN 0 ELSE IF r.op = "INIT" /\ ~r.old THEN 2 ELSE 1

Units(n, h, id) == [i \in 1..n |-> [h |-> h, id |-> id]]

\* A header that announces n units of data, and its bytes.
SerializeHeader(r, n) == [status |-> r.status, struct |-> DataLength(r), len |-> 1 + DataLength(r) + n]
HeaderUnits(r) == Units(1 + DataLength(r), TRUE, r.id)

FlatDataSize(r) == IF r.fd > 0 THEN r.fd ELSE r.flat

\* The device takes a message whole, or the write fails (the request is gone).
Sent(r, header, body) ==
    {[r EXCEPT !.pc = "return"],
     [r EXCEPT !.pc = "return", !.reply = Append(@, [head |-> header, body |-> body])]}

\* The bytes of flatData: of the output buffer, else the file system's own.
FlatData(r, n, data) == Units(n, FALSE, IF r.outb # None THEN data[r.outb] ELSE r.id)

NoReply(r) ==
    \/ r.op \in {"FORGET", "BATCH_FORGET", "NOTIFY_REPLY"}
    \/ r.op = "INTERRUPT" /\ r.status = "OK"

CanSplice == minor >= 13

\* write and systemWrite up to trySplice.
Write(w) ==
    LET r == wk[w]
    IN /\ r.pc = "write"
       /\ \E q \in
            IF NoReply(r) THEN {[r EXCEPT !.pc = "return"]}
            ELSE IF FlatDataSize(r) > 0 /\ r.fd > 0
            THEN {[r EXCEPT !.pc = IF CanSplice THEN "splice" ELSE "fallback"]}
            ELSE Sent(r, SerializeHeader(r, r.flat), HeaderUnits(r) \o FlatData(r, r.flat, outData)) :
          wk' = [wk EXCEPT ![w] = q]
       /\ UNCHANGED <<load, count, minor, pools, splices, left>>

\* newSplicePair: a pair with the size of a new pipe, or none.
NewSplicePair ==
    LET q == CHOOSE q \in Pairs : psize[q] = 0
    IN {[p |-> q, unused |-> unused, psize |-> [psize EXCEPT ![q] = DefaultPipe], failed |-> 0]} \cup
       {f \in {[p |-> None, unused |-> unused, psize |-> psize, failed |-> 1]} : failedNew < MaxFail}

\* pairPool.get: the last pair of the pool, or a new one; what cannot be made is
\* counted as used.
Get == IF unused # <<>>
       THEN {[p |-> Last(unused), unused |-> Front(unused), psize |-> psize, failed |-> 0]}
       ELSE NewSplicePair

\* Grow: the sizes a pair can have afterwards, 0 for a failure.
Grow(size, n) == IF n <= size THEN {size} ELSE IF n > MaxPipe THEN {0} ELSE {0, n}

\* discard: the pipe is emptied into /dev/null, as far as its size goes.
DiscardNot(p) == pipe[p]

Discard(p) == SubSeq(pipe[p], psize[p] + 1, Len(pipe[p]))

\* done: what the pipe still holds is thrown away, and the pair goes back.
Done(p) ==
    /\ pipe' = [pipe EXCEPT ![p] = Discard(p)]
    /\ usedCount' = usedCount - 1
    /\ unused' = Append(unused, p)

\* trySplice, first half: get a pair, grow it, load it from the file. The end of
\* the file may come before all that was asked for.
TrySplice(w) ==
    LET r == wk[w]
    IN /\ r.pc = "splice"
       /\ \E g \in Get :
          /\ usedCount' = usedCount + 1 /\ unused' = g.unused
          /\ failedNew' = failedNew + g.failed
          /\ \/ /\ g.p = None
                /\ wk' = [wk EXCEPT ![w].pc = "fallback"]
                /\ UNCHANGED <<pipe, psize>>
             \/ /\ g.p # None
                /\ \E sz \in Grow(g.psize[g.p], r.fd + PageSize) :
                   /\ psize' = [g.psize EXCEPT ![g.p] = IF sz = 0 THEN @ ELSE sz]
                   /\ \/ /\ wk' = [wk EXCEPT ![w].pc = "done1", ![w].p1 = g.p]
                         /\ pipe' = pipe
                      \/ /\ sz # 0
                         /\ \E n \in 0..r.fd :
                            /\ wk' = [wk EXCEPT ![w].pc = "splice2", ![w].p1 = g.p, ![w].n = n]
                            /\ pipe' = [pipe EXCEPT ![g.p] = @ \o Units(n, FALSE, r.id)]
       /\ UNCHANGED <<load, count, minor, pools, copier, left>>

\* The header of trySplice's reply, for what has been read.
SpliceHeader(r) == SerializeHeader(r, r.n)

\* The three transfers of the second half into and out of pair q, of which each
\* may fail and the second be short: the pipes of the two pairs, and whether all
\* was given to the device.
Transfers(r, q, from, into) ==
    LET h == into \o HeaderUnits(r)
        total == Len(HeaderUnits(r)) + r.n
        moved(k) == <<SubSeq(from, k + 1, Len(from)), h \o SubSeq(from, 1, k)>>
    IN {<<from, into, <<>>>>}
       \cup {<<moved(k)[1], moved(k)[2], <<>>>> : k \in 0..r.n}
       \cup {<<moved(r.n)[1], SubSeq(moved(r.n)[2], total + 1, Len(moved(r.n)[2])),
               <<[head |-> SpliceHeader(r), body |-> SubSeq(moved(r.n)[2], 1, total)]>>>>}

\* trySplice, second half: another pair, for header and data in one piece.
TrySplice2(w) ==
    LET r == wk[w]
    IN /\ r.pc = "splice2"
       /\ \E g \in Get :
          /\ usedCount' = usedCount + 1 /\ unused' = g.unused
          /\ failedNew' = failedNew + g.failed
          /\ \/ /\ g.p = None
                /\ wk' = [wk EXCEPT ![w].pc = "done1"]
                /\ UNCHANGED <<pipe, psize>>
             \/ /\ g.p # None
                /\ \E sz \in Grow(g.psize[g.p], Len(HeaderUnits(r)) + r.n + PageSize) :
                   /\ psize' = [g.psize EXCEPT ![g.p] = IF sz = 0 THEN @ ELSE sz]
                   /\ \E t \in IF sz = 0 THEN {<<pipe[r.p1], pipe[g.p], <<>>>>}
                               ELSE Transfers(r, g.p, pipe[r.p1], pipe[g.p]) :
                      /\ pipe' = [pipe EXCEPT ![r.p1] = t[1], ![g.p] = t[2]]
                      /\ wk' = [wk EXCEPT ![w].pc = "done2", ![w].p2 = g.p, ![w].sent = t[3] # <<>>,
                                          ![w].reply = @ \o t[3]]
       /\ UNCHANGED <<load, count, minor, pools, copier, left>>

\* systemWrite after trySplice: done, or the data is read and written.
AfterSpliceAlways(r) == "fallback"

AfterSplice(r) == IF r.sent THEN "return" ELSE "fallback"

\* The deferred calls of splice.Done, last pair first.
SpliceDone2(w) ==
    /\ wk[w].pc = "done2" /\ Done(wk[w].p2)
    /\ wk' = [wk EXCEPT ![w].pc = "done1", ![w].p2 = None]
    /\ UNCHANGED <<load, count, minor, pools, psize, failedNew, copier, left>>

SpliceDone1(w) ==
    /\ wk[w].pc = "done1" /\ Done(wk[w].p1)
    /\ wk' = [wk EXCEPT ![w].pc = AfterSplice(wk[w]), ![w].p1 = None]
    /\ UNCHANGED <<load, count, minor, pools, psize, failedNew, copier, left>>

\* readResultFd.Bytes into the buffer: what it reads (less at the end of the
\* file), or an error.
Bytes(r) == {[r EXCEPT !.flat = n] : n \in 0..r.fd} \cup {[r EXCEPT !.flat = 0, !.status = "ERR"]}

\* systemWrite without splicing, or after it has failed: the data is read into
\* the output buffer, and the header made again.
Fallback(w) ==
    /\ wk[w].pc = "fallback"
    /\ \E a \in AllocOut(wk[w], wk[w].fd), r \in Bytes(wk[w]) :
       LET q == [r EXCEPT !.outb = a.outb]
           data == IF r.flat > 0 THEN [outData EXCEPT ![a.outb] = r.id] ELSE outData
       IN /\ outPool' = a.pool /\ pages' = a.pages /\ outData' = data
          /\ \E t \in Sent(q, SerializeHeader(q, q.flat), HeaderUnits(q) \o FlatData(q, q.flat, data)) :
             wk' = [wk EXCEPT ![w] = t]
    /\ UNCHANGED <<load, count, minor, readPool, inData, splices, left>>

\* returnRequest: the buffers go back to their pools, unless the request has been
\* interrupted and a goroutine of its handler may still use them.
ReturnedAlways(r) == TRUE

Returned(r) == ~r.interrupted

ReturnRequest(w) ==
    LET r == wk[w]
    IN /\ r.pc = "return"
       /\ wk' = [wk EXCEPT ![w] = Idle]
       /\ outPool' = IF Returned(r) /\ r.outb # None THEN FreeBuffer(r.outb) ELSE outPool
       /\ readPool' = IF Returned(r) /\ r.inb # None THEN readPool \cup {r.inb} ELSE readPool
       /\ left' = IF r.interrupted THEN left \cup {[id |-> r.id, inb |-> r.inb, outb |-> r.outb]} ELSE left
       /\ UNCHANGED <<load, count, minor, inData, pages, outData, splices>>

\* A goroutine that an interrupted handler has left writes to the output buffer.
Late(s) ==
    /\ s.outb # None /\ outData[s.outb] # s.id
    /\ outData' = [outData EXCEPT ![s.outb] = s.id]
    /\ UNCHANGED <<load, count, minor, wk, readPool, inData, outPool, pages, splices, left>>
-----------------------------------------------------------------------------
(* Other users of the pool of pairs.                                       *)

\* SpliceCopy: what is left in the pipe, nothing at the end of the file or what
\* was loaded when a write fails.
SpliceCopied(size) == {<<>>, Units(size, FALSE, 0)}

\* CopyFds: get, SpliceCopy, done. Without a pair the copy is made by io.Copy.
CopyFds ==
    /\ copier = None
    /\ \E g \in Get :
       /\ usedCount' = usedCount + 1 /\ unused' = g.unused
       /\ failedNew' = failedNew + g.failed /\ copier' = g.p
       /\ \/ g.p = None /\ UNCHANGED <<pipe, psize>>
          \/ /\ g.p # None
             /\ \E sz \in Grow(g.psize[g.p], MaxPipe) :
                psize' = [g.psize EXCEPT ![g.p] = IF sz = 0 THEN @ ELSE sz]
             /\ \E rest \in SpliceCopied(psize'[g.p]) : pipe' = [pipe EXCEPT ![g.p] = @ \o rest]
    /\ UNCHANGED <<load, count, minor, wk, pools, left>>

CopyDone ==
    /\ copier # None /\ Done(copier) /\ copier' = None
    /\ UNCHANGED <<load, count, minor, wk, pools, psize, failedNew, left>>

\* ClearSplicePool: closes the pairs of the pool.
Clear ==
    /\ unused # <<>>
    /\ unused' = <<>>
    /\ psize' = [p \in Pairs |-> IF p \in ToSet(unused) THEN 0 ELSE psize[p]]
    /\ UNCHANGED <<load, count, minor, wk, pools, usedCount, pipe, failedNew, copier, left>>

-----------------------------------------------------------------------------
Init ==
    /\ load \in Loads
    /\ count = 0 /\ minor = 0
    /\ wk = [w \in Workers |-> Idle]
    /\ readPool = {} /\ inData = [b \in InBufs |-> 0]
    /\ outPool = {} /\ pages = [b \in OutBufs |-> 0] /\ outData = [b \in OutBufs |-> 0]
    /\ unused = <<>> /\ usedCount = 0 /\ failedNew = 0 /\ copier = None
    /\ pipe = [p \in Pairs |-> <<>>] /\ psize = [p \in Pairs |-> 0]
    /\ left = {}

Worker(w) ==
    \/ Handle(w) \/ DoInterrupt(w) \/ Write(w)
    \/ TrySplice(w) \/ TrySplice2(w) \/ SpliceDone2(w) \/ SpliceDone1(w)
    \/ Fallback(w) \/ ReturnRequest(w)

Next ==
    \/ \E w \in Workers : Receive(w) \/ Worker(w)
    \/ \E s \in left : Late(s)
    \/ load.copy /\ (CopyFds \/ CopyDone \/ Clear)

Spec == Init /\ [][Next]_vars
-----------------------------------------------------------------------------
(* Properties.                                                             *)

\* The protocol: the operations whose successful answer is a structure.
Structured == {"LOOKUP", "GETATTR", "SETATTR", "SYMLINK", "MKNOD", "MKDIR", "LINK", "OPEN",
    "WRITE", "STATFS", "INIT", "OPENDIR", "GETLK", "CREATE", "LSEEK", "COPY_FILE_RANGE"}
Struct(r) ==
    CASE r.op = "INIT" -> IF minor >= 23 THEN 2 ELSE 1
      [] r.op \in {"GETXATTR", "LISTXATTR"} -> IF r.size = 0 THEN 1 ELSE 0
      [] OTHER -> IF r.op \in Structured THEN 1 ELSE 0

\* Every message written to the device is one the kernel accepts as the answer to
\* its request: as long as its header says, header and data all of this request
\* (none of an earlier one left in a pipe or a buffer, none written by a goroutine
\* an interrupted request has left behind), with the structure the protocol has
\* for the operation, with no more data than was asked for, and with the header
\* only when the operation has failed (a directory that fails part of the way
\* apart, see DoReadDir).
ReplyFits ==
    \A w \in Workers : \A i \in DOMAIN wk[w].reply :
       LET r == wk[w]
           m == r.reply[i]
       IN /\ Len(m.body) = m.head.len
          /\ \A j \in DOMAIN m.body : m.body[j] = [h |-> j <= 1 + m.head.struct, id |-> r.id]
          /\ m.head.status = "OK" =>
               /\ m.head.struct = Struct(r)
               /\ m.head.len - 1 - m.head.struct <= IF r.op = "READLINK" THEN 1 ELSE r.size
          /\ m.head.status # "OK" /\ r.op \notin {"READDIR", "READDIRPLUS"} => m.head.len = 1

\* A request is answered at most once, also when splicing the answer fails at any
\* of its steps and it is written again; those that have no answer get none, and
\* an interrupt only when it has to be sent again. No handler panics before that,
\* because of an argument that parse has not set or a buffer that is too short.
AnsweredOnce ==
    \A w \in Workers :
       /\ ~wk[w].panic
       /\ Len(wk[w].reply) <= 1
       /\ wk[w].reply # <<>> =>
             /\ wk[w].op \notin {"FORGET", "BATCH_FORGET", "NOTIFY_REPLY"}
             /\ wk[w].op = "INTERRUPT" => wk[w].status = "ERR"

\* The bytes a handler reads from a large request stay those of the request as
\* long as anyone may look at them: until it is returned, and afterwards when it
\* was interrupted and its buffer must not be used again.
InputKept ==
    /\ \A w \in Workers : wk[w].inb # None => inData[wk[w].inb] = wk[w].id
    /\ \A s \in left : s.inb # None => inData[s.inb] = s.id

\* The pairs in use are those in someone's hands, plus one for each pair that
\* could not be made; a pair of the pool is in nobody's hands and its pipe is
\* empty, so that the next user finds nothing of the last one's in it.
PairsAccounted ==
    LET held == {wk[w].p1 : w \in Workers} \cup {wk[w].p2 : w \in Workers} \cup {copier}
    IN /\ usedCount = failedNew + Cardinality(held \ {None})
       /\ IsInjective(unused) /\ ToSet(unused) \cap held = {}
       /\ \A i \in DOMAIN unused : pipe[unused[i]] = <<>> /\ psize[unused[i]] > 0

\* A request for the size of an attribute (an empty buffer) is answered with the
\* structure that has the size, without flat data: "get/list xattr size (return
\* structured GetXAttrOut, no flat data)", request.go:231.
SizeProbeAnswered ==
    \A w \in Workers :
       wk[w].op \in {"GETXATTR", "LISTXATTR"} /\ wk[w].size = 0 => wk[w].flat = 0 /\ ~wk[w].panic
=============================================================================
