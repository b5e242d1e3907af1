------------------------------- MODULE Notify -------------------------------
(***************************************************************************)
(* Messages fuse.Server sends to the kernel of its own accord: the         *)
(* invalidations InodeNotify, EntryNotify and DeleteNotify, the store of   *)
(* data into the kernel's cache, and the retrieve of data from it, whose   *)
(* answer comes back as a request of its own (NOTIFY_REPLY, doNotifyReply  *)
(* in opcode.go); together with the end of Serve, which closes the device  *)
(* and wakes whoever still waits for an answer.                            *)
(*                                                                         *)
(* Any goroutine of the program may make these calls, at any time, also    *)
(* after the unmount. The kernel handles an invalidation of an entry under *)
(* the lock of the directory, which it also holds while an operation on    *)
(* the directory waits for its reply.                                      *)
(***************************************************************************)
EXTENDS Naturals, Sequences

CONSTANTS
    Callers,     \* goroutines that send notifications
    Kinds,       \* calls they make: inode, entry, delete, store, retrieve
    Minors,      \* protocol versions of the kernel
    MaxWrite,    \* the negotiated MaxWrite, in units
    MaxStore,    \* the largest piece stored at once (math.MaxInt32)
    DataLen,     \* length of the data stored and of the buffers retrieved into
    MaxCalls, MaxOps, \* bounds: calls made, operations on the directory
    HoldsLocks   \* a caller holds a lock of the file system that handlers take

ASSUME NotifyAssumption == MaxWrite \in Nat /\ MaxStore \in Nat /\ DataLen \in Nat

None == "none"

VARIABLES
    minor,      \* kernelSettings.Minor
    dev,        \* the connection: up, or gone (unmounted)
    closed,     \* the descriptor has been closed
    serve,      \* where Serve is: loop, swap, wake, done
    waking,     \* rtab of Serve: the retrieves still to be woken
    caller,     \* caller -> the call it makes
    writeMu,    \* Server.writeMu: its holder
    tab,        \* retrieveTab: set of [u (unique), c (the waiting caller), off, len]
    next,       \* retrieveNext
    ready,      \* the retrieves whose channel ready has been closed
    panic,      \* a channel has been closed twice
    asked,      \* retrieves the kernel has accepted and not answered: [u, off, len]
    answers,    \* NOTIFY_REPLY requests a worker has read and not handled: [u, off, n]
    dirOp,      \* an operation on the directory waits for its reply
    fsLock,     \* the lock of the file system: its holder
    calls, ops  \* counters for the bounds

server == <<serve, waking, closed>>
kernel == <<dev, asked, answers, dirOp, ops>>
vars == <<minor, server, caller, writeMu, tab, next, ready, panic, kernel, fsLock, calls>>

\* A call, with the offset it has come to and what it has retrieved; n and st
\* are those of its retrieveCacheRequest.
NoCall == [pc |-> "idle", kind |-> None, off |-> 0, dest |-> <<>>, u |-> 0, n |-> 0,
           st |-> "OK", result |-> "OK"]

Min2(a, b) == IF a < b THEN a ELSE b
-----------------------------------------------------------------------------
(* Which messages a kernel knows.                                          *)

\* SupportsVersion of a kernel of major version 7.
SupportsVersion(maj, min) == 7 >= maj \/ (7 = maj /\ minor >= min)

NotifyMinor == [inode |-> 12, entry |-> 12, store |-> 15, retrieve |-> 15, delete |-> 18]

SupportsNotify(kind) == SupportsVersion(7, NotifyMinor[kind])

\* DeleteNotify falls back to EntryNotify and does not ask SupportsNotify.
DeleteNotify == IF minor < 18 THEN "entry" ELSE "delete"

Call(c) ==
    /\ caller[c].pc = "idle" /\ calls < MaxCalls
    /\ HoldsLocks => fsLock = None
    /\ fsLock' = IF HoldsLocks THEN c ELSE fsLock
    /\ calls' = calls + 1
    /\ \E k \in Kinds :
       LET kind == IF k = "delete" THEN DeleteNotify ELSE k
           first == IF kind = "retrieve" THEN "register" ELSE "lock"
       IN caller' = [caller EXCEPT ![c] =
             IF kind = "delete" \/ SupportsNotify(kind)
             THEN [NoCall EXCEPT !.kind = kind, !.pc = first]
             ELSE [NoCall EXCEPT !.kind = kind, !.pc = "end", !.result = "ENOSYS"]]
    /\ UNCHANGED <<minor, ready, panic, server, writeMu, tab, next, kernel>>

\* The call returns to its caller.
Return(c) ==
    /\ caller[c].pc = "end"
    /\ caller' = [caller EXCEPT ![c] = NoCall]
    /\ fsLock' = IF fsLock = c THEN None ELSE fsLock
    /\ UNCHANGED <<minor, ready, panic, server, writeMu, tab, next, kernel, calls>>
-----------------------------------------------------------------------------
(* The write of a message.                                                 *)

\* inodeRetrieveCache1 up to the write, for a piece of at most MaxWrite.
Register(c) ==
    /\ caller[c].pc = "register"
    /\ tab' = tab \cup {[u |-> next, c |-> c, off |-> caller[c].off,
                         len |-> Min2(DataLen - caller[c].off, MaxWrite)]}
    /\ next' = next + 1
    /\ caller' = [caller EXCEPT ![c].pc = "lock", ![c].u = next]
    /\ UNCHANGED <<minor, ready, panic, server, writeMu, kernel, fsLock, calls>>

\* ms.writeMu.Lock().
Lock(c) ==
    /\ caller[c].pc = "lock" /\ writeMu = None
    /\ writeMu' = c
    /\ caller' = [caller EXCEPT ![c].pc = "write"]
    /\ UNCHANGED <<minor, ready, panic, server, tab, next, kernel, fsLock, calls>>

\* What the kernel makes of the write: an error once the device is gone or
\* closed, EINVAL for a message it does not know, ENOENT when it does not have the
\* inode or the entry. An invalidation of an entry waits for the directory.
Results(k) ==
    IF closed THEN {"EBADF"} ELSE IF dev = "gone" THEN {"ENODEV"}
    ELSE IF minor < NotifyMinor[k] THEN {"EINVAL"} ELSE {"OK", "ENOENT"}

Blocked(k) == k \in {"entry", "delete"} /\ dev = "up" /\ dirOp

\* InodeNotify, EntryNotify, DeleteNotify: the result is the one of the write.
\* InodeNotifyStoreCache goes on with the next piece.
AfterNotify(r, res) ==
    IF r.kind = "store" /\ res = "OK" /\ r.off + MaxStore < DataLen
    THEN [r EXCEPT !.pc = "lock", !.off = @ + MaxStore]
    ELSE [r EXCEPT !.pc = "end", !.result = res]

\* A retrieve waits for its answer, or takes itself out of the table.
AfterRetrieve(r, res) ==
    IF res = "OK" THEN [r EXCEPT !.pc = "wait"] ELSE [r EXCEPT !.pc = "unregister", !.st = res]

\* write and the unlock after it.
Write(c) ==
    LET r == caller[c]
    IN /\ r.pc = "write" /\ ~Blocked(r.kind)
       /\ writeMu' = None
       /\ \E res \in Results(r.kind) :
          /\ caller' = [caller EXCEPT ![c] =
                IF r.kind = "retrieve" THEN AfterRetrieve(r, res) ELSE AfterNotify(r, res)]
          /\ asked' = IF r.kind # "retrieve" \/ res # "OK" THEN asked
                      ELSE asked \cup {[u |-> q.u, off |-> q.off, len |-> q.len] : q \in {x \in tab : x.u = r.u}}
       /\ UNCHANGED <<minor, ready, panic, server, dev, answers, dirOp, ops, tab, next, fsLock, calls>>

\* What InodeRetrieveCache makes of a piece: goes on behind it, or returns OK when
\* it has anything.
AfterPieceStays(r, n, st) ==
    IF st = "OK" /\ n > 0
    THEN [r EXCEPT !.pc = "register"]
    ELSE [r EXCEPT !.pc = "end", !.result = IF r.off > 0 THEN "OK" ELSE st]

AfterPiece(r, n, st) ==
    IF st = "OK" /\ n > 0
    THEN [r EXCEPT !.pc = "register", !.off = @ + n]
    ELSE [r EXCEPT !.pc = "end", !.result = IF r.off > 0 THEN "OK" ELSE st]

Unregister(c) ==
    /\ caller[c].pc = "unregister"
    /\ tab' = {q \in tab : q.u # caller[c].u}
    /\ caller' = [caller EXCEPT ![c] = AfterPiece(@, 0, caller[c].st)]
    /\ UNCHANGED <<minor, ready, panic, server, writeMu, next, kernel, fsLock, calls>>

\* <-reading.ready
Ready(c) ==
    /\ caller[c].pc = "wait" /\ caller[c].u \in ready
    /\ caller' = [caller EXCEPT ![c] = AfterPiece(@, caller[c].n, caller[c].st)]
    /\ UNCHANGED <<minor, ready, panic, server, writeMu, tab, next, kernel, fsLock, calls>>
-----------------------------------------------------------------------------
(* The answers.                                                            *)

\* The kernel answers a retrieve with what it has cached of the piece just then,
\* in any order; a worker reads the answer.
Answer ==
    /\ dev = "up"
    /\ \E q \in asked : \E n \in 0..q.len :
       /\ asked' = asked \ {q}
       /\ answers' = answers \cup {[u |-> q.u, off |-> q.off, n |-> n]}
    /\ UNCHANGED <<minor, ready, panic, server, caller, writeMu, tab, next, dev, dirOp, ops, fsLock, calls>>

\* What the caller of a retrieve q has got when it ends: the data it was copied, and
\* n and st of its retrieveCacheRequest while it may look at them.
Copied(r, q, n, st) ==
    LET more == r.dest \o [i \in 1..n |-> q.off + i]
    IN IF r.pc \in {"lock", "write", "wait"} /\ r.u = q.u
       THEN [r EXCEPT !.dest = more, !.n = n, !.st = st] ELSE [r EXCEPT !.dest = more]

\* The end of a retrieve: what it got is stored, and ready is closed.
Close(q, n, st) ==
    /\ ready' = ready \cup {q.u}
    /\ panic' = (panic \/ q.u \in ready)
    /\ caller' = [caller EXCEPT ![q.c] = Copied(@, q, n, st)]

\* doNotifyReply: the retrieve is taken out of the table and gets the data, if the
\* answer is the one to its question.
DoNotifyReplyKeeps(a) ==
    \/ /\ \A q \in tab : q.u # a.u
       /\ UNCHANGED <<tab, caller, ready, panic>>
    \/ \E q \in tab :
       /\ q.u = a.u
       /\ tab' = tab
       /\ IF q.off # a.off THEN Close(q, 0, "EIO") ELSE Close(q, Min2(a.n, q.len), "OK")

DoNotifyReply(a) ==
    \/ /\ \A q \in tab : q.u # a.u
       /\ UNCHANGED <<tab, caller, ready, panic>>
    \/ \E q \in tab :
       /\ q.u = a.u
       /\ tab' = tab \ {q}
       /\ IF q.off # a.off THEN Close(q, 0, "EIO") ELSE Close(q, Min2(a.n, q.len), "OK")

HandleReply ==
    /\ \E a \in answers : DoNotifyReply(a) /\ answers' = answers \ {a}
    /\ UNCHANGED <<minor, server, writeMu, next, dev, asked, dirOp, ops, fsLock, calls>>

\* An operation on the directory, from the request to its reply; its handler
\* takes the lock of the file system.
DirOp ==
    /\ dev = "up" /\ ~dirOp /\ ops < MaxOps
    /\ dirOp' = TRUE /\ ops' = ops + 1
    /\ UNCHANGED <<minor, ready, panic, server, caller, writeMu, tab, next, dev, asked, answers, fsLock, calls>>

DirOpDone ==
    /\ dirOp /\ (fsLock = None \/ dev = "gone")
    /\ dirOp' = FALSE
    /\ UNCHANGED <<minor, ready, panic, server, caller, writeMu, tab, next, dev, asked, answers, ops, fsLock, calls>>
-----------------------------------------------------------------------------
(* The end of Serve.                                                       *)

\* The file system is unmounted: reads and writes fail with ENODEV from now on.
\* What the kernel has not answered yet is lost.
Unmount ==
    /\ dev = "up"
    /\ dev' = "gone" /\ asked' = {}
    /\ UNCHANGED <<minor, ready, panic, server, caller, writeMu, tab, next, answers, dirOp, ops, fsLock, calls>>

\* The loops have ended, each with the request it had: the device is closed under
\* writeMu.
CloseDevice ==
    /\ serve = "loop" /\ dev = "gone" /\ answers = {} /\ writeMu = None
    /\ closed' = TRUE /\ serve' = "swap"
    /\ UNCHANGED <<minor, ready, panic, waking, caller, writeMu, tab, next, kernel, fsLock, calls>>

\* The table is taken under retrieveMu and replaced by an empty one.
SwapTable ==
    /\ serve = "swap"
    /\ waking' = tab /\ tab' = {} /\ serve' = "wake"
    /\ UNCHANGED <<minor, ready, panic, closed, caller, writeMu, next, kernel, fsLock, calls>>

\* Each retrieve of the table is ended with ENODEV.
WakeOneNot(q) == UNCHANGED <<caller, ready, panic>>

WakeOne(q) == Close(q, 0, "ENODEV")

Wake ==
    /\ serve = "wake"
    /\ \/ \E q \in waking : WakeOne(q) /\ waking' = waking \ {q} /\ serve' = serve
       \/ waking = {} /\ serve' = "done" /\ UNCHANGED <<caller, waking, ready, panic>>
    /\ UNCHANGED <<minor, closed, writeMu, tab, next, kernel, fsLock, calls>>
-----------------------------------------------------------------------------
Init ==
    /\ minor \in Minors
    /\ dev = "up" /\ closed = FALSE /\ serve = "loop" /\ waking = {}
    /\ caller = [c \in Callers |-> NoCall]
    /\ writeMu = None /\ tab = {} /\ next = 0 /\ ready = {} /\ panic = FALSE
    /\ asked = {} /\ answers = {}
    /\ dirOp = FALSE /\ fsLock = None /\ calls = 0 /\ ops = 0

Serve == CloseDevice \/ SwapTable \/ Wake

Next ==
    \/ \E c \in Callers : \/ Call(c) \/ Return(c) \/ Register(c) \/ Lock(c) \/ Write(c)
                          \/ Unregister(c) \/ Ready(c)
    \/ Answer \/ HandleReply \/ DirOp \/ DirOpDone \/ Unmount \/ Serve

\* Goroutines run (the bounds keep a lock from being taken again and again before
\* a waiter gets it, so weak fairness is enough for the locks); the kernel answers
\* what it has accepted while the file system is mounted, and handlers of other
\* operations end.
Fairness ==
    /\ \A c \in Callers : /\ WF_vars(Return(c)) /\ WF_vars(Register(c)) /\ WF_vars(Lock(c))
                          /\ WF_vars(Write(c)) /\ WF_vars(Unregister(c)) /\ WF_vars(Ready(c))
    /\ WF_vars(Answer) /\ WF_vars(HandleReply) /\ WF_vars(DirOpDone)
    /\ WF_vars(CloseDevice) /\ WF_vars(SwapTable) /\ WF_vars(Wake)

Spec == Init /\ [][Next]_vars /\ Fairness
-----------------------------------------------------------------------------
(* Properties.                                                             *)

\* A retrieve is ended once: its channel is closed by the answer or by the end of
\* Serve, never by both, which would panic; and nothing is copied into the buffer
\* of a caller that has given up.
EndedOnce ==
    /\ ~panic
    /\ \A c \in Callers : caller[c].pc = "idle" => caller[c].dest = <<>>

\* What has been retrieved is the file from the start on, without a gap, nothing
\* twice and no more than the buffer holds, whatever the kernel dropped from its
\* cache between the pieces; and a call that got something reports success.
RetrievedInOrder ==
    \A c \in Callers :
       /\ Len(caller[c].dest) <= DataLen
       /\ \A i \in DOMAIN caller[c].dest : caller[c].dest[i] = i
       /\ caller[c].pc = "end" /\ caller[c].dest # <<>> => caller[c].result = "OK"

\* Every call returns: invalidations although the kernel may make them wait for an
\* operation on the same directory, retrieves because they are answered, refused,
\* or woken when the file system is unmounted; also those made after that.
CallsReturn == \A c \in Callers : caller[c].pc # "idle" ~> caller[c].pc = "idle"

\* A message is sent only to a kernel that knows it: "SupportsVersion returns true
\* if the kernel supports the given protocol version or newer", server.go:810.
KernelKnowsMessage ==
    \A c \in Callers : caller[c].pc = "write" => minor >= NotifyMinor[caller[c].kind]
=============================================================================
