------------------------------ MODULE ReaderPool ------------------------------
(***************************************************************************)
(* The goroutines that read requests in src/fuse/server.go: Serve, loop,   *)
(* readRequest and Unmount.  A loop reads a request and handles it itself; *)
(* the last reader to leave starts a new loop, and a loop that finds       *)
(* enough readers exits.  With singleReader (macOS) one loop reads and     *)
(* each request gets a goroutine of its own.  reqMu makes the critical     *)
(* sections of readRequest atomic.                                         *)
(***************************************************************************)
EXTENDS Integers, FiniteSets

CONSTANTS
  Loops,         \* bound: goroutines that run loop at once
  Main,          \* the one that Serve runs
  MAX_READERS,   \* _MAX_READERS
  MaxRequests    \* bound: requests the kernel sends

ASSUME LoopsAssumption == IsFiniteSet(Loops) /\ Main \in Loops
ASSUME ReadersAssumption == MAX_READERS \in Nat
ASSUME RequestsAssumption == MaxRequests \in Nat

VARIABLES
  singleReader, \* Server.singleReader
  pc,          \* pc[l]: what loop l is doing
  reqReaders,
  loops,       \* Server.loops, the wait group of the loops
  handlers,    \* requests handled outside the loops (singleReader)
  fd,          \* whether mountFd is open
  unmount,     \* progress of Unmount
  mounted,     \* the kernel's connection (external)
  pending,     \* requests the kernel has queued (external)
  sent         \* requests the kernel has sent (external)

env == <<singleReader, mounted, pending, sent>>
vars == <<pc, reqReaders, loops, handlers, fd, unmount, env>>

\* Serve has added its loop: WaitMount, which a caller of Unmount goes
\* through first, returns after this.
Init ==
  /\ singleReader \in BOOLEAN
  /\ pc = [l \in Loops |-> IF l = Main THEN "start" ELSE "none"]
  /\ reqReaders = 0
  /\ loops = 1
  /\ handlers = 0
  /\ fd = "open"
  /\ unmount = "no"
  /\ mounted = TRUE
  /\ pending = 0
  /\ sent = 0

KernelSend ==
  /\ mounted
  /\ sent < MaxRequests
  /\ sent' = sent + 1
  /\ pending' = pending + 1
  /\ UNCHANGED <<pc, reqReaders, loops, handlers, fd, unmount, mounted, singleReader>>

-----------------------------------------------------------------------------
Step(l, to) == pc' = [pc EXCEPT ![l] = to]

ExitNoDone(l) ==
  /\ Step(l, IF l = Main THEN "exited" ELSE "none")
  /\ UNCHANGED loops

\* A loop that is not Serve's can be started again.
Exit(l) ==
  /\ Step(l, IF l = Main THEN "exited" ELSE "none")
  /\ loops' = loops - 1

\* readRequest up to the read: with too many readers the loop exits.
Enter(l) ==
  /\ pc[l] = "start"
  /\ \/ /\ reqReaders > MAX_READERS
        /\ Exit(l)
        /\ UNCHANGED reqReaders
     \/ /\ reqReaders <= MAX_READERS
        /\ Step(l, "reading")
        /\ reqReaders' = reqReaders + 1
        /\ UNCHANGED loops
  /\ UNCHANGED <<handlers, fd, unmount, env>>

\* The read of the device returns a request.
ReadOk(l) ==
  /\ pc[l] = "reading"
  /\ pending > 0
  /\ pending' = pending - 1
  /\ Step(l, "got")
  /\ UNCHANGED <<reqReaders, loops, handlers, fd, unmount, mounted, sent, singleReader>>

\* ENOENT: the request was withdrawn; read again.
ReadAgain(l) ==
  /\ pc[l] = "reading"
  /\ pending > 0
  /\ pending' = pending - 1
  /\ Step(l, "start")
  /\ reqReaders' = reqReaders - 1
  /\ UNCHANGED <<loops, handlers, fd, unmount, mounted, sent, singleReader>>

\* ENODEV: unmounted.  Any other error ends the loop the same way; the device
\* gives one only when its connection is gone.
ReadUnmounted(l) ==
  /\ pc[l] = "reading"
  /\ ~mounted
  /\ Exit(l)
  /\ reqReaders' = reqReaders - 1
  /\ UNCHANGED <<handlers, fd, unmount, env>>

GotNoSpawn(l) ==
  /\ pc[l] = "got"
  /\ reqReaders' = reqReaders - 1
  /\ Step(l, "handling")
  /\ UNCHANGED <<loops, handlers, fd, unmount, env>>

GotSpawnUncounted(l) ==
  /\ pc[l] = "got"
  /\ reqReaders' = reqReaders - 1
  /\ \/ /\ singleReader
        /\ Step(l, "start")
        /\ handlers' = handlers + 1
     \/ /\ ~singleReader /\ reqReaders - 1 <= 0
        /\ \E k \in Loops :
             /\ pc[k] = "none"
             /\ pc' = [pc EXCEPT ![l] = "handling", ![k] = "start"]
        /\ UNCHANGED handlers
     \/ /\ ~singleReader /\ reqReaders - 1 > 0
        /\ Step(l, "handling")
        /\ UNCHANGED handlers
  /\ UNCHANGED <<loops, fd, unmount, env>>

\* readRequest after the read, and the call or the start of handleRequest.
\* The kernel sends no message shorter than a header, for which parseHeader
\* fails and readRequest returns without lowering reqReaders.
Got(l) ==
  /\ pc[l] = "got"
  /\ reqReaders' = reqReaders - 1
  /\ \/ /\ singleReader
        /\ Step(l, "start")
        /\ handlers' = handlers + 1
        /\ UNCHANGED loops
     \/ /\ ~singleReader /\ reqReaders - 1 <= 0
        /\ \E k \in Loops :
             /\ pc[k] = "none"
             /\ pc' = [pc EXCEPT ![l] = "handling", ![k] = "start"]
        /\ loops' = loops + 1
        /\ UNCHANGED handlers
     \/ /\ ~singleReader /\ reqReaders - 1 > 0
        /\ Step(l, "handling")
        /\ UNCHANGED <<loops, handlers>>
  /\ UNCHANGED <<fd, unmount, env>>

\* handleRequest has written the reply: the loop reads again.
Handled(l) ==
  /\ pc[l] = "handling"
  /\ Step(l, "start")
  /\ UNCHANGED <<reqReaders, loops, handlers, fd, unmount, env>>

HandledApart ==
  /\ handlers > 0
  /\ handlers' = handlers - 1
  /\ UNCHANGED <<pc, reqReaders, loops, fd, unmount, env>>

-----------------------------------------------------------------------------
\* fusermount -u, by Unmount or from elsewhere: the connection is gone.  While
\* unmount fails Unmount tries again, and after five failures it returns.
Unmount(caller) ==
  /\ mounted
  /\ mounted' = FALSE
  /\ pending' = 0
  /\ unmount' = caller
  /\ UNCHANGED <<pc, reqReaders, loops, handlers, fd, sent, singleReader>>

\* Unmount's loops.Wait.
UnmountDone ==
  /\ unmount = "wait"
  /\ loops = 0
  /\ unmount' = "done"
  /\ UNCHANGED <<pc, reqReaders, loops, handlers, fd, env>>

\* Serve's own loop has returned, and loops.Wait has.
ServeClose ==
  /\ pc[Main] = "exited"
  /\ loops = 0
  /\ fd = "open"
  /\ fd' = "closed"
  /\ UNCHANGED <<pc, reqReaders, loops, handlers, unmount, env>>

Reader(l) == Enter(l) \/ ReadOk(l) \/ ReadUnmounted(l) \/ Got(l)

Next ==
  \/ KernelSend \/ HandledApart \/ UnmountDone \/ ServeClose
  \/ \E caller \in {"wait", "no"} : Unmount(caller)
  \/ \E l \in Loops : Reader(l) \/ ReadAgain(l) \/ Handled(l)

Spec == Init /\ [][Next]_vars

\* Readers, Serve and Unmount run.  The file system need not return.
Fairness ==
  /\ \A l \in Loops : WF_vars(Reader(l))
  /\ WF_vars(UnmountDone) /\ WF_vars(ServeClose)
-----------------------------------------------------------------------------
\* Types of the loops and the counters.
TypeOK ==
  /\ pc \in [Loops -> {"none", "start", "reading", "got", "handling", "exited"}]
  /\ reqReaders \in Nat
  /\ loops \in Nat
  /\ handlers \in Nat
  /\ fd \in {"open", "closed"}
  /\ unmount \in {"no", "wait", "done"}
  /\ singleReader \in BOOLEAN /\ mounted \in BOOLEAN
  /\ pending \in Nat /\ sent \in Nat

Reading == {l \in Loops : pc[l] \in {"reading", "got"}}
Live == {l \in Loops : pc[l] \notin {"none", "exited"}}

\* reqReaders counts the loops between the two critical sections of
\* readRequest.
ReadersExact == reqReaders = Cardinality(Reading)

\* No more than one reader above MAX_READERS reads the device.
ReadersBounded == Cardinality(Reading) <= MAX_READERS + 1

\* While the file system is mounted some loop is reading the device or on
\* its way to: the requests being handled never use up the readers.
SomeoneReads == mounted => \E l \in Loops : pc[l] \in {"start", "reading", "got"}

\* Unmount returns, and mountFd is closed, when no loop is left, so no loop
\* reads the closed descriptor or writes the reply of a request it handles
\* to it.  This does not speak of the goroutines that a single reader starts
\* for its requests: they are not in the wait group.
ClosedAfterLoops == fd = "closed" \/ unmount = "done" => Live = {}

\* With a single reader it does not hold that every reply is written before
\* the descriptor is closed: go ms.handleRequest is not waited for.
RepliesBeforeClose == fd = "closed" => Live = {} /\ handlers = 0

\* Serve's loop is called with exitIdle false: it leaves only at unmount.
MainLoopStays == mounted => pc[Main] # "exited"

\* Requests are read although no earlier one is ever finished.
AllRead == pending > 0 ~> pending = 0

\* If the file system's calls return, so does Unmount after an unmount, and
\* Serve closes the device.
UnmountEnds ==
  (\A l \in Loops : []<>(pc[l] # "handling")) =>
    (unmount = "wait" ~> unmount = "done" /\ fd = "closed")
=============================================================================
