------------------------------- MODULE Inflight -------------------------------
(***************************************************************************)
(* The requests in flight in src/fuse/server.go, and FUSE_INTERRUPT in     *)
(* src/fuse/opcode.go: request structs come from a pool, are listed in     *)
(* reqInflight while they are handled, and go back to the pool unless they *)
(* were interrupted, since an interrupted request's cancel channel stays   *)
(* closed.  reqMu makes the critical sections atomic.                      *)
(*                                                                         *)
(* The kernel (external) interrupts a request that the server has read and *)
(* not answered, once; when the server answers EAGAIN it queues the        *)
(* interrupt again.                                                        *)
(***************************************************************************)
EXTENDS Naturals, Sequences, FiniteSets

CONSTANTS
  Structs,   \* bound: request structs
  Uniques,   \* bound: requests the kernel sends; a request is its Unique
  Nil

VARIABLES
  req,          \* req[s]: the request struct s
  reqInflight,  \* Server.reqInflight
  op,           \* op[u]: what the kernel knows of request u (external)
  intr          \* intr[u]: of the interrupt of u (external)

vars == <<req, reqInflight, op, intr>>

\* unique, inHeader: Nil after clear.  kind tells INTERRUPT from the others.
NewReq == [pc |-> "pool", unique |-> Nil, kind |-> "op", index |-> 0,
           interrupted |-> FALSE, again |-> FALSE]

Init ==
  /\ req = [s \in Structs |-> NewReq]
  /\ reqInflight = <<>>
  /\ op = [u \in Uniques |-> "new"]
  /\ intr = [u \in Uniques |-> "none"]

KernelSend(u) ==
  /\ op[u] = "new"
  /\ op' = [op EXCEPT ![u] = "queued"]
  /\ UNCHANGED <<req, reqInflight, intr>>

KernelInterrupt(u) ==
  /\ op[u] = "read"
  /\ intr[u] = "none"
  /\ intr' = [intr EXCEPT ![u] = "queued"]
  /\ UNCHANGED <<req, reqInflight, op>>

-----------------------------------------------------------------------------
\* readRequest takes a struct and reads the device: a request,
Read(s, u) ==
  /\ req[s].pc = "pool"
  /\ op[u] = "queued"
  /\ op' = [op EXCEPT ![u] = "read"]
  /\ req' = [req EXCEPT ![s].pc = "read", ![s].unique = u, ![s].kind = "op"]
  /\ UNCHANGED <<reqInflight, intr>>

\* or an interrupt, which has a Unique of its own and names u.
ReadInterrupt(s, u) ==
  /\ req[s].pc = "pool"
  /\ intr[u] = "queued"
  /\ intr' = [intr EXCEPT ![u] = "read"]
  /\ req' = [req EXCEPT ![s].pc = "read", ![s].unique = u, ![s].kind = "intr"]
  /\ UNCHANGED <<reqInflight, op>>

\* readRequest's second critical section.
Register(s) ==
  /\ req[s].pc = "read"
  /\ reqInflight' = Append(reqInflight, s)
  /\ req' = [req EXCEPT ![s].pc = "run", ![s].index = Len(reqInflight) + 1]
  /\ UNCHANGED <<op, intr>>

-----------------------------------------------------------------------------
\* The request in flight that the interrupt of struct s names.
Target(s, t) ==
  /\ req[t].kind = "op"
  /\ req[t].unique = req[s].unique
  /\ ~req[t].interrupted

TargetsOf(s) == {i \in DOMAIN reqInflight : Target(s, reqInflight[i])}

DoInterruptForgets(s) ==
  /\ req[s].pc = "run" /\ req[s].kind = "intr"
  /\ \/ /\ TargetsOf(s) # {}
        /\ \E i \in TargetsOf(s) :
             /\ \A j \in TargetsOf(s) : i <= j
             /\ req' = [req EXCEPT ![s].pc = "write", ![reqInflight[i]].interrupted = TRUE]
     \/ /\ TargetsOf(s) = {}
        /\ req' = [req EXCEPT ![s].pc = "write"]
  /\ UNCHANGED <<reqInflight, op, intr>>

\* doInterrupt closes the cancel channel of the first one, or answers EAGAIN.
DoInterrupt(s) ==
  /\ req[s].pc = "run" /\ req[s].kind = "intr"
  /\ \/ /\ TargetsOf(s) # {}
        /\ \E i \in TargetsOf(s) :
             /\ \A j \in TargetsOf(s) : i <= j
             /\ req' = [req EXCEPT ![s].pc = "write", ![reqInflight[i]].interrupted = TRUE]
     \/ /\ TargetsOf(s) = {}
        /\ req' = [req EXCEPT ![s].pc = "write", ![s].again = TRUE]
  /\ UNCHANGED <<reqInflight, op, intr>>

\* The file system returns from a request, cancelled or not.
Handle(s) ==
  /\ req[s].pc = "run" /\ req[s].kind = "op"
  /\ req' = [req EXCEPT ![s].pc = "write"]
  /\ UNCHANGED <<reqInflight, op, intr>>

\* write: no reply to an INTERRUPT that succeeded; at EAGAIN the kernel queues
\* it again while the request is not answered.
Write(s) ==
  LET u == req[s].unique IN
  /\ req[s].pc = "write"
  /\ req' = [req EXCEPT ![s].pc = "return"]
  /\ \/ /\ req[s].kind = "op"
        /\ op' = [op EXCEPT ![u] = "answered"]
        /\ UNCHANGED intr
     \/ /\ req[s].kind = "intr"
        /\ intr' = [intr EXCEPT ![u] = IF req[s].again /\ op[u] # "answered"
                                       THEN "queued" ELSE "done"]
        /\ UNCHANGED op
  /\ UNCHANGED reqInflight

-----------------------------------------------------------------------------
\* The last request in flight takes the place of s.
Remove(s) ==
  LET i == req[s].index
      last == Len(reqInflight)
      moved == reqInflight[last]
  IN /\ reqInflight' = SubSeq([reqInflight EXCEPT ![i] = moved], 1, last - 1)
     /\ req' = [req EXCEPT ![moved].index = i, ![s].pc = "clear"]

\* returnRequest under reqMu.
Return(s) ==
  /\ req[s].pc = "return"
  /\ Remove(s)
  /\ UNCHANGED <<op, intr>>

\* request.clear leaves interrupted and inflightIndex alone.
Cleared(s) ==
  [req EXCEPT ![s].unique = Nil, ![s].again = FALSE, ![s].pc = "pool"]

RecycleAlways(s) ==
  /\ req[s].pc = "clear"
  /\ req' = Cleared(s)
  /\ UNCHANGED <<reqInflight, op, intr>>

\* The rest of returnRequest: an interrupted request is left to the collector.
Recycle(s) ==
  /\ req[s].pc = "clear"
  /\ req' = IF req[s].interrupted THEN [req EXCEPT ![s].pc = "dropped"] ELSE Cleared(s)
  /\ UNCHANGED <<reqInflight, op, intr>>

-----------------------------------------------------------------------------
\* What goes on without the file system.
Server(s) ==
  \/ Register(s) \/ DoInterrupt(s) \/ Write(s) \/ Return(s) \/ Recycle(s)

Next ==
  \/ \E u \in Uniques : KernelSend(u) \/ KernelInterrupt(u)
  \/ \E s \in Structs :
       \/ \E u \in Uniques : Read(s, u) \/ ReadInterrupt(s, u)
       \/ Server(s) \/ Handle(s)

Spec == Init /\ [][Next]_vars

\* The server runs and keeps reading; the file system may never return.
Fairness ==
  /\ \A s \in Structs : WF_vars(Server(s))
  /\ \A u \in Uniques :
       WF_vars(\E s \in Structs : ReadInterrupt(s, u))
-----------------------------------------------------------------------------
PCs == {"pool", "read", "run", "write", "return", "clear", "dropped"}
InTable == {"run", "write", "return"}

\* Types of the structs, the table and the kernel's view.
TypeOK ==
  /\ req \in [Structs -> [pc : PCs, unique : Uniques \cup {Nil}, kind : {"op", "intr"},
                          index : Nat, interrupted : BOOLEAN, again : BOOLEAN]]
  /\ reqInflight \in Seq(Structs)
  /\ op \in [Uniques -> {"new", "queued", "read", "answered"}]
  /\ intr \in [Uniques -> {"none", "queued", "read", "done"}]

\* reqInflight lists the requests being handled, each at its inflightIndex.
InflightExact ==
  /\ \A i \in DOMAIN reqInflight :
       req[reqInflight[i]].index = i /\ req[reqInflight[i]].pc \in InTable
  /\ \A s \in Structs : req[s].pc \in InTable =>
       req[s].index \in DOMAIN reqInflight /\ reqInflight[req[s].index] = s

\* A request is cancelled only if the kernel interrupted that request: not by
\* an interrupt for another, and not by one for an earlier use of its struct.
CancelledByOwnInterrupt ==
  \A s \in Structs :
    req[s].interrupted =>
      /\ req[s].kind = "op" /\ req[s].unique # Nil
      /\ intr[req[s].unique] \in {"read", "done"}

\* An interrupt ends in the cancellation of its request, unless the request is
\* answered: a race with readRequest is not lost, and a file system that only
\* returns when it is cancelled is not left waiting.
InterruptArrives ==
  \A u \in Uniques :
    intr[u] = "queued" ~>
      \/ op[u] = "answered"
      \/ \E s \in Structs : req[s].unique = u /\ req[s].kind = "op" /\ req[s].interrupted
=============================================================================
