------------------------------ MODULE FileTable ------------------------------
(***************************************************************************)
(* The open files of package nodefs (src/nodefs/bridge.go): the table of   *)
(* file entries, its free list, the open handles of each node, the wait *)
(* group that keeps a file from being released while GETATTR borrows it,   *)
(* and the directory stream of an entry.  rawBridge.mu protects the table; *)
(* the file system is called without it.                                   *)
(*                                                                         *)
(* The kernel (external) uses a handle from the reply of OPEN until it     *)
(* sends RELEASE, sends RELEASE once, after all other requests on the      *)
(* handle are answered, and sends one READDIR at a time on a handle.       *)
(***************************************************************************)
EXTENDS OpenFiles

table == <<files, freeFiles, openFiles>>
vars == <<table, th, opened, released, streams, closed, fhs>>

Idle == [pc |-> "idle", fh |-> 0, node |-> None, file |-> None, dir |-> FALSE]

NewEntry == [file |-> None, nodeIndex |-> 0, wg |-> 0, stream |-> None]

\* NewNodeFS reserves entry 0: handle 0 means that there is none.
Init ==
  /\ files = <<NewEntry>>
  /\ freeFiles = <<>>
  /\ openFiles = [n \in Nodes |-> <<>>]
  /\ th = [t \in Threads |-> Idle]
  /\ opened = 0
  /\ released = {}
  /\ streams = 0
  /\ closed = [s \in 1..MaxStreams |-> 0]
  /\ fhs = {}

Goto(t, f) == th' = [th EXCEPT ![t] = f]

-----------------------------------------------------------------------------
TakeHandleNoPop(fh, files1) ==
  \/ /\ freeFiles # <<>>
     /\ fh = freeFiles[Len(freeFiles)]
     /\ files1 = files
     /\ UNCHANGED freeFiles
  \/ /\ freeFiles = <<>>
     /\ fh = Len(files)
     /\ files1 = Append(files, NewEntry)
     /\ UNCHANGED freeFiles

\* The handle registerFile gives out: the last one freed, or a new entry.  An
\* entry that is used again keeps its dirStream.
TakeHandle(fh, files1) ==
  \/ /\ freeFiles # <<>>
     /\ fh = freeFiles[Len(freeFiles)]
     /\ freeFiles' = SubSeq(freeFiles, 1, Len(freeFiles) - 1)
     /\ files1 = files
  \/ /\ freeFiles = <<>>
     /\ fh = Len(files)
     /\ files1 = Append(files, NewEntry)
     /\ UNCHANGED freeFiles

\* registerFile; the reply gives the kernel the handle.
RegisterFile(n, f, dir) ==
  \E fh \in 0..Len(files), files1 \in {files, Append(files, NewEntry)} :
    /\ TakeHandle(fh, files1)
    /\ files' = [files1 EXCEPT ![fh + 1].file = f,
                               ![fh + 1].nodeIndex = Len(openFiles[n])]
    /\ openFiles' = [openFiles EXCEPT ![n] = Append(@, fh)]
    /\ fhs' = fhs \cup {[fh |-> fh, node |-> n, file |-> f, dir |-> dir]}

\* The file system opened a file: Open, or Create through addNewChild.  When
\* it gives no FileHandle the reply has handle 0, nothing changes, and
\* RELEASE of handle 0 returns at once.
Open(n) ==
  /\ opened < MaxFiles
  /\ opened' = opened + 1
  /\ RegisterFile(n, opened + 1, FALSE)
  /\ UNCHANGED <<th, released, streams, closed>>

\* A directory has a handle and no FileHandle.
OpenDir(n) ==
  /\ opened < MaxFiles
  /\ opened' = opened + 1
  /\ RegisterFile(n, None, TRUE)
  /\ UNCHANGED <<th, released, streams, closed>>

-----------------------------------------------------------------------------
\* GETATTR without a handle borrows the first open file of the node; where
\* there is none it changes nothing.
GetAttr(t, n) ==
  /\ th[t].pc = "idle"
  /\ openFiles[n] # <<>>
  /\ LET fh == openFiles[n][1] IN
       /\ files' = [files EXCEPT ![fh + 1].wg = @ + 1]
       /\ Goto(t, [Idle EXCEPT !.pc = "attr", !.fh = fh, !.file = Entry(fh).file])
  /\ UNCHANGED <<freeFiles, openFiles, opened, released, streams, closed, fhs>>

GetAttrNoDone(t) ==
  /\ th[t].pc = "attr"
  /\ Goto(t, Idle)
  /\ UNCHANGED <<table, opened, released, streams, closed, fhs>>

\* Fgetattr has returned: the deferred wg.Done.
GetAttrDone(t) ==
  /\ th[t].pc = "attr"
  /\ files' = [files EXCEPT ![th[t].fh + 1].wg = @ - 1]
  /\ Goto(t, Idle)
  /\ UNCHANGED <<freeFiles, openFiles, opened, released, streams, closed, fhs>>

\* READ, WRITE, FSYNC and the like: the file of the handle the kernel names.
Access(t, h) ==
  /\ th[t].pc = "idle"
  /\ h \in fhs
  /\ Goto(t, [Idle EXCEPT !.pc = "io", !.fh = h.fh, !.file = Entry(h.fh).file])
  /\ UNCHANGED <<table, opened, released, streams, closed, fhs>>

AccessDone(t) ==
  /\ th[t].pc = "io"
  /\ Goto(t, Idle)
  /\ UNCHANGED <<table, opened, released, streams, closed, fhs>>

-----------------------------------------------------------------------------
CloseStream(s) == IF s = None THEN closed ELSE [closed EXCEPT ![s] = @ + 1]

CloseBeforeReopen(s) == CloseStream(s)

\* READDIR and READDIRPLUS: getStream closes the stream it has and asks for a
\* new one at offset zero, or when it has none; the file system may fail.
ReadDir(h, offset, ok) ==
  /\ h \in fhs /\ h.dir
  /\ LET s == Entry(h.fh).stream IN
       \/ /\ s # None /\ offset > 0
          /\ UNCHANGED <<files, closed, streams>>
       \/ /\ s = None \/ offset = 0
          /\ streams < MaxStreams
          /\ closed' = CloseBeforeReopen(s)
          /\ files' = [files EXCEPT ![h.fh + 1].stream = IF ok THEN streams + 1 ELSE None]
          /\ streams' = IF ok THEN streams + 1 ELSE streams
  /\ UNCHANGED <<freeFiles, openFiles, th, opened, released, fhs>>

-----------------------------------------------------------------------------
\* releaseFileEntry: the last handle of the node's list takes the place of fh.
UnlinkOpen(n, fh) ==
  LET last == Len(openFiles[n])
      i == Entry(fh).nodeIndex + 1
      moved == openFiles[n][last]
  IN /\ openFiles' = [openFiles EXCEPT ![n] = SubSeq([@ EXCEPT ![i] = moved], 1, last - 1)]
     /\ files' = IF i = last THEN files
                 ELSE [files EXCEPT ![moved + 1].nodeIndex = i - 1]

\* RELEASE or RELEASEDIR: no other request is using the handle.
Release(t, h) ==
  /\ th[t].pc = "idle"
  /\ h \in fhs
  /\ \A u \in Threads : th[u].pc = "io" => th[u].fh # h.fh
  /\ fhs' = fhs \ {h}
  /\ UnlinkOpen(h.node, h.fh)
  /\ Goto(t, [pc |-> "wait", fh |-> h.fh, node |-> h.node, file |-> Entry(h.fh).file,
              dir |-> h.dir])
  /\ UNCHANGED <<freeFiles, opened, released, streams, closed>>

ReleaseAtOnce(t) ==
  LET f == th[t] IN
  /\ f.pc = "wait"
  /\ IF f.dir THEN closed' = CloseStream(Entry(f.fh).stream) /\ UNCHANGED released
     ELSE released' = released \cup {f.file} /\ UNCHANGED closed
  /\ Goto(t, [f EXCEPT !.pc = "free"])
  /\ UNCHANGED <<table, opened, streams, fhs>>

\* wg.Wait has returned: release the file, or close the stream.
ReleaseWait(t) ==
  LET f == th[t] IN
  /\ f.pc = "wait"
  /\ Entry(f.fh).wg = 0
  /\ IF f.dir THEN closed' = CloseStream(Entry(f.fh).stream) /\ UNCHANGED released
     ELSE released' = released \cup {f.file} /\ UNCHANGED closed
  /\ Goto(t, [f EXCEPT !.pc = "free"])
  /\ UNCHANGED <<table, opened, streams, fhs>>

ReleaseFree(t) ==
  /\ th[t].pc = "free"
  /\ freeFiles' = Append(freeFiles, th[t].fh)
  /\ Goto(t, Idle)
  /\ UNCHANGED <<files, openFiles, opened, released, streams, closed, fhs>>

-----------------------------------------------------------------------------
Section(t) == GetAttrDone(t) \/ AccessDone(t) \/ ReleaseWait(t) \/ ReleaseFree(t)

Next ==
  \/ \E n \in Nodes : Open(n) \/ OpenDir(n)
  \/ \E h \in fhs, offset \in {0, 1}, ok \in BOOLEAN : ReadDir(h, offset, ok)
  \/ \E t \in Threads :
       \/ \E n \in Nodes : GetAttr(t, n)
       \/ \E h \in fhs : Access(t, h) \/ Release(t, h)
       \/ Section(t)

Spec == Init /\ [][Next]_vars

\* Handlers run, and the file system's calls return.
Fairness == \A t \in Threads : WF_vars(Section(t))
-----------------------------------------------------------------------------
\* Types of the table and the handlers.
TypeOK ==
  /\ \A i \in 1..Len(files) :
       /\ files[i].file \in 1..opened \cup {None}
       /\ files[i].nodeIndex \in Nat
       /\ files[i].wg \in Nat
       /\ files[i].stream \in 1..streams \cup {None}
  /\ freeFiles \in Seq(1..(Len(files) - 1))
  /\ openFiles \in [Nodes -> Seq(1..(Len(files) - 1))]
  /\ \A t \in Threads : th[t].pc \in {"idle", "attr", "io", "wait", "free"}
  /\ opened \in 0..MaxFiles /\ streams \in 0..MaxStreams
=============================================================================
