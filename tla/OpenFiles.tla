------------------------------ MODULE OpenFiles ------------------------------
(***************************************************************************)
(* The state of the open files of package nodefs (src/nodefs/bridge.go),   *)
(* and what has to hold of it.  FileTable has the operations.              *)
(***************************************************************************)
EXTENDS Naturals, Sequences, FiniteSets

CONSTANTS
  Nodes,      \* Inodes with files
  Threads,    \* request handlers
  None,
  MaxFiles,   \* bound: files and directories opened
  MaxStreams  \* bound: directory streams made

\* What the constants have to be.
ConstantsOK == None \notin Nat /\ MaxFiles \in Nat /\ MaxStreams \in Nat

VARIABLES
  files,      \* rawBridge.files; Go index fh is TLA+ index fh + 1
  freeFiles,  \* rawBridge.freeFiles
  openFiles,  \* Inode.openFiles
  th,         \* what each handler is doing
  opened,     \* number of opens; a file's number is its FileHandle
  released,   \* FileHandles it was told to release
  streams,    \* number of streams the file system has made
  closed,     \* closed[s]: how often stream s was closed
  fhs         \* the handles the kernel has open (external)

\* b.files[fh]
Entry(fh) == files[fh + 1]
-----------------------------------------------------------------------------
\* The handle the kernel was given keeps naming the file that was opened for
\* it, and no two open handles are the same.
HandleNamesFile ==
  /\ \A h \in fhs : h.fh > 0 /\ Entry(h.fh).file = h.file
  /\ \A h, g \in fhs : h.fh = g.fh => h = g

\* A node's openFiles are its open handles, each at the index its entry
\* records: releaseFileEntry relies on nodeIndex to find it.
OpenFilesExact ==
  \A n \in Nodes :
    /\ {openFiles[n][i] : i \in DOMAIN openFiles[n]}
         = {h.fh : h \in {g \in fhs : g.node = n}}
    /\ \A i \in DOMAIN openFiles[n] : Entry(openFiles[n][i]).nodeIndex = i - 1

\* A stream that is not closed belongs to a directory that is open, or about
\* to be released.
NoStreamLeak ==
  \A s \in 1..streams : closed[s] = 0 =>
    \/ \E h \in fhs : h.dir /\ Entry(h.fh).stream = s
    \/ \E t \in Threads : th[t].pc = "wait" /\ Entry(th[t].fh).stream = s

\* A file handle stands for the file it was given out for until RELEASE, the open files
\* of a node are its handles, and no directory stream is left open.
HandleStable == HandleNamesFile /\ OpenFilesExact /\ NoStreamLeak

\* Release waits for GETATTR: a file is not released while a handler is
\* calling the file system with it.
NoUseAfterRelease ==
  \A t \in Threads : th[t].pc \in {"attr", "io"} => th[t].file \notin released

\* A directory stream is closed once.
StreamClosedOnce == \A s \in 1..streams : closed[s] <= 1

\* Release gets past the wait group, whatever GETATTRs arrive in between.
ReleaseEnds == \A t \in Threads : th[t].pc = "wait" ~> th[t].pc = "idle"
=============================================================================
