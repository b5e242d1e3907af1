--------------------------- MODULE FileTableProofs ---------------------------
(***************************************************************************)
(* The open files of nodefs, for any number of nodes, handlers, files and  *)
(* directory streams.                                                      *)
(***************************************************************************)
EXTENDS FileTable, FiniteSetTheorems, TLAPS

EntryRec == [file : Nat \cup {None}, nodeIndex : Nat, wg : Nat, stream : (1..MaxStreams) \cup {None}]
Handle == [fh : Nat, node : Nodes, file : Nat \cup {None}, dir : BOOLEAN]
Handler == [pc : {"idle", "attr", "io", "wait", "free"}, fh : Nat, node : Nodes \cup {None},
            file : Nat \cup {None}, dir : BOOLEAN]

Types ==
  /\ files \in Seq(EntryRec) /\ Len(files) >= 1
  /\ freeFiles \in Seq(Nat) /\ openFiles \in [Nodes -> Seq(Nat)]
  /\ th \in [Threads -> Handler] /\ fhs \subseteq Handle
  /\ opened \in Nat /\ streams \in 0..MaxStreams
  /\ released \subseteq 1..opened /\ closed \in [1..MaxStreams -> Nat]

\* A handler that is releasing a handle.
Busy(t) == th[t].pc \in {"wait", "free"}

\* A handle of the kernel names an entry, which has its file.
Handed ==
  /\ \A h \in fhs :
       h.fh \in 1..(Len(files) - 1) /\ Entry(h.fh).file = h.file /\ (h.file = None <=> h.dir = TRUE)
  /\ \A t \in Threads : Busy(t) => th[t].fh \in 1..(Len(files) - 1)
  /\ \A t \in Threads : th[t].pc = "wait" => (th[t].file = None <=> th[t].dir = TRUE)
  /\ \A t \in Threads : th[t].pc \in {"attr", "io"} => th[t].fh \in 1..(Len(files) - 1)

\* An entry has one handle, or one handler that releases it, or is in the free list once.
Apart ==
  /\ \A h, g \in fhs : h.fh = g.fh => h = g
  /\ \A t \in Threads : Busy(t) => \A h \in fhs : h.fh # th[t].fh
  /\ \A t, u \in Threads : Busy(t) /\ Busy(u) /\ th[t].fh = th[u].fh => t = u

FreeApart ==
  \A i \in DOMAIN freeFiles :
    /\ freeFiles[i] \in 1..(Len(files) - 1)
    /\ \A h \in fhs : h.fh # freeFiles[i]
    /\ \A t \in Threads : Busy(t) => th[t].fh # freeFiles[i]
    /\ \A j \in DOMAIN freeFiles : freeFiles[i] = freeFiles[j] => i = j

\* The open files of a node are its handles, each at its index.
Listed ==
  /\ \A n \in Nodes : \A i \in 1..Len(openFiles[n]) :
       /\ Entry(openFiles[n][i]).nodeIndex = i - 1
       /\ \E h \in fhs : h.node = n /\ h.fh = openFiles[n][i]
  /\ \A h \in fhs : \E i \in 1..Len(openFiles[h.node]) : openFiles[h.node][i] = h.fh

\* The wait group of an entry counts the handlers that borrow it.
Borrowers(fh) == {t \in Threads : th[t].pc = "attr" /\ th[t].fh = fh}
Counted ==
  \A i \in 1..Len(files) :
    IsFiniteSet(Borrowers(i - 1)) /\ files[i].wg = Cardinality(Borrowers(i - 1))

\* A file that is used has a handle, or a handler that waits to release it.
Users ==
  \A t \in Threads :
    /\ th[t].pc = "attr" =>
         \/ \E h \in fhs : h.fh = th[t].fh /\ h.file = th[t].file
         \/ \E u \in Threads : th[u].pc = "wait" /\ th[u].fh = th[t].fh /\ th[u].file = th[t].file
    /\ th[t].pc = "io" => \E h \in fhs : h.fh = th[t].fh /\ h.file = th[t].file

\* Such a file is not released, and has one handle.
Unreleased ==
  /\ \A h \in fhs : h.file \notin released /\ h.file \in (1..opened) \cup {None}
  /\ \A t \in Threads : th[t].pc = "wait" => th[t].file \notin released /\ th[t].file \in (1..opened) \cup {None}
  /\ \A h, g \in fhs : h.file = g.file /\ h.file # None => h = g
  /\ \A h \in fhs, t \in Threads : th[t].pc = "wait" /\ h.file = th[t].file => h.file = None
  /\ \A t, u \in Threads : th[t].pc = "wait" /\ th[u].pc = "wait" /\ th[t].file = th[u].file
                             /\ th[t].file # None => t = u

\* A stream that is not closed is that of a directory.
Streams ==
  \A s \in 1..streams : closed[s] = 0 =>
    \/ \E h \in fhs : h.dir = TRUE /\ Entry(h.fh).stream = s
    \/ \E t \in Threads : th[t].pc = "wait" /\ th[t].dir = TRUE /\ Entry(th[t].fh).stream = s

IInv ==
  /\ Types /\ Handed /\ Apart /\ FreeApart /\ Listed /\ Counted /\ Users /\ Unreleased /\ Streams
-----------------------------------------------------------------------------
\* An element of a sequence is replaced.
LEMMA Replaced ==
  ASSUME NEW S, NEW s \in Seq(S), NEW i \in 1..Len(s), NEW v \in S
  PROVE  /\ [s EXCEPT ![i] = v] \in Seq(S) /\ Len([s EXCEPT ![i] = v]) = Len(s)
         /\ [s EXCEPT ![i] = v][i] = v
         /\ \A j \in 1..Len(s) : j # i => [s EXCEPT ![i] = v][j] = s[j]
  OBVIOUS

\* Its last element is cut off.
LEMMA Shortened ==
  ASSUME NEW S, NEW s \in Seq(S), Len(s) >= 1
  PROVE  /\ SubSeq(s, 1, Len(s) - 1) \in Seq(S) /\ Len(SubSeq(s, 1, Len(s) - 1)) = Len(s) - 1
         /\ \A j \in 1..(Len(s) - 1) : SubSeq(s, 1, Len(s) - 1)[j] = s[j]
<1> DEFINE n == Len(s) - 1
<1>0. n \in Nat /\ s \in Seq(S) OBVIOUS
<1> HIDE DEF n
<1>1. Len(SubSeq(s, 1, n)) = n BY <1>0
<1>2. \A j \in 1..n : SubSeq(s, 1, n)[j] = s[j] BY <1>0
<1>3. SubSeq(s, 1, Len(s) - 1) \in Seq(S) OBVIOUS
<1> QED BY <1>1, <1>2, <1>3 DEF n

LEMMA InitIInv == ASSUME ConstantsOK, Init PROVE IInv
<1>1. Types BY DEF ConstantsOK, Init, Types, EntryRec, Handler, Idle, NewEntry
<1>2. \A t \in Threads : th[t].pc = "idle" BY DEF Init, Idle
<1>3. Handed /\ Apart /\ FreeApart /\ Users /\ Unreleased
  BY <1>2 DEF Init, Handed, Apart, FreeApart, Users, Unreleased, Busy
<1>4. Listed BY DEF Init, Listed
<1>5. Counted
  <2>1. \A fh : Borrowers(fh) = {} BY <1>2 DEF Borrowers
  <2>2. Len(files) = 1 /\ files[1].wg = 0 BY DEF Init, NewEntry
  <2> QED BY <2>1, <2>2, FS_EmptySet DEF Counted
<1>6. Streams BY SMTT(30) DEF Init, Streams
<1> QED BY <1>1, <1>3, <1>4, <1>5, <1>6 DEF IInv

\* What registerFile does: the entry it takes is nobody's.
Registered(n, f, dir, fh) ==
  /\ fhs' = fhs \cup {[fh |-> fh, node |-> n, file |-> f, dir |-> dir]}
  /\ openFiles' = [openFiles EXCEPT ![n] = Append(@, fh)]
  /\ files' \in Seq(EntryRec) /\ Len(files') >= Len(files) /\ fh \in 1..(Len(files') - 1)
  /\ \A k \in 1..Len(files') : k # fh + 1 => k \in 1..Len(files) /\ files'[k] = files[k]
  /\ \A x \in 1..(Len(files) - 1) : x # fh => files'[x + 1] = files[x + 1] /\ x \in 1..(Len(files') - 1)
  /\ files'[fh + 1].file = f /\ files'[fh + 1].nodeIndex = Len(openFiles[n])
  /\ \/ /\ fh + 1 \in 1..Len(files) /\ files'[fh + 1].wg = files[fh + 1].wg
        /\ files'[fh + 1].stream = files[fh + 1].stream
     \/ fh + 1 = Len(files) + 1 /\ files'[fh + 1].wg = 0
  /\ \A h \in fhs : h.fh # fh
  /\ \A t \in Threads : Busy(t) => th[t].fh # fh
  /\ freeFiles' \in Seq(Nat)
  /\ \A i \in DOMAIN freeFiles' :
       i \in DOMAIN freeFiles /\ freeFiles'[i] = freeFiles[i] /\ freeFiles[i] # fh

LEMMA RegisterFacts ==
  ASSUME ConstantsOK, IInv, NEW n \in Nodes, NEW f \in Nat \cup {None}, NEW dir \in BOOLEAN,
         RegisterFile(n, f, dir)
  PROVE  \E fh \in Nat : Registered(n, f, dir, fh)
<1>1. PICK fh \in 0..Len(files), files1 \in {files, Append(files, NewEntry)} :
        /\ TakeHandle(fh, files1)
        /\ files' = [files1 EXCEPT ![fh + 1].file = f, ![fh + 1].nodeIndex = Len(openFiles[n])]
        /\ openFiles' = [openFiles EXCEPT ![n] = Append(@, fh)]
        /\ fhs' = fhs \cup {[fh |-> fh, node |-> n, file |-> f, dir |-> dir]}
  BY Zenon DEF RegisterFile
<1>2. /\ files \in Seq(EntryRec) /\ Len(files) \in Nat /\ Len(files) >= 1 /\ freeFiles \in Seq(Nat)
      /\ Len(openFiles[n]) \in Nat
  BY DEF IInv, Types
<1>3. NewEntry \in EntryRec /\ NewEntry.wg = 0 BY DEF ConstantsOK, NewEntry, EntryRec
<1>4. /\ files1 \in Seq(EntryRec) /\ Len(files1) >= Len(files) /\ fh \in 1..(Len(files1) - 1)
      /\ \A k \in 1..Len(files1) : k # fh + 1 => k \in 1..Len(files) /\ files1[k] = files[k]
      /\ \/ fh + 1 \in 1..Len(files) /\ files1[fh + 1] = files[fh + 1]
         \/ fh + 1 = Len(files) + 1 /\ files1[fh + 1].wg = 0
      /\ \A h \in fhs : h.fh # fh
      /\ \A t \in Threads : Busy(t) => th[t].fh # fh
      /\ freeFiles' \in Seq(Nat)
      /\ \A i \in DOMAIN freeFiles' :
           i \in DOMAIN freeFiles /\ freeFiles'[i] = freeFiles[i] /\ freeFiles[i] # fh
  <2>1. CASE freeFiles # <<>>
    <3>1. /\ fh = freeFiles[Len(freeFiles)] /\ files1 = files
          /\ freeFiles' = SubSeq(freeFiles, 1, Len(freeFiles) - 1)
      BY <1>1, <2>1 DEF TakeHandle
    <3>2. Len(freeFiles) \in Nat /\ Len(freeFiles) \in 1..Len(freeFiles) /\ DOMAIN freeFiles = 1..Len(freeFiles) BY <1>2, <2>1
    <3>3. /\ fh \in 1..(Len(files) - 1) /\ \A h \in fhs : h.fh # fh
          /\ \A t \in Threads : Busy(t) => th[t].fh # fh
          /\ \A j \in DOMAIN freeFiles : freeFiles[j] = fh => j = Len(freeFiles)
      BY <3>1, <3>2 DEF IInv, FreeApart
    <3>4. freeFiles' \in Seq(Nat) /\ DOMAIN freeFiles' = 1..(Len(freeFiles) - 1)
          /\ \A i \in 1..(Len(freeFiles) - 1) : freeFiles'[i] = freeFiles[i]
      BY <1>2, <3>1, <3>2
    <3>5. \A i \in DOMAIN freeFiles' :
           i \in DOMAIN freeFiles /\ freeFiles'[i] = freeFiles[i] /\ freeFiles[i] # fh
      <4> SUFFICES ASSUME NEW i \in 1..(Len(freeFiles) - 1)
                   PROVE  i \in DOMAIN freeFiles /\ freeFiles'[i] = freeFiles[i] /\ freeFiles[i] # fh
        BY <3>4
      <4>2. Len(freeFiles) \in Nat BY <3>2
      <4>3. i \in 1..Len(freeFiles) /\ i # Len(freeFiles) BY <4>2
      <4>1. i \in DOMAIN freeFiles /\ i # Len(freeFiles) BY <3>2, <4>3, Zenon
      <4> QED BY <3>3, <3>4, <4>1
    <3>6. /\ files1 \in Seq(EntryRec) /\ Len(files1) >= Len(files) /\ fh \in 1..(Len(files1) - 1)
          /\ \A k \in 1..Len(files1) : k # fh + 1 => k \in 1..Len(files) /\ files1[k] = files[k]
          /\ fh + 1 \in 1..Len(files) /\ files1[fh + 1] = files[fh + 1]
      <4>1. Len(files) \in Nat /\ fh \in 1..(Len(files) - 1) BY <1>2, <3>3
      <4>2. /\ fh + 1 \in 1..Len(files) /\ Len(files) >= Len(files)
        BY <4>1
      <4> QED BY Zenon, <1>2, <3>1, <4>1, <4>2
    <3> QED BY <3>3, <3>4, <3>5, <3>6, Zenon
  <2>2. CASE freeFiles = <<>>
    <3>1. fh = Len(files) /\ files1 = Append(files, NewEntry) /\ freeFiles' = freeFiles
      BY <1>1, <2>2 DEF TakeHandle
    <3>2. /\ files1 \in Seq(EntryRec) /\ Len(files1) = Len(files) + 1 /\ files1[fh + 1] = NewEntry
          /\ \A k \in 1..Len(files) : files1[k] = files[k]
      BY <1>2, <1>3, <3>1
    <3>3. /\ \A h \in fhs : h.fh # fh
          /\ \A t \in Threads : Busy(t) => th[t].fh # fh
      BY <1>2, <3>1 DEF IInv, Handed
    <3> QED BY <1>2, <1>3, <2>2, <3>1, <3>2, <3>3
  <2> QED BY <2>1, <2>2
<1> DEFINE e == [files1[fh + 1] EXCEPT !.file = f, !.nodeIndex = Len(openFiles[n])]
<1>5. fh + 1 \in 1..Len(files1) /\ files1[fh + 1] \in EntryRec BY <1>2, <1>4
<1>6. /\ e \in EntryRec /\ e.file = f /\ e.nodeIndex = Len(openFiles[n])
      /\ e.wg = files1[fh + 1].wg /\ e.stream = files1[fh + 1].stream
  BY <1>2, <1>5, Zenon DEF EntryRec
<1>7. files' = [files1 EXCEPT ![fh + 1] = e] BY <1>1, <1>4, <1>5, Zenon
<1> HIDE DEF e
<1>8. /\ files' \in Seq(EntryRec) /\ Len(files') = Len(files1) /\ files'[fh + 1] = e
      /\ \A j \in 1..Len(files1) : j # fh + 1 => files'[j] = files1[j]
  BY <1>4, <1>5, <1>6, <1>7, Replaced
<1>9. fh \in Nat BY <1>2
<1>10. ASSUME NEW x \in 1..(Len(files) - 1), x # fh
       PROVE  files'[x + 1] = files[x + 1] /\ x \in 1..(Len(files') - 1)
  <2>1. x + 1 \in 1..Len(files1) /\ x + 1 # fh + 1 /\ x \in 1..(Len(files') - 1)
    <3>1. /\ Len(files1) >= Len(files) /\ Len(files') = Len(files1)
          /\ Len(files) \in Nat /\ Len(files1) \in Nat
      BY <1>2, <1>4, <1>8
    <3> QED BY <3>1, <1>9, <1>10
  <2> QED BY Zenon, <1>4, <1>8, <2>1
<1> WITNESS fh \in Nat
<1> QED BY <1>1, <1>4, <1>6, <1>8, <1>10, Zenon DEF Registered

\* A file or a directory is opened.
LEMMA RegisterIInv ==
  ASSUME ConstantsOK, IInv, NEW n \in Nodes, NEW f \in {opened + 1, None}, NEW dir \in BOOLEAN,
         f = None <=> dir = TRUE, RegisterFile(n, f, dir),
         opened' = opened + 1, UNCHANGED <<th, released, streams, closed>>
  PROVE  IInv'
<1>0. f \in Nat \cup {None} /\ opened \in Nat /\ None \notin Nat BY DEF IInv, Types, ConstantsOK
<1>1. PICK fh \in Nat : Registered(n, f, dir, fh)
  BY <1>0, RegisterFacts
<1> USE DEF Registered
<1> DEFINE new == [fh |-> fh, node |-> n, file |-> f, dir |-> dir]
<1>2. new \in Handle /\ new.fh = fh /\ new.node = n /\ new.file = f /\ new.dir = dir
  BY <1>0 DEF Handle
<1>3. fhs' = fhs \cup {new} BY <1>1
<1> HIDE DEF new
<1>4. /\ files \in Seq(EntryRec) /\ Len(files) \in Nat /\ Len(files) >= 1 /\ Len(files') \in Nat
      /\ fhs \subseteq Handle /\ openFiles \in [Nodes -> Seq(Nat)] /\ th \in [Threads -> Handler]
      /\ streams \in 0..MaxStreams /\ MaxStreams \in Nat
  <2>1. /\ files \in Seq(EntryRec) /\ files' \in Seq(EntryRec) /\ Len(files) >= 1
        /\ fhs \subseteq Handle /\ openFiles \in [Nodes -> Seq(Nat)] /\ th \in [Threads -> Handler]
        /\ streams \in 0..MaxStreams /\ MaxStreams \in Nat
    BY Zenon, <1>1 DEF IInv, Types, ConstantsOK
  <2>2. Len(files) \in Nat /\ Len(files') \in Nat BY <2>1
  <2> QED BY Zenon, <2>1, <2>2
<1>5. Types'
  <2>1. openFiles' \in [Nodes -> Seq(Nat)] BY <1>1, <1>4
  <2>2. released \subseteq 1..(opened + 1) BY <1>0 DEF IInv, Types
  <2>3. fhs' \subseteq Handle BY Zenon, <1>2, <1>3, <1>4
  <2>4. files' \in Seq(EntryRec) /\ Len(files') >= 1 /\ freeFiles' \in Seq(Nat) BY <1>1, <1>4
  <2>5. opened' \in Nat BY <1>0
  <2>6. released' \subseteq 1..opened' BY Zenon, <2>2
  <2> QED BY Zenon, <2>1, <2>3, <2>4, <2>5, <2>6 DEF IInv, Types
<1>6. \A t \in Threads : Busy(t)' <=> Busy(t) BY DEF Busy
<1>7. \A h \in fhs : h.fh \in 1..(Len(files) - 1) /\ files'[h.fh + 1] = files[h.fh + 1]
  BY <1>1, <1>4, Zenon DEF IInv, Handed, Handle
<1>8. Handed'
  <2>1. ASSUME NEW h \in fhs'
        PROVE  h.fh \in 1..(Len(files') - 1) /\ files'[h.fh + 1].file = h.file /\ (h.file = None <=> h.dir = TRUE)
    <3>1. CASE h = new BY Zenon, <1>1, <1>2, <3>1
    <3>2. CASE h \in fhs BY <1>1, <1>7, <3>2, ZenonT(40) DEF IInv, Handed, Entry
    <3> QED BY <1>3, <3>1, <3>2, Zenon
  <2>2. \A k \in 1..(Len(files) - 1) : k \in 1..(Len(files') - 1) BY <1>1, <1>4
  <2> QED BY <1>6, <2>1, <2>2, Zenon DEF IInv, Handed, Entry
<1>9. Apart' BY ZenonT(60), <1>1, <1>2, <1>3, <1>6 DEF IInv, Apart
<1>10. FreeApart'
  <2>1. \A k \in 1..(Len(files) - 1) : k \in 1..(Len(files') - 1) BY <1>1, <1>4
  <2> SUFFICES ASSUME NEW i \in DOMAIN freeFiles'
               PROVE  /\ freeFiles'[i] \in 1..(Len(files') - 1)
                      /\ \A h \in fhs' : h.fh # freeFiles'[i]
                      /\ \A t \in Threads : Busy(t) => th[t].fh # freeFiles'[i]
                      /\ \A j \in DOMAIN freeFiles' : freeFiles'[i] = freeFiles'[j] => i = j
    BY <1>6 DEF FreeApart
  <2>2. i \in DOMAIN freeFiles /\ freeFiles'[i] = freeFiles[i] /\ freeFiles[i] # fh BY <1>1
  <2>3. \A h \in fhs' : h.fh # freeFiles'[i] BY Zenon, <1>2, <1>3, <2>2 DEF IInv, FreeApart
  <2>4. \A j \in DOMAIN freeFiles' : freeFiles'[i] = freeFiles'[j] => i = j
    BY <1>1, <2>2 DEF IInv, FreeApart
  <2> QED BY Zenon, <2>1, <2>2, <2>3, <2>4 DEF IInv, FreeApart
<1>11. Listed'
  <2>1. /\ Len(openFiles'[n]) = Len(openFiles[n]) + 1 /\ Len(openFiles[n]) \in Nat
        /\ openFiles'[n][Len(openFiles[n]) + 1] = fh
        /\ \A i \in 1..Len(openFiles[n]) : openFiles'[n][i] = openFiles[n][i]
        /\ \A m \in Nodes : m # n => openFiles'[m] = openFiles[m]
    BY SMTT(30), <1>1, <1>4
  <2>2. ASSUME NEW m \in Nodes, NEW i \in 1..Len(openFiles[m])
        PROVE  /\ openFiles'[m][i] = openFiles[m][i] /\ files'[openFiles[m][i] + 1].nodeIndex = i - 1
               /\ \E h \in fhs' : h.node = m /\ h.fh = openFiles[m][i]
    <3>1. PICK h \in fhs : h.node = m /\ h.fh = openFiles[m][i] BY DEF IInv, Listed
    <3>2. files[openFiles[m][i] + 1].nodeIndex = i - 1 BY DEF IInv, Listed, Entry
    <3> QED BY <1>3, <1>7, <2>1, <3>1, <3>2, Zenon
  <2>3. ASSUME NEW m \in Nodes, NEW i \in 1..Len(openFiles'[m])
        PROVE  /\ files'[openFiles'[m][i] + 1].nodeIndex = i - 1
               /\ \E h \in fhs' : h.node = m /\ h.fh = openFiles'[m][i]
    <3>1. CASE i \in 1..Len(openFiles[m])
      <4>1. /\ openFiles'[m][i] = openFiles[m][i] /\ files'[openFiles[m][i] + 1].nodeIndex = i - 1
            /\ \E h \in fhs' : h.node = m /\ h.fh = openFiles[m][i]
        BY Zenon, <2>2, <3>1
      <4> QED BY <4>1
    <3>2. CASE i \notin 1..Len(openFiles[m])
      <4>0. m = n
        <5>1. m # n => openFiles'[m] = openFiles[m] BY Zenon, <2>1
        <5> QED BY <3>2, <5>1
      <4>1. m = n /\ i = Len(openFiles[n]) + 1 BY <2>1, <3>2, <4>0
      <4>2. openFiles'[m][i] = fh /\ files'[fh + 1].nodeIndex = Len(openFiles[n]) BY Zenon, <1>1, <2>1, <4>1
      <4>3. Len(openFiles[n]) = i - 1 BY <2>1, <4>1
      <4> QED BY Zenon, <1>2, <1>3, <4>1, <4>2, <4>3
    <3> QED BY Zenon, <3>1, <3>2
  <2>4. ASSUME NEW h \in fhs'
        PROVE  \E i \in 1..Len(openFiles'[h.node]) : openFiles'[h.node][i] = h.fh
    <3>1. CASE h = new
      <4>1. Len(openFiles[n]) + 1 \in 1..Len(openFiles'[n]) BY <2>1
      <4> QED BY ZenonT(60), <1>2, <2>1, <3>1, <4>1
    <3>2. CASE h \in fhs
      <4>1. PICK i \in 1..Len(openFiles[h.node]) : openFiles[h.node][i] = h.fh
        BY <3>2 DEF IInv, Listed
      <4>2. h.node \in Nodes BY <1>4, <3>2 DEF Handle
      <4>3. i \in 1..Len(openFiles'[h.node]) BY <2>1, <4>2
      <4> QED BY Zenon, <2>2, <4>1, <4>2, <4>3
    <3> QED BY <1>3, <3>1, <3>2
  <2> QED BY Zenon, <2>3, <2>4 DEF Listed, Entry
<1>12. Counted'
  <2>1. \A x : Borrowers(x)' = Borrowers(x) BY DEF Borrowers
  <2> SUFFICES ASSUME NEW i \in 1..Len(files')
               PROVE  IsFiniteSet(Borrowers(i - 1)) /\ files'[i].wg = Cardinality(Borrowers(i - 1))
    BY <2>1 DEF Counted
  <2>2. CASE i \in 1..Len(files) /\ files'[i].wg = files[i].wg BY <2>2 DEF IInv, Counted
  <2>3. CASE i = Len(files) + 1 /\ files'[i].wg = 0
    <3>1. Borrowers(i - 1) = {} BY <1>4, <2>3 DEF Borrowers, IInv, Handed
    <3> QED BY <2>3, <3>1, FS_EmptySet, Zenon
  <2> QED BY Zenon, <1>1, <1>4, <2>2, <2>3
<1>13. Users' BY Zenon, <1>3 DEF IInv, Users
<1>14. Unreleased'
  <2>1. \A x \in released : x \in Nat /\ x <= opened BY <1>0 DEF IInv, Types
  <2>2. f \notin released /\ f \in (1..(opened + 1)) \cup {None} BY <1>0, <2>1
  <2>3. /\ \A h \in fhs : h.file \notin released /\ h.file \in (1..opened) \cup {None} /\ (h.file # None => h.file # f)
        /\ \A t \in Threads : th[t].pc = "wait" =>
             th[t].file \notin released /\ th[t].file \in (1..opened) \cup {None} /\ (th[t].file # None => th[t].file # f)
    BY <1>0 DEF IInv, Unreleased
  <2>4. \A x \in (1..opened) \cup {None} : x \in (1..(opened + 1)) \cup {None} BY <1>0
  <2> QED BY ZenonT(60), <1>2, <1>3, <2>2, <2>3, <2>4 DEF IInv, Unreleased
<1>15. Streams'
  <2> SUFFICES ASSUME NEW s \in 1..streams, closed[s] = 0
               PROVE  \/ \E h \in fhs' : h.dir = TRUE /\ files'[h.fh + 1].stream = s
                      \/ \E t \in Threads : th[t].pc = "wait" /\ th[t].dir = TRUE /\ files'[th[t].fh + 1].stream = s
    BY Zenon DEF Streams, Entry
  <2>1. CASE \E h \in fhs : h.dir = TRUE /\ files[h.fh + 1].stream = s
    BY Zenon, <1>3, <1>7, <2>1
  <2>2. CASE \E t \in Threads : th[t].pc = "wait" /\ th[t].dir = TRUE /\ files[th[t].fh + 1].stream = s
    <3>1. PICK t \in Threads : th[t].pc = "wait" /\ th[t].dir = TRUE /\ files[th[t].fh + 1].stream = s BY Zenon, <2>2
    <3>2. Busy(t) /\ th[t].fh \in 1..(Len(files) - 1) BY <3>1 DEF Busy, IInv, Handed
    <3>3. files'[th[t].fh + 1] = files[th[t].fh + 1] BY <1>1, <1>4, <3>2, Zenon
    <3> QED BY <3>1, <3>3
  <2> QED BY <2>1, <2>2, Zenon DEF IInv, Streams, Entry
<1> QED BY <1>5, <1>8, <1>9, <1>10, <1>11, <1>12, <1>13, <1>14, <1>15 DEF IInv

\* A handler begins or ends a call on a file: at most wait groups change.
LEMMA CallKeeps ==
  ASSUME ConstantsOK, IInv, NEW t \in Threads, NEW r \in Handler, ~Busy(t), r.pc \notin {"wait", "free"},
         th' = [th EXCEPT ![t] = r],
         r.pc \in {"attr", "io"} => \E h \in fhs : h.fh = r.fh /\ h.file = r.file,
         files' \in Seq(EntryRec), Len(files') = Len(files),
         \A k \in 1..Len(files) : /\ files'[k].file = files[k].file /\ files'[k].nodeIndex = files[k].nodeIndex
                                   /\ files'[k].stream = files[k].stream,
         UNCHANGED <<freeFiles, openFiles, opened, released, streams, closed, fhs>>
  PROVE  Types' /\ Handed' /\ Apart' /\ FreeApart' /\ Listed' /\ Users' /\ Unreleased' /\ Streams'
<1>1. /\ th'[t] = r /\ \A u \in Threads : u # t => th'[u] = th[u]
      /\ Len(files) \in Nat /\ Len(files) >= 1 /\ fhs \subseteq Handle
  BY DEF IInv, Types
<1>2. /\ \A u \in Threads : Busy(u)' <=> Busy(u)
      /\ \A u \in Threads : Busy(u) => th'[u] = th[u] /\ u # t
      /\ \A u \in Threads : th'[u].pc = "wait" <=> th[u].pc = "wait"
  BY <1>1 DEF Busy
<1>3. Types' BY DEF IInv, Types
<1>4. \A x \in 1..(Len(files) - 1) :
        /\ files'[x + 1].file = files[x + 1].file /\ files'[x + 1].nodeIndex = files[x + 1].nodeIndex
        /\ files'[x + 1].stream = files[x + 1].stream
  BY <1>1
<1>5. \A h \in fhs : h.fh \in 1..(Len(files) - 1) BY Zenon DEF IInv, Handed
<1>6. Handed'
  <2>1. \A h \in fhs :
       h.fh \in 1..(Len(files) - 1) /\ files'[h.fh + 1].file = h.file /\ (h.file = None <=> h.dir = TRUE)
    BY ZenonT(60), <1>4, <1>5 DEF IInv, Handed, Entry
  <2>2. \A u \in Threads : Busy(u)' => th'[u].fh \in 1..(Len(files) - 1) BY <1>2 DEF IInv, Handed
  <2>3. \A u \in Threads : th'[u].pc = "wait" => (th'[u].file = None <=> th'[u].dir = TRUE)
    BY <1>1, <1>2 DEF IInv, Handed
  <2>4. \A u \in Threads : th'[u].pc \in {"attr", "io"} => th'[u].fh \in 1..(Len(files) - 1)
    BY <1>1, <1>5 DEF IInv, Handed
  <2> QED BY <2>1, <2>2, <2>3, <2>4 DEF Handed, Entry
<1>7. Apart' BY <1>2 DEF IInv, Apart
<1>8. FreeApart' BY <1>2 DEF IInv, FreeApart
<1>9. Listed'
  <2>1. ASSUME NEW n \in Nodes, NEW i \in 1..Len(openFiles[n])
        PROVE  files'[openFiles[n][i] + 1].nodeIndex = i - 1
    <3>1. PICK h \in fhs : h.fh = openFiles[n][i] BY Zenon DEF IInv, Listed
    <3>2. files[openFiles[n][i] + 1].nodeIndex = i - 1 BY Zenon DEF IInv, Listed, Entry
    <3> QED BY Zenon, <1>4, <1>5, <3>1, <3>2
  <2> QED BY ZenonT(60), <2>1 DEF IInv, Listed, Entry
<1>10. Users'
  <2> SUFFICES ASSUME NEW u \in Threads
      PROVE  /\ th'[u].pc = "attr" =>
                 \/ \E h \in fhs : h.fh = th'[u].fh /\ h.file = th'[u].file
                 \/ \E v \in Threads : th'[v].pc = "wait" /\ th'[v].fh = th'[u].fh /\ th'[v].file = th'[u].file
             /\ th'[u].pc = "io" => \E h \in fhs : h.fh = th'[u].fh /\ h.file = th'[u].file
    BY Zenon DEF Users
  <2>1. CASE u = t BY Zenon, <1>1, <2>1
  <2>2. CASE u # t
    <3>1. \A v \in Threads : th[v].pc = "wait" => th'[v] = th[v] BY Zenon, <1>2 DEF Busy
    <3> QED BY <1>1, <2>2, <3>1 DEF IInv, Users
  <2> QED BY Zenon, <2>1, <2>2
<1>11. Unreleased'
  <2>1. \A v \in Threads : th'[v].pc = "wait" => th'[v] = th[v] BY <1>2 DEF Busy
  <2> QED BY <2>1 DEF IInv, Unreleased
<1>12. Streams'
  <2> SUFFICES ASSUME NEW s \in 1..streams, closed[s] = 0
               PROVE  \/ \E h \in fhs : h.dir = TRUE /\ files'[h.fh + 1].stream = s
                      \/ \E u \in Threads : th'[u].pc = "wait" /\ th'[u].dir = TRUE /\ files'[th'[u].fh + 1].stream = s
    BY Zenon DEF Streams, Entry
  <2>1. CASE \E h \in fhs : h.dir = TRUE /\ files[h.fh + 1].stream = s
    BY SMTT(30), <1>4, <1>5, <2>1
  <2>2. CASE \E u \in Threads : th[u].pc = "wait" /\ th[u].dir = TRUE /\ files[th[u].fh + 1].stream = s
    <3>1. PICK u \in Threads : th[u].pc = "wait" /\ th[u].dir = TRUE /\ files[th[u].fh + 1].stream = s BY Zenon, <2>2
    <3>2. Busy(u) /\ th[u].fh \in 1..(Len(files) - 1) BY Zenon, <3>1 DEF Busy, IInv, Handed
    <3>3. files'[th[u].fh + 1].stream = s BY Zenon, <1>4, <3>1, <3>2
    <3> QED BY Zenon, <1>2, <3>1, <3>2, <3>3
  <2> QED BY <2>1, <2>2, Zenon DEF IInv, Streams, Entry
<1> QED BY Zenon, <1>3, <1>6, <1>7, <1>8, <1>9, <1>10, <1>11, <1>12

\* The wait group of an entry is changed.
LEMMA Waits ==
  ASSUME IInv, NEW fh \in 1..(Len(files) - 1), NEW w \in Nat,
         files' = [files EXCEPT ![fh + 1].wg = w]
  PROVE  /\ files' \in Seq(EntryRec) /\ Len(files') = Len(files) /\ files'[fh + 1].wg = w
         /\ \A k \in 1..Len(files) :
              /\ files'[k].file = files[k].file /\ files'[k].nodeIndex = files[k].nodeIndex
              /\ files'[k].stream = files[k].stream
              /\ k # fh + 1 => files'[k].wg = files[k].wg
<1> DEFINE e == [files[fh + 1] EXCEPT !.wg = w]
<1>1. files \in Seq(EntryRec) /\ fh + 1 \in 1..Len(files) BY DEF IInv, Types
<1>2. files[fh + 1] \in EntryRec BY <1>1
<1>3. /\ e \in EntryRec /\ e.wg = w /\ e.file = files[fh + 1].file
      /\ e.nodeIndex = files[fh + 1].nodeIndex /\ e.stream = files[fh + 1].stream
  BY Zenon, <1>2 DEF EntryRec
<1>4. files' = [files EXCEPT ![fh + 1] = e] BY <1>1
<1> HIDE DEF e
<1>5. /\ files' \in Seq(EntryRec) /\ Len(files') = Len(files) /\ files'[fh + 1] = e
      /\ \A j \in 1..Len(files) : j # fh + 1 => files'[j] = files[j]
  BY <1>1, <1>3, <1>4, Replaced
<1> QED BY <1>3, <1>5

\* GETATTR borrows the first open file of a node.
LEMMA GetAttrIInv == ASSUME ConstantsOK, IInv, NEW t \in Threads, NEW n \in Nodes, GetAttr(t, n) PROVE IInv'
<1> DEFINE fh == openFiles[n][1]
           r == [Idle EXCEPT !.pc = "attr", !.fh = fh, !.file = Entry(fh).file]
<1>1. /\ th[t].pc = "idle" /\ openFiles[n] # <<>>
      /\ files' = [files EXCEPT ![fh + 1].wg = @ + 1] /\ th' = [th EXCEPT ![t] = r]
      /\ UNCHANGED <<freeFiles, openFiles, opened, released, streams, closed, fhs>>
  BY DEF GetAttr, Goto
<1>2. 1 \in 1..Len(openFiles[n])
  <2>1. openFiles[n] \in Seq(Nat) BY DEF IInv, Types
  <2> QED BY <1>1, <2>1
<1>3. PICK h \in fhs : h.node = n /\ h.fh = fh BY Zenon, <1>2 DEF IInv, Listed
<1>4. h.fh \in 1..(Len(files) - 1) /\ h.file = Entry(fh).file /\ h \in Handle
  BY <1>3 DEF IInv, Handed, Types
<1>5. r \in Handler /\ r.pc = "attr" /\ r.fh = h.fh /\ r.file = h.file
  BY <1>3, <1>4, Zenon DEF Idle, Handler, Handle, ConstantsOK
<1>6. files[h.fh + 1] \in EntryRec /\ files[h.fh + 1].wg + 1 \in Nat
  <2>1. files \in Seq(EntryRec) /\ h.fh + 1 \in 1..Len(files) BY <1>4 DEF IInv, Types
  <2>2. files[h.fh + 1] \in EntryRec BY <2>1
  <2> QED BY <2>2 DEF EntryRec
<1>7. files' = [files EXCEPT ![h.fh + 1].wg = files[h.fh + 1].wg + 1] BY <1>1, <1>3
<1> HIDE DEF r, fh
<1>8. /\ files' \in Seq(EntryRec) /\ Len(files') = Len(files) /\ files'[h.fh + 1].wg = files[h.fh + 1].wg + 1
      /\ \A k \in 1..Len(files) :
              /\ files'[k].file = files[k].file /\ files'[k].nodeIndex = files[k].nodeIndex
              /\ files'[k].stream = files[k].stream
              /\ k # h.fh + 1 => files'[k].wg = files[k].wg
  BY <1>4, <1>6, <1>7, Waits, Zenon
<1>9. ~Busy(t) BY <1>1 DEF Busy
<1>10. Types' /\ Handed' /\ Apart' /\ FreeApart' /\ Listed' /\ Users' /\ Unreleased' /\ Streams'
  BY <1>1, <1>5, <1>8, <1>9, CallKeeps, Zenon
<1>11. Counted'
  <2>1. th'[t] = r /\ \A u \in Threads : u # t => th'[u] = th[u] BY <1>1 DEF IInv, Types
  <2>2. \A x : x # h.fh => Borrowers(x)' = Borrowers(x) BY <1>1, <1>5, <2>1 DEF Borrowers
  <2>3. Borrowers(h.fh)' = Borrowers(h.fh) \cup {t} /\ t \notin Borrowers(h.fh)
    BY Zenon, <1>1, <1>5, <2>1 DEF Borrowers
  <2> SUFFICES ASSUME NEW i \in 1..Len(files)
               PROVE  IsFiniteSet(Borrowers(i - 1)') /\ files'[i].wg = Cardinality(Borrowers(i - 1)')
    BY <1>8 DEF Counted
  <2>4. IsFiniteSet(Borrowers(i - 1)) /\ files[i].wg = Cardinality(Borrowers(i - 1)) BY DEF IInv, Counted
  <2>5. CASE i = h.fh + 1
    <3>1. i - 1 = h.fh BY <1>4, <2>5
    <3>2. /\ IsFiniteSet(Borrowers(h.fh) \cup {t})
          /\ Cardinality(Borrowers(h.fh) \cup {t}) = Cardinality(Borrowers(h.fh)) + 1
      BY Zenon, <2>3, <2>4, <3>1, FS_AddElement
    <3> QED BY <1>8, <2>3, <2>4, <2>5, <3>1, <3>2, Zenon
  <2>6. CASE i # h.fh + 1
    <3>1. i - 1 # h.fh BY <1>4, <2>6
    <3> QED BY Zenon, <1>8, <2>2, <2>4, <2>6, <3>1
  <2> QED BY <2>5, <2>6
<1> QED BY <1>10, <1>11 DEF IInv

\* GETATTR gives the file back.
LEMMA GetAttrDoneIInv == ASSUME ConstantsOK, IInv, NEW t \in Threads, GetAttrDone(t) PROVE IInv'
<1>0. PICK fh \in Nat : fh = th[t].fh BY DEF IInv, Types, Handler
<1>1. /\ th[t].pc = "attr" /\ th' = [th EXCEPT ![t] = Idle]
      /\ files' = [files EXCEPT ![fh + 1].wg = files[fh + 1].wg - 1]
      /\ UNCHANGED <<freeFiles, openFiles, opened, released, streams, closed, fhs>>
  BY <1>0 DEF GetAttrDone, Goto
<1>2. fh \in 1..(Len(files) - 1) /\ Len(files) \in Nat BY <1>0, <1>1 DEF IInv, Handed, Types
<1>3. Idle \in Handler /\ Idle.pc = "idle" BY DEF Idle, Handler, ConstantsOK
<1>4. fh + 1 \in 1..Len(files) /\ (fh + 1) - 1 = fh BY <1>2
<1>5. IsFiniteSet(Borrowers(fh)) /\ files[fh + 1].wg = Cardinality(Borrowers(fh)) BY <1>4 DEF IInv, Counted
<1>6. t \in Borrowers(fh) BY Zenon, <1>0, <1>1 DEF Borrowers
<1>7. /\ IsFiniteSet(Borrowers(fh) \ {t}) /\ Cardinality(Borrowers(fh) \ {t}) \in Nat
      /\ Cardinality(Borrowers(fh) \ {t}) = files[fh + 1].wg - 1
  BY <1>5, <1>6, FS_RemoveElement, FS_CardinalityType
<1>8. /\ files' \in Seq(EntryRec) /\ Len(files') = Len(files) /\ files'[fh + 1].wg = files[fh + 1].wg - 1
      /\ \A k \in 1..Len(files) :
              /\ files'[k].file = files[k].file /\ files'[k].nodeIndex = files[k].nodeIndex
              /\ files'[k].stream = files[k].stream
              /\ k # fh + 1 => files'[k].wg = files[k].wg
  BY <1>1, <1>2, <1>7, Waits, Zenon
<1>9. ~Busy(t) BY <1>1 DEF Busy
<1>10. Types' /\ Handed' /\ Apart' /\ FreeApart' /\ Listed' /\ Users' /\ Unreleased' /\ Streams'
  BY <1>1, <1>3, <1>8, <1>9, CallKeeps, Zenon
<1>11. Counted'
  <2>1. th'[t] = Idle /\ \A u \in Threads : u # t => th'[u] = th[u] BY <1>1 DEF IInv, Types
  <2>2. \A x : x # fh => Borrowers(x)' = Borrowers(x) BY Zenon, <1>0, <1>3, <2>1 DEF Borrowers
  <2>3. Borrowers(fh)' = Borrowers(fh) \ {t} BY Zenon, <1>3, <2>1 DEF Borrowers
  <2> SUFFICES ASSUME NEW i \in 1..Len(files)
               PROVE  IsFiniteSet(Borrowers(i - 1)') /\ files'[i].wg = Cardinality(Borrowers(i - 1)')
    BY <1>8 DEF Counted
  <2>4. CASE i = fh + 1
    <3>1. i - 1 = fh BY <1>2, <2>4
    <3> QED BY <1>7, <1>8, <2>3, <2>4, <3>1, Zenon
  <2>5. CASE i # fh + 1
    <3>1. i - 1 # fh BY <1>2, <2>5
    <3>2. IsFiniteSet(Borrowers(i - 1)) /\ files[i].wg = Cardinality(Borrowers(i - 1)) BY DEF IInv, Counted
    <3> QED BY Zenon, <1>8, <2>2, <2>5, <3>1, <3>2
  <2> QED BY <2>4, <2>5
<1> QED BY <1>10, <1>11 DEF IInv

\* READ, WRITE and the like.
LEMMA AccessIInv ==
  ASSUME ConstantsOK, IInv, NEW t \in Threads, NEW h \in fhs, Access(t, h) PROVE IInv'
<1> DEFINE r == [Idle EXCEPT !.pc = "io", !.fh = h.fh, !.file = Entry(h.fh).file]
<1>1. /\ th[t].pc = "idle" /\ th' = [th EXCEPT ![t] = r]
      /\ UNCHANGED <<files, freeFiles, openFiles, opened, released, streams, closed, fhs>>
  BY Zenon DEF Access, Goto, table
<1>2. h.file = Entry(h.fh).file /\ h \in Handle BY DEF IInv, Handed, Types
<1>3. r \in Handler /\ r.pc = "io" /\ r.fh = h.fh /\ r.file = h.file
  BY <1>2, Zenon DEF Idle, Handler, Handle, ConstantsOK
<1> HIDE DEF r
<1>4. files \in Seq(EntryRec) /\ ~Busy(t) BY <1>1 DEF Busy, IInv, Types
<1>5. Types' /\ Handed' /\ Apart' /\ FreeApart' /\ Listed' /\ Users' /\ Unreleased' /\ Streams'
  BY <1>1, <1>3, <1>4, CallKeeps, Zenon
<1>6. th'[t] = r /\ \A u \in Threads : u # t => th'[u] = th[u] BY Zenon, <1>1 DEF IInv, Types
<1>7. \A x : Borrowers(x)' = Borrowers(x) BY Zenon, <1>1, <1>3, <1>6 DEF Borrowers
<1>8. Counted' BY <1>1, <1>7 DEF IInv, Counted
<1> QED BY <1>5, <1>8 DEF IInv

LEMMA AccessDoneIInv == ASSUME ConstantsOK, IInv, NEW t \in Threads, AccessDone(t) PROVE IInv'
<1>1. /\ th[t].pc = "io" /\ th' = [th EXCEPT ![t] = Idle]
      /\ UNCHANGED <<files, freeFiles, openFiles, opened, released, streams, closed, fhs>>
  BY DEF AccessDone, Goto, table
<1>2. Idle \in Handler /\ Idle.pc = "idle" BY DEF Idle, Handler, ConstantsOK
<1>3. files \in Seq(EntryRec) /\ ~Busy(t) BY <1>1 DEF Busy, IInv, Types
<1>4. Types' /\ Handed' /\ Apart' /\ FreeApart' /\ Listed' /\ Users' /\ Unreleased' /\ Streams'
  BY <1>1, <1>2, <1>3, CallKeeps, Zenon
<1>5. th'[t] = Idle /\ \A u \in Threads : u # t => th'[u] = th[u] BY <1>1 DEF IInv, Types
<1>6. \A x : Borrowers(x)' = Borrowers(x) BY Zenon, <1>1, <1>2, <1>5 DEF Borrowers
<1>7. Counted' BY <1>1, <1>6 DEF IInv, Counted
<1> QED BY <1>4, <1>7 DEF IInv

\* READDIR: a stream that is replaced is closed.
LEMMA ReadDirIInv ==
  ASSUME ConstantsOK, IInv, NEW h \in fhs, NEW offset \in {0, 1}, NEW ok \in BOOLEAN,
         ReadDir(h, offset, ok)
  PROVE  IInv'
<1>1. h.dir = TRUE /\ UNCHANGED <<freeFiles, openFiles, th, opened, released, fhs>>
  <2>1. h \in Handle BY DEF IInv, Types
  <2> QED BY <2>1 DEF ReadDir, Handle
<1>2. CASE UNCHANGED <<files, closed, streams>>
  <2>1. Types' /\ Handed' /\ Apart' /\ FreeApart'
    BY Zenon, <1>1, <1>2 DEF IInv, Types, Handed, Apart, FreeApart, Entry, Busy
  <2>2. Listed' /\ Unreleased'
    <3>1. Listed' BY ZenonT(30), <1>1, <1>2 DEF IInv, Listed, Entry
    <3>2. Unreleased' BY ZenonT(30), <1>1, <1>2 DEF IInv, Unreleased
    <3> QED BY Zenon, <3>1, <3>2
  <2>4. Users' BY <1>1, <1>2 DEF IInv, Users
  <2>3. Counted' BY <1>1, <1>2, ZenonT(30) DEF IInv, Counted, Borrowers
  <2>5. Streams' BY <1>1, <1>2, ZenonT(30) DEF IInv, Streams, Entry
  <2> QED BY Zenon, <2>1, <2>2, <2>3, <2>4, <2>5 DEF IInv
<1>3. CASE ~UNCHANGED <<files, closed, streams>>
  <2> DEFINE s == files[h.fh + 1].stream
             s1 == IF ok THEN streams + 1 ELSE None
             e == [files[h.fh + 1] EXCEPT !.stream = s1]
  <2>1. /\ streams < MaxStreams /\ closed' = IF s = None THEN closed ELSE [closed EXCEPT ![s] = @ + 1]
        /\ files' = [files EXCEPT ![h.fh + 1].stream = s1]
        /\ streams' = IF ok THEN streams + 1 ELSE streams
    BY Zenon, <1>3 DEF ReadDir, CloseBeforeReopen, CloseStream, Entry
  <2>2. /\ files \in Seq(EntryRec) /\ Len(files) \in Nat /\ h.fh \in 1..(Len(files) - 1)
        /\ h.fh + 1 \in 1..Len(files) /\ streams \in 0..MaxStreams /\ MaxStreams \in Nat
        /\ closed \in [1..MaxStreams -> Nat] /\ None \notin Nat
    <3>1. /\ files \in Seq(EntryRec) /\ h.fh \in 1..(Len(files) - 1)
          /\ streams \in 0..MaxStreams /\ MaxStreams \in Nat
          /\ closed \in [1..MaxStreams -> Nat] /\ None \notin Nat
      BY Zenon DEF IInv, Types, Handed, ConstantsOK
    <3>2. Len(files) \in Nat /\ h.fh + 1 \in 1..Len(files) BY <3>1
    <3> QED BY Zenon, <3>1, <3>2
  <2>3. files[h.fh + 1] \in EntryRec BY <2>2
  <2>4. s \in (1..MaxStreams) \cup {None} /\ s1 \in (1..MaxStreams) \cup {None}
    <3>1. s \in (1..MaxStreams) \cup {None} BY <2>3 DEF EntryRec
    <3>2. streams + 1 \in 1..MaxStreams BY <2>1, <2>2
    <3> QED BY <3>1, <3>2
  <2>5. /\ e \in EntryRec /\ e.stream = s1 /\ e.file = files[h.fh + 1].file
        /\ e.nodeIndex = files[h.fh + 1].nodeIndex /\ e.wg = files[h.fh + 1].wg
    BY <2>3, <2>4 DEF EntryRec
  <2>6. files' = [files EXCEPT ![h.fh + 1] = e] BY <2>1, <2>2
  <2>7. s1 = streams + 1 \/ (s1 = None /\ streams' = streams) BY <2>1
  <2>8. s1 = streams + 1 => streams' = streams + 1 BY <2>1, <2>2
  <2> HIDE DEF e, s1
  <2>9. /\ files' \in Seq(EntryRec) /\ Len(files') = Len(files) /\ files'[h.fh + 1] = e
        /\ \A j \in 1..Len(files) : j # h.fh + 1 => files'[j] = files[j]
    BY <2>2, <2>5, <2>6, Replaced
  <2>10. \A k \in 1..Len(files) : /\ files'[k].file = files[k].file /\ files'[k].nodeIndex = files[k].nodeIndex
                                   /\ files'[k].wg = files[k].wg
    BY <2>5, <2>9
  <2>11. \A x \in 1..(Len(files) - 1) :
           /\ files'[x + 1].file = files[x + 1].file /\ files'[x + 1].nodeIndex = files[x + 1].nodeIndex
           /\ x # h.fh => files'[x + 1].stream = files[x + 1].stream
    <3> SUFFICES ASSUME NEW x \in 1..(Len(files) - 1)
                 PROVE  /\ files'[x + 1].file = files[x + 1].file /\ files'[x + 1].nodeIndex = files[x + 1].nodeIndex
                        /\ x # h.fh => files'[x + 1].stream = files[x + 1].stream
      OBVIOUS
    <3>1. x + 1 \in 1..Len(files) /\ (x # h.fh => x + 1 # h.fh + 1) BY <2>2
    <3> QED BY Zenon, <2>9, <2>10, <3>1
  <2>12. closed' \in [1..MaxStreams -> Nat] /\ streams' \in 0..MaxStreams /\ streams' >= streams
         /\ \A x \in 1..MaxStreams : closed'[x] = 0 => closed[x] = 0 /\ x # s
    <3>1. streams' \in 0..MaxStreams /\ streams' >= streams BY <2>1, <2>2
    <3>2. CASE s = None
      <4>1. closed' = closed BY <2>1, <3>2
      <4>2. \A x \in 1..MaxStreams : x # s BY SMTT(30), <2>2, <3>2
      <4> QED BY Zenon, <2>2, <3>1, <4>1, <4>2
    <3>3. CASE s # None
      <4>1. closed' = [closed EXCEPT ![s] = closed[s] + 1] /\ s \in 1..MaxStreams BY Zenon, <2>1, <2>4, <3>3
      <4> HIDE DEF s
      <4>2. closed[s] \in Nat BY <2>2, <4>1
      <4>3. closed[s] + 1 \in Nat BY <4>2
      <4>5. closed' \in [1..MaxStreams -> Nat] BY Zenon, <2>2, <4>1, <4>3
      <4>4. closed'[s] = closed[s] + 1 /\ \A x \in 1..MaxStreams : x # s => closed'[x] = closed[x]
        BY <2>2, <4>1
      <4>6. closed'[s] # 0 BY <4>2, <4>4
      <4> QED BY Zenon, <3>1, <4>4, <4>5, <4>6
    <3> QED BY Zenon, <3>2, <3>3
  <2>13. Types' BY Zenon, <1>1, <2>2, <2>9, <2>12 DEF IInv, Types
  <2>14. \A g \in fhs : g.fh \in 1..(Len(files) - 1) BY Zenon DEF IInv, Handed
  <2>15. Handed'
    <3>1. \A g \in fhs : files'[g.fh + 1].file = g.file BY ZenonT(60), <2>11, <2>14 DEF IInv, Handed, Entry
    <3> QED BY Zenon, <1>1, <2>9, <3>1 DEF IInv, Handed, Entry, Busy
  <2>16. Apart' /\ FreeApart' BY <1>1, <2>9 DEF IInv, Apart, FreeApart, Busy
  <2>17. Listed'
    <3>1. ASSUME NEW n \in Nodes, NEW i \in 1..Len(openFiles[n])
          PROVE  files'[openFiles[n][i] + 1].nodeIndex = i - 1
      <4>1. PICK g \in fhs : g.fh = openFiles[n][i] BY DEF IInv, Listed
      <4>2. files[openFiles[n][i] + 1].nodeIndex = i - 1 BY DEF IInv, Listed, Entry
      <4> QED BY <2>11, <2>14, <4>1, <4>2, Zenon
    <3> QED BY <1>1, <3>1, ZenonT(40) DEF IInv, Listed, Entry
  <2>18. Counted'
    <3>1. \A x : Borrowers(x)' = Borrowers(x) BY Zenon, <1>1 DEF Borrowers
    <3> QED BY Zenon, <2>9, <2>10, <3>1 DEF IInv, Counted
  <2>19. Users' /\ Unreleased' BY <1>1 DEF IInv, Users, Unreleased
  <2>20. Streams'
    <3> SUFFICES ASSUME NEW x \in 1..streams', closed'[x] = 0
                 PROVE  \/ \E g \in fhs : g.dir = TRUE /\ files'[g.fh + 1].stream = x
                        \/ \E t \in Threads : th[t].pc = "wait" /\ th[t].dir = TRUE /\ files'[th[t].fh + 1].stream = x
      BY <1>1, Zenon DEF Streams, Entry
    <3>1. x \in 1..MaxStreams /\ closed[x] = 0 /\ x # s BY SMTT(30), <2>2, <2>12
    <3>2. CASE x = streams + 1
      <4>1. s1 = streams + 1 BY <2>2, <2>7, <3>2
      <4> QED BY Zenon, <1>1, <2>5, <2>9, <3>2, <4>1
    <3>3. CASE x \in 1..streams
      <4>1. CASE \E g \in fhs : g.dir = TRUE /\ files[g.fh + 1].stream = x
        <5>1. PICK g \in fhs : g.dir = TRUE /\ files[g.fh + 1].stream = x BY <4>1
        <5>2. g.fh # h.fh BY Zenon, <3>1, <5>1
        <5>3. files'[g.fh + 1].stream = x BY Zenon, <2>11, <2>14, <5>1, <5>2
        <5> QED BY Zenon, <5>1, <5>3
      <4>2. CASE \E t \in Threads : th[t].pc = "wait" /\ th[t].dir = TRUE /\ files[th[t].fh + 1].stream = x
        <5>1. PICK t \in Threads : th[t].pc = "wait" /\ th[t].dir = TRUE /\ files[th[t].fh + 1].stream = x BY Zenon, <4>2
        <5>2. th[t].fh # h.fh /\ th[t].fh \in 1..(Len(files) - 1) BY <5>1 DEF IInv, Handed, Apart, Busy
        <5>3. files'[th[t].fh + 1].stream = x BY Zenon, <2>11, <5>1, <5>2
        <5> QED BY Zenon, <1>1, <5>1, <5>3
      <4> QED BY <3>1, <3>3, <4>1, <4>2, Zenon DEF IInv, Streams, Entry
    <3>4. x = streams + 1 \/ x \in 1..streams BY SMTT(30), <2>2, <2>7, <2>8
    <3> QED BY <3>2, <3>3, <3>4, Zenon
  <2> QED BY <2>13, <2>15, <2>16, <2>17, <2>18, <2>19, <2>20 DEF IInv
<1> QED BY <1>2, <1>3

\* RELEASE takes a handle out of the open files of its node: the last one takes its place.
LEMMA UnlinkFacts ==
  ASSUME ConstantsOK, IInv, NEW h \in fhs, UnlinkOpen(h.node, h.fh)
  PROVE  /\ files' \in Seq(EntryRec) /\ Len(files') = Len(files)
         /\ \A k \in 1..Len(files) : /\ files'[k].file = files[k].file /\ files'[k].wg = files[k].wg
                                      /\ files'[k].stream = files[k].stream
         /\ openFiles' \in [Nodes -> Seq(Nat)]
         /\ \A n \in Nodes : \A i \in 1..Len(openFiles'[n]) :
               /\ files'[openFiles'[n][i] + 1].nodeIndex = i - 1
               /\ \E g \in fhs : g # h /\ g.node = n /\ g.fh = openFiles'[n][i]
         /\ \A g \in fhs : g # h => \E i \in 1..Len(openFiles'[g.node]) : openFiles'[g.node][i] = g.fh
<1> DEFINE n == h.node
           L == openFiles[n]
           last == Len(L)
           i == files[h.fh + 1].nodeIndex + 1
           moved == L[last]
           L1 == SubSeq([L EXCEPT ![i] = moved], 1, last - 1)
<1>1. /\ openFiles' = [openFiles EXCEPT ![n] = L1]
      /\ files' = IF i = last THEN files ELSE [files EXCEPT ![moved + 1].nodeIndex = i - 1]
  BY DEF UnlinkOpen, Entry
<1>2. /\ n \in Nodes /\ L \in Seq(Nat) /\ last \in Nat /\ files \in Seq(EntryRec) /\ Len(files) \in Nat
      /\ openFiles \in [Nodes -> Seq(Nat)]
  BY DEF IInv, Types, Handle
<1>3. \A g \in fhs : g.fh \in 1..(Len(files) - 1) BY Zenon DEF IInv, Handed
<1>4. \A m \in Nodes : \A j \in 1..Len(openFiles[m]) :
        /\ files[openFiles[m][j] + 1].nodeIndex = j - 1
        /\ \E g \in fhs : g.node = m /\ g.fh = openFiles[m][j]
  BY Zenon DEF IInv, Listed, Entry
<1>5. i \in 1..last /\ L[i] = h.fh
  <2>1. PICK j \in 1..Len(L) : L[j] = h.fh BY Zenon DEF IInv, Listed
  <2>2. files[h.fh + 1].nodeIndex = j - 1 BY <1>2, <1>4, <2>1
  <2> QED BY <1>2, <2>1, <2>2
<1>6. last \in 1..last BY <1>2, <1>5
<1>7. PICK m \in fhs : m.node = n /\ m.fh = moved BY <1>2, <1>4, <1>6, Zenon
<1>8. /\ L1 \in Seq(Nat) /\ Len(L1) = last - 1 /\ (i <= last - 1 => L1[i] = moved)
      /\ \A j \in 1..(last - 1) : j # i => L1[j] = L[j]
  <2> DEFINE M == [L EXCEPT ![i] = moved]
  <2>1. moved \in Nat BY <1>2, <1>6
  <2> HIDE DEF i, moved, last
  <2>2. M \in Seq(Nat) /\ Len(M) = last /\ M[i] = moved /\ \A j \in 1..last : j # i => M[j] = L[j]
    BY <1>2, <1>5, <2>1, Replaced DEF last
  <2> HIDE DEF M
  <2>3. L1 = SubSeq(M, 1, last - 1) BY Zenon DEF M
  <2> HIDE DEF L1, L
  <2>4. last >= 1 BY <1>2, <1>5
  <2>5. Len(L1) = last - 1 /\ L1 \in Seq(Nat) /\ \A j \in 1..(last - 1) : L1[j] = M[j]
    BY Zenon, <2>2, <2>3, <2>4, Shortened
  <2>6. i \in 1..last /\ last \in Nat BY <1>2, <1>5, <2>2
  <2>7. \A j \in 1..(last - 1) : j \in 1..last BY <2>6
  <2>8. i <= last - 1 => i \in 1..(last - 1) BY <2>6
  <2> QED BY Zenon, <2>2, <2>5, <2>7, <2>8
<1>9. \A j, k \in 1..last : L[j] = L[k] => j = k
  <2> SUFFICES ASSUME NEW j \in 1..last, NEW k \in 1..last, L[j] = L[k] PROVE j = k OBVIOUS
  <2>1. files[L[j] + 1].nodeIndex = j - 1 BY <1>2, <1>4, Zenon
  <2>2. files[L[k] + 1].nodeIndex = k - 1 BY Zenon, <1>2, <1>4
  <2> QED BY <1>2, <2>1, <2>2
<1>10. \A g \in fhs : g # h => g.fh # h.fh BY Zenon DEF IInv, Apart
<1>11. i # last => moved # h.fh BY ZenonT(60), <1>5, <1>6, <1>9
<1> HIDE DEF i, L1
<1>12. /\ files' \in Seq(EntryRec) /\ Len(files') = Len(files)
       /\ \A k \in 1..Len(files) : /\ files'[k].file = files[k].file /\ files'[k].wg = files[k].wg
                                    /\ files'[k].stream = files[k].stream
       /\ i # last => files'[moved + 1].nodeIndex = i - 1
       /\ \A x \in 1..(Len(files) - 1) : x # moved => files'[x + 1] = files[x + 1]
  <2>1. CASE i = last BY <1>1, <1>2, <2>1
  <2>2. CASE i # last
    <3> DEFINE e == [files[moved + 1] EXCEPT !.nodeIndex = i - 1]
    <3>1. moved \in 1..(Len(files) - 1) /\ moved + 1 \in 1..Len(files) BY <1>2, <1>3, <1>7
    <3>2. files[moved + 1] \in EntryRec /\ i - 1 \in Nat
      <4>1. files[moved + 1] \in EntryRec BY <1>2, <3>1
      <4>2. i - 1 \in Nat BY <1>2, <1>5
      <4> QED BY Zenon, <4>1, <4>2
    <3>3. /\ e \in EntryRec /\ e.nodeIndex = i - 1 /\ e.file = files[moved + 1].file
          /\ e.wg = files[moved + 1].wg /\ e.stream = files[moved + 1].stream
      BY Zenon, <3>2 DEF EntryRec
    <3>4. files' = [files EXCEPT ![moved + 1] = e] BY Zenon, <1>1, <2>2, <3>1
    <3> HIDE DEF e, moved
    <3>5. /\ files' \in Seq(EntryRec) /\ Len(files') = Len(files) /\ files'[moved + 1] = e
          /\ \A j \in 1..Len(files) : j # moved + 1 => files'[j] = files[j]
      BY <1>2, <3>1, <3>3, <3>4, Replaced
    <3>6. ASSUME NEW x \in 1..(Len(files) - 1), x # moved PROVE files'[x + 1] = files[x + 1]
      <4>1. x + 1 \in 1..Len(files) /\ x + 1 # moved + 1 BY SMTT(30), <1>2, <3>1, <3>6
      <4> QED BY Zenon, <3>5, <4>1
    <3> QED BY <3>3, <3>5, <3>6, Zenon
  <2> QED BY <2>1, <2>2
<1>13. openFiles' \in [Nodes -> Seq(Nat)] /\ openFiles'[n] = L1
       /\ \A q \in Nodes : q # n => openFiles'[q] = openFiles[q]
  BY Zenon, <1>1, <1>2, <1>8
<1>14. ASSUME NEW q \in Nodes, NEW j \in 1..Len(openFiles'[q])
       PROVE  /\ files'[openFiles'[q][j] + 1].nodeIndex = j - 1
              /\ \E g \in fhs : g # h /\ g.node = q /\ g.fh = openFiles'[q][j]
  <2>1. CASE q = n /\ j = i
    <3>0. i \in 1..(last - 1) BY Zenon, <1>8, <1>13, <2>1
    <3>1. i <= last - 1 /\ i # last BY <1>2, <3>0
    <3> QED BY <1>7, <1>8, <1>11, <1>12, <1>13, <2>1, <3>1, ZenonT(40)
  <2>2. CASE q = n /\ j # i
    <3>0. j \in 1..(last - 1) BY Zenon, <1>8, <1>13, <2>2
    <3>1. j \in 1..(last - 1) /\ j \in 1..last /\ j # last BY <1>2, <3>0
    <3>2. openFiles'[q][j] = L[j] /\ L[j] # moved /\ L[j] # h.fh
      BY ZenonT(60), <1>5, <1>6, <1>8, <1>9, <1>13, <2>2, <3>1
    <3>3. PICK g \in fhs : g.node = n /\ g.fh = L[j] BY <1>2, <1>4, <3>1, ZenonT(40)
    <3>4. files[L[j] + 1].nodeIndex = j - 1 BY Zenon, <1>2, <1>4, <3>1
    <3>6. L[j] \in 1..(Len(files) - 1) BY <1>3, <3>3, Zenon
    <3>7. files'[L[j] + 1] = files[L[j] + 1] BY <1>12, <3>2, <3>6, Zenon
    <3>5. files'[L[j] + 1].nodeIndex = j - 1 BY <3>4, <3>7, Zenon
    <3> QED BY Zenon, <2>2, <3>2, <3>3, <3>5
  <2>3. CASE q # n
    <3>1. openFiles'[q] = openFiles[q] BY <1>13, <2>3
    <3>2. j \in 1..Len(openFiles[q]) BY Zenon, <3>1
    <3>3. PICK g \in fhs : g.node = q /\ g.fh = openFiles[q][j] BY <1>4, <3>2
    <3>4. files[openFiles[q][j] + 1].nodeIndex = j - 1 BY Zenon, <1>4, <3>2
    <3>5. g.fh # moved BY Zenon, <1>7, <2>3, <3>3 DEF IInv, Apart
    <3>6. files'[openFiles[q][j] + 1].nodeIndex = j - 1 BY Zenon, <1>3, <1>12, <3>3, <3>4, <3>5
    <3> QED BY Zenon, <2>3, <3>1, <3>3, <3>6
  <2> QED BY Zenon, <2>1, <2>2, <2>3
<1>15. ASSUME NEW g \in fhs, g # h
       PROVE  \E j \in 1..Len(openFiles'[g.node]) : openFiles'[g.node][j] = g.fh
  <2>1. PICK j \in 1..Len(openFiles[g.node]) : openFiles[g.node][j] = g.fh BY DEF IInv, Listed
  <2>2. g.node \in Nodes BY DEF IInv, Types, Handle
  <2>3. CASE g.node # n
    <3>1. openFiles'[g.node] = openFiles[g.node] BY <1>13, <2>2, <2>3
    <3> QED BY Zenon, <2>1, <3>1
  <2>4. CASE g.node = n
    <3>1. j \in 1..last /\ L[j] = g.fh /\ j # i BY Zenon, <1>5, <1>10, <1>15, <2>1, <2>4
    <3>2. CASE j = last
      <4>1. i \in 1..(last - 1) BY <1>2, <1>5, <3>1, <3>2
      <4>2. L1[i] = g.fh BY <1>8, <1>2, <3>1, <3>2, <4>1
      <4> QED BY ZenonT(60), <1>8, <1>13, <2>4, <4>1, <4>2
    <3>3. CASE j # last
      <4>1. j \in 1..(last - 1) BY <1>2, <3>1, <3>3
      <4> QED BY <1>8, <1>13, <2>4, <3>1, <4>1, ZenonT(40)
    <3> QED BY Zenon, <3>2, <3>3
  <2> QED BY Zenon, <2>3, <2>4
<1> QED BY <1>12, <1>13, <1>14, <1>15, ZenonT(60)

\* RELEASE begins to wait.
LEMMA ReleaseIInv ==
  ASSUME ConstantsOK, IInv, NEW t \in Threads, NEW h \in fhs, Release(t, h) PROVE IInv'
<1> DEFINE r == [pc |-> "wait", fh |-> h.fh, node |-> h.node, file |-> Entry(h.fh).file, dir |-> h.dir]
<1>1. /\ th[t].pc = "idle" /\ \A u \in Threads : th[u].pc = "io" => th[u].fh # h.fh
      /\ fhs' = fhs \ {h} /\ UnlinkOpen(h.node, h.fh) /\ th' = [th EXCEPT ![t] = r]
      /\ UNCHANGED <<freeFiles, opened, released, streams, closed>>
  BY Zenon DEF Release, Goto
<1>2. h \in Handle /\ Entry(h.fh).file = h.file /\ h.fh \in 1..(Len(files) - 1) /\ (h.file = None <=> h.dir = TRUE)
  BY Zenon DEF IInv, Types, Handed
<1>3. r \in Handler /\ r.pc = "wait" /\ r.fh = h.fh /\ r.file = h.file /\ r.dir = h.dir
  BY Zenon, <1>2 DEF Handler, Handle
<1> HIDE DEF r
<1>4. th'[t] = r /\ \A u \in Threads : u # t => th'[u] = th[u] BY Zenon, <1>1 DEF IInv, Types
<1>5. /\ files' \in Seq(EntryRec) /\ Len(files') = Len(files)
      /\ \A k \in 1..Len(files) : /\ files'[k].file = files[k].file /\ files'[k].wg = files[k].wg
                                   /\ files'[k].stream = files[k].stream
      /\ openFiles' \in [Nodes -> Seq(Nat)]
      /\ \A n \in Nodes : \A i \in 1..Len(openFiles'[n]) :
            /\ files'[openFiles'[n][i] + 1].nodeIndex = i - 1
            /\ \E g \in fhs : g # h /\ g.node = n /\ g.fh = openFiles'[n][i]
      /\ \A g \in fhs : g # h => \E i \in 1..Len(openFiles'[g.node]) : openFiles'[g.node][i] = g.fh
  BY ZenonT(60), <1>1, UnlinkFacts
<1>6. \A x \in 1..(Len(files) - 1) : files'[x + 1].file = files[x + 1].file /\ files'[x + 1].stream = files[x + 1].stream
  <2>1. Len(files) \in Nat BY SMTT(30) DEF IInv, Types
  <2> QED BY <1>5, <2>1
<1>7. /\ \A u \in Threads : u # t => (Busy(u)' <=> Busy(u)) /\ th'[u] = th[u]
      /\ Busy(t)' /\ ~Busy(t) /\ th'[t].fh = h.fh
  BY Zenon, <1>1, <1>3, <1>4 DEF Busy
<1>8. Types'
  <2>1. th' \in [Threads -> Handler] BY Zenon, <1>1, <1>3 DEF IInv, Types
  <2>2. fhs' \subseteq Handle BY Zenon, <1>1 DEF IInv, Types
  <2> QED BY Zenon, <1>1, <1>5, <2>1, <2>2 DEF IInv, Types
<1>9. \A g \in fhs : g.fh \in 1..(Len(files) - 1) /\ files'[g.fh + 1].file = g.file
  BY Zenon, <1>6 DEF IInv, Handed, Entry
<1>10. Handed'
  <2>1. \A g \in fhs' :
          g.fh \in 1..(Len(files') - 1) /\ files'[g.fh + 1].file = g.file /\ (g.file = None <=> g.dir = TRUE)
    BY <1>1, <1>5, <1>9, Zenon DEF IInv, Handed
  <2>2. \A u \in Threads : Busy(u)' => th'[u].fh \in 1..(Len(files') - 1)
    <3>1. \A u \in Threads : Busy(u) => th[u].fh \in 1..(Len(files) - 1) BY Zenon DEF IInv, Handed
    <3>2. Len(files') = Len(files) BY Zenon, <1>5
    <3>3. h.fh \in 1..(Len(files) - 1) BY Zenon, <1>9, <1>2
    <3> TAKE u \in Threads
    <3>4. CASE u = t BY Zenon, <1>7, <3>2, <3>3, <3>4
    <3>5. CASE u # t BY Zenon, <1>7, <3>1, <3>2, <3>5
    <3> QED BY <3>4, <3>5
  <2>3. \A u \in Threads : th'[u].pc = "wait" => (th'[u].file = None <=> th'[u].dir = TRUE)
    <3> SUFFICES ASSUME NEW u \in Threads PROVE th'[u].pc = "wait" => (th'[u].file = None <=> th'[u].dir = TRUE) BY Zenon
    <3>1. th[u].pc = "wait" => (th[u].file = None <=> th[u].dir = TRUE) BY Zenon DEF IInv, Handed
    <3>2. h.file = None <=> h.dir = TRUE BY Zenon DEF IInv, Handed
    <3>3. CASE u = t BY ZenonT(60), <1>2, <1>3, <1>4, <3>2, <3>3
    <3>4. CASE u # t BY ZenonT(60), <1>3, <1>4, <3>1, <3>4
    <3> QED BY Zenon, <3>3, <3>4
  <2>4. \A u \in Threads : th'[u].pc \in {"attr", "io"} => th'[u].fh \in 1..(Len(files') - 1)
    BY ZenonT(60), <1>3, <1>4, <1>5 DEF IInv, Handed
  <2> QED BY Zenon, <2>1, <2>2, <2>3, <2>4 DEF Handed, Entry
<1>11. Apart'
  <2>1. \A g \in fhs' : g \in fhs /\ g.fh # h.fh BY Zenon, <1>1 DEF IInv, Apart
  <2>2. \A u \in Threads : Busy(u) => th[u].fh # h.fh BY Zenon DEF IInv, Apart
  <2>3. \A g, k \in fhs' : g.fh = k.fh => g = k BY Zenon, <2>1 DEF IInv, Apart
  <2>4. \A u \in Threads : Busy(u)' => \A g \in fhs' : g.fh # th'[u].fh
    BY ZenonT(60), <1>7, <2>1 DEF IInv, Apart
  <2>5. \A u, v \in Threads : Busy(u)' /\ Busy(v)' /\ th'[u].fh = th'[v].fh => u = v
    BY SMTT(30), <1>7, <2>2 DEF IInv, Apart
  <2> QED BY Zenon, <2>3, <2>4, <2>5 DEF Apart
<1>12. FreeApart'
  <2> SUFFICES ASSUME NEW i \in DOMAIN freeFiles
               PROVE  /\ freeFiles[i] \in 1..(Len(files') - 1) /\ \A g \in fhs' : g.fh # freeFiles[i]
                      /\ \A u \in Threads : Busy(u)' => th'[u].fh # freeFiles[i]
                      /\ \A j \in DOMAIN freeFiles : freeFiles[i] = freeFiles[j] => i = j
    BY <1>1, ZenonT(40) DEF FreeApart
  <2>1. /\ freeFiles[i] \in 1..(Len(files) - 1) /\ \A g \in fhs : g.fh # freeFiles[i]
        /\ \A u \in Threads : Busy(u) => th[u].fh # freeFiles[i]
        /\ \A j \in DOMAIN freeFiles : freeFiles[i] = freeFiles[j] => i = j
    BY ZenonT(40) DEF IInv, FreeApart
  <2>2. freeFiles[i] \in 1..(Len(files') - 1) BY <1>5, <2>1, ZenonT(40)
  <2>3. \A g \in fhs' : g.fh # freeFiles[i] BY <1>1, <2>1, ZenonT(40)
  <2>4. \A u \in Threads : Busy(u)' => th'[u].fh # freeFiles[i] BY <1>7, <2>1, ZenonT(40)
  <2> QED BY <2>1, <2>2, <2>3, <2>4, ZenonT(40)
<1>13. Listed'
  <2>1. \A g \in fhs : g \in fhs' <=> g # h BY Zenon, <1>1
  <2>2. fhs' \subseteq fhs BY Zenon, <1>1
  <2>3. \A n \in Nodes : \A i \in 1..Len(openFiles'[n]) :
          /\ files'[openFiles'[n][i] + 1].nodeIndex = i - 1
          /\ \E g \in fhs' : g.node = n /\ g.fh = openFiles'[n][i]
    BY ZenonT(60), <1>5, <2>1
  <2>4. \A g \in fhs' : \E i \in 1..Len(openFiles'[g.node]) : openFiles'[g.node][i] = g.fh
    BY Zenon, <1>5, <2>1, <2>2
  <2> QED BY Zenon, <2>3, <2>4 DEF Listed, Entry
<1>14. Counted'
  <2>1. \A x : Borrowers(x)' = Borrowers(x) BY SMTT(30), <1>1, <1>3, <1>4 DEF Borrowers
  <2> QED BY Zenon, <1>5, <2>1 DEF IInv, Counted
<1>15. Users'
  <2> SUFFICES ASSUME NEW u \in Threads
      PROVE  /\ th'[u].pc = "attr" =>
                 \/ \E g \in fhs' : g.fh = th'[u].fh /\ g.file = th'[u].file
                 \/ \E v \in Threads : th'[v].pc = "wait" /\ th'[v].fh = th'[u].fh /\ th'[v].file = th'[u].file
             /\ th'[u].pc = "io" => \E g \in fhs' : g.fh = th'[u].fh /\ g.file = th'[u].file
    BY Zenon DEF Users
  <2>1. CASE u = t BY Zenon, <1>3, <1>4, <2>1
  <2>2. CASE u # t /\ th[u].pc = "io"
    <3>1. PICK g \in fhs : g.fh = th[u].fh /\ g.file = th[u].file BY Zenon, <2>2 DEF IInv, Users
    <3>2. g # h BY Zenon, <1>1, <2>2, <3>1
    <3> QED BY Zenon, <1>1, <1>4, <2>2, <3>1, <3>2
  <2>3. CASE u # t /\ th[u].pc = "attr"
    <3>1. CASE \E g \in fhs : g.fh = th[u].fh /\ g.file = th[u].file
      <4>1. PICK g \in fhs : g.fh = th[u].fh /\ g.file = th[u].file BY Zenon, <3>1
      <4>2. CASE g = h BY Zenon, <1>3, <1>4, <2>3, <4>1, <4>2
      <4>3. CASE g # h BY Zenon, <1>1, <1>4, <2>3, <4>1, <4>3
      <4> QED BY Zenon, <4>2, <4>3
    <3>2. CASE \E v \in Threads : th[v].pc = "wait" /\ th[v].fh = th[u].fh /\ th[v].file = th[u].file
      <4>1. PICK v \in Threads : th[v].pc = "wait" /\ th[v].fh = th[u].fh /\ th[v].file = th[u].file BY Zenon, <3>2
      <4>2. v # t BY Zenon, <1>1, <4>1
      <4> QED BY Zenon, <1>4, <2>3, <4>1, <4>2
    <3> QED BY Zenon, <2>3, <3>1, <3>2 DEF IInv, Users
  <2>4. CASE u # t /\ th[u].pc \notin {"io", "attr"} BY Zenon, <1>4, <2>4
  <2> QED BY <2>1, <2>2, <2>3, <2>4, ZenonT(40)
<1>16. Unreleased'
  <2>1. \A g \in fhs' : g \in fhs /\ g # h BY Zenon, <1>1
  <2>2. \A u \in Threads : th'[u].pc = "wait" => (u = t /\ th'[u].file = h.file) \/ (u # t /\ th[u].pc = "wait" /\ th'[u].file = th[u].file)
    BY Zenon, <1>3, <1>4
  <2>3. /\ \A g \in fhs' : g.file \notin released' /\ g.file \in (1..opened') \cup {None}
        /\ \A g, k \in fhs' : g.file = k.file /\ g.file # None => g = k
    BY ZenonT(60), <1>1, <2>1 DEF IInv, Unreleased
  <2>4. \A u \in Threads : th'[u].pc = "wait" => th'[u].file \notin released' /\ th'[u].file \in (1..opened') \cup {None}
    BY SMTT(30), <1>1, <2>2 DEF IInv, Unreleased
  <2>5. \A g \in fhs', u \in Threads : th'[u].pc = "wait" /\ g.file = th'[u].file => g.file = None
    BY ZenonT(60), <2>1, <2>2 DEF IInv, Unreleased
  <2>6. \A u, v \in Threads : th'[u].pc = "wait" /\ th'[v].pc = "wait" /\ th'[u].file = th'[v].file
                             /\ th'[u].file # None => u = v
    BY <2>2 DEF IInv, Unreleased
  <2> QED BY Zenon, <2>3, <2>4, <2>5, <2>6 DEF Unreleased
<1>17. Streams'
  <2> SUFFICES ASSUME NEW s \in 1..streams, closed[s] = 0
               PROVE  \/ \E g \in fhs' : g.dir = TRUE /\ files'[g.fh + 1].stream = s
                      \/ \E u \in Threads : th'[u].pc = "wait" /\ th'[u].dir = TRUE /\ files'[th'[u].fh + 1].stream = s
    BY <1>1, Zenon DEF Streams, Entry
  <2>1. CASE \E g \in fhs : g.dir = TRUE /\ files[g.fh + 1].stream = s
    <3>1. PICK g \in fhs : g.dir = TRUE /\ files[g.fh + 1].stream = s BY Zenon, <2>1
    <3>2. files'[g.fh + 1].stream = s BY Zenon, <1>6, <1>9, <3>1
    <3>3. CASE g = h BY ZenonT(60), <1>3, <1>4, <3>1, <3>2, <3>3
    <3>4. CASE g # h BY Zenon, <1>1, <3>1, <3>2, <3>4
    <3> QED BY <3>3, <3>4, Zenon
  <2>2. CASE \E u \in Threads : th[u].pc = "wait" /\ th[u].dir = TRUE /\ files[th[u].fh + 1].stream = s
    <3>1. PICK u \in Threads : th[u].pc = "wait" /\ th[u].dir = TRUE /\ files[th[u].fh + 1].stream = s BY SMTT(30), <2>2
    <3>2. u # t /\ th[u].fh \in 1..(Len(files) - 1) BY <1>1, <3>1, ZenonT(40) DEF Busy, IInv, Handed
    <3>3. files'[th[u].fh + 1].stream = s BY Zenon, <1>6, <3>1, <3>2
    <3> QED BY Zenon, <1>4, <3>1, <3>2, <3>3
  <2> QED BY <2>1, <2>2, Zenon DEF IInv, Streams, Entry
<1> QED BY ZenonT(60), <1>8, <1>10, <1>11, <1>12, <1>13, <1>14, <1>15, <1>16, <1>17 DEF IInv

\* The wait group is zero: nobody borrows the file, and it is released.
LEMMA ReleaseWaitIInv == ASSUME ConstantsOK, IInv, NEW t \in Threads, ReleaseWait(t) PROVE IInv'
<1> DEFINE r == [th[t] EXCEPT !.pc = "free"]
<1>1. /\ th[t].pc = "wait" /\ files[th[t].fh + 1].wg = 0 /\ th' = [th EXCEPT ![t] = r]
      /\ UNCHANGED <<files, freeFiles, openFiles, opened, streams, fhs>>
  BY DEF ReleaseWait, Goto, Entry, table
<1>2. th[t] \in Handler /\ None \notin Nat BY DEF IInv, Types, ConstantsOK
<1>3. r \in Handler /\ r.pc = "free" /\ r.fh = th[t].fh BY Zenon, <1>2 DEF Handler
<1> HIDE DEF r
<1>4. th'[t] = r /\ \A u \in Threads : u # t => th'[u] = th[u] BY Zenon, <1>1 DEF IInv, Types
<1>5. /\ \A u \in Threads : (Busy(u)' <=> Busy(u)) /\ (Busy(u) => th'[u].fh = th[u].fh)
      /\ \A u \in Threads : th'[u].pc = "wait" => u # t /\ th'[u] = th[u]
      /\ \A u \in Threads : th'[u].pc \in {"attr", "io"} => u # t /\ th'[u] = th[u]
  BY ZenonT(60), <1>1, <1>3, <1>4 DEF Busy
<1>6. th[t].fh \in 1..(Len(files) - 1) /\ (th[t].file = None <=> th[t].dir = TRUE) BY <1>1 DEF IInv, Handed, Busy
<1>7. \/ th[t].dir = TRUE /\ closed' = CloseStream(files[th[t].fh + 1].stream) /\ UNCHANGED released
      \/ th[t].dir = FALSE /\ released' = released \cup {th[t].file} /\ UNCHANGED closed
  BY SMTT(30), <1>2 DEF ReleaseWait, Handler, Entry
<1>8. closed' \in [1..MaxStreams -> Nat]
      /\ \A s \in 1..MaxStreams : closed'[s] = 0 => closed[s] = 0 /\ (th[t].dir = TRUE => s # files[th[t].fh + 1].stream)
  <2> DEFINE x == files[th[t].fh + 1].stream
  <2>1. closed \in [1..MaxStreams -> Nat] /\ files \in Seq(EntryRec) /\ Len(files) \in Nat BY DEF IInv, Types
  <2>2. th[t].fh + 1 \in 1..Len(files) BY <1>6, <2>1
  <2>3. files[th[t].fh + 1] \in EntryRec BY <2>1, <2>2
  <2>4. x \in (1..MaxStreams) \cup {None} BY <2>3 DEF EntryRec
  <2>5. CASE th[t].dir = FALSE BY <1>7, <2>1, <2>5, Zenon
  <2>6. CASE th[t].dir = TRUE /\ x = None
    <3>1. closed' = closed BY Zenon, <1>7, <2>6 DEF CloseStream
    <3>2. \A s \in 1..MaxStreams : s # x BY <1>2, <2>6 DEF ConstantsOK
    <3> QED BY Zenon, <2>1, <3>1, <3>2
  <2>7. CASE th[t].dir = TRUE /\ x # None
    <3>1. closed' = [closed EXCEPT ![x] = closed[x] + 1] /\ x \in 1..MaxStreams
      BY Zenon, <1>7, <2>4, <2>7 DEF CloseStream
    <3> HIDE DEF x
    <3>2. closed[x] \in Nat BY <2>1, <3>1
    <3>3. closed' \in [1..MaxStreams -> Nat] BY <2>1, <3>1, <3>2
    <3>4. closed'[x] = closed[x] + 1 /\ \A s \in 1..MaxStreams : s # x => closed'[s] = closed[s]
      BY Zenon, <2>1, <3>1
    <3>5. \A s \in 1..MaxStreams : closed'[s] = 0 => closed[s] = 0 /\ s # x BY <3>2, <3>4
    <3> QED BY Zenon, <3>3, <3>5 DEF x
  <2> QED BY <1>7, <2>5, <2>6, <2>7, Zenon
<1>9. released' \subseteq 1..opened /\ released \subseteq released'
      /\ \A x \in released' : x \in released \/ (x = th[t].file /\ th[t].file # None)
  <2>1. th[t].file \in (1..opened) \cup {None} /\ released \subseteq 1..opened
    BY Zenon, <1>1 DEF IInv, Unreleased, Types
  <2> QED BY <1>6, <1>7, <2>1, ZenonT(40)
<1>10. Types'
  <2>1. th' \in [Threads -> Handler] BY ZenonT(60), <1>1, <1>3 DEF IInv, Types
  <2> QED BY Zenon, <1>1, <1>8, <1>9, <2>1 DEF IInv, Types
<1>11. Handed' BY SMTT(30), <1>1, <1>5 DEF IInv, Handed, Entry
<1>12. Apart'
  <2>1. \A h, g \in fhs : h.fh = g.fh => h = g BY Zenon DEF IInv, Apart
  <2>2. \A u \in Threads : Busy(u)' => \A h \in fhs : h.fh # th'[u].fh BY ZenonT(60), <1>5 DEF IInv, Apart
  <2>3. \A u, v \in Threads : Busy(u)' /\ Busy(v)' /\ th'[u].fh = th'[v].fh => u = v
    BY <1>5 DEF IInv, Apart
  <2> QED BY <1>1, <2>1, <2>2, <2>3, ZenonT(40) DEF Apart
<1>13. FreeApart'
  <2>1. FreeApart BY DEF IInv
  <2>2. \A i \in DOMAIN freeFiles : \A u \in Threads : Busy(u)' => th'[u].fh # freeFiles[i]
    BY <1>5, <2>1, Zenon DEF FreeApart
  <2>3. freeFiles' = freeFiles /\ files' = files /\ fhs' = fhs BY <1>1
  <2> QED BY <2>1, <2>2, <2>3, Zenon DEF FreeApart
<1>14. Listed' BY <1>1, ZenonT(40) DEF IInv, Listed, Entry
<1>15. Counted'
  <2>1. \A x : Borrowers(x)' = Borrowers(x) BY Zenon, <1>1, <1>3, <1>4 DEF Borrowers
  <2> QED BY <1>1, <2>1, Zenon DEF IInv, Counted
<1>16. \A u \in Threads : th[u].pc = "attr" => th[u].fh # th[t].fh
  <2>1. Len(files) \in Nat BY DEF IInv, Types
  <2>2. th[t].fh + 1 \in 1..Len(files) /\ (th[t].fh + 1) - 1 = th[t].fh BY SMTT(30), <1>6, <2>1
  <2>3. IsFiniteSet(Borrowers(th[t].fh)) /\ Cardinality(Borrowers(th[t].fh)) = 0
    BY Zenon, <1>1, <2>2 DEF IInv, Counted
  <2>4. Borrowers(th[t].fh) = {} BY Zenon, <2>3, FS_EmptySet
  <2> QED BY Zenon, <2>4 DEF Borrowers
<1>17. Users'
  <2> SUFFICES ASSUME NEW u \in Threads
      PROVE  /\ th'[u].pc = "attr" =>
                 \/ \E g \in fhs : g.fh = th'[u].fh /\ g.file = th'[u].file
                 \/ \E v \in Threads : th'[v].pc = "wait" /\ th'[v].fh = th'[u].fh /\ th'[v].file = th'[u].file
             /\ th'[u].pc = "io" => \E g \in fhs : g.fh = th'[u].fh /\ g.file = th'[u].file
    BY Zenon, <1>1 DEF Users
  <2>1. CASE th'[u].pc = "io" BY SMTT(30), <1>5, <2>1 DEF IInv, Users
  <2>2. CASE th'[u].pc = "attr"
    <3>1. th'[u] = th[u] /\ th[u].pc = "attr" BY Zenon, <1>5, <2>2
    <3>2. CASE \E g \in fhs : g.fh = th[u].fh /\ g.file = th[u].file BY Zenon, <2>2, <3>1, <3>2
    <3>3. CASE \E v \in Threads : th[v].pc = "wait" /\ th[v].fh = th[u].fh /\ th[v].file = th[u].file
      <4>1. PICK v \in Threads : th[v].pc = "wait" /\ th[v].fh = th[u].fh /\ th[v].file = th[u].file BY Zenon, <3>3
      <4>2. v # t BY Zenon, <1>16, <3>1, <4>1
      <4>3. th'[v] = th[v] BY ZenonT(60), <1>4, <4>2
      <4> QED BY Zenon, <2>2, <3>1, <4>1, <4>3
    <3> QED BY <3>1, <3>2, <3>3, ZenonT(40) DEF IInv, Users
  <2> QED BY Zenon, <2>1, <2>2
<1>18. Unreleased'
  <2>1. \A u \in Threads : th'[u].pc = "wait" => th[u].pc = "wait" /\ u # t /\ th'[u] = th[u] BY <1>5
  <2>2. \A g \in fhs : g.file \notin released' BY <1>1, <1>9, ZenonT(40) DEF IInv, Unreleased
  <2>3. \A u \in Threads : th'[u].pc = "wait" => th'[u].file \notin released'
    <3> SUFFICES ASSUME NEW u \in Threads, th'[u].pc = "wait" PROVE th[u].file \notin released'
      BY <2>1
    <3>1. th[u].pc = "wait" /\ u # t BY Zenon, <2>1
    <3>2. th[u].file \notin released /\ (th[u].file = th[t].file => th[t].file = None)
      BY Zenon, <1>1, <3>1 DEF IInv, Unreleased
    <3> QED BY <1>9, <3>2, Zenon
  <2> QED BY SMTT(30), <1>1, <2>1, <2>2, <2>3 DEF IInv, Unreleased
<1>19. Streams'
  <2> SUFFICES ASSUME NEW s \in 1..streams, closed'[s] = 0
               PROVE  \/ \E g \in fhs : g.dir = TRUE /\ files[g.fh + 1].stream = s
                      \/ \E u \in Threads : th'[u].pc = "wait" /\ th'[u].dir = TRUE /\ files[th'[u].fh + 1].stream = s
    BY <1>1, Zenon DEF Streams, Entry
  <2>1. s \in 1..MaxStreams BY SMTT(30) DEF IInv, Types, ConstantsOK
  <2>2. closed[s] = 0 /\ (th[t].dir = TRUE => s # files[th[t].fh + 1].stream) BY Zenon, <1>8, <2>1
  <2>3. CASE \E g \in fhs : g.dir = TRUE /\ files[g.fh + 1].stream = s BY Zenon, <2>3
  <2>4. CASE \E u \in Threads : th[u].pc = "wait" /\ th[u].dir = TRUE /\ files[th[u].fh + 1].stream = s
    <3>1. PICK u \in Threads : th[u].pc = "wait" /\ th[u].dir = TRUE /\ files[th[u].fh + 1].stream = s BY Zenon, <2>4
    <3>2. u # t BY ZenonT(60), <2>2, <3>1
    <3> QED BY Zenon, <1>4, <3>1, <3>2
  <2> QED BY <2>2, <2>3, <2>4, Zenon DEF IInv, Streams, Entry
<1> QED BY ZenonT(60), <1>10, <1>11, <1>12, <1>13, <1>14, <1>15, <1>17, <1>18, <1>19 DEF IInv

\* The entry goes back to the free list.
LEMMA ReleaseFreeIInv == ASSUME ConstantsOK, IInv, NEW t \in Threads, ReleaseFree(t) PROVE IInv'
<1>1. /\ th[t].pc = "free" /\ freeFiles' = Append(freeFiles, th[t].fh) /\ th' = [th EXCEPT ![t] = Idle]
      /\ UNCHANGED <<files, openFiles, opened, released, streams, closed, fhs>>
  BY Zenon DEF ReleaseFree, Goto
<1>2. Idle \in Handler /\ Idle.pc = "idle" BY DEF Idle, Handler, ConstantsOK
<1>3. th'[t] = Idle /\ \A u \in Threads : u # t => th'[u] = th[u] BY Zenon, <1>1 DEF IInv, Types
<1>4. /\ \A u \in Threads : Busy(u)' => Busy(u) /\ u # t /\ th'[u] = th[u]
      /\ \A u \in Threads : (th'[u].pc = "wait" <=> th[u].pc = "wait") /\ (th[u].pc = "wait" => th'[u] = th[u])
      /\ \A u \in Threads : th'[u].pc \in {"attr", "io"} => th'[u] = th[u]
  BY Zenon, <1>1, <1>2, <1>3 DEF Busy
<1>5. Busy(t) /\ th[t].fh \in 1..(Len(files) - 1) /\ th[t].fh \in Nat BY Zenon, <1>1 DEF IInv, Handed, Busy, Types, Handler
<1>6. Types'
  <2>1. th' \in [Threads -> Handler] BY Zenon, <1>1, <1>2 DEF IInv, Types
  <2>2. freeFiles' \in Seq(Nat) BY SMTT(30), <1>1, <1>5 DEF IInv, Types
  <2> QED BY Zenon, <1>1, <2>1, <2>2 DEF IInv, Types
<1>7. Handed' BY <1>1, <1>4, ZenonT(40) DEF IInv, Handed, Entry
<1>8. Apart'
  <2>1. \A h, g \in fhs : h.fh = g.fh => h = g BY DEF IInv, Apart
  <2>2. \A u \in Threads : Busy(u)' => \A h \in fhs : h.fh # th'[u].fh BY Zenon, <1>4 DEF IInv, Apart
  <2>3. \A u, v \in Threads : Busy(u)' /\ Busy(v)' /\ th'[u].fh = th'[v].fh => u = v
    BY Zenon, <1>4 DEF IInv, Apart
  <2> QED BY SMTT(30), <1>1, <2>1, <2>2, <2>3 DEF Apart
<1>9. FreeApart'
  <2> DEFINE k == Len(freeFiles) + 1
  <2>1. freeFiles \in Seq(Nat) /\ Len(freeFiles) \in Nat BY DEF IInv, Types
  <2>2. /\ DOMAIN freeFiles' = 1..k /\ freeFiles'[k] = th[t].fh /\ DOMAIN freeFiles = 1..Len(freeFiles)
        /\ \A i \in 1..Len(freeFiles) : freeFiles'[i] = freeFiles[i]
    BY <1>1, <1>5, <2>1
  <2>3. \A i \in 1..k : i = k \/ i \in 1..Len(freeFiles) BY <2>1
  <2> HIDE DEF k
  <2>4. \A i \in 1..Len(freeFiles) : freeFiles[i] # th[t].fh
    <3>1. FreeApart BY DEF IInv
    <3> QED BY <1>5, <2>2, <3>1, ZenonT(40) DEF FreeApart
  <2>5. \A h \in fhs : h.fh # th[t].fh BY ZenonT(60), <1>5 DEF IInv, Apart
  <2>6. \A u \in Threads : Busy(u)' => th'[u].fh # th[t].fh BY <1>4, <1>5 DEF IInv, Apart
  <2> SUFFICES ASSUME NEW i \in 1..k
               PROVE  /\ freeFiles'[i] \in 1..(Len(files) - 1)
                      /\ \A h \in fhs : h.fh # freeFiles'[i]
                      /\ \A u \in Threads : Busy(u)' => th'[u].fh # freeFiles'[i]
                      /\ \A j \in 1..k : freeFiles'[i] = freeFiles'[j] => i = j
    BY <1>1, <2>2, ZenonT(40) DEF FreeApart
  <2>7. CASE i = k BY Zenon, <1>5, <2>2, <2>3, <2>4, <2>5, <2>6, <2>7
  <2>8. CASE i \in 1..Len(freeFiles)
    <3>1. \A j \in 1..k : freeFiles'[i] = freeFiles'[j] => i = j
      BY <2>2, <2>3, <2>4, <2>8, ZenonT(40) DEF IInv, FreeApart
    <3>2. /\ freeFiles[i] \in 1..(Len(files) - 1) /\ \A h \in fhs : h.fh # freeFiles[i]
          /\ \A u \in Threads : Busy(u) => th[u].fh # freeFiles[i]
      BY Zenon, <2>2, <2>8 DEF IInv, FreeApart
    <3> QED BY <1>4, <2>2, <2>8, <3>1, <3>2, ZenonT(40)
  <2> QED BY Zenon, <2>3, <2>7, <2>8
<1>10. Listed' BY Zenon, <1>1 DEF IInv, Listed, Entry
<1>11. Counted'
  <2>1. \A x : Borrowers(x)' = Borrowers(x) BY Zenon, <1>1, <1>2, <1>3 DEF Borrowers
  <2> QED BY Zenon, <1>1, <2>1 DEF IInv, Counted
<1>12. Users'
  <2> SUFFICES ASSUME NEW u \in Threads
      PROVE  /\ th'[u].pc = "attr" =>
                 \/ \E g \in fhs : g.fh = th'[u].fh /\ g.file = th'[u].file
                 \/ \E v \in Threads : th'[v].pc = "wait" /\ th'[v].fh = th'[u].fh /\ th'[v].file = th'[u].file
             /\ th'[u].pc = "io" => \E g \in fhs : g.fh = th'[u].fh /\ g.file = th'[u].file
    BY Zenon, <1>1 DEF Users
  <2>1. CASE th'[u].pc \notin {"attr", "io"} BY ZenonT(60), <2>1
  <2>2. CASE th'[u].pc \in {"attr", "io"}
    <3>1. th'[u] = th[u] BY ZenonT(60), <1>4, <2>2
    <3> QED BY SMTT(30), <1>4, <3>1 DEF IInv, Users
  <2> QED BY Zenon, <2>1, <2>2
<1>13. Unreleased' BY <1>1, <1>4 DEF IInv, Unreleased
<1>14. Streams'
  <2>1. ASSUME NEW s \in 1..streams, closed[s] = 0
        PROVE  \/ \E h \in fhs : h.dir = TRUE /\ files[h.fh + 1].stream = s
               \/ \E u \in Threads : th'[u].pc = "wait" /\ th'[u].dir = TRUE /\ files[th'[u].fh + 1].stream = s
    <3>1. \/ \E h \in fhs : h.dir = TRUE /\ files[h.fh + 1].stream = s
          \/ \E u \in Threads : th[u].pc = "wait" /\ th[u].dir = TRUE /\ files[th[u].fh + 1].stream = s
      BY <2>1, Zenon DEF IInv, Streams, Entry
    <3> QED BY <1>4, <3>1, Zenon
  <2> QED BY <1>1, <2>1, Zenon DEF Streams, Entry
<1> QED BY Zenon, <1>6, <1>7, <1>8, <1>9, <1>10, <1>11, <1>12, <1>13, <1>14 DEF IInv

\* IInv is inductive.
THEOREM TableInductive == ASSUME ConstantsOK PROVE Spec => []IInv
<1>1. IInv /\ [Next]_vars => IInv'
  <2> SUFFICES ASSUME IInv, [Next]_vars PROVE IInv' OBVIOUS
  <2>1. ASSUME NEW n \in Nodes, Open(n) PROVE IInv'
    <3>1. opened \in Nat /\ None \notin Nat BY DEF IInv, Types, ConstantsOK
    <3>2. opened + 1 # None BY <3>1
    <3> QED BY <2>1, <3>2, RegisterIInv, Zenon DEF Open
  <2>2. ASSUME NEW n \in Nodes, OpenDir(n) PROVE IInv' BY <2>2, RegisterIInv, Zenon DEF OpenDir
  <2>3. ASSUME NEW h \in fhs, NEW offset \in {0, 1}, NEW ok \in BOOLEAN, ReadDir(h, offset, ok) PROVE IInv'
    BY <2>3, ReadDirIInv
  <2>4. ASSUME NEW t \in Threads, NEW n \in Nodes, GetAttr(t, n) PROVE IInv' BY <2>4, GetAttrIInv
  <2>5. ASSUME NEW t \in Threads, NEW h \in fhs, Access(t, h) PROVE IInv' BY Zenon, <2>5, AccessIInv
  <2>6. ASSUME NEW t \in Threads, NEW h \in fhs, Release(t, h) PROVE IInv' BY <2>6, ReleaseIInv
  <2>7. ASSUME NEW t \in Threads, Section(t) PROVE IInv'
    BY Zenon, <2>7, GetAttrDoneIInv, AccessDoneIInv, ReleaseWaitIInv, ReleaseFreeIInv DEF Section
  <2>8. CASE UNCHANGED vars
    <3>1. UNCHANGED <<files, freeFiles, openFiles, th, opened, released, streams, closed, fhs>>
      BY SMTT(30), <2>8 DEF vars, table
    <3>2. Types' /\ Handed' /\ Apart' /\ FreeApart'
      BY <3>1, ZenonT(40) DEF IInv, Types, Handed, Apart, FreeApart, Entry, Busy
    <3>3. Listed' /\ Users' /\ Unreleased' BY <3>1, ZenonT(40) DEF IInv, Listed, Users, Unreleased, Entry
    <3>4. \A x : Borrowers(x)' = Borrowers(x) BY <3>1, ZenonT(40) DEF Borrowers
    <3>5. Counted' BY SMTT(30), <3>1, <3>4 DEF IInv, Counted
    <3>6. Streams' BY <3>1 DEF IInv, Streams, Entry
    <3> QED BY Zenon, <3>2, <3>3, <3>5, <3>6 DEF IInv
  <2> QED BY Zenon, <2>1, <2>2, <2>3, <2>4, <2>5, <2>6, <2>7, <2>8 DEF Next
<1> QED BY <1>1, InitIInv, PTL DEF Spec

\* nodefs/bridge.go: a file handle stands for the file it was given out for until the
\* kernel releases it, although entries are used again; the open files of a node are its
\* handles, each at the index releaseFileEntry relies on; no directory stream is left
\* open. For any number of handlers, nodes, files and streams.
THEOREM HandlesCorrect ==
  ASSUME ConstantsOK PROVE Spec => []HandleStable
<1>1. IInv => HandleNamesFile
  <2> SUFFICES ASSUME IInv PROVE HandleNamesFile BY SMTT(30)
  <2>1. \A h \in fhs : h.fh > 0 BY DEF IInv, Handed
  <2> QED BY <2>1 DEF IInv, Handed, Apart, HandleNamesFile
<1>2. IInv => OpenFilesExact
  <2> SUFFICES ASSUME IInv, NEW n \in Nodes
               PROVE  /\ {openFiles[n][i] : i \in DOMAIN openFiles[n]}
                           = {h.fh : h \in {g \in fhs : g.node = n}}
                      /\ \A i \in DOMAIN openFiles[n] : Entry(openFiles[n][i]).nodeIndex = i - 1
    BY Zenon DEF OpenFilesExact
  <2>1. DOMAIN openFiles[n] = 1..Len(openFiles[n]) BY DEF IInv, Types
  <2>2. ASSUME NEW i \in DOMAIN openFiles[n]
        PROVE  openFiles[n][i] \in {h.fh : h \in {g \in fhs : g.node = n}}
    BY <2>1 DEF IInv, Listed
  <2>3. ASSUME NEW h \in fhs, h.node = n
        PROVE  h.fh \in {openFiles[n][i] : i \in DOMAIN openFiles[n]}
    BY <2>1, <2>3, Zenon DEF IInv, Listed
  <2> QED BY <2>1, <2>2, <2>3, ZenonT(40) DEF IInv, Listed
<1>3. IInv => NoStreamLeak
  <2> SUFFICES ASSUME IInv PROVE NoStreamLeak OBVIOUS
  <2>1. \A h \in fhs : h.dir = TRUE => h.dir OBVIOUS
  <2> QED BY <2>1 DEF IInv, Streams, NoStreamLeak
<1> QED BY <1>1, <1>2, <1>3, TableInductive, PTL DEF HandleStable

\* Release waits for GETATTR (nodefs/bridge.go, releaseFileEntry and the wait group): no
\* handler calls the file system with a file that has been released.
THEOREM NoLateUse == ASSUME ConstantsOK PROVE Spec => []NoUseAfterRelease
<1>1. IInv => NoUseAfterRelease BY DEF IInv, Users, Unreleased, NoUseAfterRelease
<1> QED BY <1>1, TableInductive, PTL
====
