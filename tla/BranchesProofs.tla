--------------------------- MODULE BranchesProofs ---------------------------
(***************************************************************************)
(* The tables of autoUnionFs and of MultiZipFs and what is mounted, and the *)
(* caches over a read-only branch, for any number of requests, names,      *)
(* directories and archives.                                               *)
(***************************************************************************)
EXTENDS Branches, TLAPS

\* What is assumed of the parameters: a scan finds a name for a directory.
Parameters ==
  /\ MaxUnions \in Nat /\ None \notin Roots
  /\ \A r \in Roots : AutoName(r) \in Names

PCs == {"idle", "visit", "add", "unmount", "removed"}

\* What a request is doing.
Request == [pc : PCs, name : Names \cup {None}, todo : SUBSET Roots,
            root : Roots \cup {None}, id : Nat, code : {"OK", "EBUSY"}]

\* The types of the tables, of the tree and of the requests.
TypeOK ==
  /\ known \in [Names -> Nat] /\ nameRootMap \in [Names -> Roots \cup {None}]
  /\ zombies \subseteq Names /\ mounts \in [Names -> Nat]
  /\ owner \in [1..MaxUnions -> Roots \cup {None}] /\ made \in 0..MaxUnions
  /\ proc \in [Procs -> Request]
  /\ mayBeBusy \in BOOLEAN

\* Union id writes to directory r.
WritesTo(id, r) == id \in 1..made /\ r \in Roots /\ owner[id] = r

\* A name that is not being removed: both tables and the tree agree.
NamesAgree ==
  \A n \in Names \ zombies :
    /\ known[n] = mounts[n]
    /\ known[n] = 0 => nameRootMap[n] = None
    /\ known[n] # 0 => WritesTo(known[n], nameRootMap[n])

Removing(p) == proc[p].pc \in {"unmount", "removed"}

\* The name an rmFs works on, with what it keeps to put back.
RmFsOwns ==
  \A p \in Procs : Removing(p) =>
    /\ proc[p].name \in zombies /\ known[proc[p].name] = 0 /\ nameRootMap[proc[p].name] = None
    /\ WritesTo(proc[p].id, proc[p].root)
    /\ proc[p].pc = "unmount" => proc[p].code = "OK"
    /\ mounts[proc[p].name] =
         IF proc[p].pc = "removed" /\ proc[p].code = "OK" THEN 0 ELSE proc[p].id

\* No two requests remove one name.
OwnNames ==
  \A p, q \in Procs : Removing(p) /\ Removing(q) /\ p # q => proc[p].name # proc[q].name

\* A scan adds directories it was given.
ScansRoots ==
  \A p \in Procs : proc[p].pc = "add" => proc[p].root \in Roots

\* As long as no unmount fails, two names have different directories.
RootsApart ==
  ~mayBeBusy =>
    /\ \A p \in Procs : proc[p].code = "OK"
    /\ \A m, n \in Names : m # n /\ nameRootMap[m] # None => nameRootMap[m] # nameRootMap[n]

IInv == TypeOK /\ NamesAgree /\ RmFsOwns /\ OwnNames /\ ScansRoots /\ RootsApart

\* There are no unions at the start.
LEMMA InitIInv == ASSUME Parameters PROVE Init => IInv
<1> SUFFICES ASSUME Init PROVE IInv OBVIOUS
<1>1. TypeOK BY DEF Parameters, Init, TypeOK, Idle, PCs, Request
<1>2. NamesAgree BY DEF Init, NamesAgree
<1>3. RmFsOwns /\ OwnNames /\ ScansRoots BY DEF Init, RmFsOwns, OwnNames, ScansRoots, Removing, Idle
<1>4. RootsApart BY DEF Init, RootsApart, Idle
<1> QED BY <1>1, <1>2, <1>3, <1>4 DEF IInv

\* What createFs does to the tables: nothing, or a new union under a free name for a
\* directory that has none.
Creates(name, root) ==
  /\ name \notin zombies /\ known[name] = 0 /\ made < MaxUnions
  /\ \A w \in Names : w # name => nameRootMap[w] # root
  /\ made' = made + 1
  /\ owner' = [owner EXCEPT ![made + 1] = root]
  /\ mounts' = [mounts EXCEPT ![name] = made + 1]
  /\ known' = [known EXCEPT ![name] = made + 1]
  /\ nameRootMap' = [nameRootMap EXCEPT ![name] = root]

LEMMA AddFsCreates ==
  ASSUME NEW name \in Names, NEW root \in Roots, AddFs(name, root), IInv
  PROVE  UNCHANGED <<known, nameRootMap, mounts, owner, made>> \/ Creates(name, root)
<1>1. CASE name \in Special \/ Refused(name, root)
  BY <1>1 DEF AddFs, CreateFs
<1>2. CASE name \notin Special /\ ~Refused(name, root)
  <2>1. PICK id \in NewUnionFsFromRoots(root) :
          IF id = 0 \/ Mounted(name)
          THEN UNCHANGED <<known, nameRootMap, mounts, owner, made>>
          ELSE /\ made < MaxUnions
               /\ made' = id
               /\ owner' = [owner EXCEPT ![id] = root]
               /\ mounts' = [mounts EXCEPT ![name] = id]
               /\ known' = [known EXCEPT ![name] = id]
               /\ nameRootMap' = [nameRootMap EXCEPT ![name] = root]
    BY <1>2 DEF AddFs, CreateFs
  <2> QED BY <1>2, <2>1 DEF NewUnionFsFromRoots, Refused, Creates
<1> QED BY <1>1, <1>2

\* createFs keeps the invariant when the requests that remove something are as before.
LEMMA AddFsIInv ==
  ASSUME Parameters, IInv, NEW name \in Names, NEW root \in Roots, AddFs(name, root),
         UNCHANGED <<zombies, mayBeBusy>>,
         proc' \in [Procs -> Request],
         ScansRoots',
         \A p \in Procs : /\ proc'[p].code = proc[p].code
                          /\ Removing(p)' => Removing(p) /\ proc'[p] = proc[p]
  PROVE  IInv'
<1>1. UNCHANGED <<known, nameRootMap, mounts, owner, made>> \/ Creates(name, root)
  BY AddFsCreates
<1>2. TypeOK'
  <2>1. CASE UNCHANGED <<known, nameRootMap, mounts, owner, made>>
    BY <2>1 DEF IInv, TypeOK
  <2>2. CASE Creates(name, root)
    <3>1. made + 1 \in 1..MaxUnions /\ made' = made + 1 /\ made + 1 \in Nat
      BY <2>2 DEF Parameters, IInv, TypeOK, Creates
    <3>2. known' \in [Names -> Nat] /\ mounts' \in [Names -> Nat]
      BY <2>2, <3>1 DEF IInv, TypeOK, Creates
    <3>3. nameRootMap' \in [Names -> Roots \cup {None}] BY <2>2 DEF IInv, TypeOK, Creates
    <3>4. owner' \in [1..MaxUnions -> Roots \cup {None}] BY <2>2, <3>1 DEF IInv, TypeOK, Creates
    <3>5. made' \in 0..MaxUnions BY <3>1 DEF Parameters
    <3> QED BY <3>2, <3>3, <3>4, <3>5 DEF IInv, TypeOK
  <2> QED BY <1>1, <2>1, <2>2
<1>3. ASSUME NEW i, NEW r, WritesTo(i, r) PROVE WritesTo(i, r)'
  BY <1>1, <1>3 DEF Parameters, IInv, TypeOK, WritesTo, Creates
<1>4. NamesAgree'
  <2>1. CASE UNCHANGED <<known, nameRootMap, mounts, owner, made>>
    BY <2>1 DEF IInv, NamesAgree, WritesTo
  <2>2. CASE Creates(name, root)
    <3>1. WritesTo(made, root)' /\ made' = made + 1 /\ made + 1 # 0 BY <2>2 DEF Parameters, IInv, TypeOK, WritesTo, Creates
    <3> SUFFICES ASSUME NEW n \in Names \ zombies
                 PROVE  /\ known'[n] = mounts'[n]
                        /\ known'[n] = 0 => nameRootMap'[n] = None
                        /\ known'[n] # 0 => WritesTo(known[n], nameRootMap[n])'
      BY DEF NamesAgree
    <3>2. CASE n = name
      <4>1. known'[n] = made' /\ mounts'[n] = made' /\ nameRootMap'[n] = root
        BY <2>2, <3>1, <3>2 DEF IInv, TypeOK, Creates
      <4> QED BY <3>1, <4>1 DEF WritesTo
    <3>3. CASE n # name BY <1>3, <2>2, <3>3 DEF IInv, TypeOK, NamesAgree, Creates
    <3> QED BY <3>2, <3>3
  <2> QED BY <1>1, <2>1, <2>2
<1>5. RmFsOwns'
  <2> SUFFICES ASSUME NEW p \in Procs, Removing(p)'
               PROVE  /\ proc'[p].name \in zombies /\ known'[proc'[p].name] = 0
                      /\ nameRootMap'[proc'[p].name] = None
                      /\ WritesTo(proc[p].id, proc[p].root)'
                      /\ proc'[p].pc = "unmount" => proc'[p].code = "OK"
                      /\ mounts'[proc'[p].name] =
                           IF proc'[p].pc = "removed" /\ proc'[p].code = "OK" THEN 0 ELSE proc'[p].id
    BY DEF RmFsOwns
  <2>1. Removing(p) /\ proc'[p] = proc[p] OBVIOUS
  <2>2. WritesTo(proc[p].id, proc[p].root)' BY <1>3, <2>1 DEF IInv, RmFsOwns, WritesTo
  <2>3. CASE UNCHANGED <<known, nameRootMap, mounts, owner, made>>
    BY <2>1, <2>2, <2>3 DEF IInv, RmFsOwns
  <2>4. CASE Creates(name, root)
    BY <2>1, <2>2, <2>4 DEF IInv, TypeOK, RmFsOwns, Creates
  <2> QED BY <1>1, <2>3, <2>4
<1>6. OwnNames' BY DEF IInv, OwnNames
<1>7. RootsApart'
  <2>1. CASE UNCHANGED <<known, nameRootMap, mounts, owner, made>>
    BY <2>1 DEF IInv, RootsApart
  <2>2. CASE Creates(name, root)
    BY <2>2, Zenon DEF Parameters, IInv, TypeOK, RootsApart, Creates
  <2> QED BY Zenon, <1>1, <2>1, <2>2
<1> QED BY <1>2, <1>4, <1>5, <1>6, <1>7 DEF IInv

\* A link in config/.
LEMMA SymlinkIInv ==
  ASSUME Parameters, IInv, NEW p \in Procs, Symlink(p), UNCHANGED mayBeBusy
  PROVE  IInv'
<1>1. UNCHANGED <<zombies, proc>> BY DEF Symlink
<1>2. PICK name \in Names, dir \in Roots \cup {None} :
        IF GetRoots(dir) THEN AddFs(name, dir)
        ELSE UNCHANGED <<known, nameRootMap, mounts, owner, made>>
  BY Zenon DEF Symlink
<1>3. CASE GetRoots(dir)
  <2>1. dir \in Roots /\ AddFs(name, dir) BY <1>2, <1>3 DEF GetRoots
  <2>2. \A q \in Procs : /\ proc'[q].code = proc[q].code
                         /\ Removing(q)' => Removing(q) /\ proc'[q] = proc[q]
    BY <1>1 DEF Removing
  <2>3. ScansRoots' BY Zenon, <1>1 DEF IInv, ScansRoots
  <2> QED BY Zenon, <1>1, <2>1, <2>2, <2>3, AddFsIInv DEF IInv, TypeOK
<1>4. CASE ~GetRoots(dir)
  BY <1>1, <1>2, <1>4
     DEF IInv, TypeOK, NamesAgree, RmFsOwns, OwnNames, ScansRoots, RootsApart, WritesTo, Removing
<1> QED BY <1>3, <1>4

\* The steps of a scan that touch no table.
LEMMA ScanIInv ==
  ASSUME Parameters, IInv, NEW p \in Procs, UpdateKnownFses(p) \/ Visit(p), UNCHANGED mayBeBusy
  PROVE  IInv'
<1>1. UNCHANGED <<known, nameRootMap, zombies, mounts, owner, made>> BY Zenon DEF UpdateKnownFses, Visit
<1>2. /\ proc' \in [Procs -> Request]
      /\ ~Removing(p)' /\ ~Removing(p) /\ proc'[p].code \in {"OK", proc[p].code}
      /\ proc'[p].pc = "add" => proc'[p].root \in Roots
      /\ \A q \in Procs : q # p => proc'[q] = proc[q]
  <2>1. CASE UpdateKnownFses(p)
    BY <2>1, ZenonT(40) DEF UpdateKnownFses, IInv, TypeOK, Idle, Removing, PCs, Request
  <2>2. CASE Visit(p)
    <3>1. CASE proc' = [proc EXCEPT ![p] = Idle]
      BY <2>2, <3>1, Zenon DEF Visit, IInv, TypeOK, Idle, Removing, PCs, Request
    <3>2. ASSUME NEW r \in proc[p].todo,
                 proc' = [proc EXCEPT ![p].todo = @ \ {r}, ![p].root = r,
                            ![p].pc = IF known[AutoName(r)] = 0 THEN "add" ELSE "visit"]
          PROVE  /\ proc' \in [Procs -> Request]
                 /\ ~Removing(p)' /\ ~Removing(p) /\ proc'[p].code \in {"OK", proc[p].code}
                 /\ proc'[p].pc = "add" => proc'[p].root \in Roots
                 /\ \A q \in Procs : q # p => proc'[q] = proc[q]
      <4>1. PICK c \in {"add", "visit"} :
              proc' = [proc EXCEPT ![p].todo = @ \ {r}, ![p].root = r, ![p].pc = c]
        BY <3>2, Zenon
      <4>2. proc[p] \in Request /\ proc[p].pc = "visit" /\ r \in Roots
        BY <2>2, <3>2, Zenon DEF Visit, IInv, TypeOK, Request
      <4> DEFINE new == [proc[p] EXCEPT !.todo = @ \ {r}, !.root = r, !.pc = c]
      <4>3. new \in Request /\ new.pc = c /\ new.root = r /\ new.code = proc[p].code
        BY <4>2, Zenon DEF Request, PCs
      <4>4. proc' = [proc EXCEPT ![p] = new] BY <4>1, Zenon DEF IInv, TypeOK
      <4> HIDE DEF new
      <4>5. proc'[p] = new /\ \A q \in Procs : q # p => proc'[q] = proc[q]
        BY <4>4 DEF IInv, TypeOK
      <4>6. proc' \in [Procs -> Request] BY <4>3, <4>4 DEF IInv, TypeOK
      <4> QED BY <4>2, <4>3, <4>5, <4>6 DEF Removing
    <3> QED BY <2>2, <3>1, <3>2, Zenon DEF Visit
  <2> QED BY <2>1, <2>2
<1>3. TypeOK' BY <1>1, <1>2 DEF IInv, TypeOK
<1>4. NamesAgree' BY Zenon, <1>1 DEF IInv, NamesAgree, WritesTo
<1>5. RmFsOwns' BY <1>1, <1>2 DEF IInv, RmFsOwns, WritesTo, Removing
<1>6. OwnNames' BY ZenonT(60), <1>1, <1>2 DEF IInv, OwnNames, Removing
<1>7. ScansRoots' BY Zenon, <1>2 DEF IInv, ScansRoots
<1>8. RootsApart' BY <1>1, <1>2 DEF IInv, RootsApart
<1> QED BY SMTT(30), <1>3, <1>4, <1>5, <1>6, <1>7, <1>8 DEF IInv

\* A directory found by a scan.
LEMMA AddAutomaticFsIInv ==
  ASSUME Parameters, IInv, NEW p \in Procs, AddAutomaticFs(p), UNCHANGED mayBeBusy
  PROVE  IInv'
<1>1. /\ proc[p].pc = "add" /\ AddFs(AutoName(proc[p].root), proc[p].root)
      /\ proc' = [proc EXCEPT ![p].pc = "visit", ![p].root = None] /\ UNCHANGED zombies
  BY DEF AddAutomaticFs
<1>2. proc[p].root \in Roots /\ AutoName(proc[p].root) \in Names
  BY <1>1 DEF IInv, ScansRoots, Parameters
<1>3. /\ proc' \in [Procs -> Request]
      /\ proc'[p].pc = "visit" /\ proc'[p].code = proc[p].code
      /\ \A q \in Procs : q # p => proc'[q] = proc[q]
  <2>1. proc[p] \in Request BY DEF IInv, TypeOK
  <2> DEFINE new == [proc[p] EXCEPT !.pc = "visit", !.root = None]
  <2>2. new \in Request /\ new.pc = "visit" /\ new.code = proc[p].code BY <2>1, Zenon DEF Request, PCs
  <2>3. proc' = [proc EXCEPT ![p] = new] BY <1>1, Zenon DEF IInv, TypeOK
  <2> HIDE DEF new
  <2> QED BY <2>2, <2>3 DEF IInv, TypeOK
<1>4. ScansRoots' BY <1>3 DEF IInv, ScansRoots
<1>5. \A q \in Procs : /\ proc'[q].code = proc[q].code
                       /\ Removing(q)' => Removing(q) /\ proc'[q] = proc[q]
  BY <1>3 DEF Removing
<1> QED BY <1>1, <1>2, <1>3, <1>4, <1>5, AddFsIInv

\* rmFs takes a name that nobody works on.
LEMMA RmFsIInv ==
  ASSUME Parameters, IInv, NEW p \in Procs, RmFs(p), UNCHANGED mayBeBusy
  PROVE  IInv'
<1>1. PICK n \in Names \ Special :
       /\ n \notin zombies /\ known[n] # 0
       /\ proc' = [proc EXCEPT ![p] = [Idle EXCEPT !.pc = "unmount", !.name = n,
                                         !.id = known[n], !.root = nameRootMap[n]]]
       /\ known' = [known EXCEPT ![n] = 0]
       /\ nameRootMap' = [nameRootMap EXCEPT ![n] = None]
       /\ zombies' = zombies \cup {n}
  BY Zenon DEF RmFs
<1>2. UNCHANGED <<mounts, owner, made>> /\ proc[p].pc = "idle" BY DEF RmFs
<1> DEFINE new == [Idle EXCEPT !.pc = "unmount", !.name = n,
                     !.id = known[n], !.root = nameRootMap[n]]
<1>3. proc' = [proc EXCEPT ![p] = new] BY <1>1
<1>5. new \in Request BY <1>1, Zenon DEF IInv, TypeOK, PCs, Request, Idle
<1>6. /\ new.pc = "unmount" /\ new.name = n /\ new.root = nameRootMap[n]
      /\ new.id = known[n] /\ new.code = "OK"
  BY DEF Idle
<1> HIDE DEF new
<1>4. proc'[p] = new /\ \A q \in Procs : q # p => proc'[q] = proc[q]
  BY <1>3 DEF IInv, TypeOK
<1>7. WritesTo(known[n], nameRootMap[n]) /\ mounts[n] = known[n] BY <1>1 DEF IInv, NamesAgree
<1>8. TypeOK' BY <1>1, <1>2, <1>3, <1>5 DEF IInv, TypeOK
<1>9. NamesAgree' BY Zenon, <1>1, <1>2 DEF IInv, TypeOK, NamesAgree, WritesTo
<1>10. RmFsOwns'
  <2> SUFFICES ASSUME NEW q \in Procs, Removing(q)'
               PROVE  /\ proc'[q].name \in zombies' /\ known'[proc'[q].name] = 0
                      /\ nameRootMap'[proc'[q].name] = None
                      /\ WritesTo(proc'[q].id, proc'[q].root)
                      /\ proc'[q].pc = "unmount" => proc'[q].code = "OK"
                      /\ mounts'[proc'[q].name] =
                           IF proc'[q].pc = "removed" /\ proc'[q].code = "OK" THEN 0 ELSE proc'[q].id
    BY <1>2 DEF RmFsOwns, WritesTo
  <2>1. CASE q = p
    <3>1. n \in Names /\ n \in zombies' /\ known'[n] = 0 /\ nameRootMap'[n] = None
      BY <1>1 DEF IInv, TypeOK
    <3>2. proc'[q] = new BY <1>4, <2>1
    <3> QED BY <1>2, <1>6, <1>7, <3>1, <3>2
  <2>2. CASE q # p
    BY <1>1, <1>2, <1>4, <2>2 DEF IInv, TypeOK, RmFsOwns, Removing
  <2> QED BY Zenon, <2>1, <2>2
<1>11. OwnNames' BY <1>1, <1>4, <1>6 DEF IInv, OwnNames, RmFsOwns, Removing
<1>12. ScansRoots' BY <1>4, <1>6 DEF IInv, ScansRoots
<1>13. RootsApart' BY <1>1, <1>4, <1>6, ZenonT(40) DEF IInv, TypeOK, RootsApart
<1> QED BY SMTT(30), <1>8, <1>9, <1>10, <1>11, <1>12, <1>13 DEF IInv

\* The unmount changes what is mounted at a name that only this request works on.
LEMMA UnmountIInv ==
  ASSUME Parameters, IInv, NEW p \in Procs, Unmount(p), UNCHANGED mayBeBusy
  PROVE  IInv'
<1>1. proc[p].pc = "unmount" /\ UNCHANGED <<known, nameRootMap, zombies, owner, made>>
  BY DEF Unmount
<1>2. /\ proc[p].name \in zombies /\ proc[p].name \in Names /\ Removing(p)
      /\ proc[p].code = "OK" /\ mounts[proc[p].name] = proc[p].id
  BY <1>1 DEF IInv, TypeOK, RmFsOwns, Removing
<1>3. /\ \A q \in Procs : q # p => proc'[q] = proc[q]
      /\ proc'[p].pc = "removed" /\ proc'[p].name = proc[p].name
      /\ proc'[p].id = proc[p].id /\ proc'[p].root = proc[p].root
      /\ proc'[p].code \in {"OK", "EBUSY"} /\ (~mayBeBusy => proc'[p].code = "OK")
      /\ mounts' = IF proc'[p].code = "OK" THEN [mounts EXCEPT ![proc[p].name] = 0] ELSE mounts
      /\ proc' \in [Procs -> Request]
  <2>1. proc[p] \in Request BY DEF IInv, TypeOK
  <2>2. PICK c \in {"OK", "EBUSY"} :
          /\ ~mayBeBusy => c = "OK"
          /\ mounts' = IF c = "OK" THEN [mounts EXCEPT ![proc[p].name] = 0] ELSE mounts
          /\ proc' = [proc EXCEPT ![p] = [proc[p] EXCEPT !.pc = "removed", !.code = c]]
    <3>1. CASE /\ mounts' = [mounts EXCEPT ![proc[p].name] = 0]
               /\ proc' = [proc EXCEPT ![p].pc = "removed"]
      <4>1. [proc[p] EXCEPT !.pc = "removed", !.code = "OK"] = [proc[p] EXCEPT !.pc = "removed"]
        BY <1>2, <2>1, Zenon DEF Request
      <4>2. proc' = [proc EXCEPT ![p] = [proc[p] EXCEPT !.pc = "removed"]]
        BY <3>1 DEF IInv, TypeOK
      <4>3. proc' = [proc EXCEPT ![p] = [proc[p] EXCEPT !.pc = "removed", !.code = "OK"]]
        BY <4>1, <4>2, Zenon
      <4> QED BY <3>1, <4>3, Zenon
    <3>2. CASE /\ mayBeBusy /\ mounts' = mounts
               /\ proc' = [proc EXCEPT ![p].pc = "removed", ![p].code = "EBUSY"]
      <4>1. proc' = [proc EXCEPT ![p] = [proc[p] EXCEPT !.pc = "removed", !.code = "EBUSY"]]
        BY <3>2, Zenon DEF IInv, TypeOK
      <4> QED BY <3>2, <4>1, Zenon
    <3> QED BY <3>1, <3>2 DEF Unmount
  <2> DEFINE new == [proc[p] EXCEPT !.pc = "removed", !.code = c]
  <2>3. /\ new \in Request /\ new.pc = "removed" /\ new.code = c
        /\ new.name = proc[p].name /\ new.id = proc[p].id /\ new.root = proc[p].root
    BY <2>1, ZenonT(40) DEF Request, PCs
  <2>4. proc' = [proc EXCEPT ![p] = new] BY <2>2
  <2> HIDE DEF new
  <2>5. /\ proc'[p] = new /\ \A q \in Procs : q # p => proc'[q] = proc[q]
        /\ proc' \in [Procs -> Request]
    BY <2>3, <2>4 DEF IInv, TypeOK
  <2> QED BY <2>2, <2>3, <2>5
<1>4. TypeOK'
  <2>1. mounts' \in [Names -> Nat] BY Zenon, <1>2, <1>3 DEF IInv, TypeOK
  <2> QED BY <1>1, <1>3, <2>1 DEF IInv, TypeOK
<1>5. NamesAgree' BY Zenon, <1>1, <1>2, <1>3 DEF IInv, TypeOK, NamesAgree, WritesTo
<1>6. RmFsOwns'
  <2> SUFFICES ASSUME NEW q \in Procs, Removing(q)'
               PROVE  /\ proc'[q].name \in zombies' /\ known'[proc'[q].name] = 0
                      /\ nameRootMap'[proc'[q].name] = None
                      /\ WritesTo(proc'[q].id, proc'[q].root)
                      /\ proc'[q].pc = "unmount" => proc'[q].code = "OK"
                      /\ mounts'[proc'[q].name] =
                           IF proc'[q].pc = "removed" /\ proc'[q].code = "OK" THEN 0 ELSE proc'[q].id
    BY Zenon, <1>1 DEF RmFsOwns, WritesTo
  <2>1. CASE q = p
    BY Zenon, <1>1, <1>2, <1>3, <2>1 DEF IInv, TypeOK, RmFsOwns
  <2>2. CASE q # p
    <3>1. Removing(q) /\ proc'[q] = proc[q] BY Zenon, <1>3, <2>2 DEF Removing
    <3>2. proc[q].name # proc[p].name BY Zenon, <1>2, <2>2, <3>1 DEF IInv, OwnNames
    <3> QED BY ZenonT(60), <1>1, <1>3, <3>1, <3>2 DEF IInv, TypeOK, RmFsOwns
  <2> QED BY Zenon, <2>1, <2>2
<1>7. OwnNames' BY <1>2, <1>3 DEF IInv, OwnNames, Removing
<1>8. ScansRoots' BY Zenon, <1>3 DEF IInv, ScansRoots
<1>9. RootsApart' BY <1>1, <1>3 DEF IInv, RootsApart
<1> QED BY <1>4, <1>5, <1>6, <1>7, <1>8, <1>9 DEF IInv

\* A name comes back as it was, or is free.
LEMMA RemovedIInv ==
  ASSUME Parameters, IInv, NEW p \in Procs, Removed(p), UNCHANGED mayBeBusy
  PROVE  IInv'
<1> DEFINE n == proc[p].name
<1>1. /\ proc[p].pc = "removed" /\ zombies' = zombies \ {n}
      /\ proc' = [proc EXCEPT ![p] = Idle] /\ UNCHANGED <<mounts, owner, made>>
  BY Zenon DEF Removed
<1>2. /\ n \in zombies /\ n \in Names /\ known[n] = 0 /\ nameRootMap[n] = None /\ Removing(p)
      /\ WritesTo(proc[p].id, proc[p].root) /\ proc[p].code \in {"OK", "EBUSY"}
      /\ mounts[n] = IF proc[p].code = "OK" THEN 0 ELSE proc[p].id
  <2>1. proc[p].code \in {"OK", "EBUSY"} BY DEF IInv, TypeOK, Request
  <2> QED BY <1>1, <2>1 DEF IInv, TypeOK, RmFsOwns, Removing
<1>3. /\ known' = IF proc[p].code = "OK" THEN known ELSE [known EXCEPT ![n] = proc[p].id]
      /\ nameRootMap' = IF proc[p].code = "OK" THEN nameRootMap
                        ELSE [nameRootMap EXCEPT ![n] = proc[p].root]
  BY DEF Removed, Reinstate
<1>4. /\ proc'[p].pc = "idle" /\ proc'[p].code = "OK"
      /\ \A q \in Procs : q # p => proc'[q] = proc[q]
  BY <1>1 DEF IInv, TypeOK, Idle
<1>5. TypeOK'
  <2>1. Idle \in Request
    BY DEF Idle, PCs, Request
  <2>2. proc[p].id \in Nat /\ proc[p].root \in Roots \cup {None} BY DEF IInv, TypeOK, Request
  <2>3. known' \in [Names -> Nat] BY <1>3, <2>2, Zenon DEF IInv, TypeOK
  <2>4. nameRootMap' \in [Names -> Roots \cup {None}] BY <1>3, <2>2, ZenonT(40) DEF IInv, TypeOK
  <2>5. proc' \in [Procs -> Request] BY Zenon, <1>1, <2>1 DEF IInv, TypeOK
  <2> QED BY Zenon, <1>1, <2>3, <2>4, <2>5 DEF IInv, TypeOK
<1>6. ASSUME NEW q \in Procs, q # p, Removing(q) PROVE proc[q].name # n
  BY Zenon, <1>2, <1>6 DEF IInv, OwnNames
<1> HIDE DEF n
<1>7. NamesAgree'
  <2> SUFFICES ASSUME NEW m \in Names \ zombies'
               PROVE  /\ known'[m] = mounts'[m]
                      /\ known'[m] = 0 => nameRootMap'[m] = None
                      /\ known'[m] # 0 => WritesTo(known'[m], nameRootMap'[m])
    BY Zenon, <1>1 DEF NamesAgree, WritesTo
  <2>1. CASE m = n BY <1>1, <1>2, <1>3, <2>1 DEF IInv, TypeOK, WritesTo
  <2>2. CASE m # n BY Zenon, <1>1, <1>2, <1>3, <2>2 DEF IInv, TypeOK, NamesAgree
  <2> QED BY Zenon, <2>1, <2>2
<1>8. RmFsOwns'
  <2> SUFFICES ASSUME NEW q \in Procs, Removing(q)'
               PROVE  /\ proc'[q].name \in zombies' /\ known'[proc'[q].name] = 0
                      /\ nameRootMap'[proc'[q].name] = None
                      /\ WritesTo(proc'[q].id, proc'[q].root)
                      /\ proc'[q].pc = "unmount" => proc'[q].code = "OK"
                      /\ mounts'[proc'[q].name] =
                           IF proc'[q].pc = "removed" /\ proc'[q].code = "OK" THEN 0 ELSE proc'[q].id
    BY <1>1 DEF RmFsOwns, WritesTo
  <2>1. q # p /\ Removing(q) /\ proc'[q] = proc[q] BY <1>4 DEF Removing
  <2>2. proc[q].name # n BY Zenon, <1>6, <2>1
  <2> QED BY Zenon, <1>1, <1>3, <2>1, <2>2 DEF IInv, TypeOK, RmFsOwns
<1>9. OwnNames' BY <1>4 DEF IInv, OwnNames, Removing
<1>10. ScansRoots' BY Zenon, <1>4 DEF IInv, ScansRoots
<1>11. RootsApart' BY <1>3, <1>4 DEF IInv, RootsApart
<1> QED BY <1>5, <1>7, <1>8, <1>9, <1>10, <1>11 DEF IInv

\* Every step keeps the invariant.
LEMMA NextIInv == ASSUME Parameters, IInv, [Next]_vars PROVE IInv'
<1>1. CASE UNCHANGED vars
  BY <1>1 DEF vars, IInv, TypeOK, NamesAgree, RmFsOwns, OwnNames, ScansRoots, RootsApart,
              WritesTo, Removing
<1>2. CASE Next
  <2>1. UNCHANGED mayBeBusy BY <1>2 DEF Next
  <2>2. PICK p \in Procs : \/ Symlink(p) \/ UpdateKnownFses(p) \/ Visit(p) \/ AddAutomaticFs(p)
                           \/ RmFs(p) \/ Unmount(p) \/ Removed(p)
    BY <1>2 DEF Next
  <2> QED BY <2>1, <2>2, SymlinkIInv, ScanIInv, AddAutomaticFsIInv, RmFsIInv, UnmountIInv, RemovedIInv
<1> QED BY Zenon, <1>1, <1>2

\* unionfs/autounion.go: config/ lists a name, with the directory of its union, exactly
\* when that union is mounted there, but for names being removed; for any number of
\* requests at the same time and whether or not unmounts fail.
THEOREM ConfigCorrect == ASSUME Parameters PROVE Spec => []ConfigMatchesMounts
<1>1. IInv => ConfigMatchesMounts
  BY Zenon DEF IInv, TypeOK, NamesAgree, WritesTo, ConfigMatchesMounts, OpenDirConfig, GetAttrLink, Readlink
<1> QED BY <1>1, InitIInv, NextIInv, PTL DEF Spec

\* A name in zombies is being removed by some request.
ZombiesOwned == \A n \in zombies : \E p \in Procs : Removing(p) /\ proc[p].name = n

\* rmFs takes the names it has put into zombies out again, and nobody else does.
LEMMA ZombiesNext == ASSUME IInv, ZombiesOwned, [Next]_vars PROVE ZombiesOwned'
<1>1. CASE UNCHANGED vars BY Zenon, <1>1 DEF vars, ZombiesOwned, Removing
<1>2. ASSUME NEW p \in Procs,
             Symlink(p) \/ UpdateKnownFses(p) \/ Visit(p) \/ AddAutomaticFs(p)
      PROVE  ZombiesOwned'
  <2>1. zombies' = zombies BY Zenon, <1>2 DEF Symlink, UpdateKnownFses, Visit, AddAutomaticFs
  <2>2. \A q \in Procs : Removing(q) => proc'[q] = proc[q]
    <3>1. CASE Symlink(p) BY Zenon, <3>1 DEF Symlink
    <3>2. CASE UpdateKnownFses(p) BY <3>2 DEF UpdateKnownFses, Removing, IInv, TypeOK
    <3>3. CASE Visit(p) BY <3>3 DEF Visit, Removing, IInv, TypeOK
    <3>4. CASE AddAutomaticFs(p) BY <3>4 DEF AddAutomaticFs, Removing, IInv, TypeOK
    <3> QED BY Zenon, <1>2, <3>1, <3>2, <3>3, <3>4
  <2> QED BY Zenon, <2>1, <2>2 DEF ZombiesOwned, Removing
<1>3. ASSUME NEW p \in Procs, RmFs(p) PROVE ZombiesOwned'
  <2>1. PICK n \in Names \ Special :
          /\ zombies' = zombies \cup {n}
          /\ proc' = [proc EXCEPT ![p] = [Idle EXCEPT !.pc = "unmount", !.name = n,
                                            !.id = known[n], !.root = nameRootMap[n]]]
    BY Zenon, <1>3 DEF RmFs
  <2>2. proc[p].pc = "idle" BY Zenon, <1>3 DEF RmFs
  <2>3. /\ proc'[p].pc = "unmount" /\ proc'[p].name = n
        /\ \A q \in Procs : q # p => proc'[q] = proc[q]
    BY <2>1 DEF Idle, IInv, TypeOK
  <2>4. \A q \in Procs : Removing(q) => q # p BY Zenon, <2>2 DEF Removing
  <2>5. ASSUME NEW z \in zombies'
        PROVE  \E q \in Procs : proc'[q].pc \in {"unmount", "removed"} /\ proc'[q].name = z
    <3>1. CASE z = n BY Zenon, <2>3, <3>1
    <3>2. CASE z # n
      <4>1. PICK q \in Procs : Removing(q) /\ proc[q].name = z BY Zenon, <2>1, <3>2 DEF ZombiesOwned
      <4> QED BY Zenon, <2>3, <2>4, <4>1 DEF Removing
    <3> QED BY Zenon, <3>1, <3>2
  <2> QED BY Zenon, <2>5 DEF ZombiesOwned, Removing
<1>4. ASSUME NEW p \in Procs, Unmount(p) PROVE ZombiesOwned'
  <2>1. zombies' = zombies BY Zenon, <1>4 DEF Unmount
  <2>2. /\ proc'[p].pc = "removed" /\ proc'[p].name = proc[p].name
        /\ \A q \in Procs : q # p => proc'[q] = proc[q]
    BY <1>4 DEF Unmount, IInv, TypeOK, Request
  <2> QED BY Zenon, <2>1, <2>2 DEF ZombiesOwned, Removing
<1>5. ASSUME NEW p \in Procs, Removed(p) PROVE ZombiesOwned'
  <2>1. zombies' = zombies \ {proc[p].name} /\ proc' = [proc EXCEPT ![p] = Idle]
    BY Zenon, <1>5 DEF Removed
  <2>2. \A q \in Procs : q # p => proc'[q] = proc[q] BY <2>1 DEF IInv, TypeOK
  <2> QED BY Zenon, <2>1, <2>2 DEF ZombiesOwned, Removing
<1> QED BY Zenon, <1>1, <1>2, <1>3, <1>4, <1>5 DEF Next

\* The check of createFs is enough as long as no unmount fails: two mounted unions,
\* under whatever names, write to different directories unless rmFs is removing one of
\* them, however links, scans and removals meet.
THEOREM RootsCorrect == ASSUME Parameters PROVE Spec => []OneUnionPerRoot
<1>1. IInv /\ ZombiesOwned => OneUnionPerRoot
  <2> SUFFICES ASSUME IInv, ZombiesOwned, ~mayBeBusy, NEW m \in Names, NEW n \in Names, m # n,
                      mounts[m] # 0, mounts[n] # 0, ~BeingRemoved(m), ~BeingRemoved(n)
               PROVE  owner[mounts[m]] # owner[mounts[n]]
    BY Zenon DEF OneUnionPerRoot, RootsSeparate
  <2>2. m \notin zombies /\ n \notin zombies BY Zenon DEF ZombiesOwned, Removing, BeingRemoved
  <2>3. /\ WritesTo(known[m], nameRootMap[m]) /\ known[m] = mounts[m]
        /\ WritesTo(known[n], nameRootMap[n]) /\ known[n] = mounts[n]
    BY <2>2 DEF IInv, NamesAgree
  <2>4. nameRootMap[m] # None
    BY <2>3 DEF WritesTo, Parameters
  <2>5. nameRootMap[m] # nameRootMap[n] BY <2>4 DEF IInv, RootsApart
  <2> QED BY <2>3, <2>5 DEF WritesTo
<1>2. Init => ZombiesOwned BY Zenon DEF Init, ZombiesOwned
<1> QED BY <1>1, <1>2, InitIInv, NextIInv, ZombiesNext, PTL DEF Spec
-----------------------------------------------------------------------------
(* Archives mounted by links.                                              *)

\* What is assumed of the parameters: a file has a name, which is not None.
ZipParameters == MaxRoots \in Nat /\ Archive!None \notin Archives

\* The types of the tables, of the tree and of the requests.
ZipTypeOK ==
  /\ zips \in [Links -> Nat] /\ dirZipFileMap \in [Links -> Archives \cup {Archive!None}]
  /\ zombie \subseteq Links /\ mounted \in [Links -> Nat]
  /\ holds \in [1..MaxRoots -> Archives \cup {Archive!None}] /\ roots \in 0..MaxRoots
  /\ zproc \in [Procs -> [pc : {"idle", "unmount", "removed"}, name : Links \cup {Archive!None},
                          root : Nat, file : Archives \cup {Archive!None}, ok : BOOLEAN]]

\* Root r was read from file f.
ReadFrom(r, f) == r \in 1..roots /\ f \in Archives /\ holds[r] = f

\* A name that is not being unmounted: both tables and the tree agree.
ZipNamesAgree ==
  \A n \in Links \ zombie :
    /\ zips[n] = mounted[n]
    /\ zips[n] = 0 => dirZipFileMap[n] = Archive!None
    /\ zips[n] # 0 => ReadFrom(zips[n], dirZipFileMap[n])

\* The name an Unlink works on, with what it keeps to put back.
Owned(r) ==
  /\ r.name \in zombie /\ r.name \in Links /\ zips[r.name] = 0 /\ dirZipFileMap[r.name] = Archive!None
  /\ ReadFrom(r.root, r.file)
  /\ mounted[r.name] = IF r.pc = "removed" /\ r.ok = TRUE THEN 0 ELSE r.root
UnlinkOwns == \A p \in Procs : zproc[p].pc # "idle" => Owned(zproc[p])

\* No two requests unmount one name.
ZipOwnNames ==
  \A p, q \in Procs : zproc[p].pc # "idle" /\ zproc[q].pc # "idle" /\ p # q =>
    zproc[p].name # zproc[q].name

ZipIInv == ZipTypeOK /\ ZipNamesAgree /\ UnlinkOwns /\ ZipOwnNames

\* Nothing is mounted at the start.
LEMMA ZipInitIInv == ASSUME ZipParameters PROVE Archive!Init => ZipIInv
<1> SUFFICES ASSUME Archive!Init PROVE ZipIInv OBVIOUS
<1>1. ZipTypeOK BY DEF ZipParameters, Archive!Init, ZipTypeOK, Archive!Idle
<1>2. \A p \in Procs : zproc[p].pc = "idle" BY DEF Archive!Init, Archive!Idle
<1>3. ZipNamesAgree BY Zenon DEF Archive!Init, ZipNamesAgree
<1>4. UnlinkOwns /\ ZipOwnNames BY <1>2 DEF UnlinkOwns, ZipOwnNames
<1> QED BY <1>1, <1>3, <1>4 DEF ZipIInv

\* A new archive gets a root of its own and a name nobody works on.
LEMMA ZipSymlinkIInv ==
  ASSUME ZipParameters, ZipIInv, NEW p \in Procs, Archive!Symlink(p)
  PROVE  ZipIInv'
<1>1. PICK n \in Links, f \in Archives :
        /\ ~Archive!Busy(n) /\ roots' = roots + 1 /\ holds' = [holds EXCEPT ![roots + 1] = f]
        /\ \/ UNCHANGED <<Archive!tables, mounted>>
           \/ /\ mounted[n] = 0
              /\ mounted' = [mounted EXCEPT ![n] = roots + 1]
              /\ dirZipFileMap' = [dirZipFileMap EXCEPT ![n] = f]
              /\ zips' = [zips EXCEPT ![n] = roots + 1]
              /\ zombie' = zombie
  BY Zenon DEF Archive!Symlink
<1>2. roots < MaxRoots /\ zproc' = zproc BY DEF Archive!Symlink
<1>3. n \notin zombie BY <1>1 DEF Archive!Busy
<1>4. roots' \in 0..MaxRoots /\ holds' \in [1..MaxRoots -> Archives \cup {Archive!None}]
  BY <1>1, <1>2 DEF ZipParameters, ZipIInv, ZipTypeOK
<1>5. \A r, g : ReadFrom(r, g) => r \in 1..roots' /\ g \in Archives /\ holds'[r] = g
  BY <1>1, <1>2 DEF ZipParameters, ZipIInv, ZipTypeOK, ReadFrom
<1>6. roots + 1 \in 1..roots' /\ holds'[roots + 1] = f /\ roots + 1 # 0 /\ roots + 1 \in Nat
  BY <1>1, <1>2 DEF ZipParameters, ZipIInv, ZipTypeOK
<1>7. ZipOwnNames' BY <1>2 DEF ZipIInv, ZipOwnNames
<1>8. CASE UNCHANGED <<Archive!tables, mounted>>
  <2>1. UNCHANGED <<zips, dirZipFileMap, zombie, mounted>> BY <1>8 DEF Archive!tables
  <2>2. ZipTypeOK' BY Zenon, <1>2, <1>4, <2>1 DEF ZipIInv, ZipTypeOK
  <2>3. ZipNamesAgree' BY <1>5, <2>1 DEF ZipIInv, ZipNamesAgree, ReadFrom
  <2>4. UnlinkOwns' BY <1>2, <1>5, <2>1 DEF ZipIInv, UnlinkOwns, Owned, ReadFrom
  <2> QED BY <1>7, <2>2, <2>3, <2>4 DEF ZipIInv
<1>9. CASE /\ mounted' = [mounted EXCEPT ![n] = roots + 1]
           /\ dirZipFileMap' = [dirZipFileMap EXCEPT ![n] = f]
           /\ zips' = [zips EXCEPT ![n] = roots + 1]
           /\ zombie' = zombie
  <2>1. /\ \A m \in Links : m # n => /\ mounted'[m] = mounted[m] /\ zips'[m] = zips[m]
                                     /\ dirZipFileMap'[m] = dirZipFileMap[m]
        /\ mounted'[n] = roots + 1 /\ zips'[n] = roots + 1 /\ dirZipFileMap'[n] = f
    BY Zenon, <1>9 DEF ZipIInv, ZipTypeOK
  <2>2. ZipTypeOK' BY Zenon, <1>2, <1>4, <1>6, <1>9 DEF ZipIInv, ZipTypeOK
  <2>3. ZipNamesAgree'
    <3> SUFFICES ASSUME NEW m \in Links \ zombie
                 PROVE  /\ zips'[m] = mounted'[m]
                        /\ zips'[m] = 0 => dirZipFileMap'[m] = Archive!None
                        /\ zips'[m] # 0 =>
                             /\ zips'[m] \in 1..roots' /\ dirZipFileMap'[m] \in Archives
                             /\ holds'[zips'[m]] = dirZipFileMap'[m]
      BY Zenon, <1>9 DEF ZipNamesAgree, ReadFrom
    <3>1. CASE m = n BY ZenonT(60), <1>6, <2>1, <3>1
    <3>2. CASE m # n
      <4>1. /\ zips[m] = mounted[m] /\ (zips[m] = 0 => dirZipFileMap[m] = Archive!None)
            /\ zips[m] # 0 => ReadFrom(zips[m], dirZipFileMap[m])
        BY Zenon DEF ZipIInv, ZipNamesAgree
      <4>2. /\ zips'[m] = zips[m] /\ mounted'[m] = mounted[m] /\ dirZipFileMap'[m] = dirZipFileMap[m]
        BY ZenonT(60), <2>1, <3>2
      <4> QED BY <1>5, <4>1, <4>2
    <3> QED BY Zenon, <3>1, <3>2
  <2>4. UnlinkOwns'
    <3> SUFFICES ASSUME NEW q \in Procs, zproc[q].pc # "idle" PROVE Owned(zproc[q])'
      BY <1>2 DEF UnlinkOwns
    <3>1. Owned(zproc[q]) BY Zenon DEF ZipIInv, UnlinkOwns
    <3>2. zproc[q].name # n BY <1>3, <3>1 DEF Owned
    <3> QED BY <1>2, <1>5, <1>9, <2>1, <3>1, <3>2 DEF Owned, ReadFrom
  <2> QED BY <1>7, <2>2, <2>3, <2>4 DEF ZipIInv
<1> QED BY <1>1, <1>8, <1>9

\* Unlink takes a name that nobody works on.
LEMMA ZipUnlinkIInv ==
  ASSUME ZipParameters, ZipIInv, NEW p \in Procs, Archive!Unlink(p)
  PROVE  ZipIInv'
<1>1. PICK n \in Links \ zombie :
        /\ zips[n] # 0
        /\ zproc' = [zproc EXCEPT ![p] = [Archive!Idle EXCEPT !.pc = "unmount", !.name = n,
                                            !.root = zips[n], !.file = dirZipFileMap[n]]]
        /\ zombie' = zombie \cup {n}
        /\ zips' = [zips EXCEPT ![n] = 0]
        /\ dirZipFileMap' = [dirZipFileMap EXCEPT ![n] = Archive!None]
  BY Zenon DEF Archive!Unlink
<1>2. UNCHANGED <<mounted, holds, roots>> /\ zproc[p].pc = "idle" BY DEF Archive!Unlink, Archive!tree
<1> DEFINE new == [Archive!Idle EXCEPT !.pc = "unmount", !.name = n,
                               !.root = zips[n], !.file = dirZipFileMap[n]]
<1>3. zproc' = [zproc EXCEPT ![p] = new] BY <1>1
<1>4. zips[n] \in Nat /\ dirZipFileMap[n] \in Archives \cup {Archive!None} BY DEF ZipIInv, ZipTypeOK
<1>5. /\ new.pc = "unmount" /\ new.name = n /\ new.root = zips[n] /\ new.file = dirZipFileMap[n]
      /\ new \in [pc : {"idle", "unmount", "removed"}, name : Links \cup {Archive!None},
                  root : Nat, file : Archives \cup {Archive!None}, ok : BOOLEAN]
  BY <1>4, Zenon DEF Archive!Idle
<1> HIDE DEF new
<1>6. zproc'[p] = new /\ \A q \in Procs : q # p => zproc'[q] = zproc[q]
  BY <1>3 DEF ZipIInv, ZipTypeOK
<1>7. ReadFrom(zips[n], dirZipFileMap[n]) /\ mounted[n] = zips[n] BY Zenon, <1>1 DEF ZipIInv, ZipNamesAgree
<1>8. ZipTypeOK'
  <2>1. zproc' \in [Procs -> [pc : {"idle", "unmount", "removed"}, name : Links \cup {Archive!None},
                              root : Nat, file : Archives \cup {Archive!None}, ok : BOOLEAN]]
    BY <1>3, <1>5 DEF ZipIInv, ZipTypeOK
  <2>2. /\ zips' \in [Links -> Nat] /\ dirZipFileMap' \in [Links -> Archives \cup {Archive!None}]
        /\ zombie' \subseteq Links
    BY <1>1 DEF ZipIInv, ZipTypeOK
  <2> QED BY Zenon, <1>2, <2>1, <2>2 DEF ZipIInv, ZipTypeOK
<1>9. /\ \A m \in Links : m # n => zips'[m] = zips[m] /\ dirZipFileMap'[m] = dirZipFileMap[m]
      /\ zips'[n] = 0 /\ dirZipFileMap'[n] = Archive!None
  BY <1>1 DEF ZipIInv, ZipTypeOK
<1>13. zombie' = zombie \cup {n} /\ n \in Links /\ n \notin zombie BY Zenon, <1>1
<1>10. ZipNamesAgree'
  <2> SUFFICES ASSUME NEW m \in Links \ zombie'
               PROVE  /\ zips'[m] = mounted[m]
                      /\ zips'[m] = 0 => dirZipFileMap'[m] = Archive!None
                      /\ zips'[m] # 0 => ReadFrom(zips'[m], dirZipFileMap'[m])
    BY <1>2 DEF ZipNamesAgree, ReadFrom
  <2>1. m # n /\ m \notin zombie BY Zenon, <1>1
  <2> QED BY Zenon, <1>9, <2>1 DEF ZipIInv, ZipNamesAgree
<1>11. UnlinkOwns'
  <2> SUFFICES ASSUME NEW q \in Procs, zproc'[q].pc # "idle" PROVE Owned(zproc[q])'
    BY Zenon DEF UnlinkOwns
  <2>1. CASE q = p BY Zenon, <1>13, <1>2, <1>5, <1>6, <1>7, <1>9, <2>1 DEF Owned, ReadFrom
  <2>2. CASE q # p
    <3>1. Owned(zproc[q]) /\ zproc'[q] = zproc[q] BY Zenon, <1>6, <2>2 DEF ZipIInv, UnlinkOwns
    <3>2. zproc[q].name # n BY <3>1 DEF Owned
    <3> QED BY Zenon, <1>13, <1>2, <1>9, <3>1, <3>2 DEF Owned, ReadFrom
  <2> QED BY <2>1, <2>2
<1>12. ZipOwnNames' BY <1>1, <1>5, <1>6 DEF ZipIInv, ZipOwnNames, UnlinkOwns, Owned
<1> QED BY SMTT(30), <1>8, <1>10, <1>11, <1>12 DEF ZipIInv

\* The unmount changes what is mounted at a name that only this request works on.
LEMMA ZipUnmountNodeIInv ==
  ASSUME ZipParameters, ZipIInv, NEW p \in Procs, Archive!UnmountNode(p)
  PROVE  ZipIInv'
<1>1. PICK ok \in BOOLEAN :
        /\ mounted' = IF ok THEN [mounted EXCEPT ![zproc[p].name] = 0] ELSE mounted
        /\ zproc' = [zproc EXCEPT ![p].pc = "removed", ![p].ok = ok]
  BY Zenon DEF Archive!UnmountNode
<1>2. zproc[p].pc = "unmount" /\ UNCHANGED <<zips, dirZipFileMap, zombie, holds, roots>>
  BY DEF Archive!UnmountNode, Archive!tables
<1>3. /\ \A q \in Procs : q # p => zproc'[q] = zproc[q]
      /\ zproc'[p].pc = "removed" /\ zproc'[p].ok = ok /\ zproc'[p].name = zproc[p].name
      /\ zproc'[p].root = zproc[p].root /\ zproc'[p].file = zproc[p].file
  BY <1>1 DEF ZipIInv, ZipTypeOK
<1>4. Owned(zproc[p]) BY <1>2 DEF ZipIInv, UnlinkOwns
<1>5. /\ mounted' \in [Links -> Nat] /\ mounted'[zproc[p].name] = IF ok = TRUE THEN 0 ELSE zproc[p].root
      /\ \A m \in Links : m # zproc[p].name => mounted'[m] = mounted[m]
  <2>1. CASE ok = TRUE BY <1>1, <1>4, <2>1 DEF ZipIInv, ZipTypeOK, Owned
  <2>2. CASE ok = FALSE BY <1>1, <1>2, <1>4, <2>2 DEF ZipIInv, ZipTypeOK, Owned
  <2> QED BY <2>1, <2>2, Zenon
<1>6. zproc' \in [Procs -> [pc : {"idle", "unmount", "removed"}, name : Links \cup {Archive!None},
                            root : Nat, file : Archives \cup {Archive!None}, ok : BOOLEAN]]
  <2> DEFINE R == [pc : {"idle", "unmount", "removed"}, name : Links \cup {Archive!None},
                   root : Nat, file : Archives \cup {Archive!None}, ok : BOOLEAN]
  <2>1. zproc[p] \in R BY DEF ZipIInv, ZipTypeOK
  <2>2. [zproc[p] EXCEPT !.pc = "removed", !.ok = ok] \in R BY <2>1, Zenon
  <2>3. zproc' = [zproc EXCEPT ![p] = [zproc[p] EXCEPT !.pc = "removed", !.ok = ok]]
    BY <1>1, Zenon DEF ZipIInv, ZipTypeOK
  <2> QED BY <2>2, <2>3 DEF ZipIInv, ZipTypeOK
<1>7. ZipTypeOK' BY Zenon, <1>2, <1>5, <1>6 DEF ZipIInv, ZipTypeOK
<1>8. ZipNamesAgree' BY Zenon, <1>2, <1>4, <1>5 DEF ZipIInv, ZipNamesAgree, ReadFrom, Owned
<1>9. UnlinkOwns'
  <2> SUFFICES ASSUME NEW q \in Procs, zproc'[q].pc # "idle" PROVE Owned(zproc[q])'
    BY Zenon DEF UnlinkOwns
  <2>1. CASE q = p BY Zenon, <1>2, <1>3, <1>4, <1>5, <2>1 DEF Owned, ReadFrom
  <2>2. CASE q # p
    <3>1. Owned(zproc[q]) /\ zproc'[q] = zproc[q] BY Zenon, <1>3, <2>2 DEF ZipIInv, UnlinkOwns
    <3>2. zproc[q].name # zproc[p].name BY Zenon, <1>2, <2>2, <3>1 DEF ZipIInv, ZipOwnNames
    <3> QED BY ZenonT(60), <1>2, <1>5, <3>1, <3>2 DEF Owned, ReadFrom
  <2> QED BY Zenon, <2>1, <2>2
<1>10. ZipOwnNames' BY <1>2, <1>3 DEF ZipIInv, ZipOwnNames
<1> QED BY <1>7, <1>8, <1>9, <1>10 DEF ZipIInv

\* A name comes back as it was, or is free.
LEMMA ZipUnlinkedIInv ==
  ASSUME ZipParameters, ZipIInv, NEW p \in Procs, Archive!Unlinked(p)
  PROVE  ZipIInv'
<1> DEFINE r == zproc[p]
<1>1. /\ r.pc = "removed"
      /\ zips' = IF r.ok THEN zips ELSE [zips EXCEPT ![r.name] = r.root]
      /\ dirZipFileMap' = IF r.ok THEN dirZipFileMap ELSE [dirZipFileMap EXCEPT ![r.name] = r.file]
      /\ zombie' = zombie \ {r.name}
      /\ zproc' = [zproc EXCEPT ![p] = Archive!Idle]
      /\ UNCHANGED <<mounted, holds, roots>>
  BY Zenon DEF Archive!Unlinked, Archive!tree
<1>2. Owned(r) /\ r.ok \in BOOLEAN /\ r.root \in Nat /\ r.file \in Archives
  BY Zenon, <1>1 DEF ZipIInv, ZipTypeOK, UnlinkOwns, Owned, ReadFrom
<1>3. zproc'[p].pc = "idle" /\ \A q \in Procs : q # p => zproc'[q] = zproc[q]
  BY Zenon, <1>1 DEF ZipIInv, ZipTypeOK, Archive!Idle
<1>4. \A q \in Procs : q # p /\ zproc[q].pc # "idle" => zproc[q].name # r.name
  BY Zenon, <1>1 DEF ZipIInv, ZipOwnNames
<1>5. zproc' \in [Procs -> [pc : {"idle", "unmount", "removed"}, name : Links \cup {Archive!None},
                            root : Nat, file : Archives \cup {Archive!None}, ok : BOOLEAN]]
  BY SMTT(30), <1>1 DEF ZipIInv, ZipTypeOK, Archive!Idle
<1> HIDE DEF r
<1>6. /\ zips' \in [Links -> Nat] /\ dirZipFileMap' \in [Links -> Archives \cup {Archive!None}]
      /\ zips'[r.name] = mounted[r.name]
      /\ dirZipFileMap'[r.name] = IF r.ok = TRUE THEN Archive!None ELSE r.file
      /\ \A m \in Links : m # r.name => zips'[m] = zips[m] /\ dirZipFileMap'[m] = dirZipFileMap[m]
  <2>1. CASE r.ok = TRUE BY Zenon, <1>1, <1>2, <2>1 DEF ZipIInv, ZipTypeOK, Owned
  <2>2. CASE r.ok = FALSE BY Zenon, <1>1, <1>2, <2>2 DEF ZipIInv, ZipTypeOK, Owned
  <2> QED BY <1>2, <2>1, <2>2, ZenonT(40)
<1>7. ZipTypeOK' BY Zenon, <1>1, <1>5, <1>6 DEF ZipIInv, ZipTypeOK
<1>8. ZipNamesAgree'
  <2> SUFFICES ASSUME NEW m \in Links \ zombie'
               PROVE  /\ zips'[m] = mounted'[m]
                      /\ zips'[m] = 0 => dirZipFileMap'[m] = Archive!None
                      /\ zips'[m] # 0 => ReadFrom(zips'[m], dirZipFileMap'[m])
    BY ZenonT(60), <1>1 DEF ZipNamesAgree, ReadFrom
  <2>1. CASE m = r.name BY SMTT(30), <1>1, <1>2, <1>6, <2>1 DEF Owned, ReadFrom
  <2>2. CASE m # r.name BY ZenonT(60), <1>1, <1>6, <2>2 DEF ZipIInv, ZipNamesAgree
  <2> QED BY Zenon, <2>1, <2>2
<1>9. UnlinkOwns'
  <2> SUFFICES ASSUME NEW q \in Procs, zproc'[q].pc # "idle" PROVE Owned(zproc[q])'
    BY DEF UnlinkOwns
  <2>1. q # p /\ zproc'[q] = zproc[q] BY Zenon, <1>3
  <2>2. Owned(zproc[q]) /\ zproc[q].name # r.name BY Zenon, <1>4, <2>1 DEF ZipIInv, UnlinkOwns
  <2> QED BY SMTT(30), <1>1, <1>6, <2>1, <2>2 DEF Owned, ReadFrom
<1>10. ZipOwnNames' BY <1>3 DEF ZipIInv, ZipOwnNames
<1> QED BY Zenon, <1>7, <1>8, <1>9, <1>10 DEF ZipIInv

\* zipfs/multizip.go: config/ lists a name, with its archive, exactly when the root of
\* that archive is mounted there, but for names being unmounted; for any number of
\* requests at the same time and whether or not the unmounts fail.
THEOREM ZipsCorrect == ASSUME ZipParameters PROVE Archive!Spec => []Archive!ZipsMatchMounts
<1>1. Archive!Init => ZipIInv BY ZipInitIInv
<1>2. ZipIInv /\ [Archive!Next]_Archive!vars => ZipIInv'
  <2> SUFFICES ASSUME ZipIInv, [Archive!Next]_Archive!vars PROVE ZipIInv' BY ZenonT(60)
  <2>1. CASE UNCHANGED Archive!vars
    BY <2>1 DEF Archive!vars, Archive!tables, Archive!tree, ZipIInv, ZipTypeOK, ZipNamesAgree, UnlinkOwns, Owned, ZipOwnNames, ReadFrom
  <2>2. ASSUME NEW p \in Procs, Archive!Symlink(p) PROVE ZipIInv' BY <2>2, ZipSymlinkIInv
  <2>3. ASSUME NEW p \in Procs, Archive!Unlink(p) PROVE ZipIInv' BY Zenon, <2>3, ZipUnlinkIInv
  <2>4. ASSUME NEW p \in Procs, Archive!UnmountNode(p) PROVE ZipIInv' BY <2>4, ZipUnmountNodeIInv
  <2>5. ASSUME NEW p \in Procs, Archive!Unlinked(p) PROVE ZipIInv' BY <2>5, ZipUnlinkedIInv
  <2> QED BY <2>1, <2>2, <2>3, <2>4, <2>5 DEF Archive!Next
<1>3. ZipIInv => Archive!ZipsMatchMounts
  BY DEF ZipIInv, ZipTypeOK, ZipNamesAgree, ReadFrom, Archive!ZipsMatchMounts, Archive!OpenDirConfig, Archive!GetAttr, Archive!Readlink
<1> QED BY <1>1, <1>2, <1>3, PTL DEF Archive!Spec

\* Both at once: what config/ lists in a directory of unions and in one of archives is
\* what is mounted there.
THEOREM MountsCorrect ==
  ASSUME Parameters, ZipParameters PROVE Spec /\ Archive!Spec => []MountsListed
<1>1. ConfigMatchesMounts /\ Archive!ZipsMatchMounts => MountsListed BY Zenon DEF MountsListed
<1> QED BY <1>1, ConfigCorrect, ZipsCorrect, PTL

-----------------------------------------------------------------------------
(* The caches over a read-only branch.                                     *)

Entry == [v : Nat, ok : BOOLEAN, raced : BOOLEAN]
CacheRequest == [pc : {"idle", "fetch", "set", "end", "drop"}, kind : Cache!Kinds \cup {"none"},
            data : Entry, since : Nat, floor : Nat, todo : Seq(Cache!Kinds)]

\* The types of the branch, the caches and the requests.
CacheTypeOK ==
  /\ branch \in [v : Nat, ok : BOOLEAN] /\ cache \in [Cache!Kinds -> Entry]
  /\ timed \in BOOLEAN /\ dropped \in Nat /\ calls \in Nat
  /\ cproc \in [Procs -> CacheRequest]

\* Nobody knows of a change that has not happened.
Past ==
  /\ dropped <= branch.v
  /\ \A p \in Procs : cproc[p].since <= branch.v /\ cproc[p].floor <= branch.v

\* A value that is not older than n, or was on its way during a drop.
Current(e, n) == e.raced \/ e.v >= n

\* What is cached was read after the last drop, and is no failure.
CacheCurrent == \A k \in Cache!Kinds : cache[k] # Cache!Nothing => cache[k].ok /\ Current(cache[k], dropped)

\* What is about to be cached, too.
SetCurrent ==
  \A p \in Procs : cproc[p].pc = "set" =>
    /\ cproc[p].kind \in Cache!Kinds /\ cproc[p].data.ok /\ cproc[p].data.v >= cproc[p].floor
    /\ Current(cproc[p].data, dropped)
FetchKind == \A p \in Procs : cproc[p].pc = "fetch" => cproc[p].kind \in Cache!Kinds

\* A drop that is under way: in the caches it has done, and on the way into them, is
\* nothing that was read before it began.
Left(p) == {cproc[p].todo[i] : i \in DOMAIN cproc[p].todo}
DropDone ==
  \A p \in Procs : cproc[p].pc = "drop" =>
    /\ cproc[p].todo # <<>>
    /\ \A k \in Cache!Kinds \ Left(p) :
         /\ cache[k] # Cache!Nothing => Current(cache[k], cproc[p].since)
         /\ \A q \in Procs : cproc[q].pc = "set" /\ cproc[q].kind = k =>
              Current(cproc[q].data, cproc[p].since)

CacheIInv ==
  /\ CacheTypeOK /\ Past /\ CacheCurrent /\ SetCurrent /\ FetchKind /\ DropDone /\ Cache!AnswersWereTrue

\* The parts of a list of caches.
LEMMA HeadTail ==
  ASSUME NEW s \in Seq(Cache!Kinds), s # <<>>
  PROVE  /\ Head(s) \in Cache!Kinds /\ Tail(s) \in Seq(Cache!Kinds)
         /\ \A i \in DOMAIN s : s[i] = Head(s) \/ \E j \in DOMAIN Tail(s) : s[i] = Tail(s)[j]
         /\ Len(s) = 1 => \A i \in DOMAIN s : s[i] = Head(s)
         /\ Len(s) # 1 => Tail(s) # <<>>
<1>1. Head(s) = s[1] /\ Head(s) \in Cache!Kinds /\ Tail(s) \in Seq(Cache!Kinds) OBVIOUS
<1>2. Len(Tail(s)) = Len(s) - 1 /\ \A j \in 1..(Len(s) - 1) : Tail(s)[j] = s[j + 1] BY SMTT(30)
<1>3. ASSUME NEW i \in DOMAIN s
      PROVE  s[i] = Head(s) \/ \E j \in DOMAIN Tail(s) : s[i] = Tail(s)[j]
  <2>1. CASE i = 1 BY Zenon, <1>1, <2>1
  <2>2. CASE i # 1
    <3>1. i - 1 \in DOMAIN Tail(s) /\ Tail(s)[i - 1] = s[i] BY <1>1, <1>2, <2>2
    <3> QED BY <3>1
  <2> QED BY Zenon, <2>1, <2>2
<1>4. Len(s) = 1 => \A i \in DOMAIN s : s[i] = Head(s) BY <1>1
<1>5. Len(s) # 1 => Tail(s) # <<>>
  <2>1. Len(s) \in Nat /\ Len(s) # 0 OBVIOUS
  <2>2. Len(s) # 1 => Len(Tail(s)) # 0 BY <1>2, <2>1
  <2>3. Len(<<>>) = 0 BY Zenon
  <2> QED BY <2>2, <2>3, Zenon
<1> QED BY <1>1, <1>3, <1>4, <1>5

\* There are four caches.
LEMMA CachesType == Cache!Caches \in Seq(Cache!Kinds) /\ Cache!Caches # <<>> /\ \A k \in Cache!Kinds : \E i \in DOMAIN Cache!Caches : Cache!Caches[i] = k
BY DEF Cache!Caches, Cache!Kinds

LEMMA NothingType == Cache!Nothing \in Entry /\ Cache!Nothing.v = 0 /\ ~Cache!Nothing.ok /\ ~Cache!Nothing.raced
BY ZenonT(60) DEF Cache!Nothing, Entry

LEMMA IdleType == Cache!Idle \in CacheRequest /\ Cache!Idle.pc = "idle" /\ Cache!Idle.since = 0 /\ Cache!Idle.floor = 0
BY NothingType DEF Cache!Idle, CacheRequest

\* The caches are empty at the start.
LEMMA CacheInitIInv == Cache!Init => CacheIInv
<1> SUFFICES ASSUME Cache!Init PROVE CacheIInv OBVIOUS
<1>1. CacheTypeOK BY IdleType, NothingType DEF Cache!Init, CacheTypeOK
<1>2. \A p \in Procs : cproc[p] = Cache!Idle BY DEF Cache!Init
<1>3. Past BY <1>1, <1>2, IdleType DEF Cache!Init, Past, CacheTypeOK
<1>4. CacheCurrent BY Zenon DEF Cache!Init, CacheCurrent
<1>5. SetCurrent /\ FetchKind /\ DropDone /\ Cache!AnswersWereTrue
  BY <1>2, IdleType DEF SetCurrent, FetchKind, DropDone, Cache!AnswersWereTrue
<1> QED BY <1>1, <1>3, <1>4, <1>5 DEF CacheIInv

\* The branch changes.
LEMMA CacheChangeIInv == ASSUME CacheIInv, Cache!Change PROVE CacheIInv'
<1>1. PICK ok \in BOOLEAN : branch' = [v |-> branch.v + 1, ok |-> ok] BY DEF Cache!Change
<1>2. UNCHANGED <<cache, timed, dropped, cproc, calls>> BY Zenon DEF Cache!Change
<1>3. CacheTypeOK' BY <1>1, <1>2 DEF CacheIInv, CacheTypeOK
<1>4. Past' BY SMTT(30), <1>1, <1>2 DEF CacheIInv, CacheTypeOK, Past, CacheRequest
<1>5. CacheCurrent' /\ SetCurrent' /\ FetchKind'
  BY Zenon, <1>2 DEF CacheIInv, CacheCurrent, SetCurrent, FetchKind, Current
<1>6. DropDone' BY <1>2 DEF CacheIInv, DropDone, Left, Current
<1>7. Cache!AnswersWereTrue' BY Zenon, <1>2 DEF CacheIInv, Cache!AnswersWereTrue
<1> QED BY Zenon, <1>3, <1>4, <1>5, <1>6, <1>7 DEF CacheIInv

\* A request begins: it is not about to store anything, and a value it has is a cached one.
LEMMA CacheBegunIInv ==
  ASSUME CacheIInv, NEW p \in Procs, NEW r \in CacheRequest, Cache!Begun(p, r),
         UNCHANGED <<branch, cache, timed, dropped>>,
         r.pc \in {"fetch", "end", "drop"},
         r.pc = "fetch" => r.kind \in Cache!Kinds,
         r.pc = "end" => r.data.ok /\ Current(r.data, dropped),
         r.pc = "drop" => r.todo = Cache!Caches
  PROVE  CacheIInv'
<1> DEFINE s == [r EXCEPT !.since = branch.v, !.floor = dropped]
<1>1. calls' = calls + 1 /\ cproc' = [cproc EXCEPT ![p] = s] BY DEF Cache!Begun
<1>2. /\ s \in CacheRequest /\ s.pc = r.pc /\ s.kind = r.kind /\ s.data = r.data /\ s.todo = r.todo
      /\ s.since = branch.v /\ s.floor = dropped
  BY ZenonT(40) DEF CacheRequest, CacheIInv, CacheTypeOK
<1> HIDE DEF s
<1>3. cproc'[p] = s /\ \A q \in Procs : q # p => cproc'[q] = cproc[q]
  BY Zenon, <1>1 DEF CacheIInv, CacheTypeOK
<1>4. CacheTypeOK' BY <1>1, <1>2 DEF CacheIInv, CacheTypeOK
<1>5. Past'
  <2>1. dropped <= branch.v /\ branch.v \in Nat BY Zenon DEF CacheIInv, Past, CacheTypeOK
  <2> QED BY <1>2, <1>3, <2>1 DEF CacheIInv, Past
<1>6. CacheCurrent' BY Zenon DEF CacheIInv, CacheCurrent, Current
<1>7. SetCurrent' /\ FetchKind' BY Zenon, <1>2, <1>3 DEF CacheIInv, SetCurrent, FetchKind, Current
<1>8. DropDone'
  <2> SUFFICES ASSUME NEW a \in Procs, cproc'[a].pc = "drop"
               PROVE  /\ cproc'[a].todo # <<>>
                      /\ \A k \in Cache!Kinds \ Left(a)' :
                           /\ cache'[k] # Cache!Nothing => Current(cache'[k], cproc'[a].since)
                           /\ \A q \in Procs : cproc'[q].pc = "set" /\ cproc'[q].kind = k =>
                                Current(cproc'[q].data, cproc'[a].since)
    BY Zenon DEF DropDone, Current
  <2>1. CASE a = p
    <3>1. cproc'[a].todo = Cache!Caches BY Zenon, <1>2, <1>3, <2>1
    <3>2. Cache!Kinds \ Left(a)' = {} BY Zenon, <3>1, CachesType DEF Left
    <3> QED BY Zenon, <3>1, <3>2, CachesType
  <2>2. CASE a # p
    <3>1. cproc'[a] = cproc[a] /\ Left(a)' = Left(a) BY Zenon, <1>3, <2>2 DEF Left
    <3>2. \A q \in Procs : cproc'[q].pc = "set" => cproc'[q] = cproc[q] BY Zenon, <1>2, <1>3
    <3>3. /\ cproc[a].todo # <<>>
          /\ \A k \in Cache!Kinds \ Left(a) :
               /\ cache[k] # Cache!Nothing => Current(cache[k], cproc[a].since)
               /\ \A q \in Procs : cproc[q].pc = "set" /\ cproc[q].kind = k =>
                    Current(cproc[q].data, cproc[a].since)
      BY Zenon, <3>1 DEF CacheIInv, DropDone
    <3> QED BY ZenonT(30), <3>1, <3>2, <3>3
  <2> QED BY Zenon, <2>1, <2>2
<1>9. Cache!AnswersWereTrue'
  <2>1. ASSUME s.pc = "end" PROVE (s.data.v >= s.floor \/ s.data.raced) /\ s.data.ok
    BY Zenon, <1>2, <2>1 DEF Current
  <2> QED BY Zenon, <1>3, <2>1 DEF CacheIInv, Cache!AnswersWereTrue
<1> QED BY <1>4, <1>5, <1>6, <1>7, <1>8, <1>9 DEF CacheIInv

\* A look-up.
LEMMA CacheGetIInv == ASSUME CacheIInv, NEW p \in Procs, Cache!Get(p) PROVE CacheIInv'
<1>1. UNCHANGED <<branch, cache, timed, dropped>> BY SMTT(30) DEF Cache!Get
<1>2. PICK k \in Cache!Kinds, valid \in BOOLEAN :
        /\ valid => cache[k] # Cache!Nothing
        /\ Cache!Begun(p, [Cache!Idle EXCEPT !.pc = IF valid THEN "end" ELSE "fetch", !.kind = k,
                                 !.data = IF valid THEN cache[k] ELSE Cache!Nothing])
  BY Zenon DEF Cache!Get
<1> DEFINE r == [Cache!Idle EXCEPT !.pc = IF valid THEN "end" ELSE "fetch", !.kind = k,
                             !.data = IF valid THEN cache[k] ELSE Cache!Nothing]
<1>3. /\ r \in CacheRequest /\ r.pc = IF valid THEN "end" ELSE "fetch"
      /\ r.kind = k /\ (valid => r.data = cache[k])
  BY IdleType, NothingType, Zenon DEF CacheRequest, CacheIInv, CacheTypeOK, Cache!Idle
<1>4. Cache!Begun(p, r) BY <1>2
<1> HIDE DEF r
<1>5. r.pc = "end" => r.data.ok /\ Current(r.data, dropped)
  BY <1>2, <1>3 DEF CacheIInv, CacheCurrent
<1> QED BY <1>1, <1>3, <1>4, <1>5, CacheBegunIInv

\* The file .drop_cache is opened.
LEMMA CacheOpenIInv == ASSUME CacheIInv, NEW p \in Procs, Cache!Open(p) PROVE CacheIInv'
<1> DEFINE r == [Cache!Idle EXCEPT !.pc = "drop", !.todo = Cache!Caches]
<1>1. Cache!Begun(p, r) /\ UNCHANGED <<branch, cache, timed, dropped>> BY DEF Cache!Open, Cache!Drops
<1>2. r \in CacheRequest /\ r.pc = "drop" /\ r.todo = Cache!Caches
  BY CachesType, NothingType, Zenon DEF CacheRequest, Cache!Idle
<1> HIDE DEF r
<1> QED BY <1>1, <1>2, CacheBegunIInv

\* A fetch sees the branch as it is.
LEMMA CacheGetFreshIInv == ASSUME CacheIInv, NEW p \in Procs, Cache!GetFresh(p) PROVE CacheIInv'
<1> DEFINE s == [cproc[p] EXCEPT !.data = Cache!Fetched, !.pc = IF Cache!Cacheable(Cache!Fetched) THEN "set" ELSE "end"]
<1>1. cproc[p].pc = "fetch" /\ UNCHANGED <<branch, cache, timed, dropped, calls>> BY DEF Cache!GetFresh
<1>2. Cache!Fetched \in Entry /\ Cache!Fetched.v = branch.v /\ Cache!Fetched.ok = branch.ok
  BY Zenon DEF Cache!Fetched, Cache!Nothing, Entry, CacheIInv, CacheTypeOK
<1>3. cproc[p] \in CacheRequest BY DEF CacheIInv, CacheTypeOK
<1>4. /\ s \in CacheRequest /\ s.pc = (IF branch.ok THEN "set" ELSE "end") /\ s.data = Cache!Fetched
      /\ s.kind = cproc[p].kind /\ s.since = cproc[p].since /\ s.floor = cproc[p].floor
  BY <1>2, <1>3, Zenon DEF CacheRequest, Cache!Cacheable
<1>5. cproc' = [cproc EXCEPT ![p] = s] BY Zenon DEF Cache!GetFresh
<1> HIDE DEF s
<1>6. cproc'[p] = s /\ \A q \in Procs : q # p => cproc'[q] = cproc[q]
  BY Zenon, <1>5 DEF CacheIInv, CacheTypeOK
<1>7. CacheTypeOK' BY Zenon, <1>1, <1>4, <1>5 DEF CacheIInv, CacheTypeOK
<1>8. Past' BY Zenon, <1>1, <1>4, <1>6 DEF CacheIInv, Past
<1>9. CacheCurrent' BY <1>1 DEF CacheIInv, CacheCurrent, Current
<1>10. s.kind \in Cache!Kinds /\ s.data.v >= s.floor /\ s.data.v >= s.since /\ s.data.v >= dropped
  BY <1>1, <1>2, <1>3, <1>4, ZenonT(40) DEF CacheIInv, CacheTypeOK, Past, FetchKind, CacheRequest
<1>11. SetCurrent'
  <2>1. s.pc = "set" => s.data.ok BY Zenon, <1>2, <1>4
  <2> QED BY Zenon, <1>1, <1>6, <1>10, <2>1 DEF CacheIInv, SetCurrent, Current
<1>12. FetchKind' BY <1>4, <1>6 DEF CacheIInv, FetchKind
<1>13. DropDone'
  <2> SUFFICES ASSUME NEW a \in Procs, cproc'[a].pc = "drop"
               PROVE  /\ cproc'[a].todo # <<>>
                      /\ \A k \in Cache!Kinds \ Left(a)' :
                           /\ cache'[k] # Cache!Nothing => Current(cache'[k], cproc'[a].since)
                           /\ \A q \in Procs : cproc'[q].pc = "set" /\ cproc'[q].kind = k =>
                                Current(cproc'[q].data, cproc'[a].since)
    BY SMTT(30) DEF DropDone, Current
  <2>1. a # p /\ cproc'[a] = cproc[a] /\ Left(a)' = Left(a) BY <1>4, <1>6, ZenonT(40) DEF Left
  <2>2. Current(s.data, cproc[a].since) BY Zenon, <1>2, <1>4 DEF Current, CacheIInv, Past
  <2> QED BY <1>1, <1>6, <2>1, <2>2, ZenonT(40) DEF CacheIInv, DropDone
<1>14. Cache!AnswersWereTrue' BY Zenon, <1>6, <1>10 DEF CacheIInv, Cache!AnswersWereTrue
<1> QED BY Zenon, <1>7, <1>8, <1>9, <1>11, <1>12, <1>13, <1>14 DEF CacheIInv

\* A store.
LEMMA CacheSetIInv == ASSUME CacheIInv, NEW p \in Procs, Cache!Set(p) PROVE CacheIInv'
<1>1. /\ cproc[p].pc = "set" /\ UNCHANGED <<branch, timed, dropped, calls>>
      /\ cache' = [cache EXCEPT ![cproc[p].kind] = cproc[p].data]
      /\ cproc' = [cproc EXCEPT ![p].pc = "end"]
  BY DEF Cache!Set
<1>2. /\ \A q \in Procs : q # p => cproc'[q] = cproc[q]
      /\ cproc'[p] \in CacheRequest /\ cproc'[p].pc = "end" /\ cproc'[p].data = cproc[p].data
      /\ cproc'[p].since = cproc[p].since /\ cproc'[p].floor = cproc[p].floor
  BY <1>1, ZenonT(40) DEF CacheIInv, CacheTypeOK, CacheRequest
<1>3. /\ cproc[p].kind \in Cache!Kinds /\ cproc[p].data.ok /\ cproc[p].data.v >= cproc[p].floor
      /\ Current(cproc[p].data, dropped) /\ cproc[p].data \in Entry
  BY <1>1 DEF CacheIInv, CacheTypeOK, SetCurrent, CacheRequest
<1>4. CacheTypeOK' BY <1>1, <1>2, <1>3 DEF CacheIInv, CacheTypeOK
<1>5. Past' BY <1>1, <1>2 DEF CacheIInv, Past
<1>6. CacheCurrent' BY Zenon, <1>1, <1>3 DEF CacheIInv, CacheTypeOK, CacheCurrent, Current
<1>7. SetCurrent' /\ FetchKind' BY ZenonT(60), <1>1, <1>2 DEF CacheIInv, SetCurrent, FetchKind, Current
<1>8. DropDone'
  <2> SUFFICES ASSUME NEW a \in Procs, cproc'[a].pc = "drop"
               PROVE  /\ cproc'[a].todo # <<>>
                      /\ \A k \in Cache!Kinds \ Left(a)' :
                           /\ cache'[k] # Cache!Nothing => Current(cache'[k], cproc'[a].since)
                           /\ \A q \in Procs : cproc'[q].pc = "set" /\ cproc'[q].kind = k =>
                                Current(cproc'[q].data, cproc'[a].since)
    BY DEF DropDone, Current
  <2>1. a # p /\ cproc'[a] = cproc[a] /\ Left(a)' = Left(a) BY Zenon, <1>2 DEF Left
  <2>2. ASSUME NEW k \in Cache!Kinds \ Left(a), cache'[k] # Cache!Nothing
        PROVE  Current(cache'[k], cproc[a].since)
    <3>1. CASE k = cproc[p].kind
      <4>1. cache'[k] = cproc[p].data BY ZenonT(60), <1>1, <3>1 DEF CacheIInv, CacheTypeOK
      <4> QED BY <1>1, <2>1, <3>1, <4>1 DEF CacheIInv, DropDone
    <3>2. CASE k # cproc[p].kind
      <4>1. cache'[k] = cache[k] BY Zenon, <1>1, <3>2 DEF CacheIInv, CacheTypeOK
      <4> QED BY <2>1, <2>2, <4>1 DEF CacheIInv, DropDone
    <3> QED BY <3>1, <3>2
  <2>3. \A q \in Procs : cproc'[q].pc = "set" => cproc'[q] = cproc[q] BY Zenon, <1>2
  <2> QED BY Zenon, <2>1, <2>2, <2>3 DEF CacheIInv, DropDone
<1>9. Cache!AnswersWereTrue' BY Zenon, <1>2, <1>3 DEF CacheIInv, Cache!AnswersWereTrue
<1> QED BY <1>4, <1>5, <1>6, <1>7, <1>8, <1>9 DEF CacheIInv

\* An answer.
LEMMA CacheReturnIInv == ASSUME CacheIInv, NEW p \in Procs, Cache!Return(p) PROVE CacheIInv'
<1>1. /\ cproc[p].pc = "end" /\ UNCHANGED <<branch, cache, timed, dropped, calls>>
      /\ cproc' = [cproc EXCEPT ![p] = Cache!Idle]
  BY Zenon DEF Cache!Return
<1>2. cproc'[p] = Cache!Idle /\ \A q \in Procs : q # p => cproc'[q] = cproc[q]
  BY Zenon, <1>1 DEF CacheIInv, CacheTypeOK
<1>3. CacheTypeOK' BY Zenon, <1>1, IdleType DEF CacheIInv, CacheTypeOK
<1>4. Past' BY SMTT(30), <1>1, <1>2, IdleType DEF CacheIInv, CacheTypeOK, Past
<1>5. CacheCurrent' BY ZenonT(60), <1>1 DEF CacheIInv, CacheCurrent, Current
<1>6. SetCurrent' /\ FetchKind' /\ Cache!AnswersWereTrue'
  BY SMTT(30), <1>1, <1>2, IdleType DEF CacheIInv, SetCurrent, FetchKind, Cache!AnswersWereTrue, Current
<1>7. DropDone'
  <2>1. cproc'[p].pc = "idle" /\ \A q \in Procs : q # p => Left(q)' = Left(q)
    <3>0. Cache!Idle.pc = "idle" BY DEF Cache!Idle
    <3>1. cproc'[p].pc = "idle" BY ZenonT(60), <1>2, <3>0
    <3>2. ASSUME NEW q \in Procs, q # p PROVE Left(q)' = Left(q)
      <4>1. cproc'[q] = cproc[q] BY Zenon, <1>2, <3>2
      <4> QED BY <4>1 DEF Left
    <3> QED BY Zenon, <3>1, <3>2
  <2> SUFFICES ASSUME NEW a \in Procs, cproc'[a].pc = "drop"
               PROVE  /\ cproc'[a].todo # <<>>
                      /\ \A c \in Cache!Kinds \ Left(a)' :
                           /\ cache'[c] # Cache!Nothing => Current(cache'[c], cproc'[a].since)
                           /\ \A q \in Procs : cproc'[q].pc = "set" /\ cproc'[q].kind = c =>
                                Current(cproc'[q].data, cproc'[a].since)
    BY DEF DropDone, Current
  <2>2. a # p BY <2>1, Zenon
  <2>3. cproc'[a] = cproc[a] /\ Left(a)' = Left(a) /\ cache' = cache BY <1>1, <1>2, <2>1, <2>2
  <2>4. /\ cproc[a].todo # <<>>
        /\ \A c \in Cache!Kinds \ Left(a) :
             /\ cache[c] # Cache!Nothing => Current(cache[c], cproc[a].since)
             /\ \A q \in Procs : cproc[q].pc = "set" /\ cproc[q].kind = c =>
                  Current(cproc[q].data, cproc[a].since)
    BY <2>3, ZenonT(40) DEF CacheIInv, DropDone
  <2>5. \A q \in Procs : cproc'[q].pc = "set" => cproc'[q] = cproc[q] BY <1>2, <2>1, Zenon
  <2> QED BY <2>3, <2>4, <2>5, ZenonT(40)
<1> QED BY Zenon, <1>3, <1>4, <1>5, <1>6, <1>7 DEF CacheIInv

\* One cache is dropped. What is on the way into it is marked.
LEMMA CacheDropAllIInv == ASSUME CacheIInv, NEW p \in Procs, Cache!DropAll(p) PROVE CacheIInv'
<1> DEFINE k == Head(cproc[p].todo)
           last == Len(cproc[p].todo) = 1
<1>1. /\ cproc[p].pc = "drop"
      /\ cache' = [cache EXCEPT ![k] = Cache!Nothing]
      /\ cproc' = [q \in Procs |->
           IF q = p THEN (IF last THEN Cache!Idle ELSE [cproc[p] EXCEPT !.todo = Tail(@)])
           ELSE IF cproc[q].pc = "set" /\ cproc[q].kind = k THEN [cproc[q] EXCEPT !.data.raced = TRUE]
           ELSE cproc[q]]
      /\ dropped' = IF last /\ cproc[p].since > dropped THEN cproc[p].since ELSE dropped
      /\ UNCHANGED <<branch, timed, calls>>
  BY DEF Cache!DropAll
<1>2. cproc[p] \in CacheRequest /\ cproc[p].todo \in Seq(Cache!Kinds) /\ cproc[p].todo # <<>> /\ cproc[p].since \in Nat
  BY Zenon, <1>1 DEF CacheIInv, CacheTypeOK, DropDone, CacheRequest
<1>3. /\ k \in Cache!Kinds /\ Tail(cproc[p].todo) \in Seq(Cache!Kinds)
      /\ last => Left(p) \subseteq {k}
      /\ ~last => Tail(cproc[p].todo) # <<>>
      /\ Left(p) \subseteq {k} \cup {Tail(cproc[p].todo)[j] : j \in DOMAIN Tail(cproc[p].todo)}
  <2> DEFINE s == cproc[p].todo
  <2>1. s \in Seq(Cache!Kinds) /\ s # <<>> BY Zenon, <1>2
  <2>2. k = Head(s) /\ (last <=> Len(s) = 1) /\ Left(p) = {s[j] : j \in DOMAIN s} BY DEF Left
  <2> SUFFICES /\ Head(s) \in Cache!Kinds /\ Tail(s) \in Seq(Cache!Kinds)
               /\ Len(s) = 1 => {s[j] : j \in DOMAIN s} \subseteq {Head(s)}
               /\ Len(s) # 1 => Tail(s) # <<>>
               /\ {s[j] : j \in DOMAIN s} \subseteq {Head(s)} \cup {Tail(s)[j] : j \in DOMAIN Tail(s)}
    BY <2>2, ZenonT(40)
  <2> HIDE DEF s
  <2> QED BY <2>1, HeadTail
<1>4. dropped' \in Nat /\ dropped' >= dropped /\ dropped' <= branch.v
      /\ (last => dropped' >= cproc[p].since) /\ dropped' \in {dropped, cproc[p].since}
      /\ (~last => dropped' = dropped)
  <2>1. dropped \in Nat /\ branch.v \in Nat /\ dropped <= branch.v /\ cproc[p].since <= branch.v
    BY DEF CacheIInv, CacheTypeOK, Past
  <2> QED BY <1>1, <1>2, <2>1
<1>5. \A q \in Procs : q # p =>
        /\ cproc'[q] \in CacheRequest /\ cproc'[q].pc = cproc[q].pc /\ cproc'[q].kind = cproc[q].kind
        /\ cproc'[q].since = cproc[q].since /\ cproc'[q].floor = cproc[q].floor
        /\ cproc'[q].todo = cproc[q].todo /\ cproc'[q].data.v = cproc[q].data.v
        /\ cproc'[q].data.ok = cproc[q].data.ok /\ (cproc[q].data.raced => cproc'[q].data.raced)
        /\ cproc[q].pc = "set" /\ cproc[q].kind = k => cproc'[q].data.raced
        /\ cproc[q].pc # "set" => cproc'[q] = cproc[q]
  <2> SUFFICES ASSUME NEW q \in Procs, q # p 
               PROVE
        /\ cproc'[q] \in CacheRequest /\ cproc'[q].pc = cproc[q].pc /\ cproc'[q].kind = cproc[q].kind
        /\ cproc'[q].since = cproc[q].since /\ cproc'[q].floor = cproc[q].floor
        /\ cproc'[q].todo = cproc[q].todo /\ cproc'[q].data.v = cproc[q].data.v
        /\ cproc'[q].data.ok = cproc[q].data.ok /\ (cproc[q].data.raced => cproc'[q].data.raced)
        /\ cproc[q].pc = "set" /\ cproc[q].kind = k => cproc'[q].data.raced
        /\ cproc[q].pc # "set" => cproc'[q] = cproc[q]
    BY Zenon
  <2>1. cproc[q] \in CacheRequest BY DEF CacheIInv, CacheTypeOK
  <2>2. CASE cproc[q].pc = "set" /\ cproc[q].kind = k
    <3>1. cproc'[q] = [cproc[q] EXCEPT !.data.raced = TRUE] BY Zenon, <1>1, <2>2
    <3> DEFINE d == [cproc[q].data EXCEPT !.raced = TRUE]
    <3>2. cproc[q].data \in Entry BY <2>1 DEF CacheRequest
    <3>3. /\ d \in Entry /\ d.v = cproc[q].data.v /\ d.ok = cproc[q].data.ok /\ d.raced = TRUE
      BY <3>2, ZenonT(40) DEF Entry
    <3>4. cproc'[q] = [cproc[q] EXCEPT !.data = d] BY Zenon, <2>1, <3>1 DEF CacheRequest
    <3> HIDE DEF d
    <3> QED BY Zenon, <2>1, <2>2, <3>3, <3>4 DEF CacheRequest
  <2>3. CASE ~(cproc[q].pc = "set" /\ cproc[q].kind = k)
    <3>1. cproc'[q] = cproc[q] BY Zenon, <1>1, <2>3
    <3> QED BY Zenon, <2>1, <2>3, <3>1
  <2> QED BY <2>2, <2>3, Zenon
<1>6. /\ cproc'[p] \in CacheRequest /\ cproc'[p].since <= branch.v /\ cproc'[p].floor <= branch.v
      /\ last => cproc'[p].pc = "idle"
      /\ ~last => /\ cproc'[p].pc = "drop" /\ cproc'[p].since = cproc[p].since
                  /\ cproc'[p].todo = Tail(cproc[p].todo)
  <2>1. CASE last
    <3>1. cproc'[p] = Cache!Idle BY <1>1, <2>1
    <3> QED BY <2>1, <3>1, IdleType DEF CacheIInv, CacheTypeOK
  <2>2. CASE ~last
    <3>1. cproc'[p] = [cproc[p] EXCEPT !.todo = Tail(@)] BY <1>1, <2>2
    <3> QED BY <1>1, <1>2, <1>3, <2>2, <3>1, Zenon DEF CacheRequest, CacheIInv, Past
  <2> QED BY Zenon, <2>1, <2>2
<1>7. cache'[k] = Cache!Nothing /\ \A c \in Cache!Kinds : c # k => cache'[c] = cache[c]
  BY Zenon, <1>1, <1>3 DEF CacheIInv, CacheTypeOK
<1>8. cproc' = [q \in Procs |-> cproc'[q]] BY <1>1
<1> HIDE DEF k, last
<1>9. CacheTypeOK'
  <2>1. cproc' \in [Procs -> CacheRequest] BY Zenon, <1>5, <1>6, <1>8
  <2> QED BY <1>1, <1>3, <1>4, <2>1, NothingType, ZenonT(40) DEF CacheIInv, CacheTypeOK
<1>10. Past' BY Zenon, <1>1, <1>4, <1>5, <1>6 DEF CacheIInv, Past
<1>11. \A c \in Cache!Kinds : c # k /\ last => c \notin Left(p) BY Zenon, <1>3
<1>12. CacheCurrent'
  <2> SUFFICES ASSUME NEW c \in Cache!Kinds, cache'[c] # Cache!Nothing
               PROVE  cache'[c].ok /\ Current(cache'[c], dropped')
    BY Zenon DEF CacheCurrent, Current
  <2>1. c # k /\ cache'[c] = cache[c] BY Zenon, <1>7
  <2>2. cache[c].ok /\ Current(cache[c], dropped) BY <2>1 DEF CacheIInv, CacheCurrent
  <2>3. last => Current(cache[c], cproc[p].since) BY Zenon, <1>1, <1>11, <2>1 DEF CacheIInv, DropDone
  <2> QED BY Zenon, <1>4, <2>1, <2>2, <2>3 DEF Current
<1>13. SetCurrent'
  <2> SUFFICES ASSUME NEW q \in Procs, cproc'[q].pc = "set"
               PROVE  /\ cproc'[q].kind \in Cache!Kinds /\ cproc'[q].data.ok
                      /\ cproc'[q].data.v >= cproc'[q].floor /\ Current(cproc'[q].data, dropped')
    BY Zenon DEF SetCurrent, Current
  <2>1. q # p BY SMTT(30), <1>6
  <2>2. /\ cproc[q].pc = "set" /\ cproc[q].kind \in Cache!Kinds /\ cproc[q].data.ok
        /\ cproc[q].data.v >= cproc[q].floor /\ Current(cproc[q].data, dropped)
    BY <1>5, <2>1, ZenonT(40) DEF CacheIInv, SetCurrent
  <2>3. cproc[q].kind # k /\ last => Current(cproc[q].data, cproc[p].since)
    BY SMTT(30), <1>1, <1>11, <2>2 DEF CacheIInv, DropDone
  <2> QED BY Zenon, <1>4, <1>5, <2>1, <2>2, <2>3 DEF Current
<1>14. FetchKind' BY SMTT(30), <1>5, <1>6 DEF CacheIInv, FetchKind
<1>15. DropDone'
  <2> SUFFICES ASSUME NEW a \in Procs, cproc'[a].pc = "drop"
               PROVE  /\ cproc'[a].todo # <<>>
                      /\ \A c \in Cache!Kinds \ Left(a)' :
                           /\ cache'[c] # Cache!Nothing => Current(cache'[c], cproc'[a].since)
                           /\ \A q \in Procs : cproc'[q].pc = "set" /\ cproc'[q].kind = c =>
                                Current(cproc'[q].data, cproc'[a].since)
    BY DEF DropDone, Current
  <2>1. /\ cproc[a].pc = "drop" /\ cproc'[a].since = cproc[a].since /\ cproc'[a].todo # <<>>
        /\ Left(a) \subseteq Left(a)' \cup {k}
    <3>1. CASE a = p
      <4>1. ~last /\ cproc'[a].todo = Tail(cproc[p].todo) BY Zenon, <1>6, <3>1
      <4>2. Left(a)' = {Tail(cproc[p].todo)[j] : j \in DOMAIN Tail(cproc[p].todo)}
        BY <4>1 DEF Left
      <4>3. cproc[a].pc = "drop" /\ cproc'[a].since = cproc[a].since /\ cproc'[a].todo # <<>>
        BY <1>1, <1>3, <1>6, <3>1, <4>1, Zenon
      <4> QED BY Zenon, <1>3, <3>1, <4>2, <4>3
    <3>2. CASE a # p
      <4>1. cproc[a].pc = "drop" /\ cproc'[a].since = cproc[a].since /\ cproc'[a].todo = cproc[a].todo
        BY <1>5, <3>2
      <4>2. cproc[a].todo # <<>> BY <4>1, ZenonT(40) DEF CacheIInv, DropDone
      <4>3. Left(a)' = Left(a) BY <4>1 DEF Left
      <4> QED BY <4>1, <4>2, <4>3, ZenonT(40)
    <3> QED BY Zenon, <3>1, <3>2
  <2> SUFFICES ASSUME NEW c \in Cache!Kinds \ Left(a)'
               PROVE  /\ cache'[c] # Cache!Nothing => Current(cache'[c], cproc[a].since)
                      /\ \A q \in Procs : cproc'[q].pc = "set" /\ cproc'[q].kind = c =>
                           Current(cproc'[q].data, cproc[a].since)
    BY <2>1, ZenonT(40)
  <2>2. CASE c = k
    <3>1. cache'[c] = Cache!Nothing BY ZenonT(60), <1>7, <2>2
    <3>2. ASSUME NEW q \in Procs, cproc'[q].pc = "set", cproc'[q].kind = c
          PROVE  Current(cproc'[q].data, cproc[a].since)
      BY SMTT(30), <1>5, <1>6, <2>2, <3>2 DEF Current
    <3> QED BY Zenon, <3>1, <3>2
  <2>3. CASE c # k
    <3>1. c \notin Left(a) /\ cache'[c] = cache[c] BY Zenon, <1>7, <2>1, <2>3
    <3>2. /\ cache[c] # Cache!Nothing => Current(cache[c], cproc[a].since)
          /\ \A q \in Procs : cproc[q].pc = "set" /\ cproc[q].kind = c =>
               Current(cproc[q].data, cproc[a].since)
      BY Zenon, <2>1, <3>1 DEF CacheIInv, DropDone
    <3>3. ASSUME NEW q \in Procs, cproc'[q].pc = "set", cproc'[q].kind = c
          PROVE  Current(cproc'[q].data, cproc[a].since)
      <4>1. q # p BY ZenonT(60), <1>6, <3>3
      <4>2. cproc[q].pc = "set" /\ cproc[q].kind = c BY SMTT(30), <1>5, <3>3, <4>1
      <4> QED BY <1>5, <3>2, <4>1, <4>2, ZenonT(40) DEF Current
    <3> QED BY <3>1, <3>2, <3>3, ZenonT(40)
  <2> QED BY <2>2, <2>3, ZenonT(40)
<1>16. Cache!AnswersWereTrue' BY <1>5, <1>6, ZenonT(40) DEF CacheIInv, Cache!AnswersWereTrue
<1> QED BY <1>9, <1>10, <1>12, <1>13, <1>14, <1>15, <1>16 DEF CacheIInv

\* unionfs/cachingfs.go: for any number of requests, what is answered is not older than
\* the last DropCache that had returned before the request, unless it was on its way
\* into a cache during a drop; failures are never cached.
THEOREM AnswersCorrect == Cache!Spec => []AnswersWereTrue
<1>1. CacheIInv /\ [Cache!Next]_Cache!vars => CacheIInv'
  <2> SUFFICES ASSUME CacheIInv, [Cache!Next]_Cache!vars PROVE CacheIInv' OBVIOUS
  <2>1. CASE UNCHANGED Cache!vars
    <3>1. UNCHANGED <<branch, cache, timed, dropped, cproc, calls>> BY Zenon, <2>1 DEF Cache!vars
    <3>2. CacheTypeOK' /\ Past' BY Zenon, <3>1 DEF CacheIInv, CacheTypeOK, Past
    <3>3. CacheCurrent' /\ SetCurrent' /\ FetchKind'
      BY ZenonT(60), <3>1 DEF CacheIInv, CacheCurrent, SetCurrent, FetchKind, Current
    <3>4. DropDone' BY SMTT(30), <3>1 DEF CacheIInv, DropDone, Left, Current
    <3>5. Cache!AnswersWereTrue' BY Zenon, <3>1 DEF CacheIInv, Cache!AnswersWereTrue
    <3> QED BY Zenon, <3>2, <3>3, <3>4, <3>5 DEF CacheIInv
  <2>2. CASE Cache!Next
    BY <2>2, CacheChangeIInv, CacheGetIInv, CacheGetFreshIInv, CacheSetIInv, CacheReturnIInv, CacheOpenIInv, CacheDropAllIInv DEF Cache!Next
  <2> QED BY <2>1, <2>2
<1>2. CacheIInv => AnswersWereTrue BY DEF CacheIInv, AnswersWereTrue
<1> QED BY <1>1, <1>2, CacheInitIInv, PTL DEF Cache!Spec
=============================================================================
