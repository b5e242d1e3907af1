---------------------------- MODULE MCPathNodeFs ----------------------------
(***************************************************************************)
(* Files that are reached by a path computed from the tree: the nodes of   *)
(* the old API (PathNodeFs), and the loopback file system of the new one   *)
(* (LoopbackFs).  A behaviour is of one of them.                           *)
(***************************************************************************)
EXTENDS PathNodeFs

CONSTANTS t1, t2

Swap == Permutations({t1, t2})

VARIABLES disk, children, parents, made, lost, th, astray, left,
          part    \* which of the two

Opt(client, known) == [client |-> client, known |-> known]
MCOptions == {Opt(TRUE, FALSE), Opt(TRUE, TRUE), Opt(FALSE, FALSE)}

Tree(links, kinds) ==
  [links |-> links,
   kind |-> [o \in Objs |-> IF o <= Len(kinds) THEN kinds[o] ELSE "none"],
   ino |-> [o \in Objs |-> IF o <= Len(kinds) THEN o - 1 ELSE 0]]
\* A file with two links; a directory with a file that is linked outside too; a
\* directory beside a free name, which may be renamed onto a mount made there.
TwoLinks == Tree({<<1, "a", 2>>, <<1, "b", 2>>}, <<"dir", "file">>)
LinkInDir == Tree({<<1, "a", 2>>, <<2, "a", 3>>, <<1, "b", 3>>}, <<"dir", "dir", "file">>)
OneDir == Tree({<<1, "a", 2>>}, <<"dir", "dir">>)
MCStarts == {TwoLinks, LinkInDir, OneDir}

\* In the root "r": a directory with a hard link of a file beside it; two directories
\* with links of the same two files.
Entries(x, y) == [n \in Names |-> IF n = "a" THEN x ELSE y]
Disk(r, d, e) == [k \in {"r", "d", "e"} |-> CASE k = "r" -> r [] k = "d" -> d [] OTHER -> e]
Absent == "none"
Disks ==
  { [disk |-> Disk(Entries("d", "f"), Entries("f", Absent), Entries(Absent, Absent)), left |-> 3],
    [disk |-> Disk(Entries("d", "e"), Entries("f", "g"), Entries("g", "f")), left |-> 2] }
Loop == INSTANCE LoopbackFs WITH
          Threads <- {t1, t2}, Root <- "r", Dirs <- {"r", "d", "e"}, Others <- {"f", "g"},
          Zero <- "z", None <- Absent, Starts <- Disks

loop == <<disk, children, parents, made, lost, th, astray, left>>

MCInit == Init /\ Loop!Init /\ part \in {"path", "loopback"}
            /\ (part = "path" => left = 2)
            /\ (st.bk = OneDir.links => st.opt = Opt(TRUE, FALSE))
            /\ (part = "loopback" => st.opt = Opt(TRUE, FALSE) /\ st.bk = TwoLinks.links)

MCNext ==
  /\ \/ part = "path" /\ Next /\ UNCHANGED loop
     \/ part = "loopback" /\ Loop!Next /\ UNCHANGED vars
  /\ UNCHANGED part

MCSpec == MCInit /\ [][MCNext]_<<vars, loop, part>>

\* A system call of the loopback file system acts on the file of its node, unless that
\* was being moved, the tree went astray, or the file has lost a name.
CallsOwnFile == Loop!CallsOwnFile
====
