------------------------------ MODULE MCUnionFs ------------------------------
(***************************************************************************)
(* The unions: one of them (UnionFs), and what surrounds it (Branches):    *)
(* the cache over a read-only branch, and the file systems that make and   *)
(* remove unions and archives.  The four are independent; a behaviour is   *)
(* of one of them.                                                         *)
(***************************************************************************)
EXTENDS Branches, TLC

CONSTANTS Nil, Paths, RoTrees, Fids, MaxOps, MaxEvents, MaxSteps, Faults,
          d1, d2, n1, n2, config

VARIABLES st, ro, last, ops, events,
          part    \* which of the four

Union == INSTANCE UnionFs

MCPaths == {<<"d">>, <<"e">>, <<"d", "f">>, <<"e", "f">>}

\* What the read-only branch holds, and the faults of the writable one.  Two
\* operations on a full tree, three on one with room for a new name.
MCRoTrees ==
  LET tree(d, f, e, g) ==
        [p \in Paths |-> CASE p = <<"d">> -> d [] p = <<"d", "f">> -> f
                                 [] p = <<"e">> -> e [] OTHER -> g]
  IN { tree("dir", "file", "dir", "file"),
       tree("dir", "file", Union!Absent, Union!Absent),
       tree("link", Union!Absent, Union!Absent, Union!Absent) }
MCMaxOps == [tree \in RoTrees |-> IF tree[<<"e">>] = "dir" THEN 2 ELSE 3]
MCFaults == {<<1, FALSE>>, <<1, TRUE>>, <<2, FALSE>>, <<3, TRUE>>}

\* Two directories and three names, one of them special.  A scan gives both
\* directories the same name (as it does for A/B and A-B).
MCNames == {n1, n2, config}
MCSpecial == {config}
MCLinks == {n1, n2}
MCRoots == {d1, d2}
ScanName(dir) == n1

\* The callers of a part are alike.
Alike == Permutations(Procs)

union == <<st, ro, last, ops, events>>
auto == vars
caching == <<branch, cache, timed, dropped, cproc, calls>>
zip == <<zips, dirZipFileMap, zombie, mounted, holds, roots, zproc>>

MCInit == Init /\ Union!Init /\ Cache!Init /\ Archive!Init
            /\ part \in {"union", "auto", "cache", "zip"}
            /\ (part # "union" => ro = CHOOSE tree \in RoTrees : TRUE)
            /\ (part # "auto" => ~mayBeBusy)
            /\ (part # "cache" => ~timed /\ branch.ok)

MCNext ==
  /\ \/ part = "union" /\ Union!Next /\ UNCHANGED <<auto, caching, zip>>
     \/ part = "auto" /\ Next /\ UNCHANGED <<union, caching, zip>>
     \/ part = "cache" /\ Cache!Next /\ UNCHANGED <<union, auto, zip>>
     \/ part = "zip" /\ Archive!Next /\ UNCHANGED <<union, auto, caching>>
  /\ UNCHANGED part

MCSpec == MCInit /\ [][MCNext]_<<union, auto, caching, zip, part>>
-----------------------------------------------------------------------------
\* An operation that succeeds does to the tree the union shows what it does to one plain
\* file system; one that fails does nothing to it.
OverlaySemantics == Union!OverlaySemantics

\* The two caches of a union are transparent: GetAttr and OpenDir agree with the storage.
AnswersAgree == Union!AnswersAgree

\* An open file is the file its path shows, after copies, renames and links.
OpenFilesFollow == Union!OpenFilesFollow

\* A call that fails in the middle of an operation changes nothing but its operands.
FaultConfined == Union!FaultConfined
=============================================================================
