------------------------------ MODULE MultiZip ------------------------------
(***************************************************************************)
(* MultiZipFs (zipfs/multizip.go): an archive is mounted by a symbolic     *)
(* link in config/ and unmounted when the link is removed.  Unlink gives   *)
(* up the lock while it unmounts.                                          *)
(***************************************************************************)
EXTENDS Naturals

CONSTANTS
  Procs,     \* requests that run at the same time
  Names,     \* names in config/
  Archives,  \* files that are archives
  MaxRoots   \* bound on the archives opened

None == "none"

VARIABLES
  zips,           \* name -> the root made for it (0 for none)
  dirZipFileMap,  \* name -> the file
  zombie,         \* names that are being unmounted
  mounted,        \* name -> the root mounted there (the connector's tree)
  holds,          \* root -> the file it was read from
  roots,          \* roots made so far
  zproc           \* request -> what it does

vars == <<zips, dirZipFileMap, zombie, mounted, holds, roots, zproc>>

Idle == [pc |-> "idle", name |-> None, root |-> 0, file |-> None, ok |-> TRUE]
tables == <<zips, dirZipFileMap, zombie>>
tree == <<mounted, holds, roots>>
-----------------------------------------------------------------------------
\* Symlink, all of it under the lock: EBUSY for a name that is in use or being
\* unmounted. The mount may be refused, always where something is mounted (external).
Busy(n) == n \in zombie \/ dirZipFileMap[n] # None

Symlink(p) ==
  /\ zproc[p].pc = "idle" /\ roots < MaxRoots
  /\ \E n \in Names, f \in Archives :
     /\ ~Busy(n) /\ roots' = roots + 1 /\ holds' = [holds EXCEPT ![roots + 1] = f]
     /\ \/ UNCHANGED <<tables, mounted>>
        \/ /\ mounted[n] = 0
           /\ mounted' = [mounted EXCEPT ![n] = roots + 1]
           /\ dirZipFileMap' = [dirZipFileMap EXCEPT ![n] = f]
           /\ zips' = [zips EXCEPT ![n] = roots + 1]
           /\ zombie' = zombie
  /\ zproc' = zproc

\* Unlink up to the unlock; ENOENT for other names.
Unlink(p) ==
  /\ zproc[p].pc = "idle"
  /\ \E n \in Names \ zombie :
     /\ zips[n] # 0
     /\ zproc' = [zproc EXCEPT ![p] = [Idle EXCEPT !.pc = "unmount", !.name = n,
                                         !.root = zips[n], !.file = dirZipFileMap[n]]]
     /\ zombie' = zombie \cup {n}
     /\ zips' = [zips EXCEPT ![n] = 0]
     /\ dirZipFileMap' = [dirZipFileMap EXCEPT ![n] = None]
  /\ UNCHANGED tree

\* UnmountNode, without the lock: fails when something in it is open.
UnmountNode(p) ==
  /\ zproc[p].pc = "unmount"
  /\ \E ok \in BOOLEAN :
     /\ mounted' = IF ok THEN [mounted EXCEPT ![zproc[p].name] = 0] ELSE mounted
     /\ zproc' = [zproc EXCEPT ![p].pc = "removed", ![p].ok = ok]
  /\ UNCHANGED <<tables, holds, roots>>

\* The rest of Unlink: reinstated when the unmount has failed.
Unlinked(p) ==
  LET r == zproc[p]
  IN /\ r.pc = "removed"
     /\ zips' = IF r.ok THEN zips ELSE [zips EXCEPT ![r.name] = r.root]
     /\ dirZipFileMap' = IF r.ok THEN dirZipFileMap ELSE [dirZipFileMap EXCEPT ![r.name] = r.file]
     /\ zombie' = zombie \ {r.name}
     /\ zproc' = [zproc EXCEPT ![p] = Idle]
     /\ UNCHANGED tree

\* OpenDir of config, GetAttr and Readlink of config/name.
OpenDirConfig == {n \in Names : zips[n] # 0}
GetAttr(n) == zips[n] # 0
Readlink(n) == IF n \in zombie THEN None ELSE dirZipFileMap[n]
-----------------------------------------------------------------------------
Init ==
  /\ zips = [n \in Names |-> 0] /\ dirZipFileMap = [n \in Names |-> None]
  /\ zombie = {} /\ mounted = [n \in Names |-> 0]
  /\ holds = [i \in 1..MaxRoots |-> None] /\ roots = 0
  /\ zproc = [p \in Procs |-> Idle]

Next == \E p \in Procs : Symlink(p) \/ Unlink(p) \/ UnmountNode(p) \/ Unlinked(p)

Spec == Init /\ [][Next]_vars
-----------------------------------------------------------------------------
\* config/ lists a name, with the file it was made for, exactly when the root of that
\* file is mounted there, but while it is being unmounted: whatever requests come
\* while Unlink has given up the lock, and whether or not the unmount fails.
ZipsMatchMounts ==
  \A n \in Names \ zombie :
     /\ n \in OpenDirConfig <=> mounted[n] # 0
     /\ GetAttr(n) => zips[n] = mounted[n] /\ Readlink(n) = holds[mounted[n]]
     /\ Readlink(n) # None => GetAttr(n)
=============================================================================
