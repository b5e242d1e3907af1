----------------------------- MODULE AutoUnion ------------------------------
(***************************************************************************)
(* autoUnionFs (unionfs/autounion.go): a file system that makes unions on  *)
(* demand. A union is made for a directory with a READONLY link, by a      *)
(* symbolic link in config/ or by a scan of the tree, and mounted as a     *)
(* directory of the root; removing the link unmounts it. rmFs gives up the *)
(* lock while it unmounts, so that two requests can meet in the middle.    *)
(***************************************************************************)
EXTENDS Naturals, FiniteSets

CONSTANTS
    Procs,       \* requests that run at the same time
    Names,       \* names in config/
    Special,     \* those that are files of autoUnionFs itself (config, status, .scan_config)
    Roots,       \* directories with a READONLY link
    AutoName(_), \* the name a scan gives to the union of a directory
    MaxUnions    \* bound on the unions made

None == "none"

VARIABLES
    known,       \* knownFileSystems: name -> the union made for it (0 for none)
    nameRootMap, \* name -> directory
    zombies,     \* names that are being unmounted
    mounts,      \* name -> the union mounted there (the connector's tree)
    owner,       \* union -> the directory it writes to
    made,        \* unions made so far
    proc,        \* request -> what it does
    mayBeBusy    \* an unmount can fail because files are open (external)

vars == <<known, nameRootMap, zombies, mounts, owner, made, proc, mayBeBusy>>

Idle == [pc |-> "idle", name |-> None, todo |-> {}, root |-> None, id |-> 0, code |-> "OK"]
-----------------------------------------------------------------------------
(* Making a union.                                                         *)

RefusedByName(name, root) == name \in zombies \/ known[name] # 0

\* The checks of createFs: the name is not being removed, the directory has no
\* union under another name, the name is not taken.
Refused(name, root) ==
    \/ name \in zombies
    \/ \E w \in Names : nameRootMap[w] = root /\ w # name
    \/ known[name] # 0

\* NewUnionFsFromRoots: a new union, unless one of its directories cannot be used.
NewUnionFsFromRoots(root) == {made + 1, 0}

\* PathNodeFs.Mount: refused where something is mounted already.
Mounted(name) == mounts[name] # 0

\* createFs, all of it under the lock. Nothing changes when it fails.
CreateFs(name, root) ==
    \/ /\ Refused(name, root)
       /\ UNCHANGED <<known, nameRootMap, mounts, owner, made>>
    \/ /\ ~Refused(name, root)
       /\ \E id \in NewUnionFsFromRoots(root) :
          IF id = 0 \/ Mounted(name)
          THEN UNCHANGED <<known, nameRootMap, mounts, owner, made>>
          ELSE /\ made < MaxUnions
               /\ made' = id
               /\ owner' = [owner EXCEPT ![id] = root]
               /\ mounts' = [mounts EXCEPT ![name] = id]
               /\ known' = [known EXCEPT ![name] = id]
               /\ nameRootMap' = [nameRootMap EXCEPT ![name] = root]

\* addFs: EINVAL for the names autoUnionFs uses itself.
AddFs(name, root) ==
    IF name \in Special THEN UNCHANGED <<known, nameRootMap, mounts, owner, made>>
    ELSE CreateFs(name, root)

\* getRoots: the directory and its READONLY link, when it has one.
GetRoots(dir) == dir \in Roots

\* Symlink: config/name -> a directory; ENOTDIR for others.
Symlink(p) ==
    /\ proc[p].pc = "idle"
    /\ \E name \in Names, dir \in Roots \cup {None} :
       IF GetRoots(dir) THEN AddFs(name, dir) ELSE UNCHANGED <<known, nameRootMap, mounts, owner, made>>
    /\ UNCHANGED <<zombies, proc>>
-----------------------------------------------------------------------------
(* Scanning.                                                               *)

\* updateKnownFses, on mounting or when config/.scan_config is opened for writing:
\* a walk over the directories.
UpdateKnownFses(p) ==
    /\ proc[p].pc = "idle"
    /\ proc' = [proc EXCEPT ![p] = [Idle EXCEPT !.pc = "visit", !.todo = Roots]]
    /\ UNCHANGED <<known, nameRootMap, zombies, mounts, owner, made>>

\* visit and the first half of addAutomaticFs: the name is looked up, under a read
\* lock of its own.
Visit(p) ==
    /\ proc[p].pc = "visit"
    /\ \/ /\ proc[p].todo = {}
          /\ proc' = [proc EXCEPT ![p] = Idle]
       \/ \E r \in proc[p].todo :
          proc' = [proc EXCEPT ![p].todo = @ \ {r}, ![p].root = r,
                               ![p].pc = IF known[AutoName(r)] = 0 THEN "add" ELSE "visit"]
    /\ UNCHANGED <<known, nameRootMap, zombies, mounts, owner, made>>

AddAutomaticFs(p) ==
    /\ proc[p].pc = "add"
    /\ AddFs(AutoName(proc[p].root), proc[p].root)
    /\ proc' = [proc EXCEPT ![p].pc = "visit", ![p].root = None]
    /\ UNCHANGED zombies
-----------------------------------------------------------------------------
(* Removing.                                                               *)

\* rmFs up to the unlock, from Unlink of config/name: ENOENT for a name that is not
\* known or is being removed.
RmFs(p) ==
    /\ proc[p].pc = "idle"
    /\ \E name \in Names \ Special :
       /\ name \notin zombies /\ known[name] # 0
       /\ proc' = [proc EXCEPT ![p] = [Idle EXCEPT !.pc = "unmount", !.name = name,
                                         !.id = known[name], !.root = nameRootMap[name]]]
       /\ known' = [known EXCEPT ![name] = 0]
       /\ nameRootMap' = [nameRootMap EXCEPT ![name] = None]
       /\ zombies' = zombies \cup {name}
    /\ UNCHANGED <<mounts, owner, made>>

\* PathNodeFs.Unmount, without the lock: EBUSY when something in it is open.
Unmount(p) ==
    /\ proc[p].pc = "unmount"
    /\ \/ /\ mounts' = [mounts EXCEPT ![proc[p].name] = 0]
          /\ proc' = [proc EXCEPT ![p].pc = "removed"]
       \/ /\ mayBeBusy
          /\ mounts' = mounts
          /\ proc' = [proc EXCEPT ![p].pc = "removed", ![p].code = "EBUSY"]
    /\ UNCHANGED <<known, nameRootMap, zombies, owner, made>>

\* rmFs after the unmount: reinstated when it has failed.
ReinstateNot(p) == UNCHANGED <<known, nameRootMap>>

Reinstate(p) ==
    IF proc[p].code = "OK" THEN UNCHANGED <<known, nameRootMap>>
    ELSE /\ known' = [known EXCEPT ![proc[p].name] = proc[p].id]
         /\ nameRootMap' = [nameRootMap EXCEPT ![proc[p].name] = proc[p].root]

Removed(p) ==
    /\ proc[p].pc = "removed"
    /\ Reinstate(p)
    /\ zombies' = zombies \ {proc[p].name}
    /\ proc' = [proc EXCEPT ![p] = Idle]
    /\ UNCHANGED <<mounts, owner, made>>
-----------------------------------------------------------------------------
(* Reading.                                                                *)

\* OpenDir of config: the names of the links.
OpenDirConfig == {n \in Names : known[n] # 0}

\* GetAttr and Readlink of config/name, what they find.
GetAttrLink(n) == known[n] # 0
Readlink(n) == nameRootMap[n]
-----------------------------------------------------------------------------
Init ==
    /\ known = [n \in Names |-> 0] /\ nameRootMap = [n \in Names |-> None]
    /\ zombies = {} /\ mounts = [n \in Names |-> 0]
    /\ owner = [i \in 1..MaxUnions |-> None] /\ made = 0
    /\ proc = [p \in Procs |-> Idle] /\ mayBeBusy \in BOOLEAN

Next ==
    /\ \E p \in Procs :
          \/ Symlink(p) \/ UpdateKnownFses(p) \/ Visit(p) \/ AddAutomaticFs(p)
          \/ RmFs(p) \/ Unmount(p) \/ Removed(p)
    /\ UNCHANGED mayBeBusy

Spec == Init /\ [][Next]_vars
-----------------------------------------------------------------------------
(* Properties.                                                             *)

\* What config/ says of a name is what is mounted there, but while it is being
\* removed: the link is listed, and points to the directory of the union, exactly
\* when that union is mounted. So an unmount that fails leaves the table as it was,
\* also when other requests came in between.
ConfigMatchesMounts ==
    \A n \in Names \ zombies :
       /\ n \in OpenDirConfig <=> mounts[n] # 0
       /\ GetAttrLink(n) => known[n] = mounts[n] /\ Readlink(n) = owner[mounts[n]]
       /\ Readlink(n) # None => GetAttrLink(n)

\* A request is between the two critical sections of rmFs for the union at name n.
BeingRemoved(n) == \E p \in Procs : proc[p].pc \in {"unmount", "removed"} /\ proc[p].name = n

\* Two unions that are mounted, under whatever names, write to different directories
\* ("Already have a union FS for directory", autounion.go:124), with one exception:
\* while rmFs removes one of them. The directory is free from the moment rmFs has
\* taken the name out of nameRootMap, so that a new union of it may be mounted before
\* the old one is gone (autounion.go:169-173).
RootsSeparate ==
    \A m, n \in Names :
       m # n /\ mounts[m] # 0 /\ mounts[n] # 0 /\ owner[mounts[m]] = owner[mounts[n]]
          => BeingRemoved(m) \/ BeingRemoved(n)

\* It holds as long as no unmount fails, whatever is made, scanned and removed at the
\* same time: an overlap of two unions of a directory ends with the removal.
OneUnionPerRoot == ~mayBeBusy => RootsSeparate
=============================================================================
