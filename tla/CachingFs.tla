----------------------------- MODULE CachingFs ------------------------------
(***************************************************************************)
(* cachingFileSystem (unionfs/cachingfs.go), which NewUnionFsFromRoots     *)
(* puts over the read-only branches, and the TimedCache below it           *)
(* (unionfs/timedcache.go): attributes, directories, links and extended    *)
(* attributes are kept until somebody writes to .drop_cache.  A cache is   *)
(* locked for a look-up and for a store, not while a value is fetched.     *)
(***************************************************************************)
EXTENDS Naturals, Sequences

CONSTANTS
  Procs,       \* requests that run at the same time
  MaxChanges,  \* bound on the changes of the branch
  MaxCalls     \* bound on the requests

\* The caches, in the order of DropCache. One file stands for all: no step of the
\* code relates two keys.
Caches == <<"attributes", "dirs", "links", "xattr">>
Kinds == {Caches[i] : i \in DOMAIN Caches}

VARIABLES
  branch,   \* the file below: how often it was changed, and whether it can be read
  cache,    \* cache -> the entry, or Nothing
  timed,    \* the ttl is positive
  dropped,  \* changes before the last DropCache that has returned
  proc, calls

vars == <<branch, cache, timed, dropped, proc, calls>>

\* raced: the value was fetched before a DropAll of its cache, and stored after it.
Nothing == [v |-> 0, ok |-> FALSE, raced |-> FALSE]

\* since, floor: branch.v and dropped when the request began; todo: caches to drop.
Idle == [pc |-> "idle", kind |-> "none", data |-> Nothing, since |-> 0, floor |-> 0, todo |-> <<>>]

Begun(p, r) ==
  /\ proc[p].pc = "idle" /\ calls < MaxCalls
  /\ calls' = calls + 1
  /\ proc' = [proc EXCEPT ![p] = [r EXCEPT !.since = branch.v, !.floor = dropped]]
-----------------------------------------------------------------------------
(* The branch (external).                                                  *)

Change ==
  /\ branch.v < MaxChanges
  /\ \E ok \in BOOLEAN : branch' = [v |-> branch.v + 1, ok |-> ok]
  /\ UNCHANGED <<cache, timed, dropped, proc, calls>>
-----------------------------------------------------------------------------
(* Requests.                                                               *)

\* GetAttr, OpenDir, Readlink and GetXAttr; the first half of TimedCache.Get.
\* With a ttl an entry may have expired, at any time.
Get(p) ==
  /\ \E k \in Kinds, valid \in BOOLEAN :
     /\ valid => cache[k] # Nothing
     /\ ~valid => timed \/ cache[k] = Nothing
     /\ Begun(p, [Idle EXCEPT !.pc = IF valid THEN "end" ELSE "fetch", !.kind = k,
                              !.data = IF valid THEN cache[k] ELSE Nothing])
  /\ UNCHANGED <<branch, cache, timed, dropped>>

\* What getAttr, readDir, readLink and getXAttr find, and whether it is cached.
Fetched == [Nothing EXCEPT !.v = branch.v, !.ok = branch.ok]
Cacheable(data) == data.ok

\* GetFresh: the fetch, without a lock.
GetFresh(p) ==
  /\ proc[p].pc = "fetch"
  /\ proc' = [proc EXCEPT ![p].data = Fetched, ![p].pc = IF Cacheable(Fetched) THEN "set" ELSE "end"]
  /\ UNCHANGED <<branch, cache, timed, dropped, calls>>

Set(p) ==
  /\ proc[p].pc = "set"
  /\ cache' = [cache EXCEPT ![proc[p].kind] = proc[p].data]
  /\ proc' = [proc EXCEPT ![p].pc = "end"]
  /\ UNCHANGED <<branch, timed, dropped, calls>>

\* The answer, without effect.
Return(p) ==
  /\ proc[p].pc = "end"
  /\ proc' = [proc EXCEPT ![p] = Idle]
  /\ UNCHANGED <<branch, cache, timed, dropped, calls>>

\* Open of .drop_cache for writing: DropCache.
DropsFirst == SubSeq(Caches, 1, 1)

Drops == Caches

Open(p) ==
  /\ Begun(p, [Idle EXCEPT !.pc = "drop", !.todo = Drops])
  /\ UNCHANGED <<branch, cache, timed, dropped>>

\* One DropAll(nil). A request that has fetched but not stored keeps what it has.
DropAll(p) ==
  LET k == Head(proc[p].todo)
      last == Len(proc[p].todo) = 1
  IN /\ proc[p].pc = "drop"
     /\ cache' = [cache EXCEPT ![k] = Nothing]
     /\ proc' = [q \in Procs |->
          IF q = p THEN (IF last THEN Idle ELSE [proc[p] EXCEPT !.todo = Tail(@)])
          ELSE IF proc[q].pc = "set" /\ proc[q].kind = k THEN [proc[q] EXCEPT !.data.raced = TRUE]
          ELSE proc[q]]
     /\ dropped' = IF last /\ proc[p].since > dropped THEN proc[p].since ELSE dropped
     /\ UNCHANGED <<branch, timed, calls>>
-----------------------------------------------------------------------------
\* NewCachingFileSystem: create.go has a ttl of 0, which is for ever.
Init ==
  /\ branch \in [v : {1}, ok : BOOLEAN] /\ cache = [k \in Kinds |-> Nothing]
  /\ timed \in BOOLEAN /\ dropped = 0 /\ calls = 0
  /\ proc = [p \in Procs |-> Idle]

Next ==
  \/ Change
  \/ \E p \in Procs : Get(p) \/ GetFresh(p) \/ Set(p) \/ Return(p) \/ Open(p) \/ DropAll(p)

Spec == Init /\ [][Next]_vars
-----------------------------------------------------------------------------
(* Properties.                                                             *)

\* After DropCache has returned no request is answered with what the branch was
\* before it, from any of the four caches: unless the value was on its way into the
\* cache during the drop. A failure is never kept: it is what the branch answers
\* during the request.
AnswersWereTrue ==
  \A p \in Procs : proc[p].pc = "end" =>
     /\ proc[p].data.v >= proc[p].floor \/ proc[p].data.raced
     /\ ~proc[p].data.ok => proc[p].data.v >= proc[p].since
=============================================================================
