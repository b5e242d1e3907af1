------------------------------ MODULE Branches -------------------------------
(***************************************************************************)
(* What surrounds a union: the file system that makes unions (AutoUnion),  *)
(* the one that does the same with archives (MultiZip), and the cache over *)
(* a read-only branch (CachingFs).  The three are independent.             *)
(***************************************************************************)
EXTENDS AutoUnion, Sequences

CONSTANTS
  Links, Archives, MaxRoots,  \* of MultiZip; Links are the names in its config/
  MaxChanges, MaxCalls        \* of CachingFs

VARIABLES zips, dirZipFileMap, zombie, mounted, holds, roots, zproc,
          branch, cache, timed, dropped, cproc, calls

Archive == INSTANCE MultiZip WITH Names <- Links
Cache == INSTANCE CachingFs WITH proc <- cproc

\* What config/ says of a name is what is mounted there, but while it is being removed;
\* of unions and of archives.
MountsListed == ConfigMatchesMounts /\ Archive!ZipsMatchMounts

\* What is answered from the caches of a branch is not older than the last DropCache,
\* but for a value that was on its way into the cache; failures are not cached.
AnswersWereTrue == Cache!AnswersWereTrue
=============================================================================
