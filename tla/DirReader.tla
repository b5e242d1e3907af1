------------------------------ MODULE DirReader ------------------------------
(***************************************************************************)
(* Reading one open directory (src/nodefs/bridge.go: getStream, ReadDir,   *)
(* ReadDirPlus; src/fuse/direntry.go: DirEntryList).  The stream of the    *)
(* directory is read entry by entry into a reply of bounded size; an entry *)
(* that does not fit is kept as the overflow for the next request.  The    *)
(* kernel (external) asks for the next part at the offset of the last      *)
(* entry it has, until a reply is empty, or starts again at offset zero.   *)
(*                                                                         *)
(* A directory is the sequence of the serialized sizes of its entries; an  *)
(* entry is its position in it.                                            *)
(***************************************************************************)
EXTENDS Naturals, Sequences, SequencesExt

CONSTANTS
  Nil,
  EntrySizes,  \* serialized sizes of an entry
  Prefix,      \* what READDIRPLUS adds to each: sizeof(EntryOut)
  BufferSizes, \* sizes of the replies the kernel asks for
  MaxEntries   \* bound: entries of a directory

\* What the constants have to be. A reply holds any entry: names are limited to
\* 255 bytes.
ConstantsOK ==
  /\ EntrySizes \subseteq Nat \ {0} /\ BufferSizes \subseteq Nat /\ Prefix \in Nat
  /\ Nil \notin Nat /\ MaxEntries \in Nat
  /\ \A size \in BufferSizes, e \in EntrySizes : e + Prefix <= size

VARIABLES
  dir,       \* what the stream lists: a sequence of entry sizes
  next,      \* the position of the stream; Nil: fileEntry.dirStream is nil
  overflow,  \* fileEntry.overflow, Nil when hasOverflow is false
  got,       \* the entries the kernel has, since offset zero
  atEnd,     \* the request whose reply, the last one, was empty
  failed     \* a request has failed since offset zero

vars == <<dir, next, overflow, got, atEnd, failed>>

Dirs == SeqOf(EntrySizes, MaxEntries)

Init ==
  /\ dir = <<>>
  /\ next = Nil
  /\ overflow = Nil
  /\ got = <<>>
  /\ atEnd = Nil
  /\ failed = FALSE

\* DirEntryList: the space the first k entries of s take, each with a prefix.
Space(d, s, k, prefix) == FoldLeft(LAMBDA sum, e : sum + d[e] + prefix, 0, SubSeq(s, 1, k))

\* How many entries of s Add accepts before it refuses one.
Fit(d, s, size, prefix) ==
  CHOOSE k \in 0..Len(s) :
    /\ Space(d, s, k, prefix) <= size
    /\ k < Len(s) => Space(d, s, k + 1, prefix) > size

\* The entries the stream still has.
Rest(d, p) == [i \in 1..(Len(d) + 1 - p) |-> p + i - 1]

-----------------------------------------------------------------------------
\* getStream: at offset zero, or without a stream, a new one.
GetStream(d, restart) ==
  IF next = Nil \/ restart THEN [dir |-> d, next |-> 1, overflow |-> Nil]
  ELSE [dir |-> dir, next |-> next, overflow |-> overflow]

\* The reply when a stream s takes the entries of q, of which those from the
\* stream begin at index from; the first that does not fit is the overflow.
Filled(s, q, size, prefix, from) ==
  LET k == Fit(s.dir, q, size, prefix)
      stopped == k < Len(q)
      taken == IF stopped THEN k + 1 ELSE k
  IN [reply |-> SubSeq(q, 1, k),
      overflow |-> IF stopped THEN q[k + 1] ELSE Nil,
      next |-> s.next + (IF taken >= from THEN taken - from + 1 ELSE 0)]

ReadDirDropsOverflow(s, size) ==
  Filled(s, Rest(s.dir, s.next), size, 0, 1)

\* ReadDir: the overflow first, even when the stream has nothing more.
ReadDir(s, size) ==
  IF s.overflow = Nil THEN Filled(s, Rest(s.dir, s.next), size, 0, 1)
  ELSE Filled(s, <<s.overflow>> \o Rest(s.dir, s.next), size, 0, 2)

\* ReadDirPlus: the loop looks for the overflow only when HasNext.
ReadDirPlus(s, size) ==
  IF Rest(s.dir, s.next) = <<>>
    THEN [reply |-> <<>>, overflow |-> s.overflow, next |-> s.next]
  ELSE IF s.overflow = Nil THEN Filled(s, Rest(s.dir, s.next), size, Prefix, 1)
  ELSE Filled(s, <<s.overflow>> \o Rest(s.dir, s.next), size, Prefix, 2)

\* The reply reaches the kernel; at offset zero it starts a new listing.
Answer(request, s, r, restart) ==
  /\ dir' = s.dir
  /\ next' = r.next
  /\ overflow' = r.overflow
  /\ got' = (IF restart THEN <<>> ELSE got) \o r.reply
  /\ atEnd' = IF r.reply = <<>> THEN request ELSE Nil
  /\ failed' = (failed /\ ~restart)

\* The kernel asks at offset zero, or after the last entry it has.
Request(restart) == restart \/ got # <<>>

Read(d, size, restart) ==
  /\ Request(restart)
  /\ LET s == GetStream(d, restart) IN Answer("READDIR", s, ReadDir(s, size), restart)

ReadPlus(d, size, restart) ==
  /\ Request(restart)
  /\ LET s == GetStream(d, restart) IN Answer("READDIRPLUS", s, ReadDirPlus(s, size), restart)

\* Readdir of the file system fails: the entry has no stream.
ReaddirFails(restart) ==
  /\ Request(restart)
  /\ next = Nil \/ restart
  /\ next' = Nil
  /\ failed' = TRUE
  /\ got' = IF restart THEN <<>> ELSE got
  /\ atEnd' = Nil
  /\ UNCHANGED <<dir, overflow>>

\* Next fails after k entries of the stream: the status replaces the reply,
\* and what it held is gone from the stream.
NextFails(d, size, restart, k) ==
  /\ Request(restart)
  /\ LET s == GetStream(d, restart)
         kept == IF s.overflow = Nil THEN <<>> ELSE <<s.overflow>>
     IN
       /\ s.next + k <= Len(s.dir)
       /\ Space(s.dir, kept \o Rest(s.dir, s.next), Len(kept) + k, 0) <= size
       /\ dir' = s.dir
       /\ next' = s.next + k + 1
  /\ overflow' = Nil
  /\ failed' = TRUE
  /\ got' = IF restart THEN <<>> ELSE got
  /\ atEnd' = Nil

Next ==
  \E restart \in BOOLEAN :
    \/ ReaddirFails(restart)
    \/ \E d \in Dirs, size \in BufferSizes :
         \/ Read(d, size, restart)
         \/ ReadPlus(d, size, restart)
         \/ \E k \in 0..MaxEntries : NextFails(d, size, restart, k)

Spec == Init /\ [][Next]_vars
-----------------------------------------------------------------------------
\* While no request has failed, the kernel has a prefix of the directory: no
\* entry is skipped, repeated or out of order across replies, whichever of
\* READDIR and READDIRPLUS asked for each part and whatever an earlier pass
\* left in the overflow.
InOrder ==
  ~failed => got = [i \in 1..Len(got) |-> i] /\ Len(got) <= Len(dir)

\* An empty reply to READDIR, which ends the listing, comes after the last
\* entry, also when READDIRPLUS kept one in the overflow.
CompleteAtEnd == ~failed /\ atEnd = "READDIR" => Len(got) = Len(dir)

\* An empty reply to READDIRPLUS comes after the last entry, or before it when
\* that entry did not fit and is the overflow: the loop of ReadDirPlus looks at
\* the overflow only while the stream has more.
CompleteButOverflow ==
  ~failed /\ atEnd = "READDIRPLUS" =>
    \/ Len(got) = Len(dir)
    \/ overflow = Len(dir) /\ Len(got) = Len(dir) - 1

\* Without the exception it does not hold.
CompleteAtEndPlus == ~failed /\ atEnd = "READDIRPLUS" => Len(got) = Len(dir)
=============================================================================
