---------------------------- MODULE ConnectorDir ----------------------------
(***************************************************************************)
(* Reading an open directory in the old API (fuse/nodefs/dir.go): the      *)
(* listing is read once and kept, and a request is answered from the       *)
(* offset it asks for; offset zero reads it again.  The reply is the       *)
(* DirEntryList of DirReader.                                              *)
(*                                                                         *)
(* A listing is the sequence of the sizes of its entries, 0 for one with   *)
(* an empty name; an entry is its position.                                *)
(***************************************************************************)
EXTENDS Naturals, Sequences, SequencesExt

CONSTANTS EntrySizes, Prefix, BufferSizes,
          MaxListing  \* bound on what OpenDir returns

VARIABLES
  stream,  \* connectorDir.stream, empty for nil
  off,     \* the offset the kernel is at (external)
  seen,    \* the entries it has read since offset zero
  ended    \* the last reply was empty

vars == <<stream, off, seen, ended>>

\* "." and "..", which ReadDir appends after the mounts of the directory.
Dots == <<1, 1>>
Listings == {l \o Dots : l \in SeqOf(EntrySizes \cup {0}, MaxListing)}

\* The named entries from an offset on, and as many of them as fit.
Todo(s, o) == SelectSeq([i \in 1..Len(s) |-> i], LAMBDA i : i > o /\ s[i] # 0)
Room(s, q, prefix) == FoldLeft(LAMBDA sum, i : sum + s[i] + prefix, 0, q)
Added(s, q, size, prefix) ==
  LET fits == {k \in 0..Len(q) : Room(s, SubSeq(q, 1, k), prefix) <= size}
  IN SubSeq(q, 1, CHOOSE k \in fits : \A j \in fits : j <= k)

\* ReadDir, and ReadDirPlus with its prefix; EINVAL for an offset past the end.
ReadDir(size, prefix) ==
  \E s \in IF stream = <<>> \/ off = 0 THEN Listings ELSE {stream} :
    LET reply == Added(s, Todo(s, off), size, prefix)
    IN /\ off <= Len(s)
       /\ stream' = s
       /\ off' = off + Len(reply)
       /\ seen' = (IF off = 0 THEN <<>> ELSE seen) \o reply
       /\ ended' = (reply = <<>>)

\* OpenDir of the node fails.
OpenDirFails ==
  /\ stream = <<>> \/ off = 0
  /\ stream' = <<>>
  /\ UNCHANGED <<off, seen, ended>>

\* The kernel goes back to an offset it has had (external); without empty names, to
\* the entries before it.
Seek ==
  \E o \in 0..off :
    /\ o < off /\ off' = o
    /\ seen' = IF o = 0 THEN <<>> ELSE SubSeq(seen, 1, o)
    /\ ended' = FALSE /\ stream' = stream

Init == stream = <<>> /\ off = 0 /\ seen = <<>> /\ ended = FALSE

Next ==
  \/ OpenDirFails \/ Seek
  \/ \E size \in BufferSizes, prefix \in {0, Prefix} : ReadDir(size, prefix)

Spec == Init /\ [][Next]_vars
-----------------------------------------------------------------------------
\* Without empty names the kernel gets the listing in order, each entry once, also
\* across READDIR, READDIRPLUS and seeks; with them an entry may come twice, for they
\* are not counted in the offset. At the end none is missing.
ListedInOrder ==
  /\ (\A i \in DOMAIN stream : stream[i] # 0) => seen = [i \in 1..off |-> i]
  /\ ended => {i \in DOMAIN stream : stream[i] # 0} = {seen[i] : i \in DOMAIN seen}
=============================================================================
