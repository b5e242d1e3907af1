------------------------------ MODULE MCHandles ------------------------------
(***************************************************************************)
(* The tables that give numbers to the kernel: the handle map of           *)
(* fuse/nodefs (HandleMap), the open files of nodefs (FileTable), and the  *)
(* entries that a directory handle gives out (DirReader; ConnectorDir in   *)
(* the old API).  They are independent; a behaviour is of one of them.     *)
(*                                                                         *)
(* Three objects, up to two references each, five registrations: ids are   *)
(* freed in one order and used again in another.                           *)
(***************************************************************************)
EXTENDS HandleMap, OpenFiles

CONSTANTS EntrySizes, Prefix, BufferSizes, MaxEntries, MaxListing

VARIABLES dir, next, overflow, got, atEnd, failed,
          stream, off, seen, ended,
          part    \* which of the four

Files == INSTANCE FileTable
Dir == INSTANCE DirReader
Conn == INSTANCE ConnectorDir
ASSUME FilesAssumption == ConstantsOK
ASSUME DirAssumption == Dir!ConstantsOK

map == vars
table == <<files, freeFiles, openFiles, th, opened, released, streams, closed, fhs>>
reader == <<dir, next, overflow, got, atEnd, failed>>
connector == <<stream, off, seen, ended>>

MCInit == Init /\ Files!Init /\ Dir!Init /\ Conn!Init
            /\ part \in {"map", "table", "reader", "connector"}

MCNext ==
  /\ \/ part = "map" /\ Next /\ UNCHANGED <<table, reader, connector>>
     \/ part = "table" /\ Files!Next /\ UNCHANGED <<map, reader, connector>>
     \/ part = "reader" /\ Dir!Next /\ UNCHANGED <<map, table, connector>>
     \/ part = "connector" /\ Conn!Next /\ UNCHANGED <<map, table, reader>>
  /\ UNCHANGED part

MCSpec == /\ MCInit /\ [][MCNext]_<<map, table, reader, connector, part>>
          /\ part = "table" => Files!Fairness
-----------------------------------------------------------------------------
\* The kernel gets the entries of a directory in order, none twice, however the
\* replies cut them. When READDIR ends the listing it has them all; when READDIRPLUS
\* ends it, all but a last entry that did not fit, which the code loses
\* (bridge.go:692). In the old API entries without a name are left out, and may make
\* others come twice.
ListingExact ==
  Dir!InOrder /\ Dir!CompleteAtEnd /\ Dir!CompleteButOverflow /\ Conn!ListedInOrder
=============================================================================
