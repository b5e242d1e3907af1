------------------------------ MODULE MCNotify ------------------------------
(***************************************************************************)
(* Notify with two callers and a file of two units, retrieved one by one.  *)
(***************************************************************************)
EXTENDS Notify

MCKinds == {"inode", "entry", "delete", "store", "retrieve"}
=============================================================================
