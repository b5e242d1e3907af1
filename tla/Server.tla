------------------------------- MODULE Server --------------------------------
(***************************************************************************)
(* The goroutines of fuse.Server that read and handle requests: how many   *)
(* read (ReaderPool), and the table of requests that an INTERRUPT looks    *)
(* through (Inflight).  The two are independent.                           *)
(***************************************************************************)
EXTENDS ReaderPool, Sequences

CONSTANTS Structs, Uniques, Nil

VARIABLES req, reqInflight, op, intr

Table == INSTANCE Inflight

\* A request is cancelled only if the kernel interrupted that request; the table in
\* which an interrupt looks for it lists the requests that are being handled.
CancelledByOwnInterrupt == Table!CancelledByOwnInterrupt /\ Table!InflightExact

\* An interrupt reaches its request, unless that has been answered.
InterruptArrives == Table!InterruptArrives
=============================================================================
