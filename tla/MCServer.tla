------------------------------ MODULE MCServer -------------------------------
(***************************************************************************)
(* Server with four loops and, for the table of requests, three structs    *)
(* and two requests.  A behaviour is of one of the two components.         *)
(***************************************************************************)
EXTENDS Server

VARIABLE part    \* which of the two

readers == vars
table == <<req, reqInflight, op, intr>>

MCInit == Init /\ Table!Init /\ part \in {"readers", "table"}
            /\ (part = "table" => ~singleReader)

\* One struct of the pool is as good as another: what it still holds is overwritten
\* before it is read.
FirstOfPool ==
  \A s \in Structs : req[s].pc = "pool" /\ req'[s].pc # "pool" =>
    s = CHOOSE t \in Structs : req[t].pc = "pool"

MCNext ==
  /\ \/ part = "readers" /\ Next /\ UNCHANGED table
     \/ part = "table" /\ Table!Next /\ FirstOfPool /\ UNCHANGED readers
  /\ UNCHANGED part

\* The fairness of each.
MCSpec == /\ MCInit /\ [][MCNext]_<<readers, table, part>>
          /\ \/ part = "readers" /\ Fairness
             \/ part = "table" /\ Table!Fairness
=============================================================================
