----------------------------- MODULE MCRequests -----------------------------
(***************************************************************************)
(* Requests with every operation of the table, one request at a time, and  *)
(* with those that use buffers and pipes on two workers at once.           *)
(***************************************************************************)
EXTENDS Requests

AllOps == Func \cup InputSize \cup OutputSizes \cup {"UNKNOWN"}

Load(ops, minors, two, max) ==
    [ops |-> ops, minors |-> minors, two |-> two, single |-> FALSE, copy |-> FALSE, max |-> max]

MCLoads == {
    Load(AllOps \ {"INIT"}, {8, 12, 22, 23, 26}, FALSE, 2),
    Load({"READ"}, {23}, TRUE, 3),
    Load({"READ", "INTERRUPT"}, {12}, TRUE, 4),
    Load({"WRITE", "READDIR", "INTERRUPT"}, {12}, TRUE, 4),
    [Load({"GETXATTR", "READ"}, {12}, TRUE, 3) EXCEPT !.single = TRUE],
    [Load({"READ"}, {23}, FALSE, 2) EXCEPT !.copy = TRUE]}
=============================================================================
