--------------------------- MODULE AbstractHandles ---------------------------
(* What a handleMap promises its users (src/fuse/nodefs/handle.go, interface  *)
(* handleMap): every registered object is known under one (handle,            *)
(* generation) pair for as long as it has references, two objects never share *)
(* a handle at the same time, and a pair is never issued a second time.       *)
EXTENDS Naturals

CONSTANTS Objects,   \* the Go objects that embed "handled"
          NoPair     \* the pair of an object that is not registered

VARIABLES refs,      \* refs[o]: references held on o by the users of the map
          pair,      \* pair[o]: the pair o is known under, or NoPair
          issued     \* every pair given out so far

vars == <<refs, pair, issued>>

Init ==
  /\ refs = [o \in Objects |-> 0]
  /\ pair = [o \in Objects |-> NoPair]
  /\ issued = {}

\* A first reference: the object gets a pair that was never issued, whose
\* handle nobody else has.  Handles 0 and 1 are not given out.
Register(o) ==
  /\ refs[o] = 0
  /\ refs' = [refs EXCEPT ![o] = 1]
  /\ LET new == pair'[o] IN
       /\ new \in ((Nat \ {0, 1}) \X Nat) \ issued
       /\ \A q \in Objects : pair[q] # NoPair => pair[q][1] # new[1]
       /\ pair' = [pair EXCEPT ![o] = new]
       /\ issued' = issued \cup {new}

\* A further reference does not change the pair.
Share(o) ==
  /\ refs[o] > 0
  /\ refs' = [refs EXCEPT ![o] = @ + 1]
  /\ UNCHANGED <<pair, issued>>

\* Giving up n references; the pair is gone when none is left.
Drop(o, n) ==
  /\ n \in 1..refs[o]
  /\ refs' = [refs EXCEPT ![o] = @ - n]
  /\ pair' = [pair EXCEPT ![o] = IF n = refs[o] THEN NoPair ELSE @]
  /\ UNCHANGED issued

Next == \E o \in Objects :
          \/ Register(o)
          \/ Share(o)
          \/ \E n \in 1..refs[o] : Drop(o, n)

Spec == Init /\ [][Next]_vars
=============================================================================
