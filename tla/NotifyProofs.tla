---------------------------- MODULE NotifyProofs ----------------------------
(***************************************************************************)
(* Notify, for any number of callers and calls, any length of the data and *)
(* any size of the pieces.                                                 *)
(***************************************************************************)
EXTENDS Notify, TLAPS

Places == {"idle", "register", "lock", "write", "wait", "unregister", "end"}
Status == {"OK", "ENOSYS", "EBADF", "ENODEV", "EINVAL", "ENOENT", "EIO"}
CallRec == [pc : Places, kind : Kinds \cup {None, "entry", "delete"}, off : Nat,
            dest : Seq(Nat), u : Nat, n : Nat, st : Status, result : Status]
Retrieve == [u : Nat, c : Callers, off : Nat, len : Nat]

Types ==
  /\ caller \in [Callers -> CallRec] /\ next \in Nat
  /\ tab \subseteq Retrieve /\ waking \subseteq Retrieve
  /\ asked \subseteq [u : Nat, off : Nat, len : Nat]
  /\ answers \subseteq [u : Nat, off : Nat, n : Nat]
  /\ ready \subseteq Nat

\* A retrieve between its registration and its end.
Sent(r) == r.kind = "retrieve" /\ r.pc \in {"lock", "write", "wait", "unregister"}

\* The retrieves of the table and those Serve is waking are distinct, and not ended.
Opens ==
  /\ \A q \in tab \cup waking : q.u < next /\ q.u \notin ready
  /\ \A p, q \in tab \cup waking : p.u = q.u => p = q
  /\ \A q \in tab : q \notin waking
  /\ \A u \in ready : u < next

\* A retrieve of the table is the one its caller is making.
Owners ==
  /\ \A q \in tab : /\ Sent(caller[q.c]) /\ q.u = caller[q.c].u /\ q.off = caller[q.c].off
                    /\ q.off + q.len <= DataLen
  /\ \A c \in Callers : Sent(caller[c]) => caller[c].u < next
  /\ \A q \in tab \cup waking, c \in Callers : (Sent(caller[c]) /\ caller[c].u = q.u) => c = q.c

\* The kernel is asked, and answers, for retrieves whose callers wait.
Questions ==
  \A a \in asked \cup answers :
    /\ a.u < next
    /\ \A q \in tab : q.u = a.u => (caller[q.c].pc = "wait" /\ q.off = a.off)

\* What a call has got; ended are the retrieves that are ready.
Got(r, ended) ==
  /\ Len(r.dest) <= DataLen /\ \A i \in 1..Len(r.dest) : r.dest[i] = i
  /\ r.kind # "retrieve" => r.dest = <<>>
  /\ (r.kind = "retrieve" /\ (r.pc = "wait" => r.u \notin ended)) => Len(r.dest) = r.off
  /\ (r.kind = "retrieve" /\ r.pc = "wait" /\ r.u \in ended) =>
       (Len(r.dest) = r.off + r.n /\ (r.n > 0 => r.st = "OK"))
  /\ (r.kind = "retrieve" /\ r.pc \in {"lock", "write"} /\ r.u \in ended) => r.n = 0
  /\ (r.pc = "end" /\ r.dest # <<>>) => r.result = "OK"
  /\ r.pc = "idle" => r.kind = None
  /\ r.pc \in {"register", "wait", "unregister"} => r.kind = "retrieve"

IInv == Types /\ panic = FALSE /\ Opens /\ Owners /\ Questions
          /\ \A c \in Callers : Got(caller[c], ready)
-----------------------------------------------------------------------------
\* The variables the invariant is about.
state == <<caller, next, tab, waking, asked, answers, ready, panic>>

LEMMA StutterIInv == ASSUME IInv, UNCHANGED state PROVE IInv'
<1>1. Types' BY DEF IInv, Types, state
<1>2. Opens' BY DEF IInv, Opens, state
<1>3. Owners' BY DEF IInv, Owners, state, Sent
<1>4. Questions' BY DEF IInv, Questions, state
<1>5. (\A c \in Callers : Got(caller[c], ready))' BY DEF IInv, state
<1> QED BY <1>1, <1>2, <1>3, <1>4, <1>5 DEF IInv, state

LEMMA InitIInv == Init => IInv
<1> SUFFICES ASSUME Init PROVE IInv OBVIOUS
<1>1. NoCall \in CallRec /\ NoCall.pc = "idle" /\ NoCall.kind = None /\ NoCall.dest = <<>>
  <2>1. <<>> \in Seq(Nat) OBVIOUS
  <2> QED BY <2>1 DEF NoCall, CallRec, Places, Status, None
<1>2. Types BY <1>1 DEF Types, Init
<1>3. \A c \in Callers : caller[c] = NoCall BY Zenon DEF Init
<1>4. Got(NoCall, ready) BY <1>1, NotifyAssumption DEF Got, None
<1>5. Opens /\ Questions BY DEF Init, Opens, Questions
<1>6. Owners BY <1>1, <1>3 DEF Init, Owners, Sent, None
<1> QED BY <1>2, <1>3, <1>4, <1>5, <1>6 DEF IInv, Init

\* A caller comes to r; a retrieve of its own in the table stays the one it makes.
LEMMA CallerIInv ==
  ASSUME IInv, NEW c \in Callers, NEW r \in CallRec,
         caller' = [caller EXCEPT ![c] = r],
         UNCHANGED <<next, tab, waking, asked, answers, ready, panic>>,
         Got(r, ready),
         Sent(r) => (Sent(caller[c]) /\ r.u = caller[c].u),
         \A q \in tab : q.c = c => (Sent(r) /\ r.off = q.off /\ (caller[c].pc = "wait" => r.pc = "wait"))
  PROVE  IInv'
<1>1. Types' BY DEF IInv, Types
<1>2. Opens' BY DEF IInv, Opens
<1>3. \A d \in Callers : caller'[d] = IF d = c THEN r ELSE caller[d] BY DEF IInv, Types
<1>4. \A q \in tab : q.c \in Callers BY DEF IInv, Types, Retrieve
<1>5. Owners'
  <2>1. \A q \in tab : /\ Sent(caller'[q.c]) /\ q.u = caller'[q.c].u /\ q.off = caller'[q.c].off
                       /\ q.off + q.len <= DataLen
    BY <1>3, <1>4 DEF IInv, Owners
  <2>2. \A d \in Callers : Sent(caller'[d]) => (Sent(caller[d]) /\ caller'[d].u = caller[d].u) BY <1>3
  <2> HIDE DEF Sent
  <2>3. \A d \in Callers : Sent(caller'[d]) => caller'[d].u < next BY <2>2 DEF IInv, Owners
  <2>4. \A q \in tab \cup waking, d \in Callers :
          (Sent(caller'[d]) /\ caller'[d].u = q.u) => d = q.c
    BY <2>2 DEF IInv, Owners
  <2> QED BY <2>1, <2>3, <2>4 DEF Owners, Sent
<1>6. Questions' BY <1>3, <1>4 DEF IInv, Questions
<1>7. (\A d \in Callers : Got(caller[d], ready))' BY <1>3 DEF IInv
<1> QED BY <1>1, <1>2, <1>5, <1>6, <1>7 DEF IInv

\* A call begins.
LEMMA CallIInv == ASSUME IInv, NEW c \in Callers, Call(c) PROVE IInv'
<1> DEFINE begun(k) == [NoCall EXCEPT !.kind = k,
                          !.pc = IF k = "retrieve" THEN "register" ELSE "lock"]
           refused(k) == [NoCall EXCEPT !.kind = k, !.pc = "end", !.result = "ENOSYS"]
<1>1. PICK k \in Kinds \cup {None, "entry", "delete"} :
         \/ caller' = [caller EXCEPT ![c] = begun(k)]
         \/ caller' = [caller EXCEPT ![c] = refused(k)]
  BY Zenon DEF Call, DeleteNotify
<1>2. /\ <<>> \in Seq(Nat) /\ Len(<<>>) = 0
      /\ NoCall \in CallRec /\ NoCall.dest = <<>> /\ NoCall.off = 0 /\ NoCall.n = 0
  <2>1. <<>> \in Seq(Nat) /\ Len(<<>>) = 0 OBVIOUS
  <2> QED BY <2>1 DEF CallRec, Places, Status, NoCall, None
<1>3. caller[c].pc = "idle" /\ caller[c].kind = None BY DEF Call, IInv, Got
<1>4. ~Sent(caller[c]) BY <1>3 DEF Sent
<1>5. \A q \in tab : q.c # c BY <1>4 DEF IInv, Owners
<1>6. UNCHANGED <<next, tab, waking, asked, answers, ready, panic>> BY DEF Call, server, kernel
<1>8. begun(k) \in CallRec /\ ~Sent(begun(k)) /\ Got(begun(k), ready)
  <2> DEFINE r == begun(k)
  <2>1. /\ r \in CallRec /\ r.dest = <<>> /\ r.off = 0 /\ r.kind = k
        /\ r.pc = IF k = "retrieve" THEN "register" ELSE "lock"
    BY <1>2, Zenon DEF CallRec, Places
  <2> HIDE DEF r
  <2>2. ~Sent(r) /\ Got(r, ready) BY <1>2, <2>1, NotifyAssumption DEF Sent, Got
  <2> QED BY <2>1, <2>2 DEF r
<1>9. refused(k) \in CallRec /\ ~Sent(refused(k)) /\ Got(refused(k), ready)
  <2> DEFINE r == refused(k)
  <2>1. r \in CallRec /\ r.dest = <<>> /\ r.off = 0 /\ r.kind = k /\ r.pc = "end"
    BY <1>2, Zenon DEF CallRec, Places, Status
  <2> HIDE DEF r
  <2>2. ~Sent(r) /\ Got(r, ready) BY <1>2, <2>1, NotifyAssumption DEF Sent, Got
  <2> QED BY <2>1, <2>2 DEF r
<1> HIDE DEF begun, refused
<1> QED BY SMTT(30), <1>1, <1>5, <1>6, <1>8, <1>9, CallerIInv

\* A call returns.
LEMMA ReturnIInv == ASSUME IInv, NEW c \in Callers, Return(c) PROVE IInv'
<1>1. caller' = [caller EXCEPT ![c] = NoCall] /\ caller[c].pc = "end" BY DEF Return
<1>2. ~Sent(caller[c]) BY <1>1 DEF Sent
<1>3. \A q \in tab : q.c # c BY <1>2 DEF IInv, Owners
<1>4. UNCHANGED <<next, tab, waking, asked, answers, ready, panic>> BY DEF Return, server, kernel
<1>5. <<>> \in Seq(Nat) /\ Len(<<>>) = 0 OBVIOUS
<1>6. NoCall \in CallRec /\ ~Sent(NoCall) /\ Got(NoCall, ready)
  BY <1>5, NotifyAssumption DEF CallRec, Places, Status, NoCall, Sent, Got, None
<1> QED BY <1>1, <1>3, <1>4, <1>6, CallerIInv, Zenon

\* The mutex of the writes is taken.
LEMMA LockIInv == ASSUME IInv, NEW c \in Callers, Lock(c) PROVE IInv'
<1> DEFINE r == [caller[c] EXCEPT !.pc = "write"]
<1>1. caller[c] \in CallRec /\ Got(caller[c], ready) BY DEF IInv, Types
<1>2. caller' = [caller EXCEPT ![c] = r] /\ caller[c].pc = "lock" BY DEF Lock
<1>3. UNCHANGED <<next, tab, waking, asked, answers, ready, panic>> BY DEF Lock, server, kernel
<1>4. /\ r \in CallRec /\ r.pc = "write" /\ r.kind = caller[c].kind /\ r.u = caller[c].u
      /\ r.off = caller[c].off /\ r.dest = caller[c].dest /\ r.n = caller[c].n
  BY Zenon, <1>1 DEF CallRec, Places, Status
<1> HIDE DEF r
<1>5. Got(r, ready) BY <1>1, <1>2, <1>4 DEF Got
<1>6. Sent(r) <=> Sent(caller[c]) BY <1>2, <1>4 DEF Sent
<1>7. \A q \in tab : q.c = c => (Sent(r) /\ r.off = q.off) BY <1>4, <1>6 DEF IInv, Owners
<1> QED BY <1>2, <1>3, <1>4, <1>5, <1>6, <1>7, CallerIInv, Zenon

\* A retrieve is entered into the table.
LEMMA RegisterIInv == ASSUME IInv, NEW c \in Callers, Register(c) PROVE IInv'
<1> DEFINE r == [caller[c] EXCEPT !.pc = "lock", !.u = next]
           new == [u |-> next, c |-> c, off |-> caller[c].off,
                   len |-> Min2(DataLen - caller[c].off, MaxWrite)]
<1>1. caller[c] \in CallRec /\ Got(caller[c], ready) /\ next \in Nat BY DEF IInv, Types
<1>2. /\ caller' = [caller EXCEPT ![c] = r] /\ caller[c].pc = "register"
      /\ tab' = tab \cup {new} /\ next' = next + 1
      /\ UNCHANGED <<waking, asked, answers, ready, panic>>
  BY Zenon DEF Register, server, kernel
<1>3. /\ r \in CallRec /\ r.pc = "lock" /\ r.kind = caller[c].kind /\ r.u = next
      /\ r.off = caller[c].off /\ r.dest = caller[c].dest /\ r.n = caller[c].n
  BY <1>1, Zenon DEF CallRec, Places
<1>4. caller[c].kind = "retrieve" /\ Len(caller[c].dest) = caller[c].off
  BY Zenon, <1>1, <1>2 DEF Got
<1>5. /\ new \in Retrieve /\ new.u = next /\ new.c = c /\ new.off = caller[c].off
      /\ new.off + new.len <= DataLen
  BY <1>1, <1>4, NotifyAssumption DEF Retrieve, Min2, Got, CallRec
<1> HIDE DEF r, new
<1>6. ~Sent(caller[c]) BY <1>2 DEF Sent
<1>7. Sent(r) BY <1>3, <1>4 DEF Sent
<1>8. next \notin ready BY <1>1 DEF IInv, Opens
<1>9. Got(r, ready) BY <1>1, <1>2, <1>3, <1>4, <1>8 DEF Got
<1>10. \A d \in Callers : caller'[d] = IF d = c THEN r ELSE caller[d] BY <1>2 DEF IInv, Types
<1>11. \A q \in tab : q \in Retrieve /\ q.c \in Callers /\ q.c # c
  BY <1>6 DEF IInv, Types, Owners, Retrieve
<1>12. \A q \in tab \cup waking : q.u \in Nat /\ q.u < next BY DEF IInv, Opens, Types, Retrieve
<1>13. Types' BY <1>1, <1>2, <1>3, <1>5 DEF IInv, Types
<1>14. Opens'
  <2>1. \A q \in tab' \cup waking' : q.u < next' /\ q.u \notin ready'
    BY <1>1, <1>2, <1>5, <1>8, <1>12 DEF IInv, Opens
  <2>2. \A p, q \in tab' \cup waking' : p.u = q.u => p = q
    BY <1>1, <1>2, <1>5, <1>12 DEF IInv, Opens
  <2>3. \A q \in tab' : q \notin waking' BY <1>1, <1>2, <1>5, <1>12 DEF IInv, Opens
  <2>4. \A u \in ready' : u < next' BY <1>1, <1>2 DEF IInv, Opens, Types
  <2> QED BY <2>1, <2>2, <2>3, <2>4 DEF Opens
<1>15. Owners'
  <2>1. \A q \in tab' : /\ Sent(caller'[q.c]) /\ q.u = caller'[q.c].u /\ q.off = caller'[q.c].off
                        /\ q.off + q.len <= DataLen
    BY <1>2, <1>3, <1>5, <1>7, <1>10, <1>11 DEF IInv, Owners
  <2>2. ASSUME NEW d \in Callers, Sent(caller'[d]) PROVE caller'[d].u < next'
    <3>1. CASE d = c BY <1>1, <1>2, <1>3, <1>10, <3>1
    <3>2. CASE d # c
      <4>1. caller[d].u \in Nat /\ caller[d].u < next BY <1>10, <2>2, <3>2 DEF IInv, Owners, Types, CallRec
      <4> QED BY <1>1, <1>2, <1>10, <3>2, <4>1
    <3> QED BY <3>1, <3>2
  <2>3. ASSUME NEW q \in tab' \cup waking', NEW d \in Callers, Sent(caller'[d]), caller'[d].u = q.u
        PROVE  d = q.c
    <3>1. CASE q = new
      <4>1. d # c => (Sent(caller[d]) /\ caller[d].u = next) BY <1>5, <1>10, <2>3, <3>1
      <4>2. Sent(caller[d]) => caller[d].u < next BY Zenon DEF IInv, Owners
      <4> QED BY <1>1, <1>5, <3>1, <4>1, <4>2
    <3>2. CASE q # new
      <4>1. q \in tab \cup waking BY <1>2, <3>2
      <4>2. d # c BY <1>1, <1>3, <1>10, <1>12, <2>3, <4>1
      <4> QED BY <1>10, <2>3, <4>1, <4>2 DEF IInv, Owners
    <3> QED BY Zenon, <3>1, <3>2
  <2> QED BY Zenon, <2>1, <2>2, <2>3 DEF Owners, Sent
<1>16. Questions'
  <2> SUFFICES ASSUME NEW a \in asked \cup answers
               PROVE  /\ a.u < next'
                      /\ \A q \in tab' : q.u = a.u => (caller'[q.c].pc = "wait" /\ q.off = a.off)
    BY <1>2 DEF Questions
  <2>1. a.u \in Nat /\ a.u < next BY DEF IInv, Questions, Types
  <2>2. \A q \in tab : q.u = a.u => (caller'[q.c].pc = "wait" /\ q.off = a.off)
    BY <1>10, <1>11 DEF IInv, Questions
  <2> QED BY <1>1, <1>2, <1>5, <2>1, <2>2
<1>17. (\A d \in Callers : Got(caller[d], ready))' BY <1>2, <1>9, <1>10 DEF IInv
<1> QED BY <1>2, <1>13, <1>14, <1>15, <1>16, <1>17 DEF IInv

\* The kernel has taken the question of a retrieve, whose caller waits from now on.
LEMMA AskedIInv ==
  ASSUME IInv, NEW c \in Callers, caller[c].pc = "write", caller[c].kind = "retrieve",
         caller' = [caller EXCEPT ![c] = [caller[c] EXCEPT !.pc = "wait"]],
         asked' = asked \cup {[u |-> q.u, off |-> q.off, len |-> q.len] :
                                q \in {x \in tab : x.u = caller[c].u}},
         UNCHANGED <<next, tab, waking, answers, ready, panic>>
  PROVE  IInv'
<1> DEFINE r == [caller[c] EXCEPT !.pc = "wait"]
<1>1. caller[c] \in CallRec /\ Got(caller[c], ready) BY DEF IInv, Types
<1>2. /\ r \in CallRec /\ r.pc = "wait" /\ r.kind = "retrieve" /\ r.u = caller[c].u
      /\ r.off = caller[c].off /\ r.dest = caller[c].dest /\ r.n = caller[c].n
  BY Zenon, <1>1 DEF CallRec, Places
<1>3. caller' = [caller EXCEPT ![c] = r] OBVIOUS
<1> HIDE DEF r
<1>4. Sent(caller[c]) /\ Sent(r) BY <1>2 DEF Sent
<1>5. \A d \in Callers : caller'[d] = IF d = c THEN r ELSE caller[d] BY <1>3 DEF IInv, Types
<1>6. \A q \in tab : q \in Retrieve /\ q.c \in Callers BY DEF IInv, Types, Retrieve
<1>7. Got(r, ready)
  <2>1. r.dest \in Seq(Nat) /\ Len(r.dest) \in Nat /\ r.off \in Nat BY <1>2 DEF CallRec
  <2> QED BY <1>1, <1>2, <2>1 DEF Got
<1>8. Types'
  <2>1. \A q \in tab : [u |-> q.u, off |-> q.off, len |-> q.len] \in [u : Nat, off : Nat, len : Nat]
    BY <1>6 DEF Retrieve
  <2>2. asked' \subseteq [u : Nat, off : Nat, len : Nat] BY <2>1 DEF IInv, Types
  <2> QED BY <1>2, <1>3, <2>2 DEF IInv, Types
<1>9. Opens' BY DEF IInv, Opens
<1>10. Owners'
  <2>1. \A d \in Callers : /\ Sent(caller'[d]) <=> Sent(caller[d])
                           /\ caller'[d].u = caller[d].u /\ caller'[d].off = caller[d].off
    BY <1>2, <1>4, <1>5
  <2> HIDE DEF Sent
  <2>2. \A q \in tab : /\ Sent(caller'[q.c]) /\ q.u = caller'[q.c].u /\ q.off = caller'[q.c].off
                       /\ q.off + q.len <= DataLen
    BY <1>6, <2>1 DEF IInv, Owners
  <2>3. \A d \in Callers : Sent(caller'[d]) => caller'[d].u < next BY <2>1 DEF IInv, Owners
  <2>4. \A q \in tab \cup waking, d \in Callers :
          (Sent(caller'[d]) /\ caller'[d].u = q.u) => d = q.c
    BY <2>1 DEF IInv, Owners
  <2> QED BY <2>2, <2>3, <2>4 DEF Owners, Sent
<1>11. Questions'
  <2> SUFFICES ASSUME NEW a \in asked' \cup answers
               PROVE  /\ a.u < next
                      /\ \A q \in tab : q.u = a.u => (caller'[q.c].pc = "wait" /\ q.off = a.off)
    BY DEF Questions
  <2>1. CASE a \in asked \cup answers BY <1>2, <1>5, <1>6, <2>1 DEF IInv, Questions
  <2>2. CASE a \notin asked \cup answers
    <3>1. PICK p \in tab : p.u = caller[c].u /\ a = [u |-> p.u, off |-> p.off, len |-> p.len]
      BY <2>2
    <3>2. p.c = c /\ p.u < next BY <1>4, <3>1 DEF IInv, Owners, Opens
    <3>3. \A q \in tab : q.u = p.u => q = p BY DEF IInv, Opens
    <3> QED BY <1>2, <1>5, <3>1, <3>2, <3>3
  <2> QED BY <2>1, <2>2
<1>12. (\A d \in Callers : Got(caller[d], ready))' BY <1>5, <1>7 DEF IInv
<1> QED BY <1>8, <1>9, <1>10, <1>11, <1>12 DEF IInv

\* A message is written.
LEMMA WriteIInv == ASSUME IInv, NEW c \in Callers, Write(c) PROVE IInv'
<1>1. caller[c] \in CallRec /\ Got(caller[c], ready) /\ caller[c].pc = "write"
  BY DEF IInv, Types, Write
<1>2. UNCHANGED <<next, tab, waking, answers, ready, panic>> BY DEF Write, server
<1>3. PICK res \in Results(caller[c].kind) :
        /\ caller' = [caller EXCEPT ![c] =
              IF caller[c].kind = "retrieve" THEN AfterRetrieve(caller[c], res)
              ELSE AfterNotify(caller[c], res)]
        /\ asked' = IF caller[c].kind # "retrieve" \/ res # "OK" THEN asked
                    ELSE asked \cup {[u |-> q.u, off |-> q.off, len |-> q.len] :
                                       q \in {x \in tab : x.u = caller[c].u}}
  BY Zenon DEF Write
<1>4. res \in Status BY DEF Results, Status
<1>5. CASE caller[c].kind = "retrieve" /\ res = "OK"
  BY <1>1, <1>2, <1>3, <1>5, AskedIInv, Zenon DEF AfterRetrieve
<1>6. CASE caller[c].kind = "retrieve" /\ res # "OK"
  <2> DEFINE r == [caller[c] EXCEPT !.pc = "unregister", !.st = res]
  <2>1. caller' = [caller EXCEPT ![c] = r] /\ asked' = asked BY <1>3, <1>6 DEF AfterRetrieve
  <2>2. /\ r \in CallRec /\ r.pc = "unregister" /\ r.kind = "retrieve" /\ r.u = caller[c].u
        /\ r.off = caller[c].off /\ r.dest = caller[c].dest
    BY <1>1, <1>4, <1>6, Zenon DEF CallRec, Places
  <2> HIDE DEF r
  <2>3. Got(r, ready) BY Zenon, <1>1, <1>6, <2>2 DEF Got
  <2>4. Sent(r) /\ Sent(caller[c]) BY Zenon, <1>1, <1>6, <2>2 DEF Sent
  <2>5. \A q \in tab : q.c = c => r.off = q.off BY <2>2 DEF IInv, Owners
  <2> QED BY <1>1, <1>2, <2>1, <2>2, <2>3, <2>4, <2>5, CallerIInv, Zenon
<1>7. CASE caller[c].kind # "retrieve"
  <2> DEFINE r == AfterNotify(caller[c], res)
  <2>1. caller' = [caller EXCEPT ![c] = r] /\ asked' = asked BY <1>3, <1>7
  <2>2. /\ r \in CallRec /\ r.pc \in {"lock", "end"} /\ r.kind = caller[c].kind
        /\ r.dest = caller[c].dest
    <3>1. caller[c].off + MaxStore \in Nat BY <1>1, NotifyAssumption DEF CallRec
    <3>2. \/ r = [caller[c] EXCEPT !.pc = "lock", !.off = caller[c].off + MaxStore]
          \/ r = [caller[c] EXCEPT !.pc = "end", !.result = res]
      BY Zenon, <1>1 DEF AfterNotify
    <3> HIDE DEF r
    <3> QED BY <1>1, <1>4, <3>1, <3>2, Zenon DEF CallRec, Places
  <2> HIDE DEF r
  <2>3. Got(r, ready) BY Zenon, <1>1, <1>7, <2>2 DEF Got
  <2>4. ~Sent(r) /\ ~Sent(caller[c]) BY Zenon, <1>7, <2>2 DEF Sent
  <2>5. \A q \in tab : q.c # c BY <2>4 DEF IInv, Owners
  <2> QED BY <1>2, <2>1, <2>2, <2>3, <2>4, <2>5, CallerIInv, Zenon
<1> QED BY Zenon, <1>5, <1>6, <1>7

\* What comes after a piece that brought n, of a call r that has n more than its offset.
LEMMA PieceFacts ==
  ASSUME NEW r \in CallRec, NEW n \in Nat, NEW st \in Status, NEW ended,
         r.kind = "retrieve", Len(r.dest) = r.off + n, n > 0 => st = "OK",
         Len(r.dest) <= DataLen, \A i \in 1..Len(r.dest) : r.dest[i] = i
  PROVE  /\ AfterPiece(r, n, st) \in CallRec /\ ~Sent(AfterPiece(r, n, st))
         /\ Got(AfterPiece(r, n, st), ended)
<1> DEFINE s == AfterPiece(r, n, st)
<1>1. r.dest \in Seq(Nat) /\ Len(r.dest) \in Nat /\ r.off \in Nat BY DEF CallRec
<1>2. CASE st = "OK" /\ n > 0
  <2>1. s \in CallRec /\ s.pc = "register" /\ s.kind = "retrieve" /\ s.off = r.off + n /\ s.dest = r.dest
    <3>1. s = [r EXCEPT !.pc = "register", !.off = r.off + n] /\ r.off + n \in Nat
      BY <1>1, <1>2 DEF AfterPiece
    <3> HIDE DEF s
    <3> QED BY <3>1, Zenon DEF CallRec, Places
  <2> HIDE DEF s
  <2>2. ~Sent(s) /\ Got(s, ended) BY Zenon, <1>1, <2>1 DEF Sent, Got
  <2> QED BY <2>1, <2>2 DEF s
<1>3. CASE ~(st = "OK" /\ n > 0)
  <2>1. n = 0 BY <1>3
  <2>2. /\ s \in CallRec /\ s.pc = "end" /\ s.kind = "retrieve" /\ s.off = r.off /\ s.dest = r.dest
        /\ s.result = IF r.off > 0 THEN "OK" ELSE st
    BY <1>3, ZenonT(60) DEF AfterPiece, CallRec, Places, Status
  <2> HIDE DEF s
  <2>3. s.dest # <<>> => s.result = "OK" BY <1>1, <2>1, <2>2
  <2>4. ~Sent(s) /\ Got(s, ended) BY <1>1, <2>1, <2>2, <2>3 DEF Sent, Got
  <2> QED BY <2>2, <2>4 DEF s
<1> QED BY <1>2, <1>3

\* A caller goes on after its retrieve has ended.
LEMMA ReadyIInv == ASSUME IInv, NEW c \in Callers, Ready(c) PROVE IInv'
<1> DEFINE r == AfterPiece(caller[c], caller[c].n, caller[c].st)
<1>1. /\ caller[c] \in CallRec /\ Got(caller[c], ready)
      /\ caller[c].pc = "wait" /\ caller[c].u \in ready
  BY DEF IInv, Types, Ready
<1>2. caller' = [caller EXCEPT ![c] = r] BY DEF Ready
<1>3. UNCHANGED <<next, tab, waking, asked, answers, ready, panic>> BY Zenon DEF Ready, server, kernel
<1>4. /\ caller[c].kind = "retrieve" /\ caller[c].n \in Nat /\ caller[c].st \in Status
      /\ Len(caller[c].dest) = caller[c].off + caller[c].n
      /\ caller[c].n > 0 => caller[c].st = "OK"
      /\ Len(caller[c].dest) <= DataLen
      /\ \A i \in 1..Len(caller[c].dest) : caller[c].dest[i] = i
  BY Zenon, <1>1 DEF Got, CallRec
<1>5. r \in CallRec /\ ~Sent(r) /\ Got(r, ready) BY Zenon, <1>1, <1>4, PieceFacts
<1> HIDE DEF r
<1>6. \A q \in tab : q.c # c BY <1>1 DEF IInv, Owners, Opens
<1> QED BY <1>2, <1>3, <1>5, <1>6, CallerIInv, Zenon

\* A refused retrieve takes itself out of the table.
LEMMA UnregisterIInv == ASSUME IInv, NEW c \in Callers, Unregister(c) PROVE IInv'
<1> DEFINE r == AfterPiece(caller[c], 0, caller[c].st)
<1>1. caller[c] \in CallRec /\ Got(caller[c], ready) /\ caller[c].pc = "unregister"
  BY DEF IInv, Types, Unregister
<1>2. caller' = [caller EXCEPT ![c] = r] /\ tab' = {q \in tab : q.u # caller[c].u}
  BY DEF Unregister
<1>3. UNCHANGED <<next, waking, asked, answers, ready, panic>> BY Zenon DEF Unregister, server, kernel
<1>4. /\ caller[c].kind = "retrieve" /\ caller[c].st \in Status
      /\ Len(caller[c].dest) = caller[c].off /\ caller[c].off \in Nat
      /\ Len(caller[c].dest) <= DataLen
      /\ \A i \in 1..Len(caller[c].dest) : caller[c].dest[i] = i
  BY Zenon, <1>1 DEF Got, CallRec
<1>5. r \in CallRec /\ ~Sent(r) /\ Got(r, ready)
  <2>1. 0 \in Nat /\ Len(caller[c].dest) = caller[c].off + 0 /\ ~(0 > 0) BY <1>4
  <2> QED BY <1>1, <1>4, <2>1, PieceFacts
<1> HIDE DEF r
<1>6. \A d \in Callers : caller'[d] = IF d = c THEN r ELSE caller[d] BY <1>2 DEF IInv, Types
<1>7. \A q \in tab' : q \in tab /\ q.c \in Callers /\ q.c # c
  BY <1>2 DEF IInv, Types, Owners, Retrieve
<1>8. Types' BY <1>2, <1>3, <1>5 DEF IInv, Types
<1>9. Opens' BY Zenon, <1>3, <1>7 DEF IInv, Opens
<1>10. Owners'
  <2>1. \A q \in tab' : /\ Sent(caller'[q.c]) /\ q.u = caller'[q.c].u /\ q.off = caller'[q.c].off
                        /\ q.off + q.len <= DataLen
    BY Zenon, <1>6, <1>7 DEF IInv, Owners
  <2>2. \A d \in Callers : Sent(caller'[d]) => caller'[d].u < next BY Zenon, <1>5, <1>6 DEF IInv, Owners
  <2>3. \A q \in tab' \cup waking, d \in Callers :
          (Sent(caller'[d]) /\ caller'[d].u = q.u) => d = q.c
    BY <1>5, <1>6, <1>7 DEF IInv, Owners
  <2> QED BY Zenon, <1>3, <2>1, <2>2, <2>3 DEF Owners, Sent
<1>11. Questions' BY <1>3, <1>6, <1>7 DEF IInv, Questions
<1>12. (\A d \in Callers : Got(caller[d], ready))' BY <1>3, <1>5, <1>6 DEF IInv
<1> QED BY <1>3, <1>8, <1>9, <1>10, <1>11, <1>12 DEF IInv

\* The kernel answers; or the file system is unmounted and the kernel forgets.
LEMMA AnswerIInv == ASSUME IInv, Answer \/ Unmount PROVE IInv'
<1>1. UNCHANGED <<caller, next, tab, waking, ready, panic>> BY DEF Answer, Unmount, server
<1>2. Opens' BY Zenon, <1>1 DEF IInv, Opens
<1>3. Owners' BY <1>1 DEF IInv, Owners, Sent
<1>4. (\A c \in Callers : Got(caller[c], ready))' BY <1>1 DEF IInv
<1>5. CASE Answer
  <2>1. PICK q \in asked : \E n \in 0..q.len :
          asked' = asked \ {q} /\ answers' = answers \cup {[u |-> q.u, off |-> q.off, n |-> n]}
    BY <1>5 DEF Answer
  <2>2. q.u \in Nat /\ q.off \in Nat /\ q.len \in Nat BY DEF IInv, Types
  <2>3. PICK n \in Nat : /\ asked' = asked \ {q}
                         /\ answers' = answers \cup {[u |-> q.u, off |-> q.off, n |-> n]}
    BY <2>1, <2>2
  <2>4. Types' BY <1>1, <2>2, <2>3 DEF IInv, Types
  <2>5. Questions' BY <1>1, <2>3 DEF IInv, Questions
  <2> QED BY Zenon, <1>1, <1>2, <1>3, <1>4, <2>4, <2>5 DEF IInv
<1>6. CASE Unmount
  <2>1. asked' = {} /\ answers' = answers BY <1>6 DEF Unmount
  <2>2. Types' BY <1>1, <2>1 DEF IInv, Types
  <2>3. Questions' BY <1>1, <2>1 DEF IInv, Questions
  <2> QED BY <1>1, <1>2, <1>3, <1>4, <2>2, <2>3 DEF IInv
<1> QED BY <1>5, <1>6

\* Serve takes the table.
LEMMA SwapIInv == ASSUME IInv, SwapTable PROVE IInv'
<1>1. /\ waking' = tab /\ tab' = {}
      /\ UNCHANGED <<caller, next, asked, answers, ready, panic>>
  BY DEF SwapTable, kernel
<1>2. Types' BY <1>1 DEF IInv, Types
<1>3. Opens' BY Zenon, <1>1 DEF IInv, Opens
<1>4. Owners' BY Zenon, <1>1 DEF IInv, Owners, Sent
<1>5. Questions' BY <1>1 DEF IInv, Questions
<1>6. (\A c \in Callers : Got(caller[c], ready))' BY <1>1 DEF IInv
<1> QED BY <1>1, <1>2, <1>3, <1>4, <1>5, <1>6 DEF IInv

\* e is d with n bytes from offset off on behind it.
Longer(e, d, n, off) ==
  /\ e \in Seq(Nat) /\ Len(e) = Len(d) + n
  /\ \A i \in 1..Len(d) : e[i] = d[i]
  /\ \A i \in 1..Len(e) : i > Len(d) => e[i] = off + (i - Len(d))
  /\ n = 0 => e = d

\* Two sequences, one after the other.
LEMMA ConcatLen == ASSUME NEW S, NEW s \in Seq(S), NEW t \in Seq(S) PROVE Len(s \o t) = Len(s) + Len(t)
  OBVIOUS

LEMMA Appended ==
  ASSUME NEW d \in Seq(Nat), NEW n \in Nat, NEW off \in Nat
  PROVE  Longer(d \o [i \in 1..n |-> off + i], d, n, off)
<1> DEFINE t == [i \in 1..n |-> off + i]
           e == d \o t
<1>1. t \in Seq(Nat) /\ Len(t) = n /\ \A i \in 1..n : t[i] = off + i OBVIOUS
<1>2. Len(d) \in Nat OBVIOUS
<1> HIDE DEF t
<1>3. /\ e \in Seq(Nat) /\ Len(e) = Len(d) + Len(t)
      /\ \A i \in 1..(Len(d) + Len(t)) : e[i] = IF i <= Len(d) THEN d[i] ELSE t[i - Len(d)]
  <2>1. e \in Seq(Nat) BY <1>1
  <2>2. Len(e) = Len(d) + Len(t) BY <1>1, Zenon, ConcatLen
  <2>3. \A i \in 1..(Len(d) + Len(t)) : e[i] = IF i <= Len(d) THEN d[i] ELSE t[i - Len(d)] BY <1>1
  <2> QED BY <2>1, <2>2, <2>3
<1> HIDE DEF e
<1>4. \A i \in 1..Len(d) : e[i] = d[i] BY <1>1, <1>2, <1>3
<1>5. ASSUME n = 0 PROVE e = d
  <2>1. Len(e) = Len(d) BY <1>1, <1>2, <1>3, <1>5
  <2>2. e = [i \in 1..Len(e) |-> e[i]] /\ d = [i \in 1..Len(d) |-> d[i]] BY <1>3
  <2> QED BY Zenon, <1>4, <2>1, <2>2
<1>6. \A i \in 1..Len(e) : i > Len(d) => e[i] = off + (i - Len(d))
  <2> SUFFICES ASSUME NEW i \in 1..Len(e), i > Len(d) PROVE e[i] = off + (i - Len(d)) OBVIOUS
  <2>1. i - Len(d) \in 1..n /\ e[i] = t[i - Len(d)] BY <1>1, <1>2, <1>3
  <2> QED BY <1>1, <2>1
<1> QED BY <1>1, <1>3, <1>4, <1>5, <1>6 DEF e, t, Longer

\* The caller of a retrieve q that ends, from old to r.
Ended(r, old, q, n, st) ==
  /\ r.pc = old.pc /\ r.kind = old.kind /\ r.off = old.off /\ r.u = old.u /\ r.result = old.result
  /\ Longer(r.dest, old.dest, n, q.off)
  /\ (r.pc \in {"lock", "write", "wait"} /\ r.u = q.u) => (r.n = n /\ r.st = st)
  /\ ~(r.pc \in {"lock", "write", "wait"} /\ r.u = q.u) => (r.n = old.n /\ r.st = old.st)

LEMMA CloseFacts ==
  ASSUME IInv, NEW q \in Retrieve, NEW n \in Nat, NEW st \in Status, Close(q, n, st)
  PROVE  \E r \in CallRec : caller' = [caller EXCEPT ![q.c] = r] /\ Ended(r, caller[q.c], q, n, st)
<1> DEFINE old == caller[q.c]
           e == old.dest \o [i \in 1..n |-> q.off + i]
           r == Copied(old, q, n, st)
<1>1. old \in CallRec /\ q.off \in Nat BY Zenon DEF IInv, Types, Retrieve
<1>2. e \in Seq(Nat) /\ Longer(e, old.dest, n, q.off)
  <2>1. old.dest \in Seq(Nat) BY <1>1 DEF CallRec
  <2>2. Longer(e, old.dest, n, q.off) BY <1>1, <2>1, Appended
  <2> QED BY Zenon, <2>2 DEF Longer
<1>3. caller' = [caller EXCEPT ![q.c] = r] BY DEF Close
<1>4. r = IF old.pc \in {"lock", "write", "wait"} /\ old.u = q.u
          THEN [old EXCEPT !.dest = e, !.n = n, !.st = st] ELSE [old EXCEPT !.dest = e]
  BY DEF Copied
<1> HIDE DEF e, old, r
<1>5. /\ r \in CallRec /\ r.dest = e /\ r.pc = old.pc /\ r.kind = old.kind
      /\ r.off = old.off /\ r.u = old.u /\ r.result = old.result
      /\ (r.pc \in {"lock", "write", "wait"} /\ r.u = q.u) => (r.n = n /\ r.st = st)
      /\ ~(r.pc \in {"lock", "write", "wait"} /\ r.u = q.u) => (r.n = old.n /\ r.st = old.st)
  BY <1>1, <1>2, <1>4, Zenon DEF CallRec
<1> QED BY <1>2, <1>3, <1>5, Zenon DEF old, Ended

\* A retrieve ends: with n bytes only if its caller waits for the answer.
LEMMA CloseIInv ==
  ASSUME IInv, NEW q \in tab \cup waking, NEW n \in Nat, NEW st \in Status, Close(q, n, st),
         n > 0 => (q \in tab /\ caller[q.c].pc = "wait" /\ n <= q.len /\ st = "OK"),
         tab' = tab \ {q}, waking' = waking \ {q}, answers' \subseteq answers,
         UNCHANGED <<next, asked>>
  PROVE  IInv'
<1>1. q \in Retrieve /\ q.c \in Callers /\ q.u \in Nat /\ q.off \in Nat /\ q.len \in Nat
  BY DEF IInv, Types, Retrieve
<1>2. PICK r \in CallRec : caller' = [caller EXCEPT ![q.c] = r] /\ Ended(r, caller[q.c], q, n, st)
  BY <1>1, CloseFacts
<1>3. ready' = ready \cup {q.u} /\ panic' = FALSE
  <2>1. q.u \notin ready BY DEF IInv, Opens
  <2> QED BY <2>1, Zenon DEF Close, IInv
<1>4. PICK old \in CallRec : old = caller[q.c] BY Zenon, <1>1 DEF IInv, Types
<1>5. Got(old, ready) BY Zenon, <1>1, <1>4 DEF IInv
<1>6. old.dest \in Seq(Nat) /\ Len(old.dest) \in Nat /\ Longer(r.dest, old.dest, n, q.off)
  <2>1. old.dest \in Seq(Nat) BY ZenonT(60) DEF CallRec
  <2> QED BY <1>2, <1>4, <2>1 DEF Ended
<1>7. n > 0 => /\ old.kind = "retrieve" /\ old.pc = "wait" /\ old.u = q.u /\ old.u \notin ready
               /\ Len(old.dest) = q.off /\ q.off + n <= DataLen /\ st = "OK"
  BY <1>1, <1>4, <1>5, NotifyAssumption DEF IInv, Owners, Opens, Sent, Got
<1>8. Got(r, ready')
  <2>1. CASE n > 0
    <3>1. Len(r.dest) = q.off + n /\ \A i \in 1..Len(r.dest) : r.dest[i] = i
      <4>1. \A i \in 1..Len(old.dest) : old.dest[i] = i BY Zenon, <1>5 DEF Got
      <4>2. ASSUME NEW i \in 1..Len(r.dest) PROVE r.dest[i] = i
        <5>1. Len(old.dest) = q.off /\ Len(old.dest) \in Nat /\ Len(r.dest) = Len(old.dest) + n
          BY <1>6, <1>7, <2>1 DEF Longer
        <5>2. CASE i <= Len(old.dest)
          <6>1. i \in 1..Len(old.dest) BY <5>1, <5>2
          <6> QED BY <1>6, <4>1, <6>1, Zenon DEF Longer
        <5>3. CASE i > Len(old.dest)
          <6>1. r.dest[i] = q.off + (i - Len(old.dest)) BY Zenon, <1>6, <5>3 DEF Longer
          <6> QED BY <1>1, <5>1, <6>1
        <5> QED BY <5>1, <5>2, <5>3
      <4> QED BY Zenon, <1>6, <1>7, <2>1, <4>2 DEF Longer
    <3>2. r.kind = "retrieve" /\ r.pc = "wait" /\ r.u \in ready' /\ r.n = n /\ r.st = "OK"
            /\ r.off = old.off /\ old.off = q.off
      <4>1. Len(old.dest) = old.off BY Zenon, <1>5, <1>7, <2>1 DEF Got
      <4> QED BY Zenon, <1>2, <1>3, <1>4, <1>7, <2>1, <4>1 DEF Ended
    <3> QED BY Zenon, <1>1, <1>6, <1>7, <2>1, <3>1, <3>2 DEF Got
  <2>2. CASE n = 0
    <3>1. r.dest = old.dest BY ZenonT(60), <1>6, <2>2 DEF Longer
    <3>2. CASE r.pc \in {"lock", "write", "wait"} /\ r.u = q.u
      <4>1. old.u \notin ready /\ r.u \in ready' /\ r.n = 0 /\ old.off \in Nat
        <5>1. q.u \notin ready BY Zenon DEF IInv, Opens
        <5> QED BY Zenon, <1>2, <1>3, <1>4, <2>2, <3>2, <5>1 DEF CallRec, Ended
      <4> QED BY SMTT(30), <1>2, <1>4, <1>5, <1>6, <3>1, <3>2, <4>1 DEF Got, Ended
    <3>3. CASE ~(r.pc \in {"lock", "write", "wait"} /\ r.u = q.u)
      <4>1. r.pc \in {"lock", "write", "wait"} => (r.u \in ready' <=> old.u \in ready)
        BY Zenon, <1>2, <1>3, <1>4, <3>3 DEF Ended
      <4>2. r.n = old.n /\ r.st = old.st BY Zenon, <1>2, <1>4, <3>3 DEF Ended
      <4> QED BY ZenonT(60), <1>2, <1>4, <1>5, <3>1, <4>1, <4>2 DEF Got, Ended
    <3> QED BY Zenon, <3>2, <3>3
  <2> QED BY <2>1, <2>2
<1>9. \A d \in Callers : caller'[d] = IF d = q.c THEN r ELSE caller[d] BY Zenon, <1>2 DEF IInv, Types
<1>10. \A d \in Callers : /\ Sent(caller'[d]) <=> Sent(caller[d])
                          /\ caller'[d].u = caller[d].u /\ caller'[d].off = caller[d].off
                          /\ caller'[d].pc = caller[d].pc
  BY <1>2, <1>9 DEF Sent, Ended
<1>11. \A p \in tab' : p \in tab /\ p # q /\ p.c \in Callers BY DEF IInv, Types, Retrieve
<1>12. Types'
  <2>1. caller' \in [Callers -> CallRec] BY <1>2, Zenon DEF IInv, Types
  <2> QED BY <1>1, <1>3, <2>1, Zenon DEF IInv, Types
<1>13. Opens'
  <2>1. \A p \in tab' \cup waking' : p.u < next /\ p.u \notin ready'
    BY Zenon, <1>3 DEF IInv, Opens
  <2>2. \A p, o \in tab' \cup waking' : p.u = o.u => p = o BY Zenon DEF IInv, Opens
  <2>3. \A p \in tab' : p \notin waking' BY Zenon DEF IInv, Opens
  <2>4. \A u \in ready' : u < next BY Zenon, <1>3 DEF IInv, Opens
  <2> QED BY Zenon, <2>1, <2>2, <2>3, <2>4 DEF Opens
<1>14. Owners'
  <2> HIDE DEF Sent
  <2>1. \A p \in tab' : /\ Sent(caller'[p.c]) /\ p.u = caller'[p.c].u /\ p.off = caller'[p.c].off
                        /\ p.off + p.len <= DataLen
    BY ZenonT(60), <1>10, <1>11 DEF IInv, Owners
  <2>2. \A d \in Callers : Sent(caller'[d]) => caller'[d].u < next BY Zenon, <1>10 DEF IInv, Owners
  <2>3. \A p \in tab' \cup waking', d \in Callers :
          (Sent(caller'[d]) /\ caller'[d].u = p.u) => d = p.c
    BY <1>10 DEF IInv, Owners
  <2> QED BY Zenon, <2>1, <2>2, <2>3 DEF Owners, Sent
<1>15. Questions' BY ZenonT(60), <1>10, <1>11 DEF IInv, Questions
<1>16. (\A d \in Callers : Got(caller[d], ready))'
  <2> SUFFICES ASSUME NEW d \in Callers, d # q.c PROVE Got(caller[d], ready') BY Zenon, <1>8, <1>9
  <2>1. Got(caller[d], ready) /\ (Sent(caller[d]) => caller[d].u # q.u)
    BY Zenon DEF IInv, Owners
  <2> QED BY Zenon, <1>3, <2>1 DEF Got, Sent
<1> QED BY Zenon, <1>3, <1>12, <1>13, <1>14, <1>15, <1>16 DEF IInv

\* An answer of the kernel is handled.
LEMMA ReplyIInv == ASSUME IInv, HandleReply PROVE IInv'
<1>1. PICK a \in answers : DoNotifyReply(a) /\ answers' = answers \ {a} BY DEF HandleReply
<1>2. UNCHANGED <<waking, next, asked>> BY DEF HandleReply, server
<1>3. CASE UNCHANGED <<tab, caller, ready, panic>>
  <2>1. Types' BY <1>1, <1>2, <1>3 DEF IInv, Types
  <2>2. Opens' BY Zenon, <1>2, <1>3 DEF IInv, Opens
  <2>3. Owners' BY Zenon, <1>2, <1>3 DEF IInv, Owners, Sent
  <2>4. Questions' BY <1>1, <1>2, <1>3 DEF IInv, Questions
  <2>5. (\A d \in Callers : Got(caller[d], ready))' BY Zenon, <1>3 DEF IInv
  <2> QED BY Zenon, <1>3, <2>1, <2>2, <2>3, <2>4, <2>5 DEF IInv
<1>4. ASSUME NEW q \in tab, q.u = a.u, tab' = tab \ {q},
             IF q.off # a.off THEN Close(q, 0, "EIO") ELSE Close(q, Min2(a.n, q.len), "OK")
      PROVE  IInv'
  <2>1. waking' = waking \ {q} /\ answers' \subseteq answers BY Zenon, <1>1, <1>2 DEF IInv, Opens
  <2>2. caller[q.c].pc = "wait" /\ q.off = a.off BY <1>4 DEF IInv, Questions
  <2>3. PICK n \in Nat : n = Min2(a.n, q.len) /\ n <= q.len
    <3>1. a.n \in Nat /\ q.len \in Nat BY Zenon DEF IInv, Types, Retrieve
    <3> QED BY <3>1 DEF Min2
  <2>4. Close(q, n, "OK") /\ "OK" \in Status BY Zenon, <1>4, <2>2, <2>3 DEF Status
  <2> QED BY Zenon, <1>2, <1>4, <2>1, <2>2, <2>3, <2>4, CloseIInv
<1> QED BY <1>1, <1>3, <1>4 DEF DoNotifyReply

\* Serve wakes a retrieve, or ends.
LEMMA WakeIInv == ASSUME IInv, Wake PROVE IInv'
<1>1. UNCHANGED <<tab, next, asked, answers>> BY DEF Wake, kernel
<1>2. CASE waking = {} /\ UNCHANGED <<caller, waking, ready, panic>>
  BY Zenon, <1>1, <1>2, StutterIInv DEF state
<1>3. ASSUME NEW q \in waking, WakeOne(q), waking' = waking \ {q} PROVE IInv'
  <2>1. tab' = tab \ {q} BY <1>1 DEF IInv, Opens
  <2>2. Close(q, 0, "ENODEV") /\ "ENODEV" \in Status /\ 0 \in Nat /\ ~(0 > 0)
    BY <1>3 DEF WakeOne, Status
  <2> QED BY Zenon, <1>1, <1>3, <2>1, <2>2, CloseIInv
<1> QED BY Zenon, <1>2, <1>3 DEF Wake

\* The invariant is inductive.
THEOREM NotifyInductive == Spec => []IInv
<1>1. IInv /\ [Next]_vars => IInv'
  <2> SUFFICES ASSUME IInv, [Next]_vars PROVE IInv' BY Zenon
  <2>1. ASSUME NEW c \in Callers,
               \/ Call(c) \/ Return(c) \/ Register(c) \/ Lock(c) \/ Write(c)
               \/ Unregister(c) \/ Ready(c)
        PROVE  IInv'
    BY Zenon, <2>1, CallIInv, ReturnIInv, RegisterIInv, LockIInv, WriteIInv, UnregisterIInv, ReadyIInv
  <2>2. CASE DirOp \/ DirOpDone \/ CloseDevice \/ UNCHANGED vars
    <3>1. UNCHANGED state
      BY <2>2 DEF DirOp, DirOpDone, CloseDevice, vars, server, kernel, state
    <3> QED BY Zenon, <3>1, StutterIInv
  <2> QED BY Zenon, <2>1, <2>2, AnswerIInv, ReplyIInv, SwapIInv, WakeIInv DEF Next, Serve
<1> QED BY <1>1, InitIInv, PTL DEF Spec

\* The channel of a retrieve is closed once, by the answer (fuse/opcode.go, doNotifyReply)
\* or by the end of Serve (fuse/server.go), and the buffer of a caller that has returned is
\* not written to.
THEOREM RetrieveEndsOnce == Spec => []EndedOnce
<1>1. IInv => EndedOnce
  <2> SUFFICES ASSUME IInv PROVE EndedOnce BY Zenon
  <2>1. \A c \in Callers : caller[c].pc = "idle" => caller[c].dest = <<>> BY DEF IInv, Got, None
  <2>2. ~panic BY Zenon DEF IInv
  <2> QED BY <2>1, <2>2 DEF EndedOnce
<1> QED BY <1>1, NotifyInductive, PTL

\* InodeRetrieveCache (fuse/server.go) puts the pieces together in order, without a gap
\* and within the buffer, and reports success when it got anything.
THEOREM RetrieveInOrder == Spec => []RetrievedInOrder
<1>1. IInv => RetrievedInOrder
  <2> SUFFICES ASSUME IInv, NEW c \in Callers
               PROVE  /\ Len(caller[c].dest) <= DataLen
                      /\ \A i \in DOMAIN caller[c].dest : caller[c].dest[i] = i
                      /\ caller[c].pc = "end" /\ caller[c].dest # <<>> => caller[c].result = "OK"
    BY Zenon DEF RetrievedInOrder
  <2>1. Got(caller[c], ready) /\ caller[c].dest \in Seq(Nat) BY Zenon DEF IInv, Types, CallRec
  <2>2. DOMAIN caller[c].dest = 1..Len(caller[c].dest) BY <2>1
  <2> QED BY <2>1, <2>2 DEF Got
<1> QED BY <1>1, NotifyInductive, PTL
=============================================================================
