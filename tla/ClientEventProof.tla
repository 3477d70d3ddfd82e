-------------------------- MODULE ClientEventProof ---------------------------
(***************************************************************************)
(* The executables of a runner share one field for the event each sees.     *)
(* Whatever nested events, completions and exceptions come between, an      *)
(* executable that waits neither for a time-out nor for an answer never     *)
(* sees an earlier event than its own: what has still to be done is ordered *)
(* by its events, the latest first, and an event is only ever overwritten   *)
(* by one that comes before it in that order.                               *)
(*                                                                         *)
(* And a Break before the action keeps the actions of the event from        *)
(* running.  No exception carries it past the try around the executables    *)
(* before the action: whatever nested events and completions lie between,   *)
(* none of their handlers of exceptions is between the executable that      *)
(* breaks and the catch of its own event.  An event that reaches a runner   *)
(* twice breaks twice: nothing gives an executable before the action a      *)
(* result, so that its conditions hold the second time if they did the      *)
(* first.                                                                   *)
(*                                                                         *)
(* Last, the steps that call no runner: all that comes to what is left to   *)
(* be done names no event, and what leaves it was done or dropped.          *)
(***************************************************************************)
EXTENDS ClientProof

-------------------------------------------------------------------------------
(* Operations and the events they are for *)

\* Meta and what is beside it, of a page and runners that are given.
MetasAt(pg, rs, x) == pg.metas[rs[x[1]][x[2]].name]
MetaAt(pg, rs, x) == MetasAt(pg, rs, x)[x[3]]

\* RunsLate, of a page and runners that are given.
Late(pg, rs, x) ==
    \/ MetaAt(pg, rs, x).delay # "none"
    \/ \E i \in DOMAIN MetasAt(pg, rs, x) :
          LET m == MetasAt(pg, rs, x)[i]
          IN  /\ IsAction(m) /\ m.onBind = MetaAt(pg, rs, x).onBind
              /\ m.type \in {"Ajax", "Submit"} \/ m.delay # "none"

\* y is a callback of x.
Calls(pg, rs, x, y) ==
    /\ Executable(rs, y) /\ y[1] = x[1] /\ y[2] = x[2]
    /\ \E status \in {Success, Error, Complete, Breakes} : ListOf(MetaAt(pg, rs, y), status)
    /\ MetaAt(pg, rs, y).onBind = MetaAt(pg, rs, x).onBind

\* The event y sees.
EventAt(rs, y) == rs[y[1]][y[2]].event[y[3]]

\* y sees the event n or a later one, unless it runs late.
Sees(pg, rs, n, y) == Late(pg, rs, y) \/ (EventAt(rs, y).n \in Nat /\ EventAt(rs, y).n >= n)

\* So do the callbacks of x.
CallsSee(pg, rs, n, x) == \A y : Calls(pg, rs, x, y) => Sees(pg, rs, n, y)

\* The operations that belong to an event, and those an event that is stored meanwhile must
\* not be earlier than.
Evented == {"dispatch", "invoke", "catch", "actions", "action", "execute", "run", "callback",
            "complete", "send"}
Bounding == Evented \ {"invoke", "dispatch", "send"}

Numbers(o) ==
    IF o.op = "breakes" THEN {o.callbacks[i].ev.n : i \in DOMAIN o.callbacks}
    ELSE IF o.op \in Evented THEN {o.ev.n} ELSE {}
Bounds(o) == IF o.op = "breakes" \/ o.op \in Bounding THEN Numbers(o) ELSE {}

\* A callback is no action and sees its event.
CallbackSees(pg, rs, o) == ~ IsAction(MetaAt(pg, rs, o.x)) /\ Sees(pg, rs, o.ev.n, o.x)

\* What an operation may rely on: the event was stored where it will be looked for.
OpEv(pg, rs, c, o) ==
    /\ \A n \in Numbers(o) : n \in Nat /\ n <= c
    /\ o.op \in {"execute", "run"} => /\ Sees(pg, rs, o.ev.n, o.x)
                                      /\ IsAction(MetaAt(pg, rs, o.x)) => CallsSee(pg, rs, o.ev.n, o.x)
    /\ o.op = "action" => Sees(pg, rs, o.ev.n, o.x)
    /\ o.op = "callback" => CallbackSees(pg, rs, o)
    /\ o.op = "complete" => CallsSee(pg, rs, o.ev.n, o.x)
    /\ o.op = "breakes" => \A i \in DOMAIN o.callbacks :
          /\ CallbackSees(pg, rs, o.callbacks[i])
          /\ \A j \in DOMAIN o.callbacks : o.callbacks[i].ev.n = o.callbacks[j].ev.n
    /\ o.op = "send" => MetaAt(pg, rs, o.x).type \in {"Ajax", "Submit"}

\* The latest event comes first.
Ordered(ops) ==
    \A i, j \in DOMAIN ops : i < j => \A n \in Numbers(ops[i]), b \in Bounds(ops[j]) : n >= b

OpsEv(pg, rs, c, ops) ==
    /\ IsSeq(ops)
    /\ \A i \in DOMAIN ops : OpEv(pg, rs, c, ops[i])
    /\ Ordered(ops)

\* What waits belongs to an event of the past and runs late.
WaitingEv ==
    /\ \A w \in requests : /\ w.ev.n \in Nat /\ w.ev.n <= clock
                           /\ MetaAt(page, runs, w.x).type \in {"Ajax", "Submit"}
    /\ \A w \in timers \cup intervals : /\ w.ev.n \in Nat /\ w.ev.n <= clock
                                        /\ MetaAt(page, runs, w.x).delay # "none"

-------------------------------------------------------------------------------
(* Events that are stored *)

\* Only the event numbered m is stored, wherever an event changes.
Advanced(rs, rs2, m) ==
    /\ Grown(rs, rs2)
    /\ \A e \in Element : \A r \in DOMAIN rs[e] : \A i \in DOMAIN rs[e][r].event :
          rs2[e][r].event[i].n \in {rs[e][r].event[i].n, m}

\* What an executable is stays.
LEMMA MetaStays ==
    ASSUME NEW pg, NEW rs, NEW rs2, Grown(rs, rs2), NEW x, Executable(rs, x)
    PROVE  /\ MetasAt(pg, rs2, x) = MetasAt(pg, rs, x)
           /\ MetaAt(pg, rs2, x) = MetaAt(pg, rs, x)
           /\ Late(pg, rs2, x) = Late(pg, rs, x)
           /\ Executable(rs2, x)
  <1>1. rs2[x[1]][x[2]].name = rs[x[1]][x[2]].name
    BY DEF Grown, Executable
  <1>2. MetasAt(pg, rs2, x) = MetasAt(pg, rs, x)
    BY <1>1 DEF MetasAt
  <1>3. MetaAt(pg, rs2, x) = MetaAt(pg, rs, x)
    BY <1>2 DEF MetaAt
  <1>4. Late(pg, rs2, x) = Late(pg, rs, x)
    BY <1>2, <1>3, Zenon DEF Late
  <1>5. Executable(rs2, x)
    BY DEF Executable, Grown
  <1> QED
    BY <1>2, <1>3, <1>4, <1>5

\* The callbacks of an executable stay the same.
LEMMA CallsStay ==
    ASSUME NEW pg, NEW rs, NEW rs2, Grown(rs, rs2), NEW x, Executable(rs, x), NEW y, Calls(pg, rs2, x, y)
    PROVE  Calls(pg, rs, x, y)
  <1>1. Executable(rs2, y) /\ y[1] = x[1] /\ y[2] = x[2]
    BY DEF Calls
  <1>2. /\ x[1] \in Element /\ x[2] \in DOMAIN rs[x[1]]
        /\ DOMAIN rs2[x[1]][x[2]].event = DOMAIN rs[x[1]][x[2]].event
    BY DEF Executable, Grown
  <1>3. Executable(rs, y)
    BY <1>1, <1>2 DEF Executable
  <1>4. MetaAt(pg, rs2, y) = MetaAt(pg, rs, y) /\ MetaAt(pg, rs2, x) = MetaAt(pg, rs, x)
    BY <1>3, MetaStays
  <1> QED
    BY <1>3, <1>4 DEF Calls

\* Storing an event that is not earlier than n disturbs nothing.
LEMMA SeesStays ==
    ASSUME NEW pg, NEW rs, NEW rs2, NEW m \in Nat, Advanced(rs, rs2, m),
           NEW n \in Nat, m >= n, NEW y, Executable(rs, y), Sees(pg, rs, n, y)
    PROVE  Sees(pg, rs2, n, y)
  <1>1. Late(pg, rs2, y) = Late(pg, rs, y)
    BY MetaStays DEF Advanced
  <1>2. EventAt(rs2, y).n \in {EventAt(rs, y).n, m}
    BY Zenon DEF Advanced, Executable, EventAt
  <1> QED
    BY <1>1, <1>2, Zenon DEF Sees

\* nor what the callbacks of an action see,
LEMMA CallsSeeStays ==
    ASSUME NEW pg, NEW rs, NEW rs2, NEW m \in Nat, Advanced(rs, rs2, m),
           NEW n \in Nat, m >= n, NEW x, Executable(rs, x), CallsSee(pg, rs, n, x)
    PROVE  CallsSee(pg, rs2, n, x)
  <1> SUFFICES ASSUME NEW y, Calls(pg, rs2, x, y)
               PROVE  Sees(pg, rs2, n, y)
    BY Zenon DEF CallsSee
  <1>1. Calls(pg, rs, x, y)
    BY CallsStay DEF Advanced
  <1>2. Executable(rs, y) /\ Sees(pg, rs, n, y)
    BY <1>1 DEF Calls, CallsSee
  <1> QED
    BY <1>2, SeesStays

\* and nothing an operation relies on.
LEMMA OpEvStays ==
    ASSUME NEW pg, NEW rs, NEW rs2, NEW m \in Nat, Advanced(rs, rs2, m),
           NEW c \in Nat, NEW c2 \in Nat, c2 >= c,
           NEW o, OpOK(rs, o), OpEv(pg, rs, c, o), \A b \in Bounds(o) : m >= b
    PROVE  OpEv(pg, rs2, c2, o)
  <1>0. Grown(rs, rs2)
    BY DEF Advanced
  <1>1. \A n \in Numbers(o) : n \in Nat /\ n <= c2
    BY DEF OpEv
  <1>2. ASSUME o.op \in {"execute", "run", "action", "callback", "complete"}
        PROVE  o.ev.n \in Nat /\ m >= o.ev.n /\ Executable(rs, o.x)
    <2>1. Numbers(o) = {o.ev.n} /\ Bounds(o) = Numbers(o)
      BY <1>2 DEF Numbers, Bounds, Evented, Bounding
    <2> QED
      BY <1>1, <1>2, <2>1 DEF OpOK
  <1>3. o.op \in {"execute", "run"} => /\ Sees(pg, rs2, o.ev.n, o.x)
                                       /\ IsAction(MetaAt(pg, rs2, o.x)) => CallsSee(pg, rs2, o.ev.n, o.x)
    <2> SUFFICES ASSUME o.op \in {"execute", "run"}
                 PROVE  /\ Sees(pg, rs2, o.ev.n, o.x)
                        /\ IsAction(MetaAt(pg, rs2, o.x)) => CallsSee(pg, rs2, o.ev.n, o.x)
      OBVIOUS
    <2>1. o.ev.n \in Nat /\ m >= o.ev.n /\ Executable(rs, o.x)
      BY <1>2
    <2>2. Sees(pg, rs, o.ev.n, o.x) /\ (IsAction(MetaAt(pg, rs, o.x)) => CallsSee(pg, rs, o.ev.n, o.x))
      BY DEF OpEv
    <2>3. MetaAt(pg, rs2, o.x) = MetaAt(pg, rs, o.x)
      BY <1>0, <2>1, MetaStays
    <2>4. Sees(pg, rs2, o.ev.n, o.x)
      BY <2>1, <2>2, SeesStays
    <2>5. ASSUME IsAction(MetaAt(pg, rs2, o.x)) PROVE CallsSee(pg, rs2, o.ev.n, o.x)
      <3>1. CallsSee(pg, rs, o.ev.n, o.x)
        BY <2>2, <2>3, <2>5
      <3> QED
        BY <2>1, <3>1, CallsSeeStays
    <2> QED
      BY <2>4, <2>5
  <1>4. o.op = "action" => Sees(pg, rs2, o.ev.n, o.x)
    BY <1>2, SeesStays DEF OpEv
  <1>5. ASSUME NEW p, CallbackSees(pg, rs, p), Executable(rs, p.x), p.ev.n \in Nat, m >= p.ev.n
        PROVE  CallbackSees(pg, rs2, p)
    <2>1. MetaAt(pg, rs2, p.x) = MetaAt(pg, rs, p.x)
      BY <1>0, <1>5, MetaStays
    <2>2. Sees(pg, rs, p.ev.n, p.x)
      BY <1>5 DEF CallbackSees
    <2>3. Sees(pg, rs2, p.ev.n, p.x)
      BY <1>5, <2>2, SeesStays
    <2> QED
      BY <1>5, <2>1, <2>3 DEF CallbackSees
  <1>6. o.op = "callback" => CallbackSees(pg, rs2, o)
    BY <1>2, <1>5 DEF OpEv
  <1>7. o.op = "complete" => CallsSee(pg, rs2, o.ev.n, o.x)
    BY <1>2, CallsSeeStays DEF OpEv
  <1>8. o.op = "breakes" => \A i \in DOMAIN o.callbacks :
            /\ CallbackSees(pg, rs2, o.callbacks[i])
            /\ \A j \in DOMAIN o.callbacks : o.callbacks[i].ev.n = o.callbacks[j].ev.n
    <2> SUFFICES ASSUME o.op = "breakes", NEW i \in DOMAIN o.callbacks
                 PROVE  /\ CallbackSees(pg, rs2, o.callbacks[i])
                        /\ \A j \in DOMAIN o.callbacks : o.callbacks[i].ev.n = o.callbacks[j].ev.n
      OBVIOUS
    <2>1. Numbers(o) = {o.callbacks[k].ev.n : k \in DOMAIN o.callbacks} /\ Bounds(o) = Numbers(o)
      BY DEF Numbers, Bounds
    <2>2. o.callbacks[i].ev.n \in Nat /\ m >= o.callbacks[i].ev.n
      BY <1>1, <2>1
    <2>3. Executable(rs, o.callbacks[i].x)
      BY DEF OpOK
    <2>4. /\ CallbackSees(pg, rs, o.callbacks[i])
          /\ \A j \in DOMAIN o.callbacks : o.callbacks[i].ev.n = o.callbacks[j].ev.n
      BY DEF OpEv
    <2> QED
      BY <1>5, <2>2, <2>3, <2>4
  <1>9. o.op = "send" => MetaAt(pg, rs2, o.x).type \in {"Ajax", "Submit"}
    <2> SUFFICES ASSUME o.op = "send" PROVE MetaAt(pg, rs2, o.x).type \in {"Ajax", "Submit"}
      OBVIOUS
    <2>1. Executable(rs, o.x) /\ MetaAt(pg, rs, o.x).type \in {"Ajax", "Submit"}
      BY DEF OpOK, OpEv
    <2>2. MetaAt(pg, rs2, o.x) = MetaAt(pg, rs, o.x)
      BY <1>0, <2>1, MetaStays
    <2> QED
      BY <2>1, <2>2
  <1> QED
    BY <1>1, <1>3, <1>4, <1>6, <1>7, <1>8, <1>9, Zenon DEF OpEv

\* The same for a list of operations.
LEMMA OpsEvStay ==
    ASSUME NEW pg, NEW rs, NEW rs2, NEW m \in Nat, Advanced(rs, rs2, m),
           NEW c \in Nat, NEW c2 \in Nat, c2 >= c,
           NEW ops, OpsOK(rs, ops), OpsEv(pg, rs, c, ops),
           \A i \in DOMAIN ops : \A b \in Bounds(ops[i]) : m >= b
    PROVE  OpsEv(pg, rs2, c2, ops)
  <1>1. ASSUME NEW i \in DOMAIN ops PROVE OpEv(pg, rs2, c2, ops[i])
    <2>1. OpOK(rs, ops[i]) /\ OpEv(pg, rs, c, ops[i]) /\ \A b \in Bounds(ops[i]) : m >= b
      BY DEF OpsOK, OpsEv
    <2> QED
      BY <2>1, OpEvStays
  <1> QED
    BY <1>1 DEF OpsEv

-------------------------------------------------------------------------------
(* Lists of operations *)

\* Every number an operation is bounded by is its own.
LEMMA BoundsAreNumbers ==
    ASSUME NEW o
    PROVE  Bounds(o) \subseteq Numbers(o)
  BY DEF Bounds

\* What is left after the first k operations, and that the first k are not earlier.
LEMMA EvSuffix ==
    ASSUME NEW pg, NEW rs, NEW c, NEW ops, OpsEv(pg, rs, c, ops), NEW k \in 0..Len(ops)
    PROVE  LET after == SubSeq(ops, k + 1, Len(ops))
           IN  /\ OpsEv(pg, rs, c, after)
               /\ \A i \in 1..k : \A j \in DOMAIN after :
                     \A n \in Numbers(ops[i]), b \in Bounds(after[j]) : n >= b
  <1> DEFINE after == SubSeq(ops, k + 1, Len(ops))
             n == Len(ops)
  <1>1. IsSeq(ops)
    BY DEF OpsEv
  <1>2. n \in Nat /\ DOMAIN ops = 1..n /\ k \in Nat /\ k <= n
    BY <1>1, IsSeqDom
  <1>3. IsSeq(after) /\ Len(after) = n - k /\ \A i \in 1..(n - k) : after[i] = ops[k + i]
    BY <1>1, IsSeqSub
  <1>4. DOMAIN after = 1..(n - k)
    BY <1>3, IsSeqDom
  <1> HIDE DEF after, n
  <1>5. \A i \in DOMAIN after : after[i] = ops[k + i] /\ k + i \in DOMAIN ops
    BY <1>2, <1>3, <1>4
  <1>6. \A i \in DOMAIN after : OpEv(pg, rs, c, after[i])
    BY <1>5 DEF OpsEv
  <1>7. Ordered(after)
    <2> SUFFICES ASSUME NEW i \in DOMAIN after, NEW j \in DOMAIN after, i < j,
                        NEW v \in Numbers(after[i]), NEW b \in Bounds(after[j])
                 PROVE  v >= b
      BY DEF Ordered
    <2>1. k + i \in DOMAIN ops /\ k + j \in DOMAIN ops /\ after[i] = ops[k + i] /\ after[j] = ops[k + j]
      BY <1>5
    <2>2. k + i < k + j
      BY <1>2, <1>4
    <2> QED
      BY <2>1, <2>2 DEF OpsEv, Ordered
  <1>8. ASSUME NEW i \in 1..k, NEW j \in DOMAIN after, NEW v \in Numbers(ops[i]), NEW b \in Bounds(after[j])
        PROVE  v >= b
    <2>1. k + j \in DOMAIN ops /\ after[j] = ops[k + j]
      BY <1>5
    <2>2. i \in DOMAIN ops /\ i < k + j
      BY <1>2, <1>4
    <2> QED
      BY <2>1, <2>2 DEF OpsEv, Ordered
  <1> QED
    BY <1>3, <1>6, <1>7, <1>8 DEF OpsEv, after, n

\* What follows the operation at the head.
LEMMA EvTail ==
    ASSUME NEW pg, NEW rs, NEW c, NEW ops, OpsEv(pg, rs, c, ops), ops # <<>>
    PROVE  /\ OpsEv(pg, rs, c, Tail(ops))
           /\ OpEv(pg, rs, c, ops[1])
           /\ \A j \in DOMAIN Tail(ops) :
                 \A n \in Numbers(ops[1]), b \in Bounds(Tail(ops)[j]) : n >= b
  <1> DEFINE tail == Tail(ops)
             n == Len(ops)
  <1>1. IsSeq(ops)
    BY DEF OpsEv
  <1>2. n \in Nat /\ DOMAIN ops = 1..n /\ n > 0
    BY <1>1, IsSeqDom, IsSeqTail
  <1>3. IsSeq(tail) /\ Len(tail) = n - 1 /\ \A i \in 1..(n - 1) : tail[i] = ops[i + 1]
    BY <1>1, IsSeqTail
  <1>4. DOMAIN tail = 1..(n - 1)
    BY <1>3, IsSeqDom
  <1> HIDE DEF tail, n
  <1>5. \A i \in DOMAIN tail : tail[i] = ops[i + 1] /\ i + 1 \in DOMAIN ops
    BY <1>2, <1>3, <1>4
  <1>6. \A i \in DOMAIN tail : OpEv(pg, rs, c, tail[i])
    BY <1>5 DEF OpsEv
  <1>7. Ordered(tail)
    <2> SUFFICES ASSUME NEW i \in DOMAIN tail, NEW j \in DOMAIN tail, i < j,
                        NEW v \in Numbers(tail[i]), NEW b \in Bounds(tail[j])
                 PROVE  v >= b
      BY DEF Ordered
    <2>1. i + 1 \in DOMAIN ops /\ j + 1 \in DOMAIN ops /\ tail[i] = ops[i + 1] /\ tail[j] = ops[j + 1]
      BY <1>5
    <2>2. i + 1 < j + 1
      BY <1>4
    <2> QED
      BY <2>1, <2>2 DEF OpsEv, Ordered
  <1>8. ASSUME NEW j \in DOMAIN tail, NEW v \in Numbers(ops[1]), NEW b \in Bounds(tail[j])
        PROVE  v >= b
    <2>1. j + 1 \in DOMAIN ops /\ tail[j] = ops[j + 1]
      BY <1>5
    <2>2. 1 \in DOMAIN ops /\ 1 < j + 1
      BY <1>2, <1>4
    <2> QED
      BY <2>1, <2>2 DEF OpsEv, Ordered
  <1>9. OpEv(pg, rs, c, ops[1])
    <2>1. 1 \in DOMAIN ops
      BY <1>2
    <2> QED
      BY <2>1 DEF OpsEv
  <1> QED
    BY <1>3, <1>6, <1>7, <1>8, <1>9 DEF OpsEv, tail

\* One list before another that is not later.
LEMMA EvJoined ==
    ASSUME NEW pg, NEW rs, NEW c, NEW a, OpsEv(pg, rs, c, a), NEW b, OpsEv(pg, rs, c, b),
           \A i \in DOMAIN a : \A j \in DOMAIN b : \A v \in Numbers(a[i]), w \in Bounds(b[j]) : v >= w,
           NEW all, all = a \o b
    PROVE  OpsEv(pg, rs, c, all)
  <1> DEFINE n == Len(a)
  <1>1. IsSeq(a) /\ IsSeq(b)
    BY DEF OpsEv
  <1>2. /\ IsSeq(all)
        /\ DOMAIN all = 1..(n + Len(b))
        /\ \A i \in 1..n : all[i] = a[i]
        /\ \A i \in 1..Len(b) : all[n + i] = b[i]
    BY <1>1, IsSeqConcat
  <1>3. n \in Nat /\ Len(b) \in Nat /\ DOMAIN a = 1..n /\ DOMAIN b = 1..Len(b)
    BY <1>1, IsSeqDom
  <1> HIDE DEF n
  <1>4. ASSUME NEW i \in DOMAIN all
        PROVE  \/ i \in DOMAIN a /\ i <= n /\ all[i] = a[i]
               \/ i - n \in DOMAIN b /\ i > n /\ all[i] = b[i - n]
    <2>1. CASE i \in 1..n
      BY <2>1, <1>2, <1>3
    <2>2. CASE i \notin 1..n
      <3>0. i \in 1..(n + Len(b))
        BY <1>2
      <3>1. i - n \in 1..Len(b) /\ i = n + (i - n) /\ i > n
        BY <1>3, <2>2, <3>0
      <3>2. all[n + (i - n)] = b[i - n]
        BY <3>1, <1>2
      <3> QED
        BY <3>1, <3>2, <1>3
    <2> QED
      BY <2>1, <2>2
  <1>5. ASSUME NEW i \in DOMAIN all PROVE OpEv(pg, rs, c, all[i])
    BY <1>4 DEF OpsEv
  <1>6. Ordered(all)
    <2> SUFFICES ASSUME NEW i \in DOMAIN all, NEW j \in DOMAIN all, i < j,
                        NEW v \in Numbers(all[i]), NEW w \in Bounds(all[j])
                 PROVE  v >= w
      BY DEF Ordered
    <2>0. i \in Nat /\ j \in Nat
      BY <1>2, <1>3
    <2>1. CASE i \in DOMAIN a /\ all[i] = a[i] /\ j \in DOMAIN a /\ all[j] = a[j]
      BY <2>1 DEF OpsEv, Ordered
    <2>2. CASE i \in DOMAIN a /\ all[i] = a[i] /\ j - n \in DOMAIN b /\ all[j] = b[j - n]
      BY <2>2
    <2>3. CASE i - n \in DOMAIN b /\ all[i] = b[i - n] /\ j - n \in DOMAIN b /\ all[j] = b[j - n]
      <3>1. i - n < j - n
        BY <1>3, <2>0
      <3> QED
        BY <2>3, <3>1 DEF OpsEv, Ordered
    <2>4. CASE i > n /\ j <= n
      BY <1>3, <2>0, <2>4
    <2> QED
      BY <1>4, <2>1, <2>2, <2>3, <2>4
  <1> QED
    BY <1>2, <1>5, <1>6 DEF OpsEv

\* A list whose operations all belong to one event.
LEMMA SameEvent ==
    ASSUME NEW pg, NEW rs, NEW c, NEW a, IsSeq(a), \A i \in DOMAIN a : OpEv(pg, rs, c, a[i]),
           NEW n \in Nat, \A i \in DOMAIN a : Numbers(a[i]) \subseteq {n}
    PROVE  OpsEv(pg, rs, c, a)
  <1>1. Ordered(a)
    BY BoundsAreNumbers DEF Ordered
  <1> QED
    BY <1>1 DEF OpsEv

-------------------------------------------------------------------------------
(* What a step stores *)

\* Storing one event in one runner.
LEMMA StoredAdvances ==
    ASSUME NEW rs, NEW rs2, NEW e, NEW r, NEW at, NEW ev, Stored(rs, rs2, e, r, at, ev)
    PROVE  Advanced(rs, rs2, ev.n)
  BY DEF Stored, Advanced

\* Actions that store no event.
LEMMA NothingStored ==
    ASSUME TypeInv, Next, ~ (Invoke \/ Actions \/ Action \/ BreakBefore), NEW m
    PROVE  Advanced(runs, runs', m)
  <1>1. Grown(runs, runs') /\ Frame
    BY RunsStep, Frames
  <1>2. CASE UNCHANGED runs
    BY <1>1, <1>2, Zenon DEF Advanced
  <1>3. CASE Callback
    <2>1. todo # <<>> /\ todo[1].op = "callback"
      BY <1>3, Zenon DEF Callback, At
    <2>2. Executable(runs, todo[1].x)
      BY <2>1, AtHeadExecutable
    <2>3. ResultSet(runs, runs', todo[1].x, todo[1].data)
      BY <1>3, <2>2, CallbackDoes, Zenon DEF TypeInv
    <2> QED
      BY <1>1, <2>3, Zenon DEF ResultSet, Advanced
  <1>4. CASE ParseContext
    <2>1. Parsed(runs, runs', ToSet(Unparsed(todo[1].context)))
      BY <1>4, ParseRuns DEF TypeInv
    <2>2. \A e \in Element : \A r \in DOMAIN runs[e] : runs'[e][r] = runs[e][r]
      BY <2>1 DEF Parsed
    <2> QED
      BY <1>1, <2>2 DEF Advanced
  <1> QED
    BY <1>1, <1>2, <1>3, <1>4, Zenon DEF Frame

\* What is still to be done is ordered, and what it relies on holds.
EventsOK == OpsEv(page, runs, clock, todo)

\* What follows the operation at the head, when the step ends.
LEMMA TailStays ==
    ASSUME TypeInv, EventsOK, Next, todo # <<>>,
           NEW m \in Nat, Advanced(runs, runs', m), m \in Numbers(todo[1]) \/ m > clock
    PROVE  OpsEv(page, runs', clock', Tail(todo))
  <1>1. clock \in Nat /\ clock' \in Nat /\ clock' >= clock
    BY ClockStep DEF TypeInv, CountersOK
  <1>2. OpsInv(runs, todo)
    BY DEF TypeInv, OpsInv
  <1>3. PICK tail : tail = Tail(todo)
    OBVIOUS
  <1>4. OpsOK(runs, tail)
    BY <1>2, <1>3, TailInv DEF OpsInv
  <1>5. /\ OpsEv(page, runs, clock, tail)
        /\ \A j \in DOMAIN tail : \A n \in Numbers(todo[1]), b \in Bounds(tail[j]) : n >= b
    BY <1>3, EvTail DEF EventsOK
  <1>6. \A i \in DOMAIN tail : \A b \in Bounds(tail[i]) : m >= b
    <2> SUFFICES ASSUME NEW i \in DOMAIN tail, NEW b \in Bounds(tail[i]) PROVE m >= b
      OBVIOUS
    <2>1. b \in Nat /\ b <= clock
      BY <1>5, BoundsAreNumbers DEF OpsEv, OpEv
    <2>2. CASE m \in Numbers(todo[1])
      BY <1>5, <2>2
    <2>3. CASE m > clock
      BY <1>1, <2>1, <2>3
    <2> QED
      BY <2>2, <2>3
  <1> QED
    BY <1>1, <1>3, <1>4, <1>5, <1>6, OpsEvStay

\* A call replaced by the operations of its body: they belong to its event or to new ones.
LEMMA EvPushed ==
    ASSUME TypeInv, EventsOK, Next, todo # <<>>,
           NEW m \in Nat, Advanced(runs, runs', m), m \in Numbers(todo[1]) \/ m > clock,
           NEW a, OpsEv(page, runs', clock', a),
           \A i \in DOMAIN a : \A n \in Numbers(a[i]) : n \in Numbers(todo[1]) \/ n > clock,
           Do(a)
    PROVE  OpsEv(page, runs', clock', todo')
  <1>1. clock \in Nat
    BY DEF TypeInv, CountersOK
  <1>2. PICK tail : tail = Tail(todo)
    OBVIOUS
  <1>3. OpsEv(page, runs', clock', tail)
    BY <1>2, TailStays
  <1>4. /\ OpsEv(page, runs, clock, tail)
        /\ \A j \in DOMAIN tail : \A n \in Numbers(todo[1]), b \in Bounds(tail[j]) : n >= b
    BY <1>2, EvTail DEF EventsOK
  <1>5. \A i \in DOMAIN a : \A j \in DOMAIN tail : \A v \in Numbers(a[i]), w \in Bounds(tail[j]) : v >= w
    <2> SUFFICES ASSUME NEW i \in DOMAIN a, NEW j \in DOMAIN tail,
                        NEW v \in Numbers(a[i]), NEW w \in Bounds(tail[j])
                 PROVE  v >= w
      OBVIOUS
    <2>1. w \in Nat /\ w <= clock
      BY <1>4, BoundsAreNumbers DEF OpsEv, OpEv
    <2>2. v \in Nat
      BY DEF OpsEv, OpEv
    <2>3. CASE v \in Numbers(todo[1])
      BY <1>4, <2>3
    <2>4. CASE v > clock
      BY <1>1, <2>1, <2>2, <2>4
    <2> QED
      BY <2>3, <2>4
  <1>6. PICK all : all = a \o tail
    OBVIOUS
  <1>7. OpsEv(page, runs', clock', all)
    BY <1>3, <1>5, <1>6, EvJoined
  <1>8. todo' = all
    BY <1>2, <1>6 DEF Do
  <1> QED
    BY <1>7, <1>8

\* The same where no event is stored.
LEMMA EvPushedQuietly ==
    ASSUME TypeInv, EventsOK, Next, todo # <<>>, ~ (Invoke \/ Actions \/ Action \/ BreakBefore),
           NEW a, OpsEv(page, runs', clock', a),
           \A i \in DOMAIN a : \A n \in Numbers(a[i]) : n \in Numbers(todo[1]) \/ n > clock,
           Do(a)
    PROVE  OpsEv(page, runs', clock', todo')
  <1>1. clock + 1 \in Nat /\ clock + 1 > clock
    BY DEF TypeInv, CountersOK
  <1>2. Advanced(runs, runs', clock + 1)
    BY NothingStored
  <1> HIDE DEF Do
  <1> QED
    BY <1>1, <1>2, EvPushed

\* Lists of no, one and two operations.
LEMMA EvLists ==
    ASSUME NEW pg, NEW rs, NEW c
    PROVE  /\ OpsEv(pg, rs, c, <<>>)
           /\ \A o : OpEv(pg, rs, c, o) => OpsEv(pg, rs, c, <<o>>)
           /\ \A o, p : /\ OpEv(pg, rs, c, o) /\ OpEv(pg, rs, c, p)
                        /\ \A n \in Numbers(o), b \in Bounds(p) : n >= b
                        => OpsEv(pg, rs, c, <<o, p>>)
  BY IsSeqEmpty, IsSeqTuples DEF OpsEv, Ordered

\* Operations that belong to no event.
Eventless(o) == o.op \in {"fire", "throw", "parse", "store", "caught"}

\* They have no number, and nothing is asked of them.
LEMMA EventlessOK ==
    ASSUME NEW pg, NEW rs, NEW c, NEW o, Eventless(o)
    PROVE  Numbers(o) = {} /\ Bounds(o) = {} /\ OpEv(pg, rs, c, o)
  BY DEF Eventless, Numbers, Bounds, Evented, Bounding, OpEv

\* Each kind of operation.
LEMMA EventlessKinds ==
    /\ \A type, site, data : Eventless(FireOp(type, site, data))
    /\ \A kind : Eventless(ThrowOp(kind))
    /\ \A e : Eventless(ParseOp(e))
    /\ \A k, v : Eventless([op |-> "store", key |-> k, value |-> v])
    /\ \A x, last : Eventless([op |-> "caught", x |-> x, last |-> last])
  BY DEF Eventless, FireOp, ThrowOp, ParseOp

\* The operation at the head ends.
LEMMA EvPushed0 ==
    ASSUME TypeInv, EventsOK, Next, todo # <<>>, ~ (Invoke \/ Actions \/ Action \/ BreakBefore), Do(<<>>)
    PROVE  OpsEv(page, runs', clock', todo')
  <1>1. OpsEv(page, runs', clock', <<>>) /\ DOMAIN <<>> = {}
    BY EvLists, IsSeqEmpty
  <1> HIDE DEF Do
  <1> QED
    BY <1>1, EvPushedQuietly

\* One operation of the event at hand, or of a new one, replaces it.
LEMMA EvPushed1 ==
    ASSUME TypeInv, EventsOK, Next, todo # <<>>, ~ (Invoke \/ Actions \/ Action \/ BreakBefore),
           NEW o, OpEv(page, runs', clock', o), \A n \in Numbers(o) : n \in Numbers(todo[1]) \/ n > clock,
           Do(<<o>>)
    PROVE  OpsEv(page, runs', clock', todo')
  <1>1. OpsEv(page, runs', clock', <<o>>)
    BY EvLists
  <1>2. \A i \in DOMAIN <<o>> : <<o>>[i] = o
    OBVIOUS
  <1> HIDE DEF Do
  <1> QED
    BY <1>1, <1>2, EvPushedQuietly

\* Two of them do.
LEMMA EvPushed2 ==
    ASSUME TypeInv, EventsOK, Next, todo # <<>>, ~ (Invoke \/ Actions \/ Action \/ BreakBefore),
           NEW o, OpEv(page, runs', clock', o), \A n \in Numbers(o) : n \in Numbers(todo[1]) \/ n > clock,
           NEW p, OpEv(page, runs', clock', p), \A n \in Numbers(p) : n \in Numbers(todo[1]) \/ n > clock,
           \A n \in Numbers(o), b \in Bounds(p) : n >= b,
           Do(<<o, p>>)
    PROVE  OpsEv(page, runs', clock', todo')
  <1>1. OpsEv(page, runs', clock', <<o, p>>)
    BY EvLists
  <1>2. \A i \in DOMAIN <<o, p>> : <<o, p>>[i] = o \/ <<o, p>>[i] = p
    OBVIOUS
  <1> HIDE DEF Do
  <1> QED
    BY <1>1, <1>2, EvPushedQuietly

\* One or two that belong to no event do.
LEMMA EvPushedEventless ==
    ASSUME TypeInv, EventsOK, Next, todo # <<>>, ~ (Invoke \/ Actions \/ Action \/ BreakBefore)
    PROVE  /\ \A o : Eventless(o) /\ Do(<<o>>) => OpsEv(page, runs', clock', todo')
           /\ \A o, p : Eventless(o) /\ Eventless(p) /\ Do(<<o, p>>) => OpsEv(page, runs', clock', todo')
  <1>1. ASSUME NEW o, Eventless(o), Do(<<o>>) PROVE OpsEv(page, runs', clock', todo')
    <2>1. Numbers(o) = {} /\ OpEv(page, runs', clock', o)
      BY <1>1, EventlessOK
    <2> QED
      BY <1>1, <2>1, EvPushed1
  <1>2. ASSUME NEW o, NEW p, Eventless(o), Eventless(p), Do(<<o, p>>) PROVE OpsEv(page, runs', clock', todo')
    <2>1. Numbers(o) = {} /\ OpEv(page, runs', clock', o) /\ Numbers(p) = {} /\ OpEv(page, runs', clock', p)
      BY <1>2, EventlessOK
    <2> QED
      BY <1>2, <2>1, EvPushed2
  <1> QED
    BY <1>1, <1>2

-------------------------------------------------------------------------------
(* What is pushed *)

\* Each kind of operation that belongs to an event.
LEMMA EvKinds ==
    ASSUME NEW pg, NEW rs, NEW c, NEW ev
    PROVE  /\ \A path : Numbers([op |-> "dispatch", path |-> path, ev |-> ev]) = {ev.n}
           /\ \A site : Numbers(InvokeOp(site, ev)) = {ev.n} /\ Bounds(InvokeOp(site, ev)) = {}
           /\ \A e, r : Numbers([op |-> "catch", e |-> e, r |-> r, ev |-> ev]) = {ev.n}
           /\ \A e, r : Numbers([op |-> "actions", e |-> e, r |-> r, ev |-> ev]) = {ev.n}
           /\ \A x : Numbers([op |-> "action", x |-> x, ev |-> ev]) = {ev.n}
           /\ \A x : Numbers(ExecuteOp(x, ev)) = {ev.n} /\ Numbers(RunOp(x, ev)) = {ev.n}
           /\ \A x, res : Numbers(CompleteOp(x, ev, res)) = {ev.n}
           /\ \A x, data : Numbers([op |-> "send", x |-> x, ev |-> ev, data |-> data]) = {ev.n}
           /\ \A x, data, last : Numbers([op |-> "callback", x |-> x, ev |-> ev, data |-> data, last |-> last]) = {ev.n}
  BY DEF Numbers, Bounds, Evented, Bounding, InvokeOp, ExecuteOp, RunOp, CompleteOp

\* What each of them asks for.
LEMMA EvKindsOK ==
    ASSUME NEW pg, NEW rs, NEW c, NEW ev, ev.n \in Nat, ev.n <= c
    PROVE  /\ \A path : OpEv(pg, rs, c, [op |-> "dispatch", path |-> path, ev |-> ev])
           /\ \A site : OpEv(pg, rs, c, InvokeOp(site, ev))
           /\ \A e, r : OpEv(pg, rs, c, [op |-> "catch", e |-> e, r |-> r, ev |-> ev])
           /\ \A e, r : OpEv(pg, rs, c, [op |-> "actions", e |-> e, r |-> r, ev |-> ev])
           /\ \A x : Sees(pg, rs, ev.n, x) => OpEv(pg, rs, c, [op |-> "action", x |-> x, ev |-> ev])
           /\ \A x : /\ Sees(pg, rs, ev.n, x)
                     /\ IsAction(MetaAt(pg, rs, x)) => CallsSee(pg, rs, ev.n, x)
                     => OpEv(pg, rs, c, ExecuteOp(x, ev)) /\ OpEv(pg, rs, c, RunOp(x, ev))
           /\ \A x, res : CallsSee(pg, rs, ev.n, x) => OpEv(pg, rs, c, CompleteOp(x, ev, res))
           /\ \A x, data : MetaAt(pg, rs, x).type \in {"Ajax", "Submit"} =>
                 OpEv(pg, rs, c, [op |-> "send", x |-> x, ev |-> ev, data |-> data])
           /\ \A x, data, last : /\ ~ IsAction(MetaAt(pg, rs, x)) /\ Sees(pg, rs, ev.n, x)
                 => OpEv(pg, rs, c, [op |-> "callback", x |-> x, ev |-> ev, data |-> data, last |-> last])
  <1>1. \A o : Numbers(o) = {ev.n} => \A n \in Numbers(o) : n \in Nat /\ n <= c
    OBVIOUS
  <1> QED
    BY <1>1, EvKinds DEF OpEv, InvokeOp, ExecuteOp, RunOp, CompleteOp, CallbackSees

\* Two lists, one after the other, whose operations all belong to one event.
LEMMA SameEventJoined ==
    ASSUME NEW pg, NEW rs, NEW c, NEW n \in Nat,
           NEW a, IsSeq(a), \A i \in DOMAIN a : OpEv(pg, rs, c, a[i]),
           \A i \in DOMAIN a : Numbers(a[i]) \subseteq {n},
           NEW b, IsSeq(b), \A i \in DOMAIN b : OpEv(pg, rs, c, b[i]),
           \A i \in DOMAIN b : Numbers(b[i]) \subseteq {n},
           NEW all, all = a \o b
    PROVE  OpsEv(pg, rs, c, all) /\ \A i \in DOMAIN all : Numbers(all[i]) \subseteq {n}
  <1>1. OpsEv(pg, rs, c, a) /\ OpsEv(pg, rs, c, b)
    BY SameEvent
  <1>2. \A i \in DOMAIN a : \A j \in DOMAIN b : \A v \in Numbers(a[i]), w \in Bounds(b[j]) : v >= w
    <2> SUFFICES ASSUME NEW i \in DOMAIN a, NEW j \in DOMAIN b, NEW v \in Numbers(a[i]), NEW w \in Bounds(b[j])
                 PROVE  v >= w
      OBVIOUS
    <2>1. v = n /\ w = n
      BY BoundsAreNumbers
    <2> QED
      BY <2>1
  <1>3. OpsEv(pg, rs, c, all)
    BY <1>1, <1>2, EvJoined
  <1>4. /\ DOMAIN all = 1..(Len(a) + Len(b))
        /\ \A i \in 1..Len(a) : all[i] = a[i]
        /\ \A i \in 1..Len(b) : all[Len(a) + i] = b[i]
        /\ Len(a) \in Nat /\ Len(b) \in Nat /\ DOMAIN a = 1..Len(a) /\ DOMAIN b = 1..Len(b)
    BY IsSeqConcat, IsSeqDom
  <1>5. ASSUME NEW i \in DOMAIN all PROVE Numbers(all[i]) \subseteq {n}
    <2>0. i \in 1..(Len(a) + Len(b))
      BY <1>4
    <2>1. CASE i \in 1..Len(a)
      BY <2>1, <1>4
    <2>2. CASE i \notin 1..Len(a)
      <3>1. i - Len(a) \in 1..Len(b) /\ i = Len(a) + (i - Len(a))
        BY <2>0, <2>2, <1>4
      <3>2. all[Len(a) + (i - Len(a))] = b[i - Len(a)]
        BY <3>1, <1>4
      <3> QED
        BY <3>1, <3>2, <1>4
    <2> QED
      BY <2>1, <2>2
  <1> QED
    BY <1>3, <1>5

\* The operation at the head, when the step ends.
LEMMA HeadStays ==
    ASSUME TypeInv, EventsOK, Next, todo # <<>>, ~ (Invoke \/ Actions \/ Action \/ BreakBefore)
    PROVE  OpEv(page, runs', clock', todo[1])
  <1>1. clock \in Nat /\ clock' \in Nat /\ clock' >= clock
    BY ClockStep DEF TypeInv, CountersOK
  <1>2. OpOK(runs, todo[1])
    BY AtHead
  <1>3. OpEv(page, runs, clock, todo[1])
    BY EvTail DEF EventsOK
  <1>4. clock + 1 \in Nat /\ \A b \in Bounds(todo[1]) : clock + 1 >= b
    <2>1. \A b \in Bounds(todo[1]) : b \in Nat /\ b <= clock
      BY <1>3, BoundsAreNumbers DEF OpEv
    <2> QED
      BY <1>1, <2>1
  <1>5. Advanced(runs, runs', clock + 1)
    BY NothingStored
  <1> QED
    BY <1>1, <1>2, <1>3, <1>4, <1>5, OpEvStays

\* The event of the operation at the head.
LEMMA HeadEvent ==
    ASSUME TypeInv, EventsOK, Next, todo # <<>>, todo[1].op \in Evented
    PROVE  /\ Numbers(todo[1]) = {todo[1].ev.n}
           /\ todo[1].ev.n \in Nat /\ todo[1].ev.n <= clock /\ todo[1].ev.n <= clock'
           /\ OpEv(page, runs, clock, todo[1])
  <1>1. clock \in Nat /\ clock' \in Nat /\ clock' >= clock
    BY ClockStep DEF TypeInv, CountersOK
  <1>2. Numbers(todo[1]) = {todo[1].ev.n}
    BY DEF Numbers, Evented
  <1>3. OpEv(page, runs, clock, todo[1])
    BY EvTail DEF EventsOK
  <1>4. todo[1].ev.n \in Nat /\ todo[1].ev.n <= clock
    BY <1>2, <1>3 DEF OpEv
  <1>5. todo[1].ev.n <= clock'
    BY <1>1, <1>4
  <1> QED
    BY <1>2, <1>3, <1>4, <1>5

\* Where an event was stored, it is seen.
LEMMA StoredSees ==
    ASSUME TypeInv, Next, NEW e \in Element, NEW r \in DOMAIN runs[e],
           NEW S, S \subseteq DOMAIN MetasOf(e, r), NEW ev, ev.n \in Nat, Stored(runs, runs', e, r, S, ev),
           NEW x, x[1] = e, x[2] = r, x[3] \in S
    PROVE  /\ Executable(runs, x)
           /\ Sees(page, runs', ev.n, x)
           /\ MetaAt(page, runs', x) = MetasOf(e, r)[x[3]]
  <1>1. DOMAIN MetasOf(e, r) = DOMAIN runs[e][r].event
    BY PositionsKept
  <1>2. Executable(runs, x)
    BY <1>1 DEF Executable
  <1>3. EventAt(runs', x) = ev
    BY <1>1 DEF Stored, EventAt
  <1>4. Sees(page, runs', ev.n, x)
    <2>1. ev.n >= ev.n
      OBVIOUS
    <2> QED
      BY <1>3, <2>1 DEF Sees
  <1>5. MetaAt(page, runs', x) = MetaAt(page, runs, x)
    BY <1>2, RunsStep, MetaStays
  <1>6. MetaAt(page, runs, x) = MetasOf(e, r)[x[3]]
    BY DEF MetaAt, MetasAt, MetasOf
  <1> QED
    BY <1>2, <1>4, <1>5, <1>6

\* The same for the executables of a list.
LEMMA ListSees ==
    ASSUME TypeInv, Next, NEW e \in Element, NEW r \in DOMAIN runs[e],
           NEW S, S \subseteq DOMAIN MetasOf(e, r), NEW ev, ev.n \in Nat, Stored(runs, runs', e, r, S, ev),
           NEW xs, Lists(e, r, S, xs)
    PROVE  /\ IsSeq(xs)
           /\ \A i \in DOMAIN xs : /\ Sees(page, runs', ev.n, xs[i])
                                   /\ xs[i][3] \in S
                                   /\ MetaAt(page, runs', xs[i]) = MetasOf(e, r)[xs[i][3]]
  <1>1. IsSeq(xs)
    BY DEF Lists
  <1>2. ASSUME NEW i \in DOMAIN xs
        PROVE  /\ Sees(page, runs', ev.n, xs[i])
               /\ xs[i][3] \in S
               /\ MetaAt(page, runs', xs[i]) = MetasOf(e, r)[xs[i][3]]
    <2>1. xs[i][3] \in S /\ xs[i] = <<e, r, xs[i][3]>>
      BY DEF Lists
    <2>2. xs[i][1] = e /\ xs[i][2] = r
      BY <2>1
    <2> QED
      BY <2>1, <2>2, StoredSees
  <1> QED
    BY <1>1, <1>2

-------------------------------------------------------------------------------
(* What each action leaves to be done *)

\* A new event is later than all that is left.
LEMMA FireEv ==
    ASSUME TypeInv, EventsOK, Next, Fire
    PROVE  OpsEv(page, runs', clock', todo')
  <1>1. PICK path, ev : /\ todo # <<>> /\ todo[1].op = "fire" /\ ev.n = clock + 1 /\ clock' = clock + 1
                        /\ Do(<<[op |-> "dispatch", path |-> path, ev |-> ev]>>)
    BY Zenon DEF Fire, At
  <1>2. clock \in Nat
    BY DEF TypeInv, CountersOK
  <1> DEFINE o == [op |-> "dispatch", path |-> path, ev |-> ev]
  <1>3. OpEv(page, runs', clock', o) /\ Numbers(o) = {ev.n}
    <2>1. ev.n \in Nat /\ ev.n <= clock'
      BY <1>1, <1>2
    <2> QED
      BY <2>1, EvKinds, EvKindsOK
  <1>4. ~ (Invoke \/ Actions \/ Action \/ BreakBefore)
    BY <1>1 DEF Invoke, Actions, Action, BreakBefore, At
  <1>5. \A n \in Numbers(o) : n > clock
    BY <1>1, <1>2, <1>3
  <1> HIDE DEF o
  <1> QED
    BY <1>1, <1>3, <1>4, <1>5, EvPushed1, Zenon DEF o

\* The handlers of an event belong to it.
LEMMA DispatchEv ==
    ASSUME TypeInv, EventsOK, Next, Dispatch
    PROVE  OpsEv(page, runs', clock', todo')
  <1>1. todo # <<>> /\ todo[1].op = "dispatch"
    BY DEF Dispatch, At
  <1>0. ~ (Invoke \/ Actions \/ Action \/ BreakBefore)
    BY <1>1 DEF Invoke, Actions, Action, BreakBefore, At
  <1>2. CASE Do(<<>>)
    BY <1>0, <1>1, <1>2, EvPushed0
  <1>3. CASE ~ Do(<<>>)
    <2> DEFINE d == todo[1]
               site == d.path[1]
               hs == Handlers(site, d.ev.type)
               calls == [i \in DOMAIN hs |-> InvokeOp(IF site = Doc THEN hs[i].site ELSE site, d.ev)]
               d2 == [op |-> "dispatch", path |-> Tail(d.path), ev |-> d.ev]
    <2>1. d = [op |-> "dispatch", path |-> d.path, ev |-> d.ev]
      <3>1. OpOK(runs, d)
        BY <1>1, AtHead
      <3> QED
        BY <1>1, <3>1 DEF OpOK
    <2>2. [d EXCEPT !.path = Tail(d.path)] = d2
      <3>1. WithPath(d, Tail(d.path)) = d2
        <4> HIDE DEF d
        <4>1. \A p : WithPath(d, p) = [op |-> "dispatch", path |-> p, ev |-> d.ev]
          BY <2>1, WithPathDoes
        <4> QED
          BY <4>1
      <3> QED
        BY <3>1 DEF WithPath
    <2>3. Do(calls \o <<>>) \/ Do(calls \o <<d2>>)
      <3>1. Do(calls \o <<>>) \/ Do(calls \o <<[d EXCEPT !.path = Tail(d.path)]>>)
        BY <1>3 DEF Dispatch
      <3> QED
        BY <2>2, <3>1
    <2>4. PICK n \in Nat : n = d.ev.n /\ n <= clock' /\ Numbers(d) = {n}
      BY <1>1, HeadEvent DEF Evented
    <2>5. OpEv(page, runs', clock', d2) /\ Numbers(d2) = {n}
      BY <2>4, EvKinds, EvKindsOK
    <2>6. \A i \in DOMAIN hs : OpEv(page, runs', clock', calls[i]) /\ Numbers(calls[i]) = {n}
      BY <2>4, EvKinds, EvKindsOK
    <2>7. IsSeq(hs)
      BY HandlersSeq DEF TypeInv
    <2>8. calls = [i \in DOMAIN hs |-> calls[i]]
      OBVIOUS
    <2> HIDE DEF calls, hs, d2, d
    <2>9. IsSeq(calls) /\ DOMAIN calls = DOMAIN hs
      BY <2>7, <2>8, Mapped
    <2>10. ASSUME NEW ops, IsSeq(ops), Do(calls \o ops),
                  \A i \in DOMAIN ops : OpEv(page, runs', clock', ops[i]),
                  \A i \in DOMAIN ops : Numbers(ops[i]) \subseteq {n}
           PROVE  OpsEv(page, runs', clock', todo')
      <3>1. PICK all : all = calls \o ops
        OBVIOUS
      <3>2. \A i \in DOMAIN calls : OpEv(page, runs', clock', calls[i])
        BY <2>6, <2>9
      <3>a. \A i \in DOMAIN calls : Numbers(calls[i]) \subseteq {n}
        BY <2>6, <2>9
      <3>3. OpsEv(page, runs', clock', all) /\ \A i \in DOMAIN all : Numbers(all[i]) \subseteq {n}
        <4>1. IsSeq(calls)
          BY <2>9
        <4>2. n \in Nat
          BY <2>4
        <4>3. OpsEv(page, runs', clock', all)
          BY <2>10, <3>1, <3>2, <3>a, <4>1, <4>2, SameEventJoined, Zenon
        <4>4. \A i \in DOMAIN all : Numbers(all[i]) \subseteq {n}
          BY <2>10, <3>1, <3>2, <3>a, <4>1, <4>2, SameEventJoined
        <4> QED
          BY <4>3, <4>4
      <3> QED
        BY <1>0, <1>1, <2>4, <2>10, <3>1, <3>3, EvPushedQuietly DEF d
    <2>11. IsSeq(<<>>) /\ DOMAIN <<>> = {} /\ IsSeq(<<d2>>) /\ \A i \in DOMAIN <<d2>> : <<d2>>[i] = d2
      BY IsSeqEmpty, IsSeqTuples
    <2>12. CASE Do(calls \o <<>>)
      BY <2>10, <2>11, <2>12
    <2>13. CASE Do(calls \o <<d2>>)
      <3>1. \A i \in DOMAIN <<d2>> : OpEv(page, runs', clock', <<d2>>[i])
        BY <2>5, <2>11
      <3>2. \A i \in DOMAIN <<d2>> : Numbers(<<d2>>[i]) \subseteq {n}
        BY <2>5, <2>11
      <3> QED
        BY <2>10, <2>11, <2>13, <3>1, <3>2
    <2> QED
      BY <2>3, <2>12, <2>13
  <1> QED
    BY <1>2, <1>3

\* The executables before the action see the event they are invoked for.
LEMMA InvokeEv ==
    ASSUME TypeInv, EventsOK, Next, Invoke
    PROVE  OpsEv(page, runs', clock', todo')
  <1>1. todo # <<>> /\ todo[1].op = "invoke"
    BY DEF Invoke, At
  <1>e. PICK ev, n : ev = todo[1].ev /\ n = ev.n
    OBVIOUS
  <1>n. n \in Nat /\ ev.n \in Nat /\ ev.n <= clock' /\ Numbers(todo[1]) = {n}
    BY <1>1, <1>e, HeadEvent DEF Evented
  <1> DEFINE e == todo[1].site[1]
             r == runner[e]
  <1>2. CASE ~ (Present(todo[1].site) /\ r # 0)
    <2>1. Do(<<>>) /\ runs' = runs
      BY <1>2 DEF Invoke
    <2>2. Advanced(runs, runs', n)
      BY <2>1, RunsStep DEF Advanced
    <2>3. OpsEv(page, runs', clock', <<>>) /\ DOMAIN <<>> = {}
      BY EvLists, IsSeqEmpty
    <2> HIDE DEF Do
    <2> QED
      BY <1>1, <1>n, <2>1, <2>2, <2>3, EvPushed
  <1>3. CASE Present(todo[1].site) /\ r # 0
    <2> DEFINE xs == BeforeOf(e, r, ev.type)
               ops == [i \in DOMAIN xs |-> ExecuteOp(xs[i], ev)]
               c == [op |-> "catch", e |-> e, r |-> r, ev |-> ev]
               a == [op |-> "actions", e |-> e, r |-> r, ev |-> ev]
               S == BeforePositions(e, r, ev.type)
    <2>1. Do(ops \o <<c, a>>)
      BY <1>3, <1>e, Zenon DEF Invoke, Each
    <2>2. /\ e \in Element /\ r \in DOMAIN runs[e] /\ Lists(e, r, S, xs)
          /\ Stored(runs, runs', e, r, S, ev)
      BY <1>3, <1>e, InvokeDoes
    <2>3. S \subseteq DOMAIN MetasOf(e, r) /\ \A p \in S : ~ IsAction(MetasOf(e, r)[p])
      BY DEF BeforePositions, ListOf
    <2>4. Advanced(runs, runs', n)
      BY <1>e, <2>2, StoredAdvances
    <2>5. Numbers(c) = {n} /\ Numbers(a) = {n}
      BY <1>e, EvKinds
    <2>a. OpEv(page, runs', clock', c) /\ OpEv(page, runs', clock', a)
      BY <1>n, EvKindsOK
    <2>6. ops = [i \in DOMAIN xs |-> ops[i]] /\ \A i \in DOMAIN xs : ops[i] = ExecuteOp(xs[i], ev)
      OBVIOUS
    <2> HIDE DEF ops, xs, e, r, c, a, S
    <2>7. /\ IsSeq(xs)
          /\ \A i \in DOMAIN xs : /\ Sees(page, runs', n, xs[i]) /\ xs[i][3] \in S
                                  /\ MetaAt(page, runs', xs[i]) = MetasOf(e, r)[xs[i][3]]
      <3>1. e \in Element /\ r \in DOMAIN runs[e]
        BY <2>2
      <3>2. S \subseteq DOMAIN MetasOf(e, r)
        BY <2>3
      <3>3. ev.n \in Nat
        BY <1>n
      <3>4. Stored(runs, runs', e, r, S, ev)
        BY <2>2
      <3>5. Lists(e, r, S, xs)
        BY <2>2
      <3>6. /\ IsSeq(xs)
            /\ \A i \in DOMAIN xs : /\ Sees(page, runs', ev.n, xs[i]) /\ xs[i][3] \in S
                                    /\ MetaAt(page, runs', xs[i]) = MetasOf(e, r)[xs[i][3]]
        <4>1. IsSeq(xs)
          BY <3>5 DEF Lists
        <4>2. \A i \in DOMAIN xs : Sees(page, runs', ev.n, xs[i])
          BY <3>1, <3>2, <3>3, <3>4, <3>5, ListSees
        <4>3. \A i \in DOMAIN xs : xs[i][3] \in S
          BY <3>5 DEF Lists
        <4>4. ASSUME NEW i \in DOMAIN xs PROVE MetaAt(page, runs', xs[i]) = MetasOf(e, r)[xs[i][3]]
          <5>1. xs[i][3] \in S /\ xs[i] = <<e, r, xs[i][3]>>
            BY <3>5 DEF Lists
          <5>2. xs[i][1] = e /\ xs[i][2] = r
            BY <5>1
          <5> QED
            BY <3>1, <3>2, <3>3, <3>4, <5>1, <5>2, StoredSees
        <4> QED
          BY <4>1, <4>2, <4>3, <4>4
      <3> QED
        BY <1>e, <3>6
    <2>8. \A i \in DOMAIN xs : Sees(page, runs', n, xs[i]) /\ ~ IsAction(MetaAt(page, runs', xs[i]))
      BY <2>3, <2>7
    <2>9. \A i \in DOMAIN xs : Numbers(ops[i]) = {n}
      BY <1>e, <2>6, EvKinds
    <2>b. \A i \in DOMAIN xs : OpEv(page, runs', clock', ops[i])
      <3> SUFFICES ASSUME NEW i \in DOMAIN xs PROVE OpEv(page, runs', clock', ExecuteOp(xs[i], ev))
        BY <2>6
      <3>1. Sees(page, runs', ev.n, xs[i]) /\ ~ IsAction(MetaAt(page, runs', xs[i]))
        BY <1>e, <2>8
      <3> QED
        BY <1>n, <3>1, EvKindsOK
    <2>10. IsSeq(ops) /\ DOMAIN ops = DOMAIN xs
      BY <2>6, <2>7, Mapped
    <2>11. PICK p : p = <<c, a>>
      OBVIOUS
    <2>12. IsSeq(p) /\ \A i \in DOMAIN p : p[i] = c \/ p[i] = a
      BY <2>11, IsSeqTuples
    <2>13. \A i \in DOMAIN p : Numbers(p[i]) \subseteq {n}
      BY <2>5, <2>12
    <2>c. \A i \in DOMAIN p : OpEv(page, runs', clock', p[i])
      BY <2>a, <2>12
    <2>14. PICK all : all = ops \o p
      OBVIOUS
    <2>15. \A i \in DOMAIN ops : Numbers(ops[i]) \subseteq {n}
      BY <2>9, <2>10
    <2>d. \A i \in DOMAIN ops : OpEv(page, runs', clock', ops[i])
      BY <2>b, <2>10
    <2>16. OpsEv(page, runs', clock', all) /\ \A i \in DOMAIN all : Numbers(all[i]) \subseteq {n}
      <3>1. IsSeq(ops)
        BY <2>10
      <3>2. IsSeq(p)
        BY <2>12
      <3>3. n \in Nat
        BY <1>n
      <3>4. OpsEv(page, runs', clock', all)
        BY <2>13, <2>c, <2>14, <2>15, <2>d, <3>1, <3>2, <3>3, SameEventJoined, ZenonT(30)
      <3>5. \A i \in DOMAIN all : Numbers(all[i]) \subseteq {n}
        BY <2>13, <2>c, <2>14, <2>15, <2>d, <3>1, <3>2, <3>3, SameEventJoined
      <3> QED
        BY <3>4, <3>5
    <2>17. Do(all)
      BY <2>1, <2>11, <2>14
    <2> QED
      BY <1>1, <1>n, <2>4, <2>16, <2>17, EvPushed
  <1> QED
    BY <1>2, <1>3

\* So do the actions.
LEMMA ActionsEv ==
    ASSUME TypeInv, EventsOK, Next, Actions
    PROVE  OpsEv(page, runs', clock', todo')
  <1>1. todo # <<>> /\ todo[1].op = "actions"
    BY DEF Actions, At
  <1>e. PICK ev, n : ev = todo[1].ev /\ n = ev.n
    OBVIOUS
  <1> DEFINE e == todo[1].e
             r == todo[1].r
             xs == ActionsOf(e, r, ev.type)
             ops == [i \in DOMAIN xs |-> [op |-> "action", x |-> xs[i], ev |-> ev]]
             S == ActionPositions(e, r, ev.type)
  <1>n. n \in Nat /\ ev.n \in Nat /\ ev.n <= clock' /\ Numbers(todo[1]) = {n}
    BY <1>1, <1>e, HeadEvent DEF Evented
  <1>2. Do(ops)
    BY <1>e DEF Actions, Each
  <1>3. e \in Element /\ r \in DOMAIN runs[e] /\ Lists(e, r, S, xs) /\ Stored(runs, runs', e, r, S, ev)
    BY <1>e, ActionsDoes
  <1>4. S \subseteq DOMAIN MetasOf(e, r)
    BY DEF ActionPositions
  <1>5. ops = [i \in DOMAIN xs |-> ops[i]] /\ \A i \in DOMAIN xs : ops[i] = [op |-> "action", x |-> xs[i], ev |-> ev]
    OBVIOUS
  <1>6. Advanced(runs, runs', n)
    BY <1>e, <1>3, StoredAdvances
  <1> HIDE DEF ops, xs, e, r, S
  <1>7. IsSeq(xs) /\ \A i \in DOMAIN xs : Sees(page, runs', n, xs[i])
    BY <1>e, <1>n, <1>3, <1>4, ListSees
  <1>8. \A i \in DOMAIN xs : Numbers(ops[i]) = {n}
    BY <1>e, <1>5, EvKinds
  <1>a. \A i \in DOMAIN xs : OpEv(page, runs', clock', ops[i])
    <2> SUFFICES ASSUME NEW i \in DOMAIN xs
                 PROVE  OpEv(page, runs', clock', [op |-> "action", x |-> xs[i], ev |-> ev])
      BY <1>5
    <2>1. Sees(page, runs', ev.n, xs[i])
      BY <1>e, <1>7
    <2> QED
      BY <1>n, <2>1, EvKindsOK
  <1>9. IsSeq(ops) /\ DOMAIN ops = DOMAIN xs
    BY <1>5, <1>7, Mapped
  <1>10. \A i \in DOMAIN ops : Numbers(ops[i]) \subseteq {n}
    BY <1>8, <1>9
  <1>b. \A i \in DOMAIN ops : OpEv(page, runs', clock', ops[i])
    BY <1>a, <1>9
  <1>11. OpsEv(page, runs', clock', ops)
    BY <1>n, <1>9, <1>b, <1>10, SameEvent
  <1> QED
    BY <1>1, <1>2, <1>n, <1>6, <1>10, <1>11, EvPushed

\* So do the callbacks of an action that begins.
LEMMA ActionEv ==
    ASSUME TypeInv, EventsOK, Next, Action
    PROVE  OpsEv(page, runs', clock', todo')
  <1>1. todo # <<>> /\ todo[1].op = "action"
    BY DEF Action, At
  <1>2. PICK x : x = todo[1].x
    OBVIOUS
  <1> DEFINE ev == todo[1].ev
             n == ev.n
             o == ExecuteOp(x, ev)
             S == CallbackPositions(x)
  <1>n. n \in Nat /\ n <= clock' /\ Numbers(todo[1]) = {n} /\ OpEv(page, runs, clock, todo[1])
    BY <1>1, HeadEvent DEF Evented
  <1>3. Do(<<o>>)
    BY <1>2 DEF Action
  <1>4. Executable(runs, x) /\ Stored(runs, runs', x[1], x[2], S, ev)
    BY <1>2, ActionDoes
  <1>5. x[1] \in Element /\ x[2] \in DOMAIN runs[x[1]] /\ S \subseteq DOMAIN MetasOf(x[1], x[2])
    BY <1>4 DEF Executable, CallbackPositions
  <1>6. Advanced(runs, runs', n) /\ Grown(runs, runs')
    BY <1>4, StoredAdvances, RunsStep
  <1>7. Sees(page, runs', n, x)
    <2>1. Sees(page, runs, n, x)
      BY <1>1, <1>2, <1>n DEF OpEv
    <2>2. n >= n
      BY <1>n
    <2> HIDE DEF n
    <2> QED
      BY <1>n, <1>4, <1>6, <2>1, <2>2, SeesStays
  <1>8. CallsSee(page, runs', n, x)
    <2> SUFFICES ASSUME NEW y, Calls(page, runs', x, y)
                 PROVE  Sees(page, runs', n, y)
      BY DEF CallsSee
    <2>1. Calls(page, runs, x, y)
      BY <1>4, <1>6, CallsStay
    <2>2. y[1] = x[1] /\ y[2] = x[2] /\ Executable(runs, y)
      BY <2>1 DEF Calls
    <2>3. MetaAt(page, runs, y) = MetasOf(x[1], x[2])[y[3]] /\ MetaAt(page, runs, x) = Meta(x)
      BY <2>2 DEF MetaAt, MetasAt, MetasOf, Meta, RunOf
    <2>4. y[3] \in DOMAIN MetasOf(x[1], x[2])
      <3>1. y[3] \in DOMAIN runs[x[1]][x[2]].event
        BY <2>2 DEF Executable
      <3> QED
        BY <1>5, <3>1, PositionsKept
    <2>5. y[3] \in S
      BY <2>1, <2>3, <2>4 DEF Calls, CallbackPositions
    <2> HIDE DEF S
    <2> QED
      BY <1>n, <1>4, <1>5, <2>2, <2>5, StoredSees
  <1>9. OpEv(page, runs', clock', o) /\ Numbers(o) = {n}
    BY <1>n, <1>7, <1>8, EvKinds, EvKindsOK
  <1> HIDE DEF o
  <1>10. OpsEv(page, runs', clock', <<o>>)
    <2>1. OpEv(page, runs', clock', o)
      BY <1>9
    <2> QED
      BY <2>1, EvLists
  <1>a. \A i \in DOMAIN <<o>> : <<o>>[i] = o
    OBVIOUS
  <1>11. PICK a : a = <<o>>
    OBVIOUS
  <1>12. OpsEv(page, runs', clock', a) /\ Do(a) /\ \A i \in DOMAIN a : \A v \in Numbers(a[i]) : v \in Numbers(todo[1])
    BY <1>3, <1>9, <1>10, <1>a, <1>11, <1>n
  <1> QED
    BY <1>1, <1>n, <1>6, <1>12, EvPushed

\* No event is stored by what is done for any other operation.
LEMMA StoresNothing ==
    ASSUME todo # <<>>, todo[1].op \notin {"invoke", "actions", "action", "throw"}
    PROVE  ~ (Invoke \/ Actions \/ Action \/ BreakBefore)
  BY DEF Invoke, Actions, Action, BreakBefore, At

\* An executable is skipped, waits or runs: it sees what it saw.
LEMMA ExecuteEv ==
    ASSUME TypeInv, EventsOK, Next, Execute
    PROVE  OpsEv(page, runs', clock', todo')
  <1>1. todo # <<>> /\ todo[1].op = "execute"
    BY DEF Execute, At
  <1>2. PICK x, ev : x = todo[1].x /\ ev = todo[1].ev
    OBVIOUS
  <1>3. Do(<<>>) \/ Do(<<RunOp(x, ev)>>)
    BY <1>2 DEF Execute
  <1>4. ~ (Invoke \/ Actions \/ Action \/ BreakBefore)
    BY <1>1, StoresNothing
  <1>5. Numbers(todo[1]) = {ev.n} /\ ev.n \in Nat /\ ev.n <= clock'
    BY <1>1, <1>2, HeadEvent DEF Evented
  <1>6. OpEv(page, runs', clock', todo[1])
    BY <1>1, <1>4, HeadStays
  <1>7. Sees(page, runs', ev.n, x) /\ (IsAction(MetaAt(page, runs', x)) => CallsSee(page, runs', ev.n, x))
    BY <1>1, <1>2, <1>6 DEF OpEv
  <1>8. OpEv(page, runs', clock', RunOp(x, ev))
    BY <1>5, <1>7, EvKindsOK
  <1>9. \A n \in Numbers(RunOp(x, ev)) : n \in Numbers(todo[1])
    BY <1>5, EvKinds
  <1> HIDE DEF Do
  <1>10. CASE Do(<<>>)
    BY <1>1, <1>4, <1>10, EvPushed0
  <1>11. CASE Do(<<RunOp(x, ev)>>)
    BY <1>1, <1>4, <1>8, <1>9, <1>11, EvPushed1
  <1> QED
    BY <1>3, <1>10, <1>11

\* The callbacks of an action that runs see its event.
LEMMA RunSees ==
    ASSUME TypeInv, EventsOK, Next, todo # <<>>, todo[1].op = "run", IsAction(Meta(todo[1].x)),
           NEW x, x = todo[1].x, NEW ev, ev = todo[1].ev
    PROVE  /\ Numbers(todo[1]) = {ev.n}
           /\ \A res : OpEv(page, runs', clock', CompleteOp(x, ev, res))
           /\ Meta(x).type \in {"Ajax", "Submit"} =>
                 \A data : OpEv(page, runs', clock', [op |-> "send", x |-> x, ev |-> ev, data |-> data])
  <1>4. ~ (Invoke \/ Actions \/ Action \/ BreakBefore)
    BY StoresNothing
  <1>5. Numbers(todo[1]) = {ev.n} /\ ev.n \in Nat /\ ev.n <= clock'
    BY HeadEvent DEF Evented
  <1>6. OpEv(page, runs', clock', todo[1])
    BY <1>4, HeadStays, Zenon
  <1>7. MetaAt(page, runs', x) = Meta(x)
    <2>1. Executable(runs, x) /\ Grown(runs, runs')
      BY AtHeadExecutable, RunsStep
    <2>2. MetaAt(page, runs', x) = MetaAt(page, runs, x)
      BY <2>1, MetaStays
    <2> QED
      BY <2>2, Zenon DEF MetaAt, MetasAt, Meta, RunOf
  <1>8. CallsSee(page, runs', ev.n, x)
    BY <1>6, <1>7 DEF OpEv
  <1>9. \A res : OpEv(page, runs', clock', CompleteOp(x, ev, res))
    BY <1>5, <1>8, EvKindsOK
  <1>10. Meta(x).type \in {"Ajax", "Submit"} =>
            \A data : OpEv(page, runs', clock', [op |-> "send", x |-> x, ev |-> ev, data |-> data])
    <2> SUFFICES ASSUME Meta(x).type \in {"Ajax", "Submit"}, NEW data
                 PROVE  OpEv(page, runs', clock', [op |-> "send", x |-> x, ev |-> ev, data |-> data])
      OBVIOUS
    <2>1. MetaAt(page, runs', x).type \in {"Ajax", "Submit"}
      BY <1>7
    <2>2. PICK o : o = [op |-> "send", x |-> x, ev |-> ev, data |-> data]
      OBVIOUS
    <2>3. Numbers(o) = {ev.n}
      BY <2>2, EvKinds
    <2>4. o.op = "send" /\ o.x = x
      BY <2>2
    <2>5. OpEv(page, runs', clock', o)
      BY <1>5, <2>1, <2>3, <2>4 DEF OpEv
    <2> QED
      BY <2>2, <2>5
  <1> QED
    BY <1>5, <1>9, <1>10

\* An event before an operation of the event at hand.
LEMMA FiredThen ==
    ASSUME TypeInv, EventsOK, Next, todo # <<>>, ~ (Invoke \/ Actions \/ Action \/ BreakBefore),
           NEW o, Eventless(o), NEW p, OpEv(page, runs', clock', p), Numbers(p) = Numbers(todo[1]),
           Do(<<o, p>>)
    PROVE  OpsEv(page, runs', clock', todo')
  <1>1. Numbers(o) = {} /\ OpEv(page, runs', clock', o)
    BY EventlessOK
  <1> HIDE DEF Do
  <1> QED
    BY <1>1, EvPushed2

\* Actions that run complete or send what belongs to their event.
LEMMA RunActionEv ==
    ASSUME TypeInv, EventsOK, Next, Direct \/ Event \/ Ajax \/ Submit
    PROVE  OpsEv(page, runs', clock', todo')
  <1>1. todo # <<>> /\ todo[1].op = "run"
    BY DEF Direct, Event, Ajax, Submit, AtRun, At
  <1>2. PICK x, ev : x = todo[1].x /\ ev = todo[1].ev
    OBVIOUS
  <1>3. Meta(x).type \in ActionTypes /\ IsAction(Meta(todo[1].x))
    BY <1>2 DEF Direct, Event, Ajax, Submit, AtRun, At, ActionTypes, IsAction
  <1>4. ~ (Invoke \/ Actions \/ Action \/ BreakBefore)
    BY <1>1, StoresNothing
  <1>5. /\ Numbers(todo[1]) = {ev.n}
        /\ \A res : OpEv(page, runs', clock', CompleteOp(x, ev, res))
        /\ Meta(x).type \in {"Ajax", "Submit"} =>
              \A data : OpEv(page, runs', clock', [op |-> "send", x |-> x, ev |-> ev, data |-> data])
    BY <1>1, <1>2, <1>3, RunSees
  <1>6. \A res : Numbers(CompleteOp(x, ev, res)) = Numbers(todo[1])
    BY <1>5, EvKinds
  <1>7. ASSUME NEW res, Do(<<CompleteOp(x, ev, res)>>)
        PROVE  OpsEv(page, runs', clock', todo')
    <2>1. PICK p : p = CompleteOp(x, ev, res)
      OBVIOUS
    <2>2. OpEv(page, runs', clock', p) /\ Numbers(p) = Numbers(todo[1])
      BY <1>5, <1>6, <2>1
    <2>3. Do(<<p>>)
      BY <1>7, <2>1
    <2> HIDE DEF Do
    <2> QED
      BY <1>1, <1>4, <2>2, <2>3, EvPushed1
  <1>8. ASSUME NEW type, NEW site, NEW res, Do(<<FireOp(type, site, NoData), CompleteOp(x, ev, res)>>)
        PROVE  OpsEv(page, runs', clock', todo')
    <2>1. PICK o, p : o = FireOp(type, site, NoData) /\ p = CompleteOp(x, ev, res)
      OBVIOUS
    <2>2. OpEv(page, runs', clock', p) /\ Numbers(p) = Numbers(todo[1]) /\ Eventless(o)
      BY <1>5, <1>6, <2>1, EventlessKinds
    <2>3. Do(<<o, p>>)
      BY <1>8, <2>1
    <2> HIDE DEF Do
    <2> QED
      BY <1>1, <1>4, <2>2, <2>3, FiredThen
  <1>9. ASSUME Meta(x).type \in {"Ajax", "Submit"}, NEW type, NEW site, NEW data,
               Do(<<FireOp(type, site, NoData), [op |-> "send", x |-> x, ev |-> ev, data |-> data]>>)
        PROVE  OpsEv(page, runs', clock', todo')
    <2>1. PICK o, p : o = FireOp(type, site, NoData) /\ p = [op |-> "send", x |-> x, ev |-> ev, data |-> data]
      OBVIOUS
    <2>2. OpEv(page, runs', clock', p)
      BY <1>5, <1>9, <2>1
    <2>3. Numbers(p) = Numbers(todo[1]) /\ Eventless(o)
      BY <1>5, <2>1, EvKinds, EventlessKinds
    <2>4. Do(<<o, p>>)
      BY <1>9, <2>1
    <2> HIDE DEF Do
    <2> QED
      BY <1>1, <1>4, <2>2, <2>3, <2>4, FiredThen
  <1> HIDE DEF Do
  <1>10. CASE Direct
    <2>1. \E res : Do(<<CompleteOp(x, ev, res)>>)
      BY <1>2, <1>10 DEF Direct
    <2> QED
      BY <1>7, <2>1
  <1>11. CASE Event
    <2>1. \E res : Do(<<CompleteOp(x, ev, res)>>)
      BY <1>2, <1>11 DEF Event
    <2> QED
      BY <1>7, <2>1
  <1>12. CASE Ajax
    <2>1. \/ \E s : Do(<<FireOp("incajaxsuccess", Self(x), NoData), CompleteOp(x, ev, s.value)>>)
          \/ \E data : Do(<<FireOp("incajaxbefore", Self(x), NoData),
                            [op |-> "send", x |-> x, ev |-> ev, data |-> data]>>)
      BY <1>2, <1>12 DEF Ajax
    <2>2. Meta(x).type = "Ajax"
      BY <1>2, <1>12 DEF Ajax, AtRun
    <2> QED
      BY <1>8, <1>9, <2>1, <2>2
  <1>13. CASE Submit
    <2>1. \/ Do(<<>>)
          \/ \E data : Do(<<FireOp("incajaxbefore", Doc, NoData),
                            [op |-> "send", x |-> x, ev |-> ev, data |-> data]>>)
      BY <1>2, <1>13 DEF Submit
    <2>2. Meta(x).type = "Submit"
      BY <1>2, <1>13 DEF Submit, AtRun
    <2>3. CASE Do(<<>>)
      BY <1>1, <1>4, <2>3, EvPushed0
    <2> QED
      BY <1>9, <2>1, <2>2, <2>3
  <1> QED
    BY <1>10, <1>11, <1>12, <1>13

\* RedirectTo triggers an event or nothing.
LEMMA RedirectEv ==
    ASSUME TypeInv, EventsOK, Next, todo # <<>>, ~ (Invoke \/ Actions \/ Action \/ BreakBefore),
           NEW r, RedirectTo(r, <<>>)
    PROVE  OpsEv(page, runs', clock', todo')
  <1>1. CASE Do(<<>>)
    BY <1>1, EvPushed0
  <1>2. CASE Do(<<FireOp(ChangeUrl, Doc, NoData)>> \o <<>>)
    <2>1. \A o : <<o>> \o <<>> = <<o>>
      OBVIOUS
    <2>2. Do(<<FireOp(ChangeUrl, Doc, NoData)>>)
      BY <1>2, <2>1
    <2>3. Eventless(FireOp(ChangeUrl, Doc, NoData))
      BY EventlessKinds
    <2> QED
      BY <2>2, <2>3, EvPushedEventless
  <1> QED
    BY <1>1, <1>2 DEF RedirectTo

\* Executables that are no actions leave what belongs to no event yet.
LEMMA RunOtherEv ==
    ASSUME TypeInv, EventsOK, Next, Insert \/ Trigger \/ Break \/ Eval \/ HashStore \/ Attach \/ Detach
    PROVE  OpsEv(page, runs', clock', todo')
  <1>1. todo # <<>> /\ todo[1].op = "run"
    BY Zenon DEF Insert, Trigger, Break, Eval, HashStore, Attach, Detach, AtRun, At
  <1>2. ~ (Invoke \/ Actions \/ Action \/ BreakBefore)
    BY <1>1, StoresNothing
  <1>3. CASE Do(<<>>)
    BY <1>1, <1>2, <1>3, EvPushed0
  <1>4. CASE \E o : Eventless(o) /\ Do(<<o>>)
    BY <1>1, <1>2, <1>4, EvPushedEventless
  <1>5. CASE \E o, p : Eventless(o) /\ Eventless(p) /\ Do(<<o, p>>)
    BY <1>1, <1>2, <1>5, EvPushedEventless
  <1>6. CASE Insert
    <2>1. \/ \E kind : Do(<<ThrowOp(kind)>>)
          \/ Do(<<FireOp("incinsert", <<"window", 0>>, NoData)>>)
          \/ \E e : Do(<<ParseOp(e), FireOp("incinsert", <<"window", 0>>, NoData)>>)
      BY <1>6 DEF Insert
    <2> HIDE DEF Do
    <2> QED
      BY <1>4, <1>5, <2>1, EventlessKinds, Zenon
  <1>7. CASE Trigger
    <2>1. \E type, site, data : Do(<<FireOp(type, site, data)>>)
      BY <1>7 DEF Trigger
    <2> HIDE DEF Do
    <2> QED
      BY <1>4, <2>1, EventlessKinds
  <1>8. CASE Break \/ Eval
    <2>1. Do(<<>>) \/ \E kind : Do(<<ThrowOp(kind)>>)
      BY <1>8 DEF Break, Eval
    <2> HIDE DEF Do
    <2> QED
      BY <1>3, <1>4, <2>1, EventlessKinds, Zenon
  <1>9. CASE HashStore
    <2>1. \E r : RedirectTo(r, <<>>)
      BY <1>9 DEF HashStore
    <2> QED
      BY <1>1, <1>2, <2>1, RedirectEv
  <1>10. CASE Attach \/ Detach
    <2>1. Do(<<>>) \/ \E e : Do(<<ParseOp(e)>>)
      BY <1>10 DEF Attach, Detach
    <2> HIDE DEF Do
    <2> QED
      BY <1>3, <1>4, <2>1, EventlessKinds, Zenon
  <1> QED
    BY <1>6, <1>7, <1>8, <1>9, <1>10, Zenon

\* The end of a try, and what is kept for later.
LEMMA NothingLeftEv ==
    ASSUME TypeInv, EventsOK, Next, CatchNothing \/ CaughtNothing \/ Send \/ Store
    PROVE  OpsEv(page, runs', clock', todo')
  <1>1. todo # <<>> /\ todo[1].op \in {"catch", "caught", "send", "store"} /\ Do(<<>>)
    BY DEF CatchNothing, CaughtNothing, Send, Store, At
  <1>2. ~ (Invoke \/ Actions \/ Action \/ BreakBefore)
    BY <1>1, StoresNothing
  <1> HIDE DEF Do
  <1> QED
    BY <1>1, <1>2, EvPushed0

\* What a completion calls back sees its event.
LEMMA CalledBack ==
    ASSUME TypeInv, EventsOK, Next, todo # <<>>, todo[1].op = "complete",
           NEW x, x = todo[1].x, NEW ev, ev = todo[1].ev,
           NEW status \in {Success, Error, Complete, Breakes}, NEW p \in DOMAIN MetasOf(x[1], x[2]),
           ListOf(MetasOf(x[1], x[2])[p], status), MetasOf(x[1], x[2])[p].onBind = Meta(x).onBind,
           NEW y, y[1] = x[1], y[2] = x[2], y[3] = p
    PROVE  ~ IsAction(MetaAt(page, runs', y)) /\ Sees(page, runs', ev.n, y)
  <1>1. ~ (Invoke \/ Actions \/ Action \/ BreakBefore)
    BY StoresNothing
  <1>2. OpEv(page, runs', clock', todo[1])
    BY <1>1, HeadStays
  <1>3. CallsSee(page, runs', ev.n, x)
    BY <1>2 DEF OpEv
  <1>4. Executable(runs, x) /\ Grown(runs, runs')
    BY AtHeadExecutable, RunsStep
  <1>5. x[1] \in Element /\ x[2] \in DOMAIN runs[x[1]]
    BY <1>4 DEF Executable
  <1>6. DOMAIN MetasOf(x[1], x[2]) = DOMAIN runs[x[1]][x[2]].event
    BY <1>5, PositionsKept, Zenon
  <1>8. Executable(runs, y)
    BY <1>5, <1>6 DEF Executable
  <1>9. MetaAt(page, runs', y) = MetaAt(page, runs, y) /\ MetaAt(page, runs', x) = MetaAt(page, runs, x)
        /\ Executable(runs', y)
    BY <1>4, <1>8, MetaStays
  <1>10. MetaAt(page, runs, y) = MetasOf(x[1], x[2])[p] /\ MetaAt(page, runs, x) = Meta(x)
    BY Zenon DEF MetaAt, MetasAt, MetasOf, Meta, RunOf
  <1>11. ListOf(MetaAt(page, runs', y), status) /\ MetaAt(page, runs', y).onBind = MetaAt(page, runs', x).onBind
    BY <1>9, <1>10
  <1>12. Calls(page, runs', x, y)
    BY <1>9, <1>11 DEF Calls
  <1> QED
    BY <1>3, <1>11, <1>12 DEF CallsSee, ListOf

\* So do the executables on break.
LEMMA BreakesEv ==
    ASSUME NEW pg, NEW rs, NEW c, NEW n \in Nat, n <= c, NEW b, b.op = "breakes",
           \A i \in DOMAIN b.callbacks : CallbackSees(pg, rs, b.callbacks[i]),
           \A i \in DOMAIN b.callbacks : b.callbacks[i].ev.n = n
    PROVE  OpEv(pg, rs, c, b) /\ Numbers(b) \subseteq {n}
  <1>1. Numbers(b) \subseteq {n}
    BY DEF Numbers
  <1>2. \A v \in Numbers(b) : v \in Nat /\ v <= c
    BY <1>1
  <1> QED
    BY <1>1, <1>2 DEF OpEv

\* What a completion leaves belongs to the event of the action.
LEMMA CompletedEv ==
    ASSUME TypeInv, EventsOK, Next, Completed
    PROVE  OpsEv(page, runs', clock', todo')
  <1>1. todo # <<>> /\ todo[1].op = "complete"
    BY DEF Completed, At
  <1>0. ~ (Invoke \/ Actions \/ Action \/ BreakBefore)
    BY <1>1, StoresNothing
  <1>2. PICK x, ev, n : x = todo[1].x /\ ev = todo[1].ev /\ n = ev.n
    OBVIOUS
  <1>n. n \in Nat /\ ev.n \in Nat /\ n <= clock' /\ ev.n <= clock' /\ Numbers(todo[1]) = {n}
    BY <1>1, <1>2, HeadEvent DEF Evented
  <1>3. CASE todo[1].result.redirect # NoRedirect
    <2>1. RedirectTo(todo[1].result.redirect, <<>>)
      BY <1>3 DEF Completed
    <2> QED
      BY <1>0, <1>1, <2>1, RedirectEv
  <1>4. CASE todo[1].result.redirect = NoRedirect
    <2>1. x[1] \in Element /\ x[2] \in DOMAIN runs[x[1]] /\ page \in Page /\ AreRuns(page, runs) /\ Executable(runs, x)
      BY <1>1, <1>2, AtHeadExecutable, Zenon DEF Executable, TypeInv
    <2> DEFINE P(s) == {i \in DOMAIN MetasOf(x[1], x[2]) :
                           /\ ListOf(MetasOf(x[1], x[2])[i], s)
                           /\ MetasOf(x[1], x[2])[i].onBind = Meta(x).onBind}
               data == todo[1].result.data
               Call(last, y) == [op |-> "callback", x |-> y, ev |-> ev, data |-> data, last |-> last]
               status == IF todo[1].result.success THEN Success ELSE Error
               xs == CallbacksOf(x, status) \o CallbacksOf(x, Complete)
               ys == CallbacksOf(x, Breakes)
               ops == [i \in DOMAIN xs |-> Call(FALSE, xs[i])]
               last == [i \in DOMAIN ys |-> Call(TRUE, ys[i])]
               b == [op |-> "breakes", hasBreak |-> FALSE, callbacks |-> last]
    <2>2. Do(ops \o <<b>>)
      BY <1>2, <1>4 DEF Completed, Each
    <2>3. \A s : Lists(x[1], x[2], P(s), CallbacksOf(x, s))
      BY <2>1, CallbacksLists
    <2>4. ops = [i \in DOMAIN xs |-> ops[i]] /\ \A i \in DOMAIN xs : ops[i] = Call(FALSE, xs[i])
      OBVIOUS
    <2>5. last = [i \in DOMAIN ys |-> last[i]] /\ \A i \in DOMAIN ys : last[i] = Call(TRUE, ys[i])
      OBVIOUS
    <2>6. \A s \in {Success, Error, Complete, Breakes} :
             \A y : y[1] = x[1] /\ y[2] = x[2] /\ y[3] \in P(s) =>
                ~ IsAction(MetaAt(page, runs', y)) /\ Sees(page, runs', ev.n, y)
      <3> SUFFICES ASSUME NEW s \in {Success, Error, Complete, Breakes}, NEW y,
                          y[1] = x[1], y[2] = x[2], y[3] \in P(s)
                   PROVE  ~ IsAction(MetaAt(page, runs', y)) /\ Sees(page, runs', ev.n, y)
        OBVIOUS
      <3>1. PICK p : p = y[3] /\ p \in DOMAIN MetasOf(x[1], x[2])
        OBVIOUS
      <3>2. ListOf(MetasOf(x[1], x[2])[p], s) /\ MetasOf(x[1], x[2])[p].onBind = Meta(x).onBind
        BY <3>1
      <3> HIDE DEF P
      <3> QED
        BY <1>1, <1>2, <3>1, <3>2, CalledBack
    <2>7. status \in {Success, Error, Complete, Breakes}
      OBVIOUS
    <2>8. b.op = "breakes" /\ b.callbacks = last
      OBVIOUS
    <2> HIDE DEF P, status, ops, xs, ys, last, b
    <2>9. Lists(x[1], x[2], P(status) \cup P(Complete), xs) /\ Lists(x[1], x[2], P(Breakes), ys)
      BY <2>3, ListsConcat DEF xs, ys
    <2>10. \A i \in DOMAIN xs : ~ IsAction(MetaAt(page, runs', xs[i])) /\ Sees(page, runs', ev.n, xs[i])
      <3> SUFFICES ASSUME NEW i \in DOMAIN xs
                   PROVE  ~ IsAction(MetaAt(page, runs', xs[i])) /\ Sees(page, runs', ev.n, xs[i])
        OBVIOUS
      <3>1. xs[i][3] \in P(status) \cup P(Complete) /\ xs[i] = <<x[1], x[2], xs[i][3]>>
        BY <2>9 DEF Lists
      <3>2. xs[i][1] = x[1] /\ xs[i][2] = x[2]
        BY <3>1
      <3> QED
        BY <2>6, <2>7, <3>1, <3>2
    <2>11. \A i \in DOMAIN ys : ~ IsAction(MetaAt(page, runs', ys[i])) /\ Sees(page, runs', ev.n, ys[i])
      <3> SUFFICES ASSUME NEW i \in DOMAIN ys
                   PROVE  ~ IsAction(MetaAt(page, runs', ys[i])) /\ Sees(page, runs', ev.n, ys[i])
        OBVIOUS
      <3>1. ys[i][3] \in P(Breakes) /\ ys[i] = <<x[1], x[2], ys[i][3]>>
        BY <2>9 DEF Lists
      <3>2. ys[i][1] = x[1] /\ ys[i][2] = x[2]
        BY <3>1
      <3> QED
        BY <2>6, <3>1, <3>2
    <2>12. IsSeq(xs) /\ IsSeq(ys)
      BY <2>9 DEF Lists
    <2>13. IsSeq(ops) /\ DOMAIN ops = DOMAIN xs /\ IsSeq(last) /\ DOMAIN last = DOMAIN ys
      BY <2>4, <2>5, <2>12, Mapped
    <2>14. \A i \in DOMAIN ops : Numbers(ops[i]) \subseteq {n}
      BY <1>2, <2>4, <2>13, EvKinds
    <2>15. ASSUME NEW i \in DOMAIN ops PROVE OpEv(page, runs', clock', ops[i])
      <3>1. ops[i] = Call(FALSE, xs[i]) /\ ~ IsAction(MetaAt(page, runs', xs[i])) /\ Sees(page, runs', ev.n, xs[i])
        BY <2>4, <2>10, <2>13
      <3> QED
        BY <1>n, <3>1, EvKindsOK
    <2>16. \A i \in DOMAIN b.callbacks : CallbackSees(page, runs', b.callbacks[i])
      <3>1. \A i \in DOMAIN last : last[i].x = ys[i] /\ last[i].ev = ev
        BY <2>5, <2>13
      <3> QED
        BY <2>8, <2>11, <2>13, <3>1 DEF CallbackSees
    <2>17. \A i \in DOMAIN b.callbacks : b.callbacks[i].ev.n = n
      BY <1>2, <2>5, <2>8, <2>13
    <2>18. OpEv(page, runs', clock', b) /\ Numbers(b) \subseteq {n}
      <3>1. n \in Nat /\ n <= clock' /\ b.op = "breakes"
        BY <1>n, <2>8
      <3>2. OpEv(page, runs', clock', b)
        BY <2>16, <2>17, <3>1, BreakesEv
      <3>3. Numbers(b) \subseteq {n}
        BY <2>16, <2>17, <3>1, BreakesEv
      <3> QED
        BY <3>2, <3>3
    <2>19. PICK p : p = <<b>>
      OBVIOUS
    <2>20. IsSeq(p) /\ \A i \in DOMAIN p : p[i] = b
      BY <2>19, IsSeqTuples
    <2>21. IsSeq(ops) /\ IsSeq(p) /\ n \in Nat
      BY <1>n, <2>13, <2>20
    <2>22. \A i \in DOMAIN p : OpEv(page, runs', clock', p[i])
      BY <2>18, <2>20
    <2>23. \A i \in DOMAIN p : Numbers(p[i]) \subseteq {n}
      BY <2>18, <2>20
    <2>24. PICK all : all = ops \o p
      OBVIOUS
    <2>25. OpsEv(page, runs', clock', all)
      BY <2>14, <2>15, <2>21, <2>22, <2>23, <2>24, SameEventJoined, Zenon
    <2>26. \A i \in DOMAIN all : Numbers(all[i]) \subseteq {n}
      BY <2>14, <2>15, <2>21, <2>22, <2>23, <2>24, SameEventJoined
    <2>27. Do(all)
      BY <2>2, <2>19, <2>24
    <2> HIDE DEF Do
    <2> QED
      BY <1>0, <1>1, <1>n, <2>25, <2>26, <2>27, EvPushedQuietly, Zenon
  <1> QED
    BY <1>3, <1>4

\* A callback begins: it sees what it saw.
LEMMA CallbackEv ==
    ASSUME TypeInv, EventsOK, Next, Callback
    PROVE  OpsEv(page, runs', clock', todo')
  <1>1. PICK x, ev, p : /\ todo # <<>> /\ todo[1].op = "callback" /\ x = todo[1].x /\ ev = todo[1].ev
                        /\ Eventless(p) /\ Do(<<ExecuteOp(x, ev), p>>)
    BY EventlessKinds, Zenon DEF Callback, At
  <1>2. ~ (Invoke \/ Actions \/ Action \/ BreakBefore)
    BY <1>1, StoresNothing
  <1>3. Numbers(todo[1]) = {ev.n} /\ ev.n \in Nat /\ ev.n <= clock'
    BY <1>1, HeadEvent DEF Evented
  <1>4. OpEv(page, runs', clock', todo[1])
    BY <1>1, <1>2, HeadStays
  <1>5. ~ IsAction(MetaAt(page, runs', x)) /\ Sees(page, runs', ev.n, x)
    BY <1>1, <1>4 DEF OpEv, CallbackSees
  <1>6. PICK o : o = ExecuteOp(x, ev)
    OBVIOUS
  <1>7. OpEv(page, runs', clock', o)
    BY <1>3, <1>5, <1>6, EvKindsOK
  <1>8. Numbers(o) = {ev.n}
    BY <1>6, EvKinds
  <1>9. Numbers(p) = {} /\ Bounds(p) = {} /\ OpEv(page, runs', clock', p)
    BY <1>1, EventlessOK
  <1>10. Do(<<o, p>>)
    BY <1>1, <1>6
  <1> HIDE DEF Do
  <1> QED
    BY <1>1, <1>2, <1>3, <1>7, <1>8, <1>9, <1>10, EvPushed2

\* The executables on break begin.
LEMMA BreakCallbacksEv ==
    ASSUME TypeInv, EventsOK, Next, BreakCallbacks
    PROVE  OpsEv(page, runs', clock', todo')
  <1>1. todo # <<>> /\ todo[1].op = "breakes" /\ (Do(<<>>) \/ Do(todo[1].callbacks))
    BY DEF BreakCallbacks, At
  <1>2. ~ (Invoke \/ Actions \/ Action \/ BreakBefore)
    BY <1>1, StoresNothing
  <1>3. CASE Do(<<>>)
    BY <1>1, <1>2, <1>3, EvPushed0
  <1>4. CASE Do(todo[1].callbacks)
    <2>1. PICK b, cs : b = todo[1] /\ cs = b.callbacks
      OBVIOUS
    <2>2. OpEv(page, runs', clock', b) /\ b.op = "breakes"
      BY <1>1, <1>2, <2>1, HeadStays
    <2>3. IsSeq(cs) /\ \A i \in DOMAIN cs : cs[i].op = "callback"
      <3>1. OpOK(runs, todo[1])
        BY <1>1, AtHead
      <3> QED
        BY <1>1, <2>1, <3>1 DEF OpOK
    <2>4. \A i \in DOMAIN cs : /\ CallbackSees(page, runs', cs[i])
                               /\ \A j \in DOMAIN cs : cs[i].ev.n = cs[j].ev.n
      BY <2>1, <2>2 DEF OpEv
    <2>5. Numbers(b) = {cs[i].ev.n : i \in DOMAIN cs}
      BY <2>1, <2>2 DEF Numbers
    <2>6. ASSUME NEW i \in DOMAIN cs
          PROVE  /\ Numbers(cs[i]) = {cs[i].ev.n} /\ cs[i].ev.n \in Numbers(b)
                 /\ cs[i].ev.n \in Nat /\ cs[i].ev.n <= clock'
      <3>1. Numbers(cs[i]) = {cs[i].ev.n}
        BY <2>3 DEF Numbers, Evented
      <3> QED
        BY <2>2, <2>5, <3>1 DEF OpEv
    <2>7. ASSUME NEW i \in DOMAIN cs PROVE OpEv(page, runs', clock', cs[i])
      <3>1. \A v \in Numbers(cs[i]) : v \in Nat /\ v <= clock'
        BY <2>6
      <3> QED
        BY <2>3, <2>4, <3>1 DEF OpEv
    <2>8. Ordered(cs)
      <3> SUFFICES ASSUME NEW i \in DOMAIN cs, NEW j \in DOMAIN cs, NEW v \in Numbers(cs[i]), NEW w \in Bounds(cs[j])
                   PROVE  v >= w
        BY DEF Ordered
      <3>1. v = cs[i].ev.n /\ w = cs[j].ev.n /\ v \in Nat
        BY <2>6, BoundsAreNumbers
      <3> QED
        BY <2>4, <3>1
    <2>9. OpsEv(page, runs', clock', cs)
      BY <2>3, <2>7, <2>8 DEF OpsEv
    <2>10. \A i \in DOMAIN cs : \A v \in Numbers(cs[i]) : v \in Numbers(todo[1])
      BY <2>1, <2>6
    <2>11. Do(cs)
      BY <1>4, <2>1
    <2> HIDE DEF Do
    <2> QED
      BY <1>1, <1>2, <2>9, <2>10, <2>11, EvPushedQuietly
  <1> QED
    BY <1>1, <1>3, <1>4

-------------------------------------------------------------------------------
(* Exceptions and tasks *)

\* What is left behind the operation that catches an exception, before an event is stored.
LEMMA AfterEv ==
    ASSUME TypeInv, EventsOK, NEW k \in Nat, NEW after, after = After(k)
    PROVE  /\ OpsOK(runs, after)
           /\ OpsEv(page, runs, clock, after)
           /\ \A i \in 1..k : i \in DOMAIN todo =>
                 \A j \in DOMAIN after : \A v \in Numbers(todo[i]), b \in Bounds(after[j]) : v >= b
  <1>1. OpsInv(runs, todo) /\ Len(todo) \in Nat /\ DOMAIN todo = 1..Len(todo)
    BY IsSeqDom DEF TypeInv, OpsInv, OpsOK
  <1>2. CASE k <= Len(todo)
    <2>1. k \in 0..Len(todo)
      BY <1>1, <1>2
    <2>2. OpsOK(runs, after)
      BY <1>1, <2>1, Suffix DEF After, OpsInv
    <2>3. OpsEv(page, runs, clock, todo)
      BY DEF EventsOK
    <2>4. OpsEv(page, runs, clock, after)
      BY <2>1, <2>3, EvSuffix DEF After
    <2>5. \A i \in 1..k : \A j \in DOMAIN after : \A v \in Numbers(todo[i]), b \in Bounds(after[j]) : v >= b
      BY <2>1, <2>3, EvSuffix DEF After
    <2> QED
      BY <2>2, <2>4, <2>5
  <1>3. CASE k > Len(todo)
    <2>1. PICK n \in Nat : n = Len(todo) /\ k > n
      BY <1>1, <1>3, Zenon
    <2>2. SubSeq(todo, k + 1, n) = <<>>
      <3>1. k + 1 > n
        BY <2>1
      <3> QED
        BY <2>1, <3>1
    <2>3. after = <<>>
      BY <2>1, <2>2 DEF After
    <2>4. OpsOK(runs, <<>>) /\ OpsEv(page, runs, clock, <<>>) /\ DOMAIN <<>> = {}
      BY Ops, EvLists, IsSeqEmpty
    <2> QED
      BY <2>3, <2>4, Zenon
  <1> QED
    BY <1>1, <1>2, <1>3

\* A Break before the action: the executables on break see the event of the action.
LEMMA BreakBeforeEv ==
    ASSUME TypeInv, EventsOK, Next, BreakBefore
    PROVE  OpsEv(page, runs', clock', todo')
  <1>1. PICK i, c, ev, n : i = FirstOf(Catchers(todo[1].kind)) /\ c = todo[i] /\ ev = c.ev /\ n = ev.n
    BY Zenon
  <1> DEFINE xs == BreakesOf(c.e, c.r, ev.type)
             ops == [k \in DOMAIN xs |-> ExecuteOp(xs[k], ev)]
             S == BreakesPositions(c.e, c.r, ev.type)
  <1>2. /\ At("throw") /\ Catchers(todo[1].kind) # {} /\ c.op = "catch" /\ todo' = ops \o After(i + 1)
        /\ clock' = clock
    BY <1>1, ZenonT(30) DEF BreakBefore, Each
  <1>3. i \in DOMAIN todo /\ i \in Nat /\ i > 1
    BY <1>1, <1>2, CatcherDoes, Zenon
  <1>4. /\ c.e \in Element /\ c.r \in DOMAIN runs[c.e]
        /\ Lists(c.e, c.r, S, xs)
        /\ Stored(runs, runs', c.e, c.r, S, ev)
    BY <1>1, BreakBeforeDoes
  <1>5. S \subseteq DOMAIN MetasOf(c.e, c.r) /\ \A p \in S : ~ IsAction(MetasOf(c.e, c.r)[p])
    BY Zenon DEF BreakesPositions, ListOf
  <1>6. n \in Nat /\ ev.n \in Nat /\ n <= clock /\ ev.n <= clock' /\ Numbers(c) = {n}
    <2>1. OpEv(page, runs, clock, c)
      BY <1>1, <1>3, Zenon DEF EventsOK, OpsEv
    <2>2. Numbers(c) = {n}
      BY <1>1, <1>2, ZenonT(30) DEF Numbers, Evented
    <2> QED
      BY <1>1, <1>2, <2>1, <2>2, Zenon DEF OpEv
  <1>7. Advanced(runs, runs', n)
    BY <1>1, <1>4, StoredAdvances
  <1>8. ops = [k \in DOMAIN xs |-> ops[k]] /\ \A k \in DOMAIN xs : ops[k] = ExecuteOp(xs[k], ev)
    OBVIOUS
  <1> HIDE DEF ops, xs, S
  <1>9. ASSUME NEW k \in DOMAIN xs
        PROVE  Sees(page, runs', ev.n, xs[k]) /\ ~ IsAction(MetaAt(page, runs', xs[k]))
    <2>1. xs[k][3] \in S /\ xs[k] = <<c.e, c.r, xs[k][3]>>
      BY <1>4 DEF Lists
    <2>2. xs[k][1] = c.e /\ xs[k][2] = c.r
      BY <2>1
    <2>3. S \subseteq DOMAIN MetasOf(c.e, c.r)
      BY <1>5
    <2>4. Sees(page, runs', ev.n, xs[k])
      BY <1>4, <1>6, <2>1, <2>2, <2>3, StoredSees
    <2>5. MetaAt(page, runs', xs[k]) = MetasOf(c.e, c.r)[xs[k][3]]
      BY <1>4, <1>6, <2>1, <2>2, <2>3, StoredSees
    <2> QED
      BY <1>5, <2>1, <2>4, <2>5
  <1>10. IsSeq(ops) /\ DOMAIN ops = DOMAIN xs
    <2>1. IsSeq(xs)
      BY <1>4 DEF Lists
    <2> QED
      BY <1>8, <2>1, Mapped
  <1>11. \A k \in DOMAIN ops : Numbers(ops[k]) = {n}
    BY <1>1, <1>8, <1>10, EvKinds
  <1>12. ASSUME NEW k \in DOMAIN ops PROVE OpEv(page, runs', clock', ops[k])
    <2>1. ops[k] = ExecuteOp(xs[k], ev) /\ Sees(page, runs', ev.n, xs[k]) /\ ~ IsAction(MetaAt(page, runs', xs[k]))
      BY <1>8, <1>9, <1>10
    <2> QED
      BY <1>6, <2>1, EvKindsOK
  <1>13. OpsEv(page, runs', clock', ops)
    <2>1. \A k \in DOMAIN ops : Numbers(ops[k]) \subseteq {n}
      BY <1>11
    <2>2. IsSeq(ops) /\ n \in Nat
      BY <1>6, <1>10
    <2> QED
      BY <1>12, <2>1, <2>2, SameEvent
  <1>14. PICK after : after = After(i + 1)
    OBVIOUS
  <1>15. /\ OpsOK(runs, after) /\ OpsEv(page, runs, clock, after)
         /\ \A j \in DOMAIN after : \A b \in Bounds(after[j]) : n >= b
    <2>1. PICK k \in Nat : k = i + 1 /\ i \in 1..k
      BY <1>3
    <2>2. after = After(k)
      BY <1>14, <2>1
    <2>3. /\ OpsOK(runs, after) /\ OpsEv(page, runs, clock, after)
          /\ \A l \in 1..k : l \in DOMAIN todo =>
                 \A j \in DOMAIN after : \A v \in Numbers(todo[l]), b \in Bounds(after[j]) : v >= b
      BY <2>2, AfterEv
    <2>4. n \in Numbers(todo[i])
      BY <1>1, <1>6
    <2> QED
      BY <1>3, <2>1, <2>3, <2>4
  <1>16. OpsEv(page, runs', clock', after)
    <2>1. clock \in Nat /\ clock' \in Nat /\ clock' >= clock
      BY ClockStep DEF TypeInv, CountersOK
    <2>2. OpsOK(runs, after) /\ OpsEv(page, runs, clock, after)
      BY <1>15
    <2>3. \A j \in DOMAIN after : \A b \in Bounds(after[j]) : n >= b
      BY <1>15
    <2> QED
      BY <1>6, <1>7, <2>1, <2>2, <2>3, OpsEvStay
  <1>17. \A k \in DOMAIN ops : \A j \in DOMAIN after : \A v \in Numbers(ops[k]), w \in Bounds(after[j]) : v >= w
    BY <1>11, <1>15
  <1>18. PICK all : all = ops \o after
    OBVIOUS
  <1>19. OpsEv(page, runs', clock', all)
    BY <1>13, <1>16, <1>17, <1>18, EvJoined
  <1> QED
    BY <1>2, <1>14, <1>18, <1>19

\* What is left behind the operation that catches, where no event is stored.
LEMMA AfterEvKept ==
    ASSUME TypeInv, EventsOK, Next, runs' = runs, clock' = clock, NEW k \in Nat, NEW after, after = After(k)
    PROVE  OpsEv(page, runs', clock', after)
  BY AfterEv

\* Nothing is left of a task that throws.
LEMMA UncaughtEv ==
    ASSUME TypeInv, EventsOK, Next, Uncaught
    PROVE  OpsEv(page, runs', clock', todo')
  <1>1. todo' = <<>>
    BY DEF Uncaught
  <1>2. OpsEv(page, runs', clock', <<>>)
    BY EvLists
  <1> QED
    BY <1>1, <1>2

\* An exception is announced and thrown again.
LEMMA RethrowEv ==
    ASSUME TypeInv, EventsOK, Next, RethrowCallback
    PROVE  OpsEv(page, runs', clock', todo')
  <1>1. PICK o, p, i : /\ Eventless(o) /\ Eventless(p) /\ i = FirstOf(Catchers("error"))
                       /\ todo' = <<o, p>> \o After(i)
    BY EventlessKinds DEF RethrowCallback
  <1>2. At("throw") /\ Catchers("error") # {} /\ runs' = runs /\ clock' = clock
    BY DEF RethrowCallback, dom
  <1>3. i \in Nat
    BY <1>1, <1>2, CatcherDoes
  <1>4. PICK after : after = After(i)
    OBVIOUS
  <1>5. OpsEv(page, runs', clock', after)
    BY <1>2, <1>3, <1>4, AfterEvKept
  <1>6. Numbers(o) = {} /\ OpEv(page, runs', clock', o) /\ Numbers(p) = {} /\ OpEv(page, runs', clock', p)
    BY <1>1, EventlessOK
  <1>7. OpsEv(page, runs', clock', <<o, p>>)
    <2>1. OpEv(page, runs', clock', o) /\ OpEv(page, runs', clock', p) /\ \A n \in Numbers(o), b \in Bounds(p) : n >= b
      BY <1>6
    <2> QED
      BY <2>1, EvLists
  <1>8. \A k \in DOMAIN <<o, p>> : Numbers(<<o, p>>[k]) = {}
    BY <1>6
  <1>9. PICK a : a = <<o, p>>
    OBVIOUS
  <1>10. OpsEv(page, runs', clock', a)
         /\ \A k \in DOMAIN a : \A j \in DOMAIN after : \A v \in Numbers(a[k]), w \in Bounds(after[j]) : v >= w
    BY <1>7, <1>8, <1>9
  <1>11. PICK all : all = a \o after
    OBVIOUS
  <1>12. OpsEv(page, runs', clock', all)
    BY <1>5, <1>10, <1>11, EvJoined
  <1> QED
    BY <1>1, <1>4, <1>9, <1>11, <1>12

\* To note a Break changes no event.
LEMMA SetBreakEv ==
    ASSUME NEW pg, NEW rs, NEW c, NEW ops, OpsEv(pg, rs, c, ops), OpsInv(rs, ops),
           NEW j \in DOMAIN ops, ops[j].op = "breakes"
    PROVE  OpsEv(pg, rs, c, SetBreak(ops, j))
  <1>1. PICK all : all = SetBreak(ops, j)
    OBVIOUS
  <1>2. /\ DOMAIN all = DOMAIN ops
        /\ \A k \in DOMAIN ops : k # j => all[k] = ops[k]
        /\ all[j] = [op |-> "breakes", hasBreak |-> TRUE, callbacks |-> ops[j].callbacks]
        /\ IsSeq(all)
    BY <1>1, SetBreakDoes DEF OpsInv, OpsOK
  <1>3. all[j].op = "breakes" /\ all[j].callbacks = ops[j].callbacks
    BY <1>2
  <1>4. Numbers(all[j]) = Numbers(ops[j]) /\ Bounds(all[j]) = Bounds(ops[j])
    BY <1>3 DEF Numbers, Bounds
  <1>5. OpEv(pg, rs, c, all[j])
    <2>1. OpEv(pg, rs, c, ops[j])
      BY DEF OpsEv
    <2> QED
      BY <1>3, <1>4, <2>1 DEF OpEv
  <1>6. \A k \in DOMAIN ops : Numbers(all[k]) = Numbers(ops[k]) /\ Bounds(all[k]) = Bounds(ops[k])
    BY <1>2, <1>4
  <1>7. \A k \in DOMAIN ops : OpEv(pg, rs, c, all[k])
    BY <1>2, <1>5 DEF OpsEv
  <1>8. Ordered(all)
    BY <1>2, <1>6 DEF OpsEv, Ordered
  <1> QED
    BY <1>1, <1>2, <1>7, <1>8 DEF OpsEv

\* The Break of a callback is noted.
LEMMA BreakCallbackEv ==
    ASSUME TypeInv, EventsOK, Next, BreakCallback
    PROVE  OpsEv(page, runs', clock', todo')
  <1>1. PICK i, after : i = FirstOf(Catchers("break")) /\ after = After(i)
    OBVIOUS
  <1> DEFINE j == FirstOf({k \in DOMAIN after : after[k].op = "breakes"})
  <1>2. /\ At("throw") /\ Catchers("break") # {} /\ todo[i].op = "caught" /\ runs' = runs /\ clock' = clock
        /\ todo' = IF todo[i].last THEN after ELSE SetBreak(after, j)
    BY <1>1 DEF BreakCallback, SetBreak, dom
  <1>3. i \in DOMAIN todo /\ i \in Nat /\ i <= Len(todo) /\ Len(todo) \in Nat
    <2>1. IsSeq(todo)
      BY DEF TypeInv, OpsOK
    <2> QED
      BY <1>1, <1>2, <2>1, CatcherDoes, IsSeqDom
  <1>4. OpsEv(page, runs', clock', after)
    BY <1>1, <1>2, <1>3, AfterEvKept
  <1>5. CASE todo[i].last
    BY <1>2, <1>4, <1>5
  <1>6. CASE ~ todo[i].last
    <2>1. j \in DOMAIN after /\ after[j].op = "breakes"
      BY <1>1, <1>2, <1>3, <1>6, BreakesFollow
    <2>2. OpsInv(runs', after)
      <3>1. i \in 0..Len(todo)
        BY <1>3
      <3> QED
        BY <1>1, <3>1, AfterKept
    <2> HIDE DEF j
    <2>3. OpsEv(page, runs', clock', SetBreak(after, j))
      BY <1>4, <2>1, <2>2, SetBreakEv
    <2> QED
      BY <1>2, <1>6, <2>3
  <1> QED
    BY <1>5, <1>6

\* Elements that are initialised get events of their own.
LEMMA ParseEv ==
    ASSUME TypeInv, EventsOK, Next, ParseContext
    PROVE  OpsEv(page, runs', clock', todo')
  <1>1. todo # <<>> /\ todo[1].op = "parse"
    BY DEF ParseContext, At
  <1>2. ~ (Invoke \/ Actions \/ Action \/ BreakBefore)
    BY <1>1, StoresNothing
  <1>3. PICK ds : /\ IsSeq(ds) /\ clock' = clock + Len(ds)
                  /\ Do([i \in DOMAIN ds |->
                           InvokeOp(<<ds[i], node[ds[i]]>>,
                                    [type |-> InitIncoding, n |-> clock + i, data |-> NoData])])
    BY ParseDoes
  <1>4. clock \in Nat /\ Len(ds) \in Nat /\ DOMAIN ds = 1..Len(ds)
    BY <1>3, IsSeqDom DEF TypeInv, CountersOK
  <1> DEFINE ops == [i \in DOMAIN ds |->
                        InvokeOp(<<ds[i], node[ds[i]]>>,
                                 [type |-> InitIncoding, n |-> clock + i, data |-> NoData])]
  <1>5. ASSUME NEW i \in DOMAIN ds
        PROVE  Numbers(ops[i]) = {clock + i} /\ Bounds(ops[i]) = {} /\ OpEv(page, runs', clock', ops[i])
    <2>1. PICK site, ev : ops[i] = InvokeOp(site, ev) /\ ev.n = clock + i
      OBVIOUS
    <2>2. ev.n \in Nat /\ ev.n <= clock'
      BY <1>3, <1>4, <2>1
    <2> HIDE DEF ops
    <2>3. Numbers(ops[i]) = {ev.n} /\ Bounds(ops[i]) = {}
      BY <2>1, EvKinds
    <2>4. OpEv(page, runs', clock', ops[i])
      BY <2>1, <2>2, EvKindsOK
    <2> QED
      BY <2>1, <2>3, <2>4
  <1>6. Do(ops) /\ ops = [i \in DOMAIN ds |-> ops[i]]
    BY <1>3
  <1> HIDE DEF ops, Do
  <1>7. IsSeq(ops) /\ DOMAIN ops = DOMAIN ds
    BY <1>3, <1>6, Mapped
  <1>8. Ordered(ops)
    BY <1>5, <1>7 DEF Ordered
  <1>9. OpsEv(page, runs', clock', ops)
    BY <1>5, <1>7, <1>8 DEF OpsEv
  <1>10. \A i \in DOMAIN ops : \A n \in Numbers(ops[i]) : n \in Numbers(todo[1]) \/ n > clock
    <2> SUFFICES ASSUME NEW i \in DOMAIN ops, NEW n \in Numbers(ops[i]) PROVE n > clock
      OBVIOUS
    <2>1. n = clock + i /\ i \in 1..Len(ds)
      BY <1>4, <1>5, <1>7
    <2> QED
      BY <1>4, <2>1
  <1> QED
    BY <1>1, <1>2, <1>6, <1>9, <1>10, EvPushedQuietly

\* The executables that run when an action completes late, run late.
LEMMA LateCalls ==
    ASSUME TypeInv, Next, NEW x, Executable(runs, x), IsAction(MetaAt(page, runs, x)),
           MetaAt(page, runs, x).type \in {"Ajax", "Submit"} \/ MetaAt(page, runs, x).delay # "none",
           NEW n
    PROVE  CallsSee(page, runs', n, x)
  <1> SUFFICES ASSUME NEW y, Calls(page, runs', x, y)
               PROVE  Sees(page, runs', n, y)
    BY DEF CallsSee
  <1>1. Grown(runs, runs')
    BY RunsStep
  <1>2. Calls(page, runs, x, y)
    BY <1>1, CallsStay
  <1>3. Executable(runs, y) /\ y[1] = x[1] /\ y[2] = x[2] /\ MetaAt(page, runs, y).onBind = MetaAt(page, runs, x).onBind
    BY <1>2 DEF Calls
  <1>4. MetasAt(page, runs, y) = MetasAt(page, runs, x)
    BY <1>3 DEF MetasAt
  <1>5. x[3] \in DOMAIN MetasAt(page, runs, x)
    <2>1. x[1] \in Element /\ x[2] \in DOMAIN runs[x[1]] /\ x[3] \in DOMAIN runs[x[1]][x[2]].event
      BY DEF Executable
    <2>2. x[3] \in DOMAIN MetasOf(x[1], x[2])
      BY <2>1, PositionsKept
    <2> QED
      BY <2>2 DEF MetasAt, MetasOf
  <1>6. MetaAt(page, runs, x) = MetasAt(page, runs, x)[x[3]]
    BY DEF MetaAt
  <1>7. Late(page, runs, y)
    BY <1>3, <1>4, <1>5, <1>6 DEF Late
  <1>8. Late(page, runs', y)
    BY <1>1, <1>3, <1>7, MetaStays
  <1> QED
    BY <1>8 DEF Sees

\* An answer completes the action it was asked for.
LEMMA AnswerEv ==
    ASSUME TypeInv, EventsOK, WaitingEv, Next, NEW r \in requests, Answer(r)
    PROVE  OpsEv(page, runs', clock', todo')
  <1>1. PICK success, redirect :
           LET result == Result(success, r.data, redirect)
               site == IF IsSubmit(r) THEN Doc ELSE Self(r.x)
               d == FireOp("incajaxcomplete", site, r.data)
               c == CompleteOp(r.x, r.ev, result)
               kept == IF Meta(r.x).localCache
                          THEN <<[op |-> "store", key |-> <<Meta(r.x).arg, r.data.asked>>,
                                    value |-> result]>> ELSE <<>>
           IN  todo' = <<FireOp("incajaxsuccess", site, r.data)>>
                          \o IF IsSubmit(r) THEN <<d, c>> ELSE kept \o <<c, d>>
    BY DEF Answer
  <1> DEFINE result == Result(success, r.data, redirect)
             site == IF IsSubmit(r) THEN Doc ELSE Self(r.x)
             o == FireOp("incajaxsuccess", site, r.data)
             d == FireOp("incajaxcomplete", site, r.data)
             c == CompleteOp(r.x, r.ev, result)
             s == [op |-> "store", key |-> <<Meta(r.x).arg, r.data.asked>>, value |-> result]
             kept == IF Meta(r.x).localCache THEN <<s>> ELSE <<>>
  <1>2. clock' = clock
    BY DEF Answer
  <1>3. PICK n : n = r.ev.n
    OBVIOUS
  <1>4. n \in Nat /\ r.ev.n \in Nat /\ r.ev.n <= clock' /\ MetaAt(page, runs, r.x).type \in {"Ajax", "Submit"}
    BY <1>2, <1>3 DEF WaitingEv
  <1>5. CallsSee(page, runs', r.ev.n, r.x)
    <2>1. Executable(runs, r.x)
      BY DEF TypeInv, WaitingOK
    <2>2. IsAction(MetaAt(page, runs, r.x))
      BY <1>4 DEF IsAction, ActionTypes
    <2> QED
      BY <1>4, <2>1, <2>2, LateCalls
  <1>6. OpEv(page, runs', clock', c)
    BY <1>4, <1>5, EvKindsOK
  <1>7. Numbers(c) \subseteq {n}
    BY <1>3, EvKinds
  <1>8. Eventless(o) /\ Eventless(d) /\ Eventless(s)
    BY EventlessKinds
  <1>9. todo' = <<o>> \o IF IsSubmit(r) THEN <<d, c>> ELSE kept \o <<c, d>>
    BY <1>1
  <1>10. kept = <<s>> \/ kept = <<>>
    OBVIOUS
  <1> HIDE DEF o, d, c, s, kept, site, result
  <1>11. /\ OpEv(page, runs', clock', o) /\ OpEv(page, runs', clock', d) /\ OpEv(page, runs', clock', s)
         /\ Numbers(o) \subseteq {n} /\ Numbers(d) \subseteq {n} /\ Numbers(s) \subseteq {n}
    BY <1>8, EventlessOK
  <1> DEFINE Fine(a) == /\ IsSeq(a)
                        /\ \A i \in DOMAIN a : OpEv(page, runs', clock', a[i])
                        /\ \A i \in DOMAIN a : Numbers(a[i]) \subseteq {n}
  <1>12. Fine(<<o>>) /\ Fine(<<d, c>>) /\ Fine(<<c, d>>)
    <2>1. \A p : /\ OpEv(page, runs', clock', p) /\ Numbers(p) \subseteq {n}
                 => Fine(<<p>>)
      BY IsSeqTuples
    <2>2. \A p, q : /\ OpEv(page, runs', clock', p) /\ Numbers(p) \subseteq {n}
                    /\ OpEv(page, runs', clock', q) /\ Numbers(q) \subseteq {n}
                    => Fine(<<p, q>>)
      BY IsSeqTuples
    <2> HIDE DEF Fine
    <2> QED
      BY <1>6, <1>7, <1>11, <2>1, <2>2
  <1>13. Fine(kept)
    <2>1. Fine(<<>>)
      BY IsSeqEmpty
    <2>2. Fine(<<s>>)
      BY <1>11, IsSeqTuples
    <2> HIDE DEF Fine
    <2> QED
      BY <1>10, <2>1, <2>2
  <1>14. ASSUME NEW a, NEW b, Fine(a), Fine(b), NEW all, all = a \o b
         PROVE  Fine(all) /\ OpsEv(page, runs', clock', all)
    <2>a. IsSeq(a) /\ IsSeq(b) /\ n \in Nat
      BY <1>4, <1>14
    <2>b. \A i \in DOMAIN a : OpEv(page, runs', clock', a[i])
      BY <1>14
    <2>c. \A i \in DOMAIN a : Numbers(a[i]) \subseteq {n}
      BY <1>14
    <2>d. \A i \in DOMAIN b : OpEv(page, runs', clock', b[i])
      BY <1>14
    <2>e. \A i \in DOMAIN b : Numbers(b[i]) \subseteq {n}
      BY <1>14
    <2> HIDE DEF Fine
    <2>1. OpsEv(page, runs', clock', all)
      BY <1>14, <2>a, <2>b, <2>c, <2>d, <2>e, SameEventJoined, ZenonT(30)
    <2>2. \A i \in DOMAIN all : Numbers(all[i]) \subseteq {n}
      BY <1>14, <2>a, <2>b, <2>c, <2>d, <2>e, SameEventJoined
    <2> USE DEF Fine
    <2> QED
      BY <2>1, <2>2 DEF OpsEv
  <1> HIDE DEF Fine
  <1>15. PICK cd : cd = <<c, d>>
    OBVIOUS
  <1>16. PICK more : more = kept \o cd
    OBVIOUS
  <1>17. Fine(more)
    BY <1>12, <1>13, <1>14, <1>15, <1>16
  <1>18. PICK last : last = IF IsSubmit(r) THEN <<d, c>> ELSE more
    OBVIOUS
  <1>19. Fine(last)
    BY <1>12, <1>17, <1>18
  <1>20. PICK fire : fire = <<o>>
    OBVIOUS
  <1>21. PICK all : all = fire \o last
    OBVIOUS
  <1>22. OpsEv(page, runs', clock', all)
    BY <1>12, <1>14, <1>19, <1>20, <1>21
  <1> QED
    BY <1>9, <1>15, <1>16, <1>18, <1>20, <1>21, <1>22

\* The tasks of the user, the browser and the server.
LEMMA TaskEv ==
    ASSUME TypeInv, EventsOK, WaitingEv, Next, User \/ Navigate \/ Announce \/ Respond \/ TimeOut \/ Tick
    PROVE  OpsEv(page, runs', clock', todo')
  <1>1. ASSUME NEW o, Eventless(o), todo' = <<o>> PROVE OpsEv(page, runs', clock', todo')
    <2>1. OpEv(page, runs', clock', o)
      BY <1>1, EventlessOK
    <2>2. OpsEv(page, runs', clock', <<o>>)
      BY <2>1, EvLists
    <2> QED
      BY <1>1, <2>2
  <1>2. CASE User
    <2>1. PICK o : Eventless(o) /\ todo' = <<o>>
      BY <1>2, EventlessKinds DEF User
    <2> QED
      BY <1>1, <2>1
  <1>3. CASE Navigate
    BY <1>3 DEF Navigate, EventsOK, dom
  <1>4. CASE Announce
    <2>1. PICK o : Eventless(o) /\ todo' = <<o>>
      BY <1>4, EventlessKinds DEF Announce
    <2> QED
      BY <1>1, <2>1
  <1>5. CASE Respond
    <2>1. PICK r \in requests : Answer(r) \/ Fail(r)
      BY <1>5 DEF Respond
    <2>2. CASE Answer(r)
      BY <2>2, AnswerEv
    <2>3. CASE Fail(r)
      <3>1. PICK o, p : Eventless(o) /\ Eventless(p) /\ todo' = <<o, p>>
        BY <2>3, EventlessKinds DEF Fail
      <3>2. OpEv(page, runs', clock', o) /\ OpEv(page, runs', clock', p) /\ \A n \in Numbers(o), b \in Bounds(p) : n >= b
        BY <3>1, EventlessOK
      <3>3. OpsEv(page, runs', clock', <<o, p>>)
        BY <3>2, EvLists
      <3> QED
        BY <3>1, <3>3
    <2> QED
      BY <2>1, <2>2, <2>3
  <1>6. CASE TimeOut \/ Tick
    <2>1. PICK w \in timers \cup intervals : todo' = <<RunOp(w.x, w.ev)>>
      BY <1>6 DEF TimeOut, Tick
    <2>2. clock' = clock /\ Executable(runs, w.x) /\ Grown(runs, runs')
      BY <1>6, RunsStep DEF TimeOut, Tick, TypeInv, WaitingOK
    <2>3. w.ev.n \in Nat /\ w.ev.n <= clock' /\ MetaAt(page, runs, w.x).delay # "none"
      BY <2>2 DEF WaitingEv
    <2>4. MetaAt(page, runs', w.x) = MetaAt(page, runs, w.x)
      BY <2>2, MetaStays
    <2>5. Sees(page, runs', w.ev.n, w.x)
      BY <2>3, <2>4 DEF Sees, Late
    <2>6. IsAction(MetaAt(page, runs', w.x)) => CallsSee(page, runs', w.ev.n, w.x)
      <3> SUFFICES ASSUME IsAction(MetaAt(page, runs', w.x)) PROVE CallsSee(page, runs', w.ev.n, w.x)
        OBVIOUS
      <3>1. IsAction(MetaAt(page, runs, w.x))
        BY <2>4
      <3> QED
        BY <2>2, <2>3, <3>1, LateCalls
    <2>7. OpEv(page, runs', clock', RunOp(w.x, w.ev))
      BY <2>3, <2>5, <2>6, EvKindsOK
    <2>8. OpsEv(page, runs', clock', <<RunOp(w.x, w.ev)>>)
      BY <2>7, EvLists
    <2> QED
      BY <2>1, <2>8
  <1> QED
    BY <1>2, <1>3, <1>4, <1>5, <1>6

\* Every step keeps what is left to be done ordered by its events.
LEMMA EventsStep ==
    ASSUME TypeInv, EventsOK, WaitingEv, Next
    PROVE  OpsEv(page, runs', clock', todo')
  <1>1. CASE Fire
    BY <1>1, FireEv
  <1>2. CASE Dispatch
    BY <1>2, DispatchEv
  <1>3. CASE Invoke
    BY <1>3, InvokeEv
  <1>4. CASE CatchNothing \/ CaughtNothing \/ Send \/ Store
    BY <1>4, NothingLeftEv
  <1>5. CASE Actions
    BY <1>5, ActionsEv
  <1>6. CASE Action
    BY <1>6, ActionEv
  <1>7. CASE Execute
    BY <1>7, ExecuteEv
  <1>8. CASE Direct \/ Event \/ Ajax \/ Submit
    BY <1>8, RunActionEv
  <1>9. CASE Completed
    BY <1>9, CompletedEv
  <1>10. CASE Callback
    BY <1>10, CallbackEv
  <1>11. CASE BreakCallbacks
    BY <1>11, BreakCallbacksEv
  <1>12. CASE Uncaught
    BY <1>12, UncaughtEv
  <1>13. CASE BreakBefore
    BY <1>13, BreakBeforeEv
  <1>14. CASE BreakCallback
    BY <1>14, BreakCallbackEv
  <1>15. CASE RethrowCallback
    BY <1>15, RethrowEv
  <1>16. CASE ParseContext
    BY <1>16, ParseEv
  <1>17. CASE Insert \/ Trigger \/ Break \/ Eval \/ HashStore \/ Attach \/ Detach
    BY <1>17, RunOtherEv
  <1>18. CASE User \/ Navigate \/ Announce \/ Respond \/ TimeOut \/ Tick
    BY <1>18, TaskEv
  <1> QED
    BY <1>1, <1>2, <1>3, <1>4, <1>5, <1>6, <1>7, <1>8, <1>9, <1>10, <1>11, <1>12, <1>13, <1>14, <1>15, <1>16, <1>17, <1>18 DEF Next, Step

\* What waits belongs to an event of the past and runs late, after every step.
LEMMA WaitingEvStep ==
    ASSUME TypeInv, EventsOK, WaitingEv, Next
    PROVE  WaitingEv'
  <1>1. Frame /\ Grown(runs, runs') /\ page' = page
    BY Frames, RunsStep
  <1>2. clock \in Nat /\ clock' \in Nat /\ clock' >= clock
    BY ClockStep DEF TypeInv, CountersOK
  <1>3. \A w \in requests \cup timers \cup intervals : MetaAt(page', runs', w.x) = MetaAt(page, runs, w.x)
    <2>1. \A w \in requests \cup timers \cup intervals : Executable(runs, w.x)
      BY DEF TypeInv, WaitingOK
    <2> QED
      BY <1>1, <2>1, MetaStays
  <1>4. \A w \in requests \cup timers \cup intervals : w.ev.n \in Nat /\ w.ev.n <= clock'
    <2>1. \A w \in requests \cup timers \cup intervals : w.ev.n \in Nat /\ w.ev.n <= clock
      BY DEF WaitingEv
    <2> QED
      BY <1>2, <2>1
  <1>5. CASE requests' \subseteq requests /\ timers' \subseteq timers /\ intervals' \subseteq intervals
    BY <1>3, <1>4, <1>5 DEF WaitingEv
  <1>6. CASE Send
    <2>1. todo # <<>> /\ todo[1].op = "send"
      BY <1>6 DEF Send, At
    <2>2. PICK o, w : o = todo[1] /\ w = [x |-> o.x, ev |-> o.ev, data |-> o.data]
      OBVIOUS
    <2>3. w.x = o.x /\ w.ev = o.ev
      BY <2>2
    <2>4. w.ev.n \in Nat /\ w.ev.n <= clock' /\ OpEv(page, runs, clock, o)
      BY <2>1, <2>2, <2>3, HeadEvent DEF Evented
    <2>5. MetaAt(page, runs, o.x).type \in {"Ajax", "Submit"}
      BY <2>1, <2>2, <2>4 DEF OpEv
    <2>6. Executable(runs, o.x)
      BY <2>1, <2>2, AtHeadExecutable
    <2>7. MetaAt(page', runs', w.x).type \in {"Ajax", "Submit"}
      BY <1>1, <2>3, <2>5, <2>6, MetaStays
    <2>8. requests' = requests \cup {w} /\ timers' = timers /\ intervals' = intervals
      BY <1>6, <2>2 DEF Send, timing
    <2> QED
      BY <1>3, <1>4, <2>4, <2>7, <2>8 DEF WaitingEv
  <1>7. CASE Execute
    <2>1. todo # <<>> /\ todo[1].op = "execute"
      BY <1>7 DEF Execute, At
    <2>2. PICK o, w : o = todo[1] /\ w = [x |-> o.x, ev |-> o.ev, n |-> clock + 1]
      OBVIOUS
    <2>3. w.x = o.x /\ w.ev = o.ev
      BY <2>2
    <2>4. w.ev.n \in Nat /\ w.ev.n <= clock'
      BY <2>1, <2>2, <2>3, HeadEvent DEF Evented
    <2>5. CASE timers' = timers /\ intervals' = intervals
      <3>1. requests' = requests
        BY <1>7 DEF Execute
      <3> QED
        BY <1>5, <2>5, <3>1
    <2>6. CASE ~ (timers' = timers /\ intervals' = intervals)
      <3>1. /\ Meta(o.x).delay # "none" /\ requests' = requests
            /\ timers' = timers \/ timers' = timers \cup {w}
            /\ intervals' = intervals \/ intervals' = intervals \cup {w}
        BY <1>7, <2>2, <2>6 DEF Execute, timing
      <3>2. Executable(runs, o.x)
        BY <2>1, <2>2, AtHeadExecutable
      <3>3. MetaAt(page, runs, o.x) = Meta(o.x)
        BY DEF MetaAt, MetasAt, Meta, RunOf
      <3>4. MetaAt(page', runs', w.x).delay # "none"
        BY <1>1, <2>3, <3>1, <3>2, <3>3, MetaStays
      <3> QED
        BY <1>3, <1>4, <2>4, <3>1, <3>4 DEF WaitingEv
    <2> QED
      BY <2>5, <2>6
  <1>8. CASE Eval \/ Respond \/ TimeOut
    <2>1. requests' \subseteq requests /\ timers' \subseteq timers /\ intervals' \subseteq intervals
      BY <1>8 DEF Eval, Respond, Answer, Fail, TimeOut, timing
    <2> QED
      BY <1>5, <2>1, Zenon
  <1>9. CASE UNCHANGED <<requests, timers, intervals>>
    BY <1>5, <1>9
  <1> QED
    BY <1>1, <1>6, <1>7, <1>8, <1>9, Zenon DEF Frame

\* An executable that runs sees its event, or a later one.
LEMMA MixedStep ==
    ASSUME TypeInv, HistoryOK, EventsOK, NeverAnEarlierEvent, Next
    PROVE  NeverAnEarlierEvent'
  <1>1. \/ history'.mixed = history.mixed
        \/ At("run") /\ history'.mixed = MixedBy(todo[1].x, todo[1].ev)
    BY HistoryFrames DEF HistoryFrame
  <1>2. CASE history'.mixed = history.mixed
    BY <1>2 DEF NeverAnEarlierEvent
  <1>3. CASE At("run") /\ history'.mixed = MixedBy(todo[1].x, todo[1].ev)
    <2>1. PICK x, ev : x = todo[1].x /\ ev = todo[1].ev
      OBVIOUS
    <2>2. todo # <<>> /\ todo[1].op = "run"
      BY <1>3 DEF At
    <2>3. OpEv(page, runs, clock, todo[1]) /\ ev.n \in Nat
      BY <2>1, <2>2, HeadEvent DEF Evented
    <2>4. Sees(page, runs, ev.n, x)
      BY <2>1, <2>2, <2>3 DEF OpEv
    <2>5. EventAt(runs, x) = EventOf(x)
      BY Zenon DEF EventAt, EventOf, RunOf
    <2>6. Late(page, runs, x) => RunsLate(x)
      <3>1. MetaAt(page, runs, x) = Meta(x) /\ MetasAt(page, runs, x) = page.metas[RunOf(x).name]
        BY DEF MetaAt, MetasAt, Meta, RunOf
      <3>2. \A i \in DOMAIN page.metas[RunOf(x).name] :
               page.metas[RunOf(x).name][i] \in ToSet(page.metas[RunOf(x).name])
        BY DEF ToSet
      <3> QED
        BY <3>1, <3>2 DEF Late, RunsLate
    <2>7. CASE EventOf(x).n = ev.n \/ RunsLate(x)
      <3>1. history'.mixed = history.mixed
        BY <1>3, <2>1, <2>7 DEF MixedBy
      <3> QED
        BY <1>2, <3>1
    <2>8. CASE ~ (EventOf(x).n = ev.n \/ RunsLate(x))
      <3>1. history'.mixed = history.mixed \cup {<<ev.n, EventOf(x).n>>}
        BY <1>3, <2>1, <2>8 DEF MixedBy
      <3>2. EventOf(x).n > ev.n
        BY <2>3, <2>4, <2>5, <2>6, <2>8 DEF Sees
      <3> QED
        BY <3>1, <3>2 DEF NeverAnEarlierEvent
    <2> QED
      BY <2>7, <2>8
  <1> QED
    BY <1>1, <1>2, <1>3

\* The inductive invariant about events.
EventInv == TypeInv /\ HistoryOK /\ EventsOK /\ WaitingEv /\ NeverAnEarlierEvent

\* The inductive invariant about events holds in every state.
THEOREM EventInvariant == Spec => []EventInv
  <1>1. Init => EventInv
    <2> SUFFICES ASSUME Init PROVE EventInv
      OBVIOUS
    <2>1. TypeInv
      BY TypeInit
    <2>2. HistoryOK
      BY DEF Init, HistoryOK, Recalled
    <2>3. EventsOK
      <3>1. PICK o : Eventless(o) /\ todo = <<o>>
        BY EventlessKinds DEF Init
      <3>2. OpEv(page, runs, clock, o)
        BY <3>1, EventlessOK
      <3>3. OpsEv(page, runs, clock, <<o>>)
        BY <3>2, EvLists
      <3> QED
        BY <3>1, <3>3 DEF EventsOK
    <2>4. WaitingEv /\ NeverAnEarlierEvent
      BY DEF Init, WaitingEv, NeverAnEarlierEvent
    <2> QED
      BY <2>1, <2>2, <2>3, <2>4 DEF EventInv
  <1>2. EventInv /\ [Next]_vars => EventInv'
    <2>1. ASSUME EventInv, Next PROVE EventInv'
      <3>1. TypeInv /\ HistoryOK /\ EventsOK /\ WaitingEv /\ NeverAnEarlierEvent
        BY <2>1 DEF EventInv
      <3>2. TypeInv' /\ WaitingEv' /\ NeverAnEarlierEvent'
        BY <2>1, <3>1, TypeStep, WaitingEvStep, MixedStep
      <3>3. HistoryOK'
        BY <2>1, <3>1, HistoryFrames DEF HistoryFrame, HistoryOK
      <3>4. EventsOK'
        <4>1. page' = page
          BY <2>1, <3>1, RunsStep
        <4>2. OpsEv(page, runs', clock', todo')
          BY <2>1, <3>1, EventsStep
        <4> QED
          BY <4>1, <4>2 DEF EventsOK
      <3> QED
        BY <3>2, <3>3, <3>4 DEF EventInv
    <2>2. ASSUME EventInv, UNCHANGED vars PROVE EventInv'
      <3>1. TypeInv'
        BY <2>2, TypeStutter DEF EventInv
      <3> QED
        BY <2>2, <3>1 DEF EventInv, HistoryOK, EventsOK, WaitingEv, NeverAnEarlierEvent, vars
    <2> QED
      BY <2>1, <2>2
  <1> QED
    BY <1>1, <1>2, PTL DEF Spec

\* An executable that waits neither for a time-out nor for an answer never sees an earlier
\* event than its own, although all of them share one field for it.
THEOREM NeverAnEarlierEventAlways == Spec => []NeverAnEarlierEvent
  <1>1. EventInv => NeverAnEarlierEvent
    BY DEF EventInv
  <1> QED
    BY <1>1, EventInvariant, PTL

-------------------------------------------------------------------------------
(* The first part of an event: up to its actions *)

\* An executable before the action that is not delayed.
IsEarly(m) == ListOf(m, Before) /\ m.delay = "none"

\* isValid of an executable that was given no result.
ValidFresh(m) ==
    \/ m.ands = {}
    \/ \E and \in m.ands : and # {} /\ \A c \in and : (NoData.n > 0) # c.inverse

\* One that breaks.
IsBreaker(m) == IsEarly(m) /\ m.type = "Break" /\ ValidFresh(m)

\* The runner r of e breaks before the actions of the type.
Breaks(pg, rs, e, r, type) ==
    \E i \in DOMAIN pg.metas[rs[e][r].name] :
        LET m == pg.metas[rs[e][r].name][i]
        IN  IsBreaker(m) /\ type \in m.onBind

\* The operations from a dispatch to the actions.
FirstPart(pg, rs, o) ==
    \/ o.op \in {"dispatch", "invoke", "catch", "actions"}
    \/ o.op \in {"execute", "run"} /\ IsEarly(MetaAt(pg, rs, o.x))

\* Their events.
FirstEvents(pg, rs, ops) == {ops[i].ev : i \in {j \in DOMAIN ops : FirstPart(pg, rs, ops[j])}}

\* Callbacks are not before the action, and what is before it is run for a type it names and
\* when its conditions hold without a result.
OpBr(pg, rs, o) ==
    /\ o.op = "callback" => ~ ListOf(MetaAt(pg, rs, o.x), Before)
    /\ o.op = "breakes" => \A i \in DOMAIN o.callbacks : ~ ListOf(MetaAt(pg, rs, o.callbacks[i].x), Before)
    /\ o.op = "action" => IsAction(MetaAt(pg, rs, o.x))
    /\ o.op \in {"execute", "run"} /\ IsEarly(MetaAt(pg, rs, o.x)) =>
          /\ o.ev.type \in MetaAt(pg, rs, o.x).onBind
          /\ o.op = "run" => ValidFresh(MetaAt(pg, rs, o.x))

OpsBr(pg, rs, ops) == \A i \in DOMAIN ops : OpBr(pg, rs, ops[i])

\* Handlers of exceptions.
Catcher(o) == o.op \in {"catch", "caught"}

\* What is about to throw a Break.
Breaker(pg, rs, o) ==
    \/ o.op = "throw" /\ o.kind = "break"
    \/ o.op \in {"execute", "run"} /\ IsBreaker(MetaAt(pg, rs, o.x))

\* The Break at j can be handled by no catch but the one of the actions at k.
Ahead(pg, rs, ops, j, k) ==
    /\ j < k - 1
    /\ Breaker(pg, rs, ops[j])
    /\ ops[k - 1].op = "catch"
    /\ \A h \in DOMAIN ops : j < h /\ h < k - 1 => ~ Catcher(ops[h])

\* A catch is followed by its actions, and actions that must not run have a Break ahead.
Guarded(pg, rs, ops) ==
    /\ \A k \in DOMAIN ops : ops[k].op = "catch" => k + 1 \in DOMAIN ops /\ ops[k + 1].op = "actions"
    /\ \A k \in DOMAIN ops :
          ops[k].op = "actions" /\ Breaks(pg, rs, ops[k].e, ops[k].r, ops[k].ev.type)
             => \E j \in DOMAIN ops : Ahead(pg, rs, ops, j, k)

-------------------------------------------------------------------------------
(* The inductive invariant *)

\* No executable before the action has a result.
ResultsOK ==
    \A e \in Element : \A r \in DOMAIN runs[e] : \A i \in DOMAIN runs[e][r].result :
        ListOf(MetasOf(e, r)[i], Before) => runs[e][r].result[i] = NoData

\* Events with one number have one type.
Agree(evs) == \A a, b \in evs : a.n = b.n => a.type = b.type

\* What is recalled of a runner and a number.
Past(w) == w[1] \in Element /\ w[2] \in DOMAIN runs[w[1]] /\ w[3] \in Nat /\ w[3] <= clock

\* A runner that broke an event breaks it again, one that acted for it does not break it.
BrokenOK == \A w \in history.broken :
    /\ Past(w)
    /\ \A ev \in FirstEvents(page, runs, todo) : ev.n = w[3] => Breaks(page, runs, w[1], w[2], ev.type)
ActedOK == \A w \in history.acted :
    /\ Past(w)
    /\ \A ev \in FirstEvents(page, runs, todo) : ev.n = w[3] => ~ Breaks(page, runs, w[1], w[2], ev.type)

\* What is left to be done keeps the Breaks ahead of the actions that must not run.
TodoBr ==
    /\ OpsBr(page, runs, todo)
    /\ Guarded(page, runs, todo)
    /\ Agree(FirstEvents(page, runs, todo))

-------------------------------------------------------------------------------
(* What a step keeps *)

\* A runner that breaks a type goes on to break it.
LEMMA BreaksStay ==
    ASSUME NEW pg, NEW rs, NEW rs2, Grown(rs, rs2), NEW e \in Element, NEW r \in DOMAIN rs[e], NEW type
    PROVE  Breaks(pg, rs2, e, r, type) <=> Breaks(pg, rs, e, r, type)
  <1>1. rs2[e][r].name = rs[e][r].name
    BY DEF Grown
  <1> QED
    BY <1>1 DEF Breaks

\* An operation keeps what is said of it while runners are added.
LEMMA OpBrStays ==
    ASSUME NEW pg, NEW rs, NEW rs2, Grown(rs, rs2), NEW o, OpOK(rs, o)
    PROVE  /\ OpBr(pg, rs, o) => OpBr(pg, rs2, o)
           /\ FirstPart(pg, rs2, o) <=> FirstPart(pg, rs, o)
           /\ Breaker(pg, rs2, o) <=> Breaker(pg, rs, o)
  <1>1. o.op \in {"execute", "run", "action", "callback"} => MetaAt(pg, rs2, o.x) = MetaAt(pg, rs, o.x)
    <2> SUFFICES ASSUME o.op \in {"execute", "run", "action", "callback"}
                 PROVE  MetaAt(pg, rs2, o.x) = MetaAt(pg, rs, o.x)
      OBVIOUS
    <2>1. Executable(rs, o.x)
      BY DEF OpOK
    <2> QED
      BY <2>1, MetaStays
  <1>2. o.op = "breakes" => \A i \in DOMAIN o.callbacks :
           MetaAt(pg, rs2, o.callbacks[i].x) = MetaAt(pg, rs, o.callbacks[i].x)
    <2> SUFFICES ASSUME o.op = "breakes", NEW i \in DOMAIN o.callbacks
                 PROVE  MetaAt(pg, rs2, o.callbacks[i].x) = MetaAt(pg, rs, o.callbacks[i].x)
      OBVIOUS
    <2>1. Executable(rs, o.callbacks[i].x)
      BY DEF OpOK
    <2> QED
      BY <2>1, MetaStays
  <1>3. OpBr(pg, rs, o) => OpBr(pg, rs2, o)
    BY <1>1, <1>2, Zenon DEF OpBr
  <1>4. FirstPart(pg, rs2, o) <=> FirstPart(pg, rs, o)
    BY <1>1 DEF FirstPart
  <1>5. Breaker(pg, rs2, o) <=> Breaker(pg, rs, o)
    BY <1>1 DEF Breaker
  <1> QED
    BY <1>3, <1>4, <1>5

\* A list of operations does.
LEMMA OpsBrStay ==
    ASSUME NEW pg, NEW rs, NEW rs2, Grown(rs, rs2), NEW ops, OpsOK(rs, ops),
           OpsBr(pg, rs, ops), Guarded(pg, rs, ops)
    PROVE  /\ OpsBr(pg, rs2, ops) /\ Guarded(pg, rs2, ops)
           /\ FirstEvents(pg, rs2, ops) = FirstEvents(pg, rs, ops)
  <1>1. \A i \in DOMAIN ops : OpOK(rs, ops[i])
    BY DEF OpsOK
  <1>2. OpsBr(pg, rs2, ops)
    BY <1>1, OpBrStays DEF OpsBr
  <1>3. FirstEvents(pg, rs2, ops) = FirstEvents(pg, rs, ops)
    <2>1. \A i \in DOMAIN ops : FirstPart(pg, rs2, ops[i]) <=> FirstPart(pg, rs, ops[i])
      BY <1>1, OpBrStays
    <2> QED
      BY <2>1 DEF FirstEvents
  <1>4. ASSUME NEW k \in DOMAIN ops, ops[k].op = "actions",
               Breaks(pg, rs2, ops[k].e, ops[k].r, ops[k].ev.type)
        PROVE  \E j \in DOMAIN ops : Ahead(pg, rs2, ops, j, k)
    <2>1. ops[k].e \in Element /\ ops[k].r \in DOMAIN rs[ops[k].e]
      BY <1>1, <1>4 DEF OpOK
    <2>2. Breaks(pg, rs, ops[k].e, ops[k].r, ops[k].ev.type)
      BY <1>4, <2>1, BreaksStay
    <2>3. PICK j \in DOMAIN ops : Ahead(pg, rs, ops, j, k)
      BY <1>4, <2>2 DEF Guarded
    <2>4. Breaker(pg, rs2, ops[j])
      BY <1>1, <2>3, OpBrStays DEF Ahead
    <2> QED
      BY <2>3, <2>4 DEF Ahead
  <1>5. \A k \in DOMAIN ops : ops[k].op = "catch" => k + 1 \in DOMAIN ops /\ ops[k + 1].op = "actions"
    BY DEF Guarded
  <1>6. Guarded(pg, rs2, ops)
    BY <1>4, <1>5 DEF Guarded
  <1> QED
    BY <1>2, <1>3, <1>6

-------------------------------------------------------------------------------
(* Lists of operations *)

\* after is what is left of ops without the first k.
IsAfter(ops, k, after) ==
    /\ IsSeq(after)
    /\ k \in 0..Len(ops)
    /\ Len(after) = Len(ops) - k
    /\ \A i \in 1..Len(after) : after[i] = ops[k + i]

\* There is a Break in a that nothing in a handles.
StillAhead(pg, rs, a) ==
    \E b \in DOMAIN a : Breaker(pg, rs, a[b]) /\ \A h \in DOMAIN a : h > b => ~ Catcher(a[h])

\* all is a and then b.
IsJoin(a, b, all) == all = a \o b

\* A Break of the first k that is ahead of later actions is replaced by one in a.
Replaced(pg, rs, ops, k, a) ==
    \A j, m \in DOMAIN ops : j <= k /\ k < m /\ ops[m].op = "actions" /\ Ahead(pg, rs, ops, j, m)
       => k < m - 1 /\ StillAhead(pg, rs, a)

\* What is at i was left of ops.
Left(ops, k, la, all, i) == i > la /\ i - la + k \in DOMAIN ops /\ all[i] = ops[i - la + k]

\* The operations of a before those that are left, by position.
LEMMA JoinedPositions ==
    ASSUME NEW ops, IsSeq(ops), NEW k, NEW after, IsAfter(ops, k, after), NEW a, IsSeq(a),
           NEW all, IsJoin(a, after, all), NEW la, la = Len(a)
    PROVE  /\ IsSeq(all) /\ la \in Nat /\ k \in Nat
           /\ DOMAIN all \subseteq Nat /\ DOMAIN ops \subseteq Nat \ {0} /\ DOMAIN a = 1..la
           /\ \A i \in DOMAIN all : (i \in DOMAIN a /\ all[i] = a[i]) \/ Left(ops, k, la, all, i)
           /\ \A m \in DOMAIN ops : m > k => m - k + la \in DOMAIN all /\ all[m - k + la] = ops[m]
           /\ \A i \in DOMAIN a : i \in DOMAIN all /\ all[i] = a[i]
  <1> DEFINE lb == Len(after)  lo == Len(ops)
  <1>1. /\ la \in Nat /\ DOMAIN a = 1..la
        /\ lb \in Nat /\ DOMAIN after = 1..lb
        /\ lo \in Nat /\ DOMAIN ops = 1..lo
    <2>1. IsSeq(after)
      BY DEF IsAfter
    <2> QED
      BY <2>1, IsSeqDom
  <1>2. k \in 0..lo /\ lb = lo - k /\ \A i \in 1..lb : after[i] = ops[k + i]
    BY DEF IsAfter
  <1>3. /\ IsSeq(all)
        /\ DOMAIN all = 1..(la + lb)
        /\ \A i \in 1..la : all[i] = a[i]
        /\ \A i \in 1..lb : all[la + i] = after[i]
    <2>1. IsSeq(after)
      BY DEF IsAfter
    <2>2. all = a \o after
      BY DEF IsJoin
    <2> QED
      BY <2>1, <2>2, IsSeqConcat
  <1> HIDE DEF lb, lo
  <1>4. \A i \in DOMAIN a : i \in DOMAIN all /\ all[i] = a[i]
    BY <1>1, <1>3
  <1>5. \A m \in DOMAIN ops : m > k => m - k + la \in DOMAIN all /\ all[m - k + la] = ops[m]
    <2> SUFFICES ASSUME NEW m \in DOMAIN ops, m > k
                 PROVE  m - k + la \in DOMAIN all /\ all[m - k + la] = ops[m]
      OBVIOUS
    <2>1. m - k \in 1..lb /\ m - k + la \in 1..(la + lb) /\ m - k + la = la + (m - k) /\ k + (m - k) = m
      BY <1>1, <1>2
    <2>2. all[la + (m - k)] = after[m - k] /\ after[m - k] = ops[k + (m - k)]
      BY <1>2, <1>3, <2>1
    <2> QED
      BY <1>3, <2>1, <2>2
  <1>6. ASSUME NEW i \in DOMAIN all, i \notin DOMAIN a
        PROVE  i > la /\ i - la + k \in DOMAIN ops /\ all[i] = ops[i - la + k]
    <2>1. /\ i > la /\ i - la \in 1..lb /\ i = la + (i - la)
          /\ i - la + k = k + (i - la) /\ i - la + k \in 1..lo
      BY <1>1, <1>2, <1>3, <1>6
    <2>2. all[la + (i - la)] = after[i - la] /\ after[i - la] = ops[k + (i - la)]
      BY <1>2, <1>3, <2>1
    <2> QED
      BY <1>1, <2>1, <2>2
  <1>7. DOMAIN all \subseteq Nat /\ DOMAIN ops \subseteq Nat \ {0} /\ k \in Nat
    BY <1>1, <1>2, <1>3
  <1>8. \A i \in DOMAIN all : (i \in DOMAIN a /\ all[i] = a[i]) \/ Left(ops, k, la, all, i)
    BY <1>4, <1>6 DEF Left
  <1> QED
    BY <1>1, <1>3, <1>4, <1>5, <1>7, <1>8

\* Positions behind k move from one list to the other.
LEMMA MovedOn ==
    ASSUME NEW j \in Nat, NEW k \in Nat, NEW la \in Nat, NEW i \in Nat, NEW m \in Nat,
           j < m - 1, m - k + la = i, j > k
    PROVE  /\ j - k + la \in Nat /\ j - k + la < i - 1 /\ j - k + la > la /\ m - 1 > k
           /\ \A h \in Nat : j - k + la < h => h > la /\ j < h - la + k
  OBVIOUS

\* What is pushed before what is left: the Breaks ahead of actions stay ahead.
LEMMA JoinedBr ==
    ASSUME NEW pg, NEW rs, NEW ops, IsSeq(ops), OpsBr(pg, rs, ops), Guarded(pg, rs, ops),
           NEW k, NEW after, IsAfter(ops, k, after),
           NEW a, IsSeq(a), OpsBr(pg, rs, a), Guarded(pg, rs, a),
           Replaced(pg, rs, ops, k, a), NEW all, IsJoin(a, after, all)
    PROVE  /\ OpsBr(pg, rs, all) /\ Guarded(pg, rs, all)
           /\ FirstEvents(pg, rs, all) \subseteq FirstEvents(pg, rs, a) \cup FirstEvents(pg, rs, ops)
  <1>0. PICK la : la = Len(a)
    OBVIOUS
  <1>1. /\ la \in Nat /\ k \in Nat
        /\ DOMAIN all \subseteq Nat /\ DOMAIN ops \subseteq Nat \ {0} /\ DOMAIN a = 1..la
    BY <1>0, JoinedPositions
  <1>2. \A i \in DOMAIN all :
           \/ i \in DOMAIN a /\ all[i] = a[i]
           \/ i > la /\ i - la + k \in DOMAIN ops /\ all[i] = ops[i - la + k]
    <2>1. \A i \in DOMAIN all : (i \in DOMAIN a /\ all[i] = a[i]) \/ Left(ops, k, la, all, i)
      BY <1>0, JoinedPositions
    <2> QED
      BY <2>1 DEF Left
  <1>3. \A m \in DOMAIN ops : m > k => m - k + la \in DOMAIN all /\ all[m - k + la] = ops[m]
    BY <1>0, JoinedPositions
  <1>4. \A i \in DOMAIN a : i \in DOMAIN all /\ all[i] = a[i]
    BY <1>0, JoinedPositions
  <1>5. OpsBr(pg, rs, all)
    BY <1>2 DEF OpsBr
  <1>6. FirstEvents(pg, rs, all) \subseteq FirstEvents(pg, rs, a) \cup FirstEvents(pg, rs, ops)
    BY <1>2 DEF FirstEvents
  <1>7. ASSUME NEW i \in DOMAIN all, all[i].op = "catch"
        PROVE  i + 1 \in DOMAIN all /\ all[i + 1].op = "actions"
    <2>1. CASE i \in DOMAIN a /\ all[i] = a[i]
      <3>1. i + 1 \in DOMAIN a /\ a[i + 1].op = "actions"
        BY <1>7, <2>1 DEF Guarded
      <3> QED
        BY <1>4, <3>1
    <2>2. CASE i > la /\ i - la + k \in DOMAIN ops /\ all[i] = ops[i - la + k]
      <3>1. i - la + k + 1 \in DOMAIN ops /\ ops[i - la + k + 1].op = "actions"
        BY <1>7, <2>2 DEF Guarded
      <3>2. i - la + k + 1 > k /\ (i - la + k + 1) - k + la = i + 1
        BY <1>1, <2>2
      <3> QED
        BY <1>3, <3>1, <3>2
    <2> QED
      BY <1>2, <2>1, <2>2
  <1>8. ASSUME NEW i \in DOMAIN all, all[i].op = "actions",
               Breaks(pg, rs, all[i].e, all[i].r, all[i].ev.type)
        PROVE  \E j \in DOMAIN all : Ahead(pg, rs, all, j, i)
    <2>1. CASE i \in DOMAIN a /\ all[i] = a[i]
      <3>1. PICK j \in DOMAIN a : Ahead(pg, rs, a, j, i)
        BY <1>8, <2>1 DEF Guarded
      <3>2. j \in DOMAIN all /\ all[j] = a[j]
        BY <1>4
      <3>3. j < i - 1 /\ i - 1 \in DOMAIN a /\ all[i - 1] = a[i - 1]
        <4>1. j < i - 1
          BY <3>1 DEF Ahead
        <4>2. i - 1 \in DOMAIN a
          BY <1>1, <2>1, <4>1
        <4> QED
          BY <1>4, <4>1, <4>2
      <3>4. ASSUME NEW h \in DOMAIN all, j < h, h < i - 1 PROVE ~ Catcher(all[h])
        <4>1. h \in DOMAIN a
          BY <1>1, <2>1, <3>4
        <4> QED
          BY <1>4, <3>1, <3>4, <4>1 DEF Ahead
      <3>5. Ahead(pg, rs, all, j, i)
        BY <3>1, <3>2, <3>3, <3>4 DEF Ahead
      <3> QED
        BY <3>2, <3>5
    <2>2. CASE i > la /\ i - la + k \in DOMAIN ops /\ all[i] = ops[i - la + k]
      <3> DEFINE m == i - la + k
      <3>1. m \in DOMAIN ops /\ m \in Nat /\ m > k /\ m - k + la = i /\ ops[m] = all[i]
        BY <1>1, <2>2
      <3> HIDE DEF m
      <3>2. PICK j \in DOMAIN ops : Ahead(pg, rs, ops, j, m)
        BY <1>8, <3>1 DEF Guarded
      <3>3. j \in Nat /\ j > 0 /\ j < m - 1 /\ m - 1 \in Nat
        BY <1>1, <3>1, <3>2 DEF Ahead
      <3>4. \A h \in DOMAIN all : h > la /\ j < h - la + k /\ h < i - 1 => ~ Catcher(all[h])
        <4> SUFFICES ASSUME NEW h \in DOMAIN all, h > la, j < h - la + k, h < i - 1 PROVE ~ Catcher(all[h])
          OBVIOUS
        <4>1. h - la + k \in DOMAIN ops /\ all[h] = ops[h - la + k]
          BY <1>1, <1>2
        <4>2. h - la + k < m - 1
          BY <1>1, <3>1
        <4> QED
          BY <3>2, <4>1, <4>2 DEF Ahead
      <3>5. m - 1 > k => all[i - 1].op = "catch"
        <4> SUFFICES ASSUME m - 1 > k PROVE all[i - 1].op = "catch"
          OBVIOUS
        <4>1. ops[m - 1].op = "catch"
          BY <3>2 DEF Ahead
        <4>2. m - 1 \in DOMAIN ops
          <5>1. DOMAIN ops = 1..Len(ops) /\ Len(ops) \in Nat
            BY IsSeqDom
          <5> QED
            BY <1>1, <3>1, <3>3, <5>1
        <4>3. (m - 1) - k + la = i - 1
          BY <1>1, <3>1
        <4> QED
          BY <1>3, <4>1, <4>2, <4>3
      <3>6. CASE j > k
        <4> DEFINE p == j - k + la
        <4>1. p \in DOMAIN all /\ all[p] = ops[j]
          BY <1>3, <3>6
        <4>2. p \in Nat /\ p < i - 1 /\ p > la /\ m - 1 > k /\ \A h \in Nat : p < h => h > la /\ j < h - la + k
          <5>1. k \in Nat /\ la \in Nat /\ i \in Nat /\ m \in Nat /\ j \in Nat
            BY <1>1, <3>1, <3>3
          <5>2. j < m - 1 /\ m - k + la = i /\ j > k
            BY <3>1, <3>3, <3>6
          <5> QED
            BY <5>1, <5>2, MovedOn
        <4> HIDE DEF p
        <4>3. \A h \in DOMAIN all : p < h /\ h < i - 1 => ~ Catcher(all[h])
          BY <1>1, <3>4, <4>2
        <4>4. Ahead(pg, rs, all, p, i)
          BY <3>2, <3>5, <4>1, <4>2, <4>3 DEF Ahead
        <4> QED
          BY <4>1, <4>4
      <3>7. CASE j <= k
        <4>1. k < m - 1 /\ StillAhead(pg, rs, a)
          BY <1>8, <3>1, <3>2, <3>7 DEF Replaced
        <4>2. PICK b \in DOMAIN a : Breaker(pg, rs, a[b]) /\ \A h \in DOMAIN a : h > b => ~ Catcher(a[h])
          BY <4>1 DEF StillAhead
        <4>3. b \in DOMAIN all /\ all[b] = a[b]
          BY <1>4
        <4>4. b \in Nat /\ b <= la /\ b < i - 1
          BY <1>1, <3>1, <3>3, <4>1
        <4>5. ASSUME NEW h \in DOMAIN all, b < h, h < i - 1 PROVE ~ Catcher(all[h])
          <5>1. CASE h \in DOMAIN a
            BY <1>4, <4>2, <4>5, <5>1
          <5>2. CASE h \notin DOMAIN a
            <6>1. h > la /\ h - la + k \in DOMAIN ops
              BY <1>2, <5>2
            <6>2. j < h - la + k
              BY <1>1, <3>3, <3>7, <6>1
            <6> QED
              BY <3>4, <4>5, <6>1, <6>2
          <5> QED
            BY <5>1, <5>2
        <4>6. Ahead(pg, rs, all, b, i)
          BY <3>5, <4>1, <4>2, <4>3, <4>4, <4>5 DEF Ahead
        <4> QED
          BY <4>3, <4>6
      <3> QED
        BY <1>1, <3>3, <3>6, <3>7
    <2> QED
      BY <1>2, <2>1, <2>2
  <1>9. Guarded(pg, rs, all)
    BY <1>7, <1>8 DEF Guarded
  <1> QED
    BY <1>5, <1>6, <1>9

-------------------------------------------------------------------------------
(* What is pushed *)

\* An event of the type t that has just begun.
Begun(ev, t) == ev.n > clock /\ ev.type = t

\* What every step keeps of the operations: those of the first part belong to an event that
\* was there before or to one that begins, with one type for all that begin at once.
StepBr ==
    /\ OpsBr(page, runs', todo')
    /\ Guarded(page, runs', todo')
    /\ \E t : \A ev \in FirstEvents(page, runs', todo') :
          ev \in FirstEvents(page, runs, todo) \/ Begun(ev, t)

\* Operations that are not in the first part of an event.
PlainBr(pg, rs, o) == OpBr(pg, rs, o) /\ ~ FirstPart(pg, rs, o)
PlainList(pg, rs, a) == IsSeq(a) /\ \A i \in DOMAIN a : PlainBr(pg, rs, a[i])

\* A list of them has nothing to guard.
LEMMA PlainListOK ==
    ASSUME NEW pg, NEW rs, NEW a, PlainList(pg, rs, a)
    PROVE  /\ OpsBr(pg, rs, a) /\ Guarded(pg, rs, a)
           /\ FirstEvents(pg, rs, a) = {}
  <1>1. \A i \in DOMAIN a : OpBr(pg, rs, a[i]) /\ ~ FirstPart(pg, rs, a[i])
    BY DEF PlainList, PlainBr
  <1>2. OpsBr(pg, rs, a)
    BY <1>1 DEF OpsBr
  <1>3. FirstEvents(pg, rs, a) = {}
    BY <1>1 DEF FirstEvents
  <1>4. \A i \in DOMAIN a : a[i].op \notin {"catch", "actions"}
    BY <1>1 DEF FirstPart
  <1>5. Guarded(pg, rs, a)
    BY <1>4 DEF Guarded
  <1> QED
    BY <1>2, <1>3, <1>5

\* The tail of a sequence is what is left without its head.
LEMMA TailIsAfter ==
    ASSUME NEW ops, IsSeq(ops), ops # <<>>
    PROVE  IsAfter(ops, 1, Tail(ops)) /\ 1 \in DOMAIN ops /\ DOMAIN ops \subseteq Nat \ {0}
  <1>1. Len(ops) \in Nat /\ DOMAIN ops = 1..Len(ops)
    BY IsSeqDom
  <1>2. /\ IsSeq(Tail(ops))
        /\ Len(ops) > 0
        /\ Len(Tail(ops)) = Len(ops) - 1
        /\ \A i \in 1..(Len(ops) - 1) : Tail(ops)[i] = ops[i + 1]
    BY IsSeqTail
  <1>3. \A i \in 1..(Len(ops) - 1) : i + 1 = 1 + i
    OBVIOUS
  <1>4. IsAfter(ops, 1, Tail(ops))
    BY <1>1, <1>2, <1>3 DEF IsAfter
  <1> QED
    BY <1>1, <1>2, <1>4

\* The operations before a step, of the runners after it.
LEMMA TodoStays ==
    ASSUME TypeInv, TodoBr, Next
    PROVE  /\ IsSeq(todo)
           /\ OpsBr(page, runs', todo) /\ Guarded(page, runs', todo)
           /\ FirstEvents(page, runs', todo) = FirstEvents(page, runs, todo)
           /\ \A i \in DOMAIN todo : Breaker(page, runs', todo[i]) => Breaker(page, runs, todo[i])
           /\ \A i \in DOMAIN todo : FirstPart(page, runs, todo[i]) => FirstPart(page, runs', todo[i])
  <1>1. Grown(runs, runs') /\ OpsOK(runs, todo)
    BY RunsStep DEF TypeInv
  <1>2. OpsBr(page, runs, todo) /\ Guarded(page, runs, todo)
    BY DEF TodoBr
  <1>3. \A i \in DOMAIN todo : OpOK(runs, todo[i])
    BY <1>1 DEF OpsOK
  <1>4. IsSeq(todo)
    BY <1>1 DEF OpsOK
  <1>5. OpsBr(page, runs', todo) /\ Guarded(page, runs', todo)
    BY <1>1, <1>2, OpsBrStay
  <1>6. FirstEvents(page, runs', todo) = FirstEvents(page, runs, todo)
    BY <1>1, <1>2, OpsBrStay
  <1>7. \A i \in DOMAIN todo : Breaker(page, runs', todo[i]) => Breaker(page, runs, todo[i])
    BY <1>1, <1>3, OpBrStays
  <1>8. \A i \in DOMAIN todo : FirstPart(page, runs, todo[i]) => FirstPart(page, runs', todo[i])
    BY <1>1, <1>3, OpBrStays
  <1> QED
    BY <1>4, <1>5, <1>6, <1>7, <1>8

\* Operations that are pushed before what is left after the first k.
LEMMA JoinedStep ==
    ASSUME TypeInv, TodoBr, Next, NEW k, NEW after, IsAfter(todo, k, after),
           NEW a, IsSeq(a), OpsBr(page, runs', a), Guarded(page, runs', a),
           \A j, m \in DOMAIN todo : j <= k /\ k < m /\ todo[m].op = "actions" /\ Ahead(page, runs', todo, j, m)
              => k < m - 1 /\ StillAhead(page, runs', a),
           NEW t, \A ev \in FirstEvents(page, runs', a) : ev \in FirstEvents(page, runs, todo) \/ Begun(ev, t),
           todo' = a \o after
    PROVE  StepBr
  <1>1. /\ IsSeq(todo)
        /\ OpsBr(page, runs', todo) /\ Guarded(page, runs', todo)
        /\ FirstEvents(page, runs', todo) = FirstEvents(page, runs, todo)
    BY TodoStays
  <1>2. PICK all : all = a \o after
    OBVIOUS
  <1>3. PICK rs : rs = runs'
    OBVIOUS
  <1>4. /\ OpsBr(page, runs', all) /\ Guarded(page, runs', all)
        /\ FirstEvents(page, runs', all) \subseteq FirstEvents(page, runs', a) \cup FirstEvents(page, runs', todo)
    <2>1. IsSeq(todo) /\ OpsBr(page, rs, todo) /\ Guarded(page, rs, todo) /\ OpsBr(page, rs, a) /\ Guarded(page, rs, a)
      BY <1>1, <1>3
    <2>2. Replaced(page, rs, todo, k, a)
      BY <1>3 DEF Replaced
    <2>3. IsJoin(a, after, all)
      BY <1>2 DEF IsJoin
    <2>4. /\ OpsBr(page, rs, all) /\ Guarded(page, rs, all)
          /\ FirstEvents(page, rs, all) \subseteq FirstEvents(page, rs, a) \cup FirstEvents(page, rs, todo)
      BY <2>1, <2>2, <2>3, JoinedBr
    <2> QED
      BY <1>3, <2>4
  <1>5. todo' = all
    BY <1>2
  <1>6. \A ev \in FirstEvents(page, runs', all) : ev \in FirstEvents(page, runs, todo) \/ Begun(ev, t)
    BY <1>1, <1>4
  <1> QED
    BY <1>4, <1>5, <1>6 DEF StepBr

\* The operation at the head is replaced.
LEMMA PushedBr ==
    ASSUME TypeInv, TodoBr, Next, todo # <<>>,
           NEW a, IsSeq(a), OpsBr(page, runs', a), Guarded(page, runs', a),
           Breaker(page, runs, todo[1]) => StillAhead(page, runs', a),
           NEW t, \A ev \in FirstEvents(page, runs', a) : ev \in FirstEvents(page, runs, todo) \/ Begun(ev, t),
           Do(a)
    PROVE  StepBr
  <1>1. IsSeq(todo) /\ \A i \in DOMAIN todo : Breaker(page, runs', todo[i]) => Breaker(page, runs, todo[i])
    BY TodoStays
  <1>2. PICK after : after = Tail(todo)
    OBVIOUS
  <1>3. IsAfter(todo, 1, after) /\ DOMAIN todo \subseteq Nat \ {0} /\ 1 \in DOMAIN todo
    BY <1>1, <1>2, TailIsAfter
  <1>4. ASSUME NEW j \in DOMAIN todo, NEW m \in DOMAIN todo, j <= 1, 1 < m, todo[m].op = "actions",
               Ahead(page, runs', todo, j, m)
        PROVE  1 < m - 1 /\ StillAhead(page, runs', a)
    <2>1. j = 1
      BY <1>3, <1>4
    <2>2. 1 < m - 1 /\ Breaker(page, runs', todo[1])
      BY <1>4, <2>1 DEF Ahead
    <2> QED
      BY <1>1, <1>3, <2>2
  <1>5. todo' = a \o after
    BY <1>2 DEF Do
  <1> QED
    BY <1>3, <1>4, <1>5, JoinedStep

\* By operations that are not in the first part of an event.
LEMMA PushedPlain ==
    ASSUME TypeInv, TodoBr, Next, todo # <<>>, ~ Breaker(page, runs, todo[1]),
           NEW a, PlainList(page, runs', a), Do(a)
    PROVE  StepBr
  <1>1. OpsBr(page, runs', a) /\ Guarded(page, runs', a) /\ FirstEvents(page, runs', a) = {}
    BY PlainListOK
  <1>2. IsSeq(a)
    BY DEF PlainList
  <1>3. \A ev \in FirstEvents(page, runs', a) : ev \in FirstEvents(page, runs, todo) \/ Begun(ev, "")
    BY <1>1
  <1> QED
    BY <1>1, <1>2, <1>3, PushedBr

\* Lists of one and two operations, one list after the other, one operation for each element.
LEMMA PlainLists ==
    ASSUME NEW pg, NEW rs
    PROVE  /\ PlainList(pg, rs, <<>>)
           /\ \A o : PlainBr(pg, rs, o) => PlainList(pg, rs, <<o>>)
           /\ \A o, p : PlainBr(pg, rs, o) /\ PlainBr(pg, rs, p) => PlainList(pg, rs, <<o, p>>)
  BY IsSeqEmpty, IsSeqTuples DEF PlainList

\* One list after the other.
LEMMA PlainConcat ==
    ASSUME NEW pg, NEW rs, NEW a, PlainList(pg, rs, a), NEW b, PlainList(pg, rs, b), NEW all, all = a \o b
    PROVE  PlainList(pg, rs, all)
  <1>1. IsSeq(a) /\ IsSeq(b)
    BY DEF PlainList
  <1>2. /\ Len(a) \in Nat /\ DOMAIN a = 1..Len(a) /\ Len(b) \in Nat /\ DOMAIN b = 1..Len(b)
    BY <1>1, IsSeqDom
  <1>3. /\ IsSeq(all) /\ DOMAIN all = 1..(Len(a) + Len(b))
        /\ \A i \in 1..Len(a) : all[i] = a[i]
        /\ \A i \in 1..Len(b) : all[Len(a) + i] = b[i]
    BY <1>1, IsSeqConcat
  <1>4. ASSUME NEW i \in DOMAIN all PROVE PlainBr(pg, rs, all[i])
    <2>1. CASE i <= Len(a)
      <3>1. i \in DOMAIN a /\ all[i] = a[i]
        BY <1>2, <1>3, <2>1
      <3> QED
        BY <3>1 DEF PlainList
    <2>2. CASE i > Len(a)
      <3>1. i - Len(a) \in 1..Len(b) /\ Len(a) + (i - Len(a)) = i
        BY <1>2, <1>3, <2>2
      <3>2. all[Len(a) + (i - Len(a))] = b[i - Len(a)]
        BY <1>3, <3>1
      <3> QED
        BY <1>2, <3>1, <3>2 DEF PlainList
    <2> QED
      BY <1>2, <1>3, <2>1, <2>2
  <1> QED
    BY <1>3, <1>4 DEF PlainList

\* What belongs to no event, or to one that is past its first part.
LEMMA PlainBrKinds ==
    ASSUME NEW pg, NEW rs
    PROVE  /\ \A o : o.op \in {"fire", "throw", "parse", "store", "caught", "complete", "send"} => PlainBr(pg, rs, o)
           /\ \A x, ev : IsAction(MetaAt(pg, rs, x)) => PlainBr(pg, rs, [op |-> "action", x |-> x, ev |-> ev])
           /\ \A x, ev : ~ IsEarly(MetaAt(pg, rs, x)) => PlainBr(pg, rs, ExecuteOp(x, ev)) /\ PlainBr(pg, rs, RunOp(x, ev))
           /\ \A x, ev, data, last : ~ ListOf(MetaAt(pg, rs, x), Before) =>
                 PlainBr(pg, rs, [op |-> "callback", x |-> x, ev |-> ev, data |-> data, last |-> last])
  BY DEF PlainBr, OpBr, FirstPart, ExecuteOp, RunOp

\* Only what throws, executes or runs may break.
LEMMA NoBreaker ==
    ASSUME todo # <<>>, todo[1].op \notin {"throw", "execute", "run"}
    PROVE  ~ Breaker(page, runs, todo[1])
  BY Zenon DEF Breaker

\* What runs and is no Break does not.
LEMMA NoBreakerRuns ==
    ASSUME todo # <<>>, todo[1].op = "run", Meta(todo[1].x).type # "Break"
    PROVE  ~ Breaker(page, runs, todo[1])
  BY Zenon DEF Breaker, IsBreaker, Meta, RunOf, MetaAt, MetasAt

\* What runs and executables that are no actions, of the page and the runners at hand.
LEMMA MetaIsMetaAt ==
    ASSUME NEW x
    PROVE  Meta(x) = MetaAt(page, runs, x)
  BY DEF Meta, RunOf, MetaAt, MetasAt

\* The operation at the head is replaced by none, one or two of them.
LEMMA PushedPlains ==
    ASSUME TypeInv, TodoBr, Next, todo # <<>>, ~ Breaker(page, runs, todo[1])
    PROVE  /\ Do(<<>>) => StepBr
           /\ \A o : PlainBr(page, runs', o) /\ Do(<<o>>) => StepBr
           /\ \A o, p : PlainBr(page, runs', o) /\ PlainBr(page, runs', p) /\ Do(<<o, p>>) => StepBr
  <1>1. ASSUME NEW a, PlainList(page, runs', a), Do(a) PROVE StepBr
    BY <1>1, PushedPlain
  <1> HIDE DEF Do
  <1>2. Do(<<>>) => StepBr
    BY <1>1, PlainLists
  <1>3. ASSUME NEW o, PlainBr(page, runs', o), Do(<<o>>) PROVE StepBr
    <2>1. PlainList(page, runs', <<o>>)
      BY <1>3, PlainLists
    <2> QED
      BY <1>1, <1>3, <2>1
  <1>4. ASSUME NEW o, NEW p, PlainBr(page, runs', o), PlainBr(page, runs', p), Do(<<o, p>>) PROVE StepBr
    <2>1. PlainList(page, runs', <<o, p>>)
      BY <1>4, PlainLists
    <2> QED
      BY <1>1, <1>4, <2>1
  <1> QED
    BY <1>2, <1>3, <1>4

\* The operation at the head and its executable.
LEMMA HeadBr ==
    ASSUME TypeInv, TodoBr, Next, todo # <<>>
    PROVE  /\ OpBr(page, runs, todo[1]) /\ OpBr(page, runs', todo[1])
           /\ FirstPart(page, runs, todo[1]) => todo[1].ev \in FirstEvents(page, runs, todo)
           /\ todo[1].op \in {"execute", "run", "action", "callback", "complete"} =>
                 MetaAt(page, runs', todo[1].x) = Meta(todo[1].x) /\ MetaAt(page, runs, todo[1].x) = Meta(todo[1].x)
  <1>1. 1 \in DOMAIN todo
    BY AtHead
  <1>2. OpBr(page, runs, todo[1])
    BY <1>1 DEF TodoBr, OpsBr
  <1>3. OpBr(page, runs', todo[1])
    BY <1>1, TodoStays DEF OpsBr
  <1>4. FirstPart(page, runs, todo[1]) => todo[1].ev \in FirstEvents(page, runs, todo)
    BY <1>1 DEF FirstEvents
  <1>5. ASSUME todo[1].op \in {"execute", "run", "action", "callback", "complete"}
        PROVE  MetaAt(page, runs', todo[1].x) = Meta(todo[1].x) /\ MetaAt(page, runs, todo[1].x) = Meta(todo[1].x)
    <2>1. Executable(runs, todo[1].x) /\ Grown(runs, runs')
      BY <1>5, AtHeadExecutable, RunsStep
    <2>2. MetaAt(page, runs', todo[1].x) = MetaAt(page, runs, todo[1].x)
      BY <2>1, MetaStays
    <2> QED
      BY <2>2, MetaIsMetaAt
  <1> QED
    BY <1>2, <1>3, <1>4, <1>5

-------------------------------------------------------------------------------
(* What each action leaves to be done *)

\* The end of a try, and what is kept for later.
LEMMA NothingLeftBr ==
    ASSUME TypeInv, TodoBr, Next, CatchNothing \/ CaughtNothing \/ Send \/ Store
    PROVE  StepBr
  <1>1. todo # <<>> /\ todo[1].op \in {"catch", "caught", "send", "store"} /\ Do(<<>>)
    BY DEF CatchNothing, CaughtNothing, Send, Store, At
  <1>2. ~ Breaker(page, runs, todo[1])
    BY <1>1, NoBreaker
  <1> HIDE DEF Do
  <1> QED
    BY <1>1, <1>2, PushedPlains

\* RedirectTo triggers an event or nothing.
LEMMA RedirectBr ==
    ASSUME TypeInv, TodoBr, Next, todo # <<>>, ~ Breaker(page, runs, todo[1]),
           NEW r, RedirectTo(r, <<>>)
    PROVE  StepBr
  <1>1. CASE Do(<<>>)
    BY <1>1, PushedPlains
  <1>2. CASE Do(<<FireOp(ChangeUrl, Doc, NoData)>> \o <<>>)
    <2>1. PICK o : o = FireOp(ChangeUrl, Doc, NoData)
      OBVIOUS
    <2>2. Do(<<o>>)
      <3>1. <<o>> \o <<>> = <<o>>
        OBVIOUS
      <3> QED
        BY <1>2, <2>1, <3>1
    <2>3. PlainBr(page, runs', o)
      BY <2>1, PlainBrKinds DEF FireOp
    <2> HIDE DEF Do
    <2> QED
      BY <2>2, <2>3, PushedPlains
  <1> QED
    BY <1>1, <1>2 DEF RedirectTo

\* Actions that run complete or send.
LEMMA RunActionBr ==
    ASSUME TypeInv, TodoBr, Next, Direct \/ Event \/ Ajax \/ Submit
    PROVE  StepBr
  <1>1. todo # <<>> /\ todo[1].op = "run"
    BY DEF Direct, Event, Ajax, Submit, AtRun, At
  <1>2. ~ Breaker(page, runs, todo[1])
    <2>1. Meta(todo[1].x).type # "Break"
      BY DEF Direct, Event, Ajax, Submit, AtRun
    <2> QED
      BY <1>1, <2>1, NoBreakerRuns
  <1>3. \/ Do(<<>>)
        \/ \E x, ev, res : Do(<<CompleteOp(x, ev, res)>>)
        \/ \E type, site, data, x, ev, res : Do(<<FireOp(type, site, data), CompleteOp(x, ev, res)>>)
        \/ \E type, site, data, x, ev, d :
              Do(<<FireOp(type, site, data), [op |-> "send", x |-> x, ev |-> ev, data |-> d]>>)
    <2>1. CASE Direct \/ Event
      BY <2>1 DEF Direct, Event
    <2>2. CASE Ajax
      BY <2>2 DEF Ajax
    <2>3. CASE Submit
      BY <2>3 DEF Submit
    <2> QED
      BY <2>1, <2>2, <2>3
  <1>4. /\ \A x, ev, res : PlainBr(page, runs', CompleteOp(x, ev, res))
        /\ \A type, site, data : PlainBr(page, runs', FireOp(type, site, data))
        /\ \A x, ev, d : PlainBr(page, runs', [op |-> "send", x |-> x, ev |-> ev, data |-> d])
    BY PlainBrKinds DEF CompleteOp, FireOp
  <1>5. /\ Do(<<>>) => StepBr
        /\ \A o : PlainBr(page, runs', o) /\ Do(<<o>>) => StepBr
        /\ \A o, p : PlainBr(page, runs', o) /\ PlainBr(page, runs', p) /\ Do(<<o, p>>) => StepBr
    BY <1>1, <1>2, PushedPlains
  <1> HIDE DEF Do
  <1> QED
    BY <1>3, <1>4, <1>5

\* Executables that are no actions, but a Break.
LEMMA RunOtherBr ==
    ASSUME TypeInv, TodoBr, Next, Insert \/ Trigger \/ Eval \/ HashStore \/ Attach \/ Detach
    PROVE  StepBr
  <1>1. todo # <<>> /\ todo[1].op = "run"
    BY DEF Insert, Trigger, Eval, HashStore, Attach, Detach, AtRun, At
  <1>2. ~ Breaker(page, runs, todo[1])
    <2>1. Meta(todo[1].x).type # "Break"
      BY DEF Insert, Trigger, Eval, HashStore, Attach, Detach, AtRun
    <2> QED
      BY <1>1, <2>1, NoBreakerRuns, Zenon
  <1>3. /\ \A kind : PlainBr(page, runs', ThrowOp(kind))
        /\ \A type, site, data : PlainBr(page, runs', FireOp(type, site, data))
        /\ \A e : PlainBr(page, runs', ParseOp(e))
    BY PlainBrKinds DEF ThrowOp, FireOp, ParseOp
  <1>4. /\ Do(<<>>) => StepBr
        /\ \A o : PlainBr(page, runs', o) /\ Do(<<o>>) => StepBr
        /\ \A o, p : PlainBr(page, runs', o) /\ PlainBr(page, runs', p) /\ Do(<<o, p>>) => StepBr
    BY <1>1, <1>2, PushedPlains
  <1>5. CASE HashStore
    <2>1. \E r : RedirectTo(r, <<>>)
      BY <1>5 DEF HashStore
    <2> QED
      BY <1>1, <1>2, <2>1, RedirectBr
  <1>6. CASE ~ HashStore
    <2>1. \/ Do(<<>>)
          \/ \E kind : Do(<<ThrowOp(kind)>>)
          \/ \E type, site, data : Do(<<FireOp(type, site, data)>>)
          \/ \E e : Do(<<ParseOp(e)>>)
          \/ \E e, type, site, data : Do(<<ParseOp(e), FireOp(type, site, data)>>)
      <3>1. CASE Insert
        BY <3>1 DEF Insert
      <3>2. CASE Trigger
        BY <3>2 DEF Trigger
      <3>3. CASE Eval
        BY <3>3 DEF Eval
      <3>4. CASE Attach
        BY <3>4 DEF Attach
      <3>5. CASE Detach
        BY <3>5 DEF Detach
      <3> QED
        BY <1>6, <3>1, <3>2, <3>3, <3>4, <3>5
    <2> HIDE DEF Do
    <2> QED
      BY <1>3, <1>4, <2>1
  <1> QED
    BY <1>5, <1>6, Zenon

\* A Break throws.
LEMMA BreakBr ==
    ASSUME TypeInv, TodoBr, Next, Break
    PROVE  StepBr
  <1>1. todo # <<>> /\ Do(<<ThrowOp("break")>>)
    BY DEF Break, AtRun, At
  <1>2. PICK o, a : o = ThrowOp("break") /\ a = <<o>>
    OBVIOUS
  <1>3. PlainBr(page, runs', o) /\ Breaker(page, runs', o)
    BY <1>2, PlainBrKinds DEF ThrowOp, Breaker
  <1>4. PlainList(page, runs', a)
    BY <1>2, <1>3, PlainLists
  <1>5. IsSeq(a)
    BY <1>4 DEF PlainList
  <1>6. OpsBr(page, runs', a) /\ Guarded(page, runs', a) /\ FirstEvents(page, runs', a) = {}
    BY <1>4, PlainListOK
  <1>7. StillAhead(page, runs', a)
    <2>1. DOMAIN a = {1} /\ a[1] = o
      BY <1>2
    <2>2. \A h \in DOMAIN a : ~ h > 1
      BY <2>1
    <2> QED
      BY <1>3, <2>1, <2>2 DEF StillAhead
  <1>8. \A ev \in FirstEvents(page, runs', a) : ev \in FirstEvents(page, runs, todo) \/ Begun(ev, "")
    BY <1>6
  <1>9. Do(a)
    BY <1>1, <1>2
  <1> HIDE DEF Do
  <1> QED
    BY <1>1, <1>5, <1>6, <1>7, <1>8, <1>9, PushedBr

\* The conditions of an executable before the action see no result.
LEMMA EarlyValid ==
    ASSUME TypeInv, ResultsOK, NEW x, Executable(runs, x), ListOf(Meta(x), Before)
    PROVE  IsValid(x) <=> ValidFresh(Meta(x))
  <1>1. x[1] \in Element /\ x[2] \in DOMAIN runs[x[1]] /\ x[3] \in DOMAIN runs[x[1]][x[2]].event
    BY DEF Executable
  <1>2. x[3] \in DOMAIN runs[x[1]][x[2]].result
    BY <1>1, RunFacts DEF TypeInv
  <1>3. ListOf(MetasOf(x[1], x[2])[x[3]], Before)
    BY DEF Meta, RunOf, MetasOf
  <1>4. runs[x[1]][x[2]].result[x[3]] = NoData
    BY <1>1, <1>2, <1>3 DEF ResultsOK
  <1>5. ResultOf(x) = NoData
    BY <1>4 DEF ResultOf, RunOf
  <1> QED
    BY <1>5 DEF IsValid, ValidFresh, Satisfied

\* An executable is skipped, waits or runs: one that breaks runs.
LEMMA ExecuteBr ==
    ASSUME TypeInv, ResultsOK, TodoBr, Next, Execute
    PROVE  StepBr
  <1>1. todo # <<>> /\ todo[1].op = "execute"
    BY DEF Execute, At
  <1>2. PICK x, ev : x = todo[1].x /\ ev = todo[1].ev
    OBVIOUS
  <1>3. Executable(runs, x)
    BY <1>1, <1>2, AtHeadExecutable
  <1>4. /\ OpBr(page, runs, todo[1]) /\ MetaAt(page, runs', x) = Meta(x) /\ MetaAt(page, runs, x) = Meta(x)
        /\ FirstPart(page, runs, todo[1]) => ev \in FirstEvents(page, runs, todo)
    BY <1>1, <1>2, HeadBr
  <1>5. IsEarly(Meta(x)) => (IsValid(x) <=> ValidFresh(Meta(x)))
    BY <1>3, EarlyValid DEF IsEarly
  <1>6. \/ Do(<<>>) /\ (~ IsValid(x) \/ Meta(x).delay # "none")
        \/ Do(<<RunOp(x, ev)>>) /\ IsValid(x)
    BY <1>2 DEF Execute
  <1>7. CASE Do(<<>>) /\ (~ IsValid(x) \/ Meta(x).delay # "none")
    <2>1. ~ IsBreaker(Meta(x))
      BY <1>5, <1>7 DEF IsBreaker, IsEarly
    <2>2. ~ Breaker(page, runs, todo[1])
      BY <1>1, <1>2, <1>4, <2>1 DEF Breaker
    <2> QED
      BY <1>1, <1>7, <2>2, PushedPlains
  <1>8. CASE Do(<<RunOp(x, ev)>>) /\ IsValid(x)
    <2>1. PICK o, a : o = RunOp(x, ev) /\ a = <<o>>
      OBVIOUS
    <2>2. o.op = "run" /\ o.x = x /\ o.ev = ev
      BY <2>1 DEF RunOp
    <2>3. OpBr(page, runs', o)
      BY <1>1, <1>2, <1>4, <1>5, <1>8, <2>2 DEF OpBr
    <2>4. FirstPart(page, runs', o) => ev \in FirstEvents(page, runs, todo)
      BY <1>1, <1>2, <1>4, <2>2 DEF FirstPart
    <2>5. Breaker(page, runs, todo[1]) => Breaker(page, runs', o)
      BY <1>1, <1>2, <1>4, <2>2 DEF Breaker
    <2>6. IsSeq(a) /\ DOMAIN a = {1} /\ a[1] = o
      BY <2>1, IsSeqTuples
    <2>7. OpsBr(page, runs', a)
      BY <2>3, <2>6 DEF OpsBr
    <2>8. Guarded(page, runs', a)
      BY <2>2, <2>6 DEF Guarded
    <2>9. Breaker(page, runs, todo[1]) => StillAhead(page, runs', a)
      <3>1. \A h \in DOMAIN a : ~ h > 1
        BY <2>6
      <3> QED
        BY <2>5, <2>6, <3>1 DEF StillAhead
    <2>10. \A v \in FirstEvents(page, runs', a) : v \in FirstEvents(page, runs, todo) \/ Begun(v, "")
      BY <2>2, <2>4, <2>6 DEF FirstEvents
    <2>11. Do(a)
      BY <1>8, <2>1
    <2> HIDE DEF Do
    <2> QED
      BY <1>1, <2>6, <2>7, <2>8, <2>9, <2>10, <2>11, PushedBr
  <1> QED
    BY <1>6, <1>7, <1>8

\* Operations that begin an event or hand it on.
LEMMA PushedEvents ==
    ASSUME TypeInv, TodoBr, Next, todo # <<>>, ~ Breaker(page, runs, todo[1]),
           NEW a, IsSeq(a), \A i \in DOMAIN a : a[i].op \in {"invoke", "dispatch"},
           NEW t, \A i \in DOMAIN a : a[i].ev \in FirstEvents(page, runs, todo) \/ Begun(a[i].ev, t),
           Do(a)
    PROVE  StepBr
  <1>1. OpsBr(page, runs', a)
    BY DEF OpsBr, OpBr
  <1>2. Guarded(page, runs', a)
    BY DEF Guarded
  <1>3. \A ev \in FirstEvents(page, runs', a) : ev \in FirstEvents(page, runs, todo) \/ Begun(ev, t)
    <2>1. FirstEvents(page, runs', a) \subseteq {a[i].ev : i \in DOMAIN a}
      BY DEF FirstEvents
    <2> QED
      BY <2>1
  <1> HIDE DEF Do
  <1> QED
    BY <1>1, <1>2, <1>3, PushedBr

\* An event begins.
LEMMA FireBr ==
    ASSUME TypeInv, TodoBr, Next, Fire
    PROVE  StepBr
  <1>1. PICK o, f : /\ todo # <<>> /\ todo[1].op = "fire" /\ f = todo[1]
                    /\ o.op = "dispatch" /\ o.ev.n = clock + 1 /\ o.ev.type = f.type /\ Do(<<o>>)
    BY Zenon DEF Fire, At
  <1>2. ~ Breaker(page, runs, todo[1])
    BY <1>1, NoBreaker
  <1>3. Begun(o.ev, f.type)
    <2>1. clock \in Nat
      BY DEF TypeInv, CountersOK
    <2> QED
      BY <1>1, <2>1 DEF Begun
  <1>4. PICK a : a = <<o>>
    OBVIOUS
  <1>5. IsSeq(a) /\ (\A i \in DOMAIN a : a[i] = o) /\ Do(a)
    BY <1>1, <1>4, IsSeqTuples
  <1> HIDE DEF Do
  <1> QED
    BY <1>1, <1>2, <1>3, <1>5, PushedEvents, Zenon

\* It is handed on to the elements that handle it and to those around them.
LEMMA DispatchBr ==
    ASSUME TypeInv, TodoBr, Next, Dispatch
    PROVE  StepBr
  <1>1. todo # <<>> /\ todo[1].op = "dispatch"
    BY DEF Dispatch, At
  <1>0. ~ Breaker(page, runs, todo[1])
    BY <1>1, NoBreaker
  <1>2. CASE Do(<<>>)
    BY <1>0, <1>1, <1>2, PushedPlains
  <1>3. CASE ~ Do(<<>>)
    <2> DEFINE d == todo[1]
               site == d.path[1]
               hs == Handlers(site, d.ev.type)
               calls == [i \in DOMAIN hs |-> InvokeOp(IF site = Doc THEN hs[i].site ELSE site, d.ev)]
               d2 == [op |-> "dispatch", path |-> Tail(d.path), ev |-> d.ev]
    <2>1. d = [op |-> "dispatch", path |-> d.path, ev |-> d.ev]
      <3>1. OpOK(runs, d)
        BY <1>1, AtHead
      <3> QED
        BY <1>1, <3>1 DEF OpOK
    <2>2. [d EXCEPT !.path = Tail(d.path)] = d2
      <3>1. WithPath(d, Tail(d.path)) = d2
        <4> HIDE DEF d
        <4>1. \A p : WithPath(d, p) = [op |-> "dispatch", path |-> p, ev |-> d.ev]
          BY <2>1, WithPathDoes
        <4> QED
          BY <4>1
      <3> QED
        BY <3>1 DEF WithPath
    <2>3. Do(calls \o <<>>) \/ Do(calls \o <<d2>>)
      <3>1. Do(calls \o <<>>) \/ Do(calls \o <<[d EXCEPT !.path = Tail(d.path)]>>)
        BY <1>3 DEF Dispatch
      <3> QED
        BY <2>2, <3>1
    <2>4. PICK ev : ev = d.ev
      OBVIOUS
    <2>5. ev \in FirstEvents(page, runs, todo)
      BY <1>1, <2>4, HeadBr DEF FirstPart
    <2>6. d2.op = "dispatch" /\ d2.ev = ev
      BY <2>4
    <2>7. \A i \in DOMAIN hs : calls[i].op = "invoke" /\ calls[i].ev = ev
      BY <2>4 DEF InvokeOp
    <2>8. IsSeq(hs)
      BY HandlersSeq DEF TypeInv
    <2>9. calls = [i \in DOMAIN hs |-> calls[i]]
      OBVIOUS
    <2> HIDE DEF calls, hs, d2, d
    <2>10. IsSeq(calls) /\ DOMAIN calls = DOMAIN hs
      BY <2>8, <2>9, Mapped
    <2>11. ASSUME NEW ops, IsSeq(ops), Do(calls \o ops), \A i \in DOMAIN ops : ops[i] = d2
           PROVE  StepBr
      <3>1. PICK all : all = calls \o ops
        OBVIOUS
      <3>2. IsSeq(all) /\ \A i \in DOMAIN all : all[i].op \in {"invoke", "dispatch"} /\ all[i].ev = ev
        <4>1. PICK la, lb : la = Len(calls) /\ lb = Len(ops)
          OBVIOUS
        <4>2. la \in Nat /\ lb \in Nat /\ DOMAIN calls = 1..la /\ DOMAIN ops = 1..lb
          BY <2>10, <2>11, <4>1, IsSeqDom
        <4>3. /\ IsSeq(all) /\ DOMAIN all = 1..(la + lb)
              /\ \A i \in 1..la : all[i] = calls[i]
              /\ \A i \in 1..lb : all[la + i] = ops[i]
          BY <2>10, <2>11, <3>1, <4>1, IsSeqConcat
        <4>4. ASSUME NEW i \in DOMAIN all PROVE all[i].op \in {"invoke", "dispatch"} /\ all[i].ev = ev
          <5>1. CASE i <= la
            <6>1. i \in 1..la /\ i \in DOMAIN hs
              BY <2>10, <4>2, <4>3, <5>1
            <6> QED
              BY <2>7, <4>3, <6>1
          <5>2. CASE i > la
            <6>1. i - la \in 1..lb /\ la + (i - la) = i
              BY <4>2, <4>3, <5>2
            <6>2. all[i] = ops[i - la] /\ ops[i - la] = d2
              BY <2>11, <4>2, <4>3, <6>1
            <6> QED
              BY <2>6, <6>2
          <5> QED
            BY <4>2, <4>3, <5>1, <5>2
        <4> QED
          BY <4>3, <4>4
      <3>3. Do(all)
        BY <2>11, <3>1
      <3>4. \A i \in DOMAIN all : all[i].ev \in FirstEvents(page, runs, todo) \/ Begun(all[i].ev, "")
        BY <2>5, <3>2
      <3> HIDE DEF Do
      <3> QED
        BY <1>0, <1>1, <3>2, <3>3, <3>4, PushedEvents
    <2>12. IsSeq(<<>>) /\ DOMAIN <<>> = {} /\ IsSeq(<<d2>>) /\ \A i \in DOMAIN <<d2>> : <<d2>>[i] = d2
      BY IsSeqEmpty, IsSeqTuples
    <2>13. CASE Do(calls \o <<>>)
      BY <2>11, <2>12, <2>13
    <2>14. CASE Do(calls \o <<d2>>)
      BY <2>11, <2>12, <2>14
    <2> QED
      BY <2>3, <2>13, <2>14
  <1> QED
    BY <1>2, <1>3

\* Elements that are initialised get events of their own.
LEMMA ParseBr ==
    ASSUME TypeInv, TodoBr, Next, ParseContext
    PROVE  StepBr
  <1>1. todo # <<>> /\ todo[1].op = "parse"
    BY DEF ParseContext, At
  <1>2. ~ Breaker(page, runs, todo[1])
    BY <1>1, NoBreaker
  <1>3. PICK ds : /\ IsSeq(ds) /\ clock' = clock + Len(ds)
                  /\ Do([i \in DOMAIN ds |->
                           InvokeOp(<<ds[i], node[ds[i]]>>,
                                    [type |-> InitIncoding, n |-> clock + i, data |-> NoData])])
    BY ParseDoes
  <1>4. clock \in Nat /\ Len(ds) \in Nat /\ DOMAIN ds = 1..Len(ds)
    BY <1>3, IsSeqDom DEF TypeInv, CountersOK
  <1> DEFINE ops == [i \in DOMAIN ds |->
                        InvokeOp(<<ds[i], node[ds[i]]>>,
                                 [type |-> InitIncoding, n |-> clock + i, data |-> NoData])]
  <1>5. ASSUME NEW i \in DOMAIN ds
        PROVE  ops[i].op = "invoke" /\ Begun(ops[i].ev, InitIncoding)
    <2>1. i \in Nat /\ i > 0
      BY <1>4
    <2> QED
      BY <1>4, <2>1 DEF InvokeOp, Begun
  <1>6. Do(ops) /\ ops = [i \in DOMAIN ds |-> ops[i]]
    BY <1>3
  <1> HIDE DEF ops, Do
  <1>7. IsSeq(ops) /\ DOMAIN ops = DOMAIN ds
    BY <1>3, <1>6, Mapped
  <1> QED
    BY <1>1, <1>2, <1>5, <1>6, <1>7, PushedEvents

\* The executables of a list after the step.
LEMMA ListMetas ==
    ASSUME TypeInv, Next, NEW e \in Element, NEW r \in DOMAIN runs[e],
           NEW S, S \subseteq DOMAIN MetasOf(e, r), NEW xs, Lists(e, r, S, xs)
    PROVE  /\ IsSeq(xs)
           /\ \A i \in DOMAIN xs : xs[i][3] \in S /\ MetaAt(page, runs', xs[i]) = MetasOf(e, r)[xs[i][3]]
           /\ \A p \in S : \E i \in DOMAIN xs : xs[i][3] = p
  <1>1. Grown(runs, runs')
    BY RunsStep
  <1>2. IsSeq(xs)
    BY DEF Lists
  <1>3. ASSUME NEW i \in DOMAIN xs
        PROVE  xs[i][3] \in S /\ MetaAt(page, runs', xs[i]) = MetasOf(e, r)[xs[i][3]]
    <2>1. xs[i][3] \in S /\ xs[i] = <<e, r, xs[i][3]>>
      BY DEF Lists
    <2>2. xs[i][1] = e /\ xs[i][2] = r
      BY <2>1
    <2>3. Executable(runs, xs[i])
      BY ListedLater
    <2>4. MetaAt(page, runs', xs[i]) = MetaAt(page, runs, xs[i])
      BY <1>1, <2>3, MetaStays
    <2>5. MetaAt(page, runs, xs[i]) = MetasOf(e, r)[xs[i][3]]
      BY <2>2 DEF MetaAt, MetasAt, MetasOf
    <2> QED
      BY <2>1, <2>4, <2>5
  <1>4. ASSUME NEW p \in S PROVE \E i \in DOMAIN xs : xs[i][3] = p
    <2>1. PICK i \in DOMAIN xs : xs[i] = <<e, r, p>>
      BY DEF Lists
    <2> QED
      BY <2>1
  <1> QED
    BY <1>2, <1>3, <1>4

\* The actions of an event are past its first part.
LEMMA ActionsBr ==
    ASSUME TypeInv, TodoBr, Next, Actions
    PROVE  StepBr
  <1>1. todo # <<>> /\ todo[1].op = "actions"
    BY DEF Actions, At
  <1>2. ~ Breaker(page, runs, todo[1])
    BY <1>1, NoBreaker
  <1>e. PICK ev : ev = todo[1].ev
    OBVIOUS
  <1> DEFINE e == todo[1].e
             r == todo[1].r
             xs == ActionsOf(e, r, ev.type)
             ops == [i \in DOMAIN xs |-> [op |-> "action", x |-> xs[i], ev |-> ev]]
             S == ActionPositions(e, r, ev.type)
  <1>3. Do(ops)
    BY <1>e DEF Actions, Each
  <1>4. e \in Element /\ r \in DOMAIN runs[e] /\ Lists(e, r, S, xs)
    BY <1>e, ActionsDoes
  <1>5. S \subseteq DOMAIN MetasOf(e, r) /\ \A p \in S : IsAction(MetasOf(e, r)[p])
    BY DEF ActionPositions
  <1>6. ops = [i \in DOMAIN xs |-> ops[i]] /\ \A i \in DOMAIN xs : ops[i] = [op |-> "action", x |-> xs[i], ev |-> ev]
    OBVIOUS
  <1> HIDE DEF ops, xs, e, r, S
  <1>7. IsSeq(xs) /\ \A i \in DOMAIN xs : xs[i][3] \in S /\ MetaAt(page, runs', xs[i]) = MetasOf(e, r)[xs[i][3]]
    <2>1. e \in Element /\ r \in DOMAIN runs[e] /\ S \subseteq DOMAIN MetasOf(e, r)
      BY <1>4, <1>5
    <2>2. Lists(e, r, S, xs)
      BY <1>4
    <2>3. IsSeq(xs)
      BY <2>1, <2>2, ListMetas
    <2>4. \A i \in DOMAIN xs : xs[i][3] \in S
      BY <2>2 DEF Lists
    <2>5. ASSUME NEW i \in DOMAIN xs PROVE MetaAt(page, runs', xs[i]) = MetasOf(e, r)[xs[i][3]]
      BY <2>1, <2>2, ListMetas
    <2> QED
      BY <2>3, <2>4, <2>5
  <1>8. IsSeq(ops) /\ DOMAIN ops = DOMAIN xs
    BY <1>6, <1>7, Mapped
  <1>9. \A i \in DOMAIN xs : PlainBr(page, runs', ops[i])
    <2>1. \A i \in DOMAIN xs : IsAction(MetaAt(page, runs', xs[i]))
      BY <1>5, <1>7
    <2> QED
      BY <1>6, <2>1, PlainBrKinds
  <1>10. PlainList(page, runs', ops)
    BY <1>8, <1>9 DEF PlainList
  <1> HIDE DEF Do
  <1> QED
    BY <1>1, <1>2, <1>3, <1>10, PushedPlain

\* An action is no executable before the action.
LEMMA ActionBr ==
    ASSUME TypeInv, TodoBr, Next, Action
    PROVE  StepBr
  <1>1. PICK x, ev : /\ todo # <<>> /\ todo[1].op = "action" /\ x = todo[1].x /\ ev = todo[1].ev
                     /\ Do(<<ExecuteOp(x, ev)>>)
    BY DEF Action, At
  <1>2. ~ Breaker(page, runs, todo[1])
    BY <1>1, NoBreaker
  <1>3. IsAction(MetaAt(page, runs', x))
    BY <1>1, HeadBr DEF OpBr
  <1>4. PICK o : o = ExecuteOp(x, ev)
    OBVIOUS
  <1>5. PlainBr(page, runs', o)
    BY <1>3, <1>4, PlainBrKinds DEF IsEarly, ListOf
  <1>6. Do(<<o>>)
    BY <1>1, <1>4
  <1> HIDE DEF Do
  <1> QED
    BY <1>1, <1>2, <1>5, <1>6, PushedPlains

\* Nor is a callback.
LEMMA CallbackBr ==
    ASSUME TypeInv, TodoBr, Next, Callback
    PROVE  StepBr
  <1>1. PICK x, ev, p : /\ todo # <<>> /\ todo[1].op = "callback" /\ x = todo[1].x /\ ev = todo[1].ev
                        /\ p.op = "caught" /\ Do(<<ExecuteOp(x, ev), p>>)
    BY Zenon DEF Callback, At
  <1>2. ~ Breaker(page, runs, todo[1])
    BY <1>1, NoBreaker
  <1>3. ~ ListOf(MetaAt(page, runs', x), Before)
    BY <1>1, HeadBr DEF OpBr
  <1>4. PICK o : o = ExecuteOp(x, ev)
    OBVIOUS
  <1>5. PlainBr(page, runs', o) /\ PlainBr(page, runs', p)
    BY <1>1, <1>3, <1>4, PlainBrKinds DEF IsEarly
  <1>6. Do(<<o, p>>)
    BY <1>1, <1>4
  <1> HIDE DEF Do
  <1> QED
    BY <1>1, <1>2, <1>5, <1>6, PushedPlains, Zenon

\* Nor are the executables on break.
LEMMA BreakCallbacksBr ==
    ASSUME TypeInv, TodoBr, Next, BreakCallbacks
    PROVE  StepBr
  <1>1. todo # <<>> /\ todo[1].op = "breakes" /\ (Do(<<>>) \/ Do(todo[1].callbacks))
    BY DEF BreakCallbacks, At
  <1>2. ~ Breaker(page, runs, todo[1])
    BY <1>1, NoBreaker
  <1>3. CASE Do(<<>>)
    BY <1>1, <1>2, <1>3, PushedPlains
  <1>4. CASE Do(todo[1].callbacks)
    <2>1. PICK cs : cs = todo[1].callbacks
      OBVIOUS
    <2>2. IsSeq(cs) /\ \A i \in DOMAIN cs : cs[i].op = "callback"
      <3>1. OpOK(runs, todo[1])
        BY <1>1, AtHead
      <3> QED
        BY <1>1, <2>1, <3>1 DEF OpOK
    <2>3. \A i \in DOMAIN cs : ~ ListOf(MetaAt(page, runs', cs[i].x), Before)
      BY <1>1, <2>1, HeadBr DEF OpBr
    <2>4. PlainList(page, runs', cs)
      BY <2>2, <2>3 DEF PlainList, PlainBr, OpBr, FirstPart
    <2>5. Do(cs)
      BY <1>4, <2>1
    <2> HIDE DEF Do
    <2> QED
      BY <1>1, <1>2, <2>4, <2>5, PushedPlain
  <1> QED
    BY <1>1, <1>3, <1>4

\* One sequence behind another.
LEMMA BehindEachOther ==
    ASSUME NEW s, IsSeq(s), NEW q, IsSeq(q), NEW all, all = s \o q
    PROVE  /\ IsSeq(all) /\ Len(s) \in Nat /\ DOMAIN all = 1..(Len(s) + Len(q))
           /\ \A i \in 1..Len(s) : all[i] = s[i]
           /\ \A i \in 1..Len(q) : all[Len(s) + i] = q[i]
  <1>1. IsSeq(s) /\ IsSeq(q)
    OBVIOUS
  <1>2. Len(s) \in Nat
    BY <1>1, IsSeqDom
  <1>3. IsSeq(all)
    BY <1>1, IsSeqConcat
  <1>4. DOMAIN all = 1..(Len(s) + Len(q))
    BY <1>1, IsSeqConcat
  <1>5. \A i \in 1..Len(s) : all[i] = s[i]
    BY <1>1, IsSeqConcat
  <1>6. \A i \in 1..Len(q) : all[Len(s) + i] = q[i]
    BY <1>1, IsSeqConcat
  <1> QED
    BY <1>2, <1>3, <1>4, <1>5, <1>6

\* What an invocation leaves: the executables xs before the action, the end of the try around
\* them and the actions.
Invoked(pg, rs, e, r, ev, n, xs, all) ==
    /\ n \in Nat /\ DOMAIN xs = 1..n /\ IsSeq(all) /\ DOMAIN all = 1..(n + 2)
    /\ \A i \in 1..n : all[i].op = "execute" /\ all[i].x = xs[i] /\ all[i].ev = ev
    /\ \A i \in 1..n : ev.type \in MetaAt(pg, rs, xs[i]).onBind
    /\ Breaks(pg, rs, e, r, ev.type) => \E i \in 1..n : IsBreaker(MetaAt(pg, rs, xs[i]))
    /\ all[n + 1].op = "catch" /\ all[n + 1].ev = ev
    /\ all[n + 2].op = "actions" /\ all[n + 2].e = e /\ all[n + 2].r = r /\ all[n + 2].ev = ev

\* Its actions are guarded.
LEMMA InvokedBr ==
    ASSUME NEW pg, NEW rs, NEW e, NEW r, NEW ev, NEW n, NEW xs, NEW all, Invoked(pg, rs, e, r, ev, n, xs, all)
    PROVE  /\ IsSeq(all) /\ OpsBr(pg, rs, all) /\ Guarded(pg, rs, all)
           /\ FirstEvents(pg, rs, all) \subseteq {ev}
  <1>1. n \in Nat /\ DOMAIN xs = 1..n /\ IsSeq(all) /\ DOMAIN all = 1..(n + 2)
    BY DEF Invoked
  <1>2. \A i \in 1..n : all[i].op = "execute" /\ all[i].x = xs[i] /\ all[i].ev = ev
    BY DEF Invoked
  <1>3. \A i \in 1..n : ev.type \in MetaAt(pg, rs, xs[i]).onBind
    BY DEF Invoked
  <1>4. Breaks(pg, rs, e, r, ev.type) => \E i \in 1..n : IsBreaker(MetaAt(pg, rs, xs[i]))
    BY DEF Invoked
  <1>5. /\ all[n + 1].op = "catch" /\ all[n + 1].ev = ev
        /\ all[n + 2].op = "actions" /\ all[n + 2].e = e /\ all[n + 2].r = r /\ all[n + 2].ev = ev
    BY DEF Invoked
  <1>6. \A i \in DOMAIN all : i \in 1..n \/ i = n + 1 \/ i = n + 2
    BY <1>1
  <1>8. OpsBr(pg, rs, all)
    <2> SUFFICES ASSUME NEW i \in DOMAIN all PROVE OpBr(pg, rs, all[i])
      BY DEF OpsBr
    <2>1. CASE i \in 1..n
      BY <1>2, <1>3, <2>1 DEF OpBr
    <2>2. CASE i = n + 1 \/ i = n + 2
      BY <1>5, <2>2 DEF OpBr
    <2> QED
      BY <1>6, <2>1, <2>2
  <1>9. FirstEvents(pg, rs, all) \subseteq {ev}
    <2>1. \A i \in DOMAIN all : all[i].ev = ev
      BY <1>2, <1>5, <1>6
    <2> QED
      BY <2>1 DEF FirstEvents
  <1>10. ASSUME NEW k \in DOMAIN all, all[k].op = "catch" PROVE k + 1 \in DOMAIN all /\ all[k + 1].op = "actions"
    <2>1. k = n + 1
      BY <1>2, <1>5, <1>6, <1>10
    <2>2. k + 1 = n + 2 /\ n + 2 \in 1..(n + 2)
      BY <1>1, <2>1
    <2> QED
      BY <1>1, <1>5, <2>2
  <1>11. ASSUME NEW k \in DOMAIN all, all[k].op = "actions", Breaks(pg, rs, all[k].e, all[k].r, all[k].ev.type)
         PROVE  \E j \in DOMAIN all : Ahead(pg, rs, all, j, k)
    <2>1. k = n + 2
      BY <1>2, <1>5, <1>6, <1>11
    <2>2. Breaks(pg, rs, e, r, ev.type)
      BY <1>5, <1>11, <2>1
    <2>3. PICK j \in 1..n : IsBreaker(MetaAt(pg, rs, xs[j]))
      BY <1>4, <2>2
    <2>4. j \in DOMAIN all /\ j \in Nat /\ j <= n
      BY <1>1
    <2>5. k - 1 = n + 1 /\ j < k - 1
      BY <1>1, <2>1, <2>4
    <2>6. Breaker(pg, rs, all[j])
      BY <1>2, <2>3 DEF Breaker
    <2>7. ASSUME NEW h \in DOMAIN all, j < h, h < k - 1 PROVE ~ Catcher(all[h])
      <3>1. h \in 1..n
        BY <1>1, <2>5, <2>7
      <3> QED
        BY <1>2, <3>1 DEF Catcher
    <2>8. all[k - 1].op = "catch"
      BY <1>5, <2>5
    <2>9. Ahead(pg, rs, all, j, k)
      BY <2>5, <2>6, <2>7, <2>8 DEF Ahead
    <2> QED
      BY <2>4, <2>9
  <1>12. Guarded(pg, rs, all)
    BY <1>10, <1>11 DEF Guarded
  <1> QED
    BY <1>1, <1>8, <1>9, <1>12

\* A runner that breaks the type has the executable that does among those before the action.
LEMMA InvokeBr ==
    ASSUME TypeInv, TodoBr, Next, Invoke
    PROVE  StepBr
  <1>1. todo # <<>> /\ todo[1].op = "invoke"
    BY DEF Invoke, At
  <1>0. ~ Breaker(page, runs, todo[1])
    BY <1>1, NoBreaker
  <1>e. PICK ev : ev = todo[1].ev
    OBVIOUS
  <1>f. ev \in FirstEvents(page, runs, todo)
    BY <1>1, <1>e, HeadBr DEF FirstPart
  <1> DEFINE e == todo[1].site[1]
             r == runner[e]
  <1>2. CASE ~ (Present(todo[1].site) /\ r # 0)
    <2>1. Do(<<>>)
      BY <1>2 DEF Invoke
    <2> QED
      BY <1>0, <1>1, <2>1, PushedPlains
  <1>3. CASE Present(todo[1].site) /\ r # 0
    <2> DEFINE xs == BeforeOf(e, r, ev.type)
               ops == [i \in DOMAIN xs |-> ExecuteOp(xs[i], ev)]
               c == [op |-> "catch", e |-> e, r |-> r, ev |-> ev]
               a == [op |-> "actions", e |-> e, r |-> r, ev |-> ev]
               S == BeforePositions(e, r, ev.type)
    <2>1. Do(ops \o <<c, a>>)
      BY <1>3, <1>e, Zenon DEF Invoke, Each
    <2>2. e \in Element /\ r \in DOMAIN runs[e] /\ Lists(e, r, S, xs)
      BY <1>3, <1>e, InvokeDoes
    <2>3. /\ S \subseteq DOMAIN MetasOf(e, r)
          /\ \A p \in S : ev.type \in MetasOf(e, r)[p].onBind
          /\ \A p \in DOMAIN MetasOf(e, r) :
                IsBreaker(MetasOf(e, r)[p]) /\ ev.type \in MetasOf(e, r)[p].onBind => p \in S
      BY DEF BeforePositions, IsBreaker, IsEarly
    <2>4. ops = [i \in DOMAIN xs |-> ops[i]] /\ \A i \in DOMAIN xs : ops[i].op = "execute" /\ ops[i].x = xs[i] /\ ops[i].ev = ev
      BY DEF ExecuteOp
    <2>5. c.op = "catch" /\ c.ev = ev /\ a.op = "actions" /\ a.e = e /\ a.r = r /\ a.ev = ev
      OBVIOUS
    <2> HIDE DEF ops, xs, e, r, c, a, S
    <2>6. IsSeq(xs) /\ (\A i \in DOMAIN xs : xs[i][3] \in S) /\ \A p \in S : \E i \in DOMAIN xs : xs[i][3] = p
      <3>1. IsSeq(xs) /\ \A i \in DOMAIN xs : xs[i][3] \in S
        BY <2>2 DEF Lists
      <3>2. ASSUME NEW p \in S PROVE \E i \in DOMAIN xs : xs[i][3] = p
        <4>1. PICK i \in DOMAIN xs : xs[i] = <<e, r, p>>
          BY <2>2 DEF Lists
        <4> QED
          BY <4>1
      <3> QED
        BY <3>1, <3>2
    <2>7. ASSUME NEW i \in DOMAIN xs PROVE MetaAt(page, runs', xs[i]) = MetasOf(e, r)[xs[i][3]]
      <3>1. e \in Element /\ r \in DOMAIN runs[e] /\ S \subseteq DOMAIN MetasOf(e, r)
        BY <2>2, <2>3
      <3>2. Lists(e, r, S, xs)
        BY <2>2
      <3> QED
        BY <3>1, <3>2, ListMetas
    <2>8. IsSeq(ops) /\ DOMAIN ops = DOMAIN xs
      BY <2>4, <2>6, Mapped
    <2>9. \A i \in DOMAIN xs : ev.type \in MetaAt(page, runs', xs[i]).onBind
      BY <2>3, <2>6, <2>7
    <2>10. Breaks(page, runs', e, r, ev.type) => \E i \in DOMAIN xs : IsBreaker(MetaAt(page, runs', xs[i]))
      <3> SUFFICES ASSUME Breaks(page, runs', e, r, ev.type)
                   PROVE  \E i \in DOMAIN xs : IsBreaker(MetaAt(page, runs', xs[i]))
        OBVIOUS
      <3>1. Grown(runs, runs')
        BY RunsStep
      <3>2. Breaks(page, runs, e, r, ev.type)
        BY <2>2, <3>1, BreaksStay, Zenon
      <3>3. PICK q \in DOMAIN MetasOf(e, r) : IsBreaker(MetasOf(e, r)[q]) /\ ev.type \in MetasOf(e, r)[q].onBind
        BY <3>2, Zenon DEF Breaks, MetasOf
      <3>4. q \in S
        BY <2>3, <3>3
      <3>5. PICK i \in DOMAIN xs : xs[i][3] = q
        BY <2>6, <3>4
      <3> QED
        BY <2>7, <3>3, <3>5
    <2>11. PICK p : p = <<c, a>>
      OBVIOUS
    <2>12. PICK all : all = ops \o p
      OBVIOUS
    <2>13. /\ IsSeq(all) /\ OpsBr(page, runs', all) /\ Guarded(page, runs', all)
           /\ FirstEvents(page, runs', all) \subseteq {ev}
      <3>1. PICK n : n = Len(ops)
        OBVIOUS
      <3>2. PICK s : s = ops
        OBVIOUS
      <3>3. IsSeq(s) /\ n = Len(s) /\ all = s \o p
        BY <2>8, <2>12, <3>1, <3>2
      <3>8. IsSeq(p)
        BY <2>11, IsSeqTuples
      <3>10. IsSeq(s) /\ all = s \o p
        BY <3>3
      <3>9. Len(p) = 2 /\ p[1] = c /\ p[2] = a
        BY <2>11, IsSeqTuples
      <3>4. /\ IsSeq(all) /\ n \in Nat /\ DOMAIN all = 1..(n + 2)
            /\ \A i \in 1..n : all[i] = s[i]
            /\ all[n + 1] = c /\ all[n + 2] = a
        <4>1. /\ IsSeq(all) /\ Len(s) \in Nat /\ DOMAIN all = 1..(Len(s) + Len(p))
              /\ \A i \in 1..Len(s) : all[i] = s[i]
              /\ \A i \in 1..Len(p) : all[Len(s) + i] = p[i]
          <5>1. IsSeq(all)
            BY <3>8, <3>10, BehindEachOther
          <5>2. Len(s) \in Nat
            BY <3>8, <3>10, BehindEachOther
          <5>3. DOMAIN all = 1..(Len(s) + Len(p))
            BY <3>8, <3>10, BehindEachOther
          <5>4. \A i \in 1..Len(s) : all[i] = s[i]
            BY <3>8, <3>10, BehindEachOther
          <5>5. \A i \in 1..Len(p) : all[Len(s) + i] = p[i]
            BY <3>8, <3>10, BehindEachOther
          <5> QED
            BY <5>1, <5>2, <5>3, <5>4, <5>5
        <4>2. 1 \in 1..Len(p) /\ 2 \in 1..Len(p)
          BY <3>9
        <4>3. all[Len(s) + 1] = p[1] /\ all[Len(s) + 2] = p[2]
          BY <4>1, <4>2
        <4>4. DOMAIN all = 1..(Len(s) + 2)
          BY <3>9, <4>1
        <4> QED
          BY <3>3, <3>9, <4>1, <4>3, <4>4
      <3>5. DOMAIN xs = 1..n
        BY <2>8, <3>1, IsSeqDom
      <3>6. \A i \in 1..n : all[i].op = "execute" /\ all[i].x = xs[i] /\ all[i].ev = ev
        BY <2>4, <3>2, <3>4, <3>5
      <3>7. Invoked(page, runs', e, r, ev, n, xs, all)
        BY <2>5, <2>9, <2>10, <3>4, <3>5, <3>6 DEF Invoked
      <3> QED
        BY <3>7, InvokedBr
    <2>14. Do(all)
      BY <2>1, <2>11, <2>12
    <2>15. \A v \in FirstEvents(page, runs', all) : v \in FirstEvents(page, runs, todo) \/ Begun(v, "")
      BY <1>f, <2>13
    <2> HIDE DEF Do
    <2> QED
      BY <1>0, <1>1, <2>13, <2>14, <2>15, PushedBr, ZenonT(30)
  <1> QED
    BY <1>2, <1>3

\* Nor are the callbacks of an action: a completion leaves them and the executables on break.
LEMMA CompletedBr ==
    ASSUME TypeInv, TodoBr, Next, Completed
    PROVE  StepBr
  <1>1. todo # <<>> /\ todo[1].op = "complete"
    BY DEF Completed, At
  <1>0. ~ Breaker(page, runs, todo[1])
    BY <1>1, NoBreaker
  <1>2. PICK x, ev : x = todo[1].x /\ ev = todo[1].ev
    OBVIOUS
  <1>3. CASE todo[1].result.redirect # NoRedirect
    <2>1. RedirectTo(todo[1].result.redirect, <<>>)
      BY <1>3 DEF Completed
    <2> QED
      BY <1>0, <1>1, <2>1, RedirectBr
  <1>4. CASE todo[1].result.redirect = NoRedirect
    <2>1. x[1] \in Element /\ x[2] \in DOMAIN runs[x[1]] /\ page \in Page /\ AreRuns(page, runs) /\ Executable(runs, x)
      BY <1>1, <1>2, AtHeadExecutable, Zenon DEF Executable, TypeInv
    <2> DEFINE P(s) == {i \in DOMAIN MetasOf(x[1], x[2]) :
                           /\ ListOf(MetasOf(x[1], x[2])[i], s)
                           /\ MetasOf(x[1], x[2])[i].onBind = Meta(x).onBind}
               data == todo[1].result.data
               Call(last, y) == [op |-> "callback", x |-> y, ev |-> ev, data |-> data, last |-> last]
               status == IF todo[1].result.success THEN Success ELSE Error
               xs == CallbacksOf(x, status) \o CallbacksOf(x, Complete)
               ys == CallbacksOf(x, Breakes)
               ops == [i \in DOMAIN xs |-> Call(FALSE, xs[i])]
               last == [i \in DOMAIN ys |-> Call(TRUE, ys[i])]
               b == [op |-> "breakes", hasBreak |-> FALSE, callbacks |-> last]
    <2>2. Do(ops \o <<b>>)
      BY <1>2, <1>4 DEF Completed, Each
    <2>3. \A s : Lists(x[1], x[2], P(s), CallbacksOf(x, s))
      BY <2>1, CallbacksLists
    <2>4. ops = [i \in DOMAIN xs |-> ops[i]] /\ \A i \in DOMAIN xs : ops[i] = Call(FALSE, xs[i])
      OBVIOUS
    <2>5. last = [i \in DOMAIN ys |-> last[i]] /\ \A i \in DOMAIN ys : last[i] = Call(TRUE, ys[i])
      OBVIOUS
    <2>6. \A s \in {Success, Error, Complete, Breakes} : \A p \in P(s) : ~ ListOf(MetasOf(x[1], x[2])[p], Before)
      BY DEF ListOf, Success, Error, Complete, Breakes, Before
    <2>7. status \in {Success, Error, Complete, Breakes}
      OBVIOUS
    <2>8. b.op = "breakes" /\ b.callbacks = last
      OBVIOUS
    <2>s. \A s : P(s) \subseteq DOMAIN MetasOf(x[1], x[2])
      OBVIOUS
    <2> HIDE DEF P, status, ops, xs, ys, last, b
    <2>9. Lists(x[1], x[2], P(status) \cup P(Complete), xs) /\ Lists(x[1], x[2], P(Breakes), ys)
      BY <2>3, ListsConcat DEF xs, ys
    <2>10. \A i \in DOMAIN xs : ~ ListOf(MetaAt(page, runs', xs[i]), Before)
      <3> SUFFICES ASSUME NEW i \in DOMAIN xs
                   PROVE  ~ ListOf(MetaAt(page, runs', xs[i]), Before)
        OBVIOUS
      <3>1. PICK S : S = P(status) \cup P(Complete)
        OBVIOUS
      <3>2. S \subseteq DOMAIN MetasOf(x[1], x[2]) /\ x[1] \in Element /\ x[2] \in DOMAIN runs[x[1]] /\ Lists(x[1], x[2], S, xs)
        BY <2>1, <2>9, <2>s, <3>1
      <3>3. xs[i][3] \in S
        BY <3>2 DEF Lists
      <3>4. MetaAt(page, runs', xs[i]) = MetasOf(x[1], x[2])[xs[i][3]]
        BY <3>2, ListMetas
      <3>5. ~ ListOf(MetasOf(x[1], x[2])[xs[i][3]], Before)
        BY <2>6, <2>7, <3>1, <3>3
      <3> QED
        BY <3>4, <3>5
    <2>11. \A i \in DOMAIN ys : ~ ListOf(MetaAt(page, runs', ys[i]), Before)
      <3> SUFFICES ASSUME NEW i \in DOMAIN ys
                   PROVE  ~ ListOf(MetaAt(page, runs', ys[i]), Before)
        OBVIOUS
      <3>1. PICK S : S = P(Breakes)
        OBVIOUS
      <3>2. S \subseteq DOMAIN MetasOf(x[1], x[2]) /\ x[1] \in Element /\ x[2] \in DOMAIN runs[x[1]] /\ Lists(x[1], x[2], S, ys)
        BY <2>1, <2>9, <2>s, <3>1
      <3>3. ys[i][3] \in S
        BY <3>2 DEF Lists
      <3>4. MetaAt(page, runs', ys[i]) = MetasOf(x[1], x[2])[ys[i][3]]
        BY <3>2, ListMetas
      <3>5. ~ ListOf(MetasOf(x[1], x[2])[ys[i][3]], Before)
        BY <2>6, <3>1, <3>3
      <3> QED
        BY <3>4, <3>5
    <2>12. IsSeq(xs) /\ IsSeq(ys)
      BY <2>9 DEF Lists
    <2>13. IsSeq(ops) /\ DOMAIN ops = DOMAIN xs /\ IsSeq(last) /\ DOMAIN last = DOMAIN ys
      BY <2>4, <2>5, <2>12, Mapped
    <2>14. ASSUME NEW i \in DOMAIN ops PROVE PlainBr(page, runs', ops[i])
      <3>1. ops[i] = Call(FALSE, xs[i]) /\ ~ ListOf(MetaAt(page, runs', xs[i]), Before)
        BY <2>4, <2>10, <2>13
      <3> QED
        BY <3>1, PlainBrKinds
    <2>15. PlainBr(page, runs', b)
      <3>1. \A i \in DOMAIN last : last[i].x = ys[i]
        BY <2>5, <2>13
      <3>2. \A i \in DOMAIN b.callbacks : ~ ListOf(MetaAt(page, runs', b.callbacks[i].x), Before)
        BY <2>8, <2>11, <2>13, <3>1
      <3> QED
        BY <2>8, <3>2 DEF PlainBr, OpBr, FirstPart
    <2>16. PICK p : p = <<b>>
      OBVIOUS
    <2>17. PlainList(page, runs', p)
      BY <2>15, <2>16, PlainLists
    <2>18. PlainList(page, runs', ops)
      BY <2>13, <2>14 DEF PlainList
    <2>19. PICK all : all = ops \o p
      OBVIOUS
    <2>20. PlainList(page, runs', all)
      BY <2>17, <2>18, <2>19, PlainConcat
    <2>21. Do(all)
      BY <2>2, <2>16, <2>19
    <2> HIDE DEF Do
    <2> QED
      BY <1>0, <1>1, <2>20, <2>21, PushedPlain, Zenon
  <1> QED
    BY <1>3, <1>4

-------------------------------------------------------------------------------
(* Exceptions and tasks *)

\* Nothing before a sequence changes nothing.
LEMMA EmptyConcat ==
    ASSUME NEW s, IsSeq(s), NEW e, e = <<>>, NEW all, all = e \o s
    PROVE  all = s
  <1>1. IsSeq(e) /\ Len(e) = 0
    BY IsSeqEmpty
  <1>2. IsSeq(all)
    BY <1>1, IsSeqConcat
  <1>3. Len(all) = Len(e) + Len(s)
    BY <1>1, IsSeqConcat
  <1>4. \A i \in 1..Len(s) : all[Len(e) + i] = s[i]
    BY <1>1, IsSeqConcat
  <1>5. Len(s) \in Nat /\ s = [i \in 1..Len(s) |-> s[i]] /\ all = [i \in 1..Len(all) |-> all[i]]
    BY <1>2, IsSeqDom
  <1>6. PICK n \in Nat : n = Len(s)
    BY <1>5
  <1>7. Len(all) = n
    BY <1>1, <1>3, <1>6
  <1>8. \A i \in 1..n : all[i] = s[i]
    <2>1. \A i \in 1..n : Len(e) + i = i
      BY <1>1
    <2> QED
      BY <1>4, <1>6, <2>1
  <1>9. s = [i \in 1..n |-> s[i]] /\ all = [i \in 1..n |-> all[i]]
    BY <1>5, <1>6, <1>7
  <1> QED
    BY <1>8, <1>9

\* What is left behind the k-th operation.
LEMMA AfterIsAfter ==
    ASSUME TypeInv, NEW k \in 0..Len(todo), NEW after, after = After(k)
    PROVE  IsAfter(todo, k, after)
  <1>1. OpsInv(runs, todo)
    BY DEF TypeInv, OpsInv
  <1>2. /\ OpsInv(runs, after)
        /\ Len(after) = Len(todo) - k
        /\ DOMAIN after = 1..(Len(todo) - k)
        /\ \A i \in DOMAIN after : after[i] = todo[k + i]
    BY <1>1, Suffix DEF After
  <1>3. IsSeq(after)
    BY <1>2 DEF OpsInv, OpsOK
  <1> QED
    BY <1>2, <1>3 DEF IsAfter

\* An exception is caught behind the actions that have a Break ahead of it, or by their own
\* catch.
LEMMA CaughtAhead ==
    ASSUME TypeInv, At("throw"), NEW kind, Catchers(kind) # {}, NEW i, i = FirstOf(Catchers(kind)),
           NEW rs, NEW j \in DOMAIN todo, NEW m \in DOMAIN todo, j <= i, todo[m].op = "actions",
           Ahead(page, rs, todo, j, m)
    PROVE  i >= m - 1 /\ (todo[i].op = "caught" => i > m)
  <1>1. i \in DOMAIN todo /\ i \in Nat /\ Catches(todo[i], kind)
    BY CatcherDoes
  <1>2. Catcher(todo[i])
    BY <1>1 DEF Catches, Catcher
  <1>3. j # i
    BY <1>2 DEF Ahead, Breaker, Catcher
  <1>4. j \in Nat /\ m \in Nat
    <2>1. DOMAIN todo = 1..Len(todo) /\ Len(todo) \in Nat
      BY IsSeqDom DEF TypeInv, OpsOK
    <2> QED
      BY <2>1
  <1>5. j < i
    BY <1>1, <1>3, <1>4
  <1>6. ~ (i < m - 1)
    BY <1>1, <1>2, <1>5 DEF Ahead
  <1>7. todo[i].op = "caught" => i # m - 1 /\ i # m
    BY DEF Ahead
  <1> QED
    BY <1>1, <1>4, <1>6, <1>7

\* Nothing is left of a task that throws.
LEMMA UncaughtBr ==
    ASSUME TypeInv, TodoBr, Next, Uncaught
    PROVE  StepBr
  <1>1. todo' = <<>>
    BY DEF Uncaught
  <1>2. PICK a : a = <<>>
    OBVIOUS
  <1>3. PlainList(page, runs', a)
    BY <1>2, PlainLists
  <1>4. OpsBr(page, runs', a) /\ Guarded(page, runs', a) /\ FirstEvents(page, runs', a) = {}
    BY <1>3, PlainListOK
  <1> QED
    BY <1>1, <1>2, <1>4 DEF StepBr

\* An exception is announced and thrown again.
LEMMA RethrowBr ==
    ASSUME TypeInv, TodoBr, Next, RethrowCallback
    PROVE  StepBr
  <1>0. PICK o, p, i : /\ i = FirstOf(Catchers("error")) /\ todo' = <<o, p>> \o After(i)
                       /\ o.op = "fire" /\ p.op = "throw"
    <2>1. \E type, site, data, i : i = FirstOf(Catchers("error")) /\ todo' = <<FireOp(type, site, data), ThrowOp("error")>> \o After(i)
      BY DEF RethrowCallback
    <2>2. \A type, site, data : FireOp(type, site, data).op = "fire" /\ ThrowOp("error").op = "throw"
      BY DEF FireOp, ThrowOp
    <2> QED
      BY <2>1, <2>2
  <1>a. PICK after, a : after = After(i) /\ a = <<o, p>>
    OBVIOUS
  <1>1. i = FirstOf(Catchers("error")) /\ after = After(i) /\ todo' = a \o after
    BY <1>0, <1>a
  <1>2. At("throw") /\ Catchers("error") # {}
    BY DEF RethrowCallback
  <1>3. i \in 0..Len(todo) /\ i \in Nat /\ todo[i].op = "caught"
    <2>1. i \in Nat /\ i <= Len(todo) /\ Catches(todo[i], "error")
      BY <1>1, <1>2, CatcherDoes
    <2>2. Len(todo) \in Nat
      BY IsSeqDom DEF TypeInv, OpsOK
    <2> QED
      BY <2>1, <2>2 DEF Catches
  <1>4. IsAfter(todo, i, after)
    BY <1>1, <1>3, AfterIsAfter
  <1>5. PlainList(page, runs', a)
    <2>0. o.op = "fire" /\ p.op = "throw"
      BY <1>0
    <2>1. PlainBr(page, runs', o) /\ PlainBr(page, runs', p)
      BY <2>0, PlainBrKinds
    <2>2. PlainList(page, runs', <<o, p>>)
      BY <2>1, PlainLists
    <2> QED
      BY <1>a, <2>2
  <1>6. IsSeq(a) /\ OpsBr(page, runs', a) /\ Guarded(page, runs', a) /\ FirstEvents(page, runs', a) = {}
    BY <1>5, PlainListOK DEF PlainList
  <1>7. ASSUME NEW j \in DOMAIN todo, NEW m \in DOMAIN todo, j <= i, i < m, todo[m].op = "actions",
               Ahead(page, runs', todo, j, m)
        PROVE  i < m - 1 /\ StillAhead(page, runs', a)
    <2>1. PICK rs : rs = runs'
      OBVIOUS
    <2>2. Ahead(page, rs, todo, j, m)
      BY <1>7, <2>1
    <2>3. i > m
      BY <1>1, <1>2, <1>3, <1>7, <2>2, CaughtAhead
    <2>4. m \in Nat
      <3>1. DOMAIN todo = 1..Len(todo) /\ Len(todo) \in Nat
        BY IsSeqDom DEF TypeInv, OpsOK
      <3> QED
        BY <3>1
    <2> QED
      BY <1>3, <1>7, <2>3, <2>4
  <1>8. \A ev \in FirstEvents(page, runs', a) : ev \in FirstEvents(page, runs, todo) \/ Begun(ev, "")
    BY <1>6
  <1>9. todo' = a \o after
    BY <1>1
  <1> QED
    BY <1>4, <1>6, <1>7, <1>8, <1>9, JoinedStep

\* The executables on break are run instead of the actions.
LEMMA BreakBeforeBr ==
    ASSUME TypeInv, TodoBr, Next, BreakBefore
    PROVE  StepBr
  <1>1. PICK i, c, ev, k : i = FirstOf(Catchers(todo[1].kind)) /\ c = todo[i] /\ ev = c.ev /\ k = i + 1
    BY Zenon
  <1> DEFINE xs == BreakesOf(c.e, c.r, ev.type)
             ops == [l \in DOMAIN xs |-> ExecuteOp(xs[l], ev)]
             S == BreakesPositions(c.e, c.r, ev.type)
  <1>2. At("throw") /\ Catchers(todo[1].kind) # {} /\ c.op = "catch" /\ todo' = ops \o After(k)
    BY <1>1, Zenon DEF BreakBefore, Each
  <1>3. i \in DOMAIN todo /\ i \in Nat /\ k \in Nat
    <2>1. i \in DOMAIN todo /\ i \in Nat
      BY <1>1, <1>2, CatcherDoes, Zenon
    <2> QED
      BY <1>1, <2>1
  <1>4. c.e \in Element /\ c.r \in DOMAIN runs[c.e] /\ Lists(c.e, c.r, S, xs)
    BY <1>1, BreakBeforeDoes
  <1>5. S \subseteq DOMAIN MetasOf(c.e, c.r) /\ \A p \in S : ~ ListOf(MetasOf(c.e, c.r)[p], Before)
    BY DEF BreakesPositions, ListOf, Breakes, Before
  <1>6. ops = [l \in DOMAIN xs |-> ops[l]] /\ \A l \in DOMAIN xs : ops[l] = ExecuteOp(xs[l], ev)
    OBVIOUS
  <1> HIDE DEF ops, xs, S
  <1>7. k \in DOMAIN todo /\ todo[k].op = "actions"
    <2>1. Guarded(page, runs, todo)
      BY DEF TodoBr
    <2> QED
      BY <1>1, <1>2, <1>3, <2>1 DEF Guarded
  <1>8. PICK after : after = After(k)
    OBVIOUS
  <1>d. DOMAIN todo = 1..Len(todo) /\ Len(todo) \in Nat
    BY IsSeqDom DEF TypeInv, OpsOK
  <1>9. IsAfter(todo, k, after)
    <2>1. k \in 0..Len(todo)
      BY <1>7, <1>d
    <2> QED
      BY <1>8, <2>1, AfterIsAfter
  <1>10. ASSUME NEW l \in DOMAIN xs PROVE ~ ListOf(MetaAt(page, runs', xs[l]), Before)
    <2>1. xs[l][3] \in S
      BY <1>4 DEF Lists
    <2>2. MetaAt(page, runs', xs[l]) = MetasOf(c.e, c.r)[xs[l][3]]
      <3>1. PICK e, r : e = c.e /\ r = c.r
        OBVIOUS
      <3>2. e \in Element /\ r \in DOMAIN runs[e] /\ S \subseteq DOMAIN MetasOf(e, r)
        BY <1>4, <1>5, <3>1
      <3>3. Lists(e, r, S, xs)
        BY <1>4, <3>1
      <3>4. MetaAt(page, runs', xs[l]) = MetasOf(e, r)[xs[l][3]]
        BY <3>2, <3>3, ListMetas
      <3> QED
        BY <3>1, <3>4
    <2> QED
      BY <1>5, <2>1, <2>2
  <1>11. IsSeq(ops) /\ DOMAIN ops = DOMAIN xs
    <2>1. IsSeq(xs)
      BY <1>4 DEF Lists
    <2> QED
      BY <1>6, <2>1, Mapped
  <1>12. PlainList(page, runs', ops)
    <2>1. \A l \in DOMAIN xs : PlainBr(page, runs', ops[l])
      BY <1>6, <1>10, PlainBrKinds DEF IsEarly
    <2> QED
      BY <1>11, <2>1 DEF PlainList
  <1>13. OpsBr(page, runs', ops) /\ Guarded(page, runs', ops) /\ FirstEvents(page, runs', ops) = {}
    BY <1>12, PlainListOK
  <1>14. ASSUME NEW j \in DOMAIN todo, NEW m \in DOMAIN todo, j <= k, k < m, todo[m].op = "actions",
                Ahead(page, runs', todo, j, m)
         PROVE  k < m - 1 /\ StillAhead(page, runs', ops)
    <2>1. PICK rs : rs = runs'
      OBVIOUS
    <2>2. Ahead(page, rs, todo, j, m)
      BY <1>14, <2>1
    <2>3. j # k
      BY <1>7, <2>2 DEF Ahead, Breaker
    <2>4. j \in Nat /\ m \in Nat
      BY <1>d
    <2>5. j <= i
      BY <1>1, <1>3, <1>14, <2>3, <2>4
    <2>6. i >= m - 1
      BY <1>1, <1>2, <1>14, <2>2, <2>5, CaughtAhead
    <2> QED
      BY <1>1, <1>3, <1>14, <2>4, <2>6
  <1>15. \A v \in FirstEvents(page, runs', ops) : v \in FirstEvents(page, runs, todo) \/ Begun(v, "")
    BY <1>13
  <1>16. todo' = ops \o after
    BY <1>2, <1>8
  <1> QED
    BY <1>9, <1>11, <1>13, <1>14, <1>15, <1>16, JoinedStep

\* To note a Break changes no operation of a first part.
LEMMA SetBreakBr ==
    ASSUME NEW pg, NEW rs, NEW ops, OpsBr(pg, rs, ops), Guarded(pg, rs, ops), OpsInv(rs, ops),
           NEW j \in DOMAIN ops, ops[j].op = "breakes", NEW all, all = SetBreak(ops, j)
    PROVE  /\ OpsBr(pg, rs, all) /\ Guarded(pg, rs, all)
           /\ FirstEvents(pg, rs, all) = FirstEvents(pg, rs, ops)
  <1>1. /\ DOMAIN all = DOMAIN ops
        /\ \A k \in DOMAIN ops : k # j => all[k] = ops[k]
        /\ all[j] = [op |-> "breakes", hasBreak |-> TRUE, callbacks |-> ops[j].callbacks]
    BY SetBreakDoes
  <1>2. all[j].op = "breakes" /\ all[j].callbacks = ops[j].callbacks
    BY <1>1
  <1>3. OpsBr(pg, rs, all)
    <2>1. OpBr(pg, rs, all[j])
      BY <1>2 DEF OpsBr, OpBr
    <2> QED
      BY <1>1, <2>1 DEF OpsBr
  <1>4. \A k \in DOMAIN ops : /\ all[k].op = ops[k].op
                              /\ ops[k].op # "breakes" => all[k] = ops[k]
    BY <1>1, <1>2
  <1>5. \A k \in DOMAIN ops : /\ FirstPart(pg, rs, all[k]) <=> FirstPart(pg, rs, ops[k])
                              /\ FirstPart(pg, rs, ops[k]) => all[k] = ops[k]
    BY <1>4 DEF FirstPart
  <1>6. FirstEvents(pg, rs, all) = FirstEvents(pg, rs, ops)
    BY <1>1, <1>5 DEF FirstEvents
  <1>7. \A i, k : i \in DOMAIN ops /\ Ahead(pg, rs, ops, i, k) /\ k - 1 \in DOMAIN ops => Ahead(pg, rs, all, i, k)
    <2>1. \A i \in DOMAIN ops : Breaker(pg, rs, ops[i]) => Breaker(pg, rs, all[i])
      BY <1>4 DEF Breaker
    <2>2. \A i \in DOMAIN ops : Catcher(all[i]) => Catcher(ops[i])
      BY <1>4 DEF Catcher
    <2> QED
      BY <1>1, <1>4, <2>1, <2>2 DEF Ahead
  <1>8. ASSUME NEW k \in DOMAIN all, all[k].op = "catch" PROVE k + 1 \in DOMAIN all /\ all[k + 1].op = "actions"
    BY <1>1, <1>4, <1>8 DEF Guarded
  <1>9. ASSUME NEW k \in DOMAIN all, all[k].op = "actions", Breaks(pg, rs, all[k].e, all[k].r, all[k].ev.type)
        PROVE  \E i \in DOMAIN all : Ahead(pg, rs, all, i, k)
    <2>1. all[k] = ops[k] /\ k \in DOMAIN ops
      BY <1>1, <1>4, <1>9
    <2>2. PICK i \in DOMAIN ops : Ahead(pg, rs, ops, i, k)
      BY <1>9, <2>1 DEF Guarded
    <2>3. k - 1 \in DOMAIN ops
      <3>1. DOMAIN ops = 1..Len(ops) /\ Len(ops) \in Nat
        BY IsSeqDom DEF OpsInv, OpsOK
      <3>2. i < k - 1
        BY <2>2 DEF Ahead
      <3> QED
        BY <2>1, <3>1, <3>2
    <2> QED
      BY <1>1, <1>7, <2>2, <2>3
  <1>10. Guarded(pg, rs, all)
    BY <1>8, <1>9 DEF Guarded
  <1> QED
    BY <1>3, <1>6, <1>10

\* The Break of a callback is noted.
LEMMA BreakCallbackBr ==
    ASSUME TypeInv, TodoBr, Next, BreakCallback
    PROVE  StepBr
  <1>1. PICK i, after : i = FirstOf(Catchers("break")) /\ after = After(i)
    OBVIOUS
  <1> DEFINE j == FirstOf({k \in DOMAIN after : after[k].op = "breakes"})
  <1>2. /\ At("throw") /\ Catchers("break") # {} /\ todo[i].op = "caught" /\ runs' = runs
        /\ todo' = IF todo[i].last THEN after ELSE SetBreak(after, j)
    BY <1>1 DEF BreakCallback, SetBreak, dom
  <1>d. DOMAIN todo = 1..Len(todo) /\ Len(todo) \in Nat /\ IsSeq(todo)
    BY IsSeqDom DEF TypeInv, OpsOK
  <1>3. i \in DOMAIN todo /\ i \in Nat /\ i \in 0..Len(todo)
    BY <1>1, <1>2, <1>d, CatcherDoes
  <1>4. IsAfter(todo, i, after) /\ OpsInv(runs, after)
    <2>1. IsAfter(todo, i, after)
      BY <1>1, <1>3, AfterIsAfter
    <2>2. OpsInv(runs, todo)
      BY DEF TypeInv, OpsInv
    <2>3. OpsInv(runs, after)
      BY <1>1, <1>3, <2>2, Suffix DEF After
    <2> QED
      BY <2>1, <2>3
  <1>5. /\ OpsBr(page, runs, after) /\ Guarded(page, runs, after)
        /\ FirstEvents(page, runs, after) \subseteq FirstEvents(page, runs, todo)
    <2>1. PICK a : a = <<>>
      OBVIOUS
    <2>2. IsSeq(a) /\ OpsBr(page, runs, a) /\ Guarded(page, runs, a) /\ FirstEvents(page, runs, a) = {}
      <3>1. PlainList(page, runs, a)
        BY <2>1, PlainLists
      <3> QED
        BY <3>1, PlainListOK DEF PlainList
    <2>3. OpsBr(page, runs, todo) /\ Guarded(page, runs, todo)
      BY DEF TodoBr
    <2>4. ASSUME NEW l \in DOMAIN todo, NEW m \in DOMAIN todo, l <= i, i < m, todo[m].op = "actions",
                 Ahead(page, runs, todo, l, m)
          PROVE  i < m - 1 /\ StillAhead(page, runs, a)
      <3>1. PICK rs : rs = runs
        OBVIOUS
      <3>2. Ahead(page, rs, todo, l, m)
        BY <2>4, <3>1
      <3>3. i > m
        BY <1>1, <1>2, <2>4, <3>2, CaughtAhead
      <3>4. m \in Nat
        BY <1>d
      <3> QED
        BY <1>3, <2>4, <3>3, <3>4
    <2>5. PICK all : all = a \o after
      OBVIOUS
    <2>6. all = after
      <3>1. IsSeq(after)
        BY <1>4 DEF IsAfter
      <3> QED
        BY <2>1, <2>5, <3>1, EmptyConcat
    <2>7. Replaced(page, runs, todo, i, a)
      BY <2>4 DEF Replaced
    <2>8. IsJoin(a, after, all)
      BY <2>5 DEF IsJoin
    <2>9. IsSeq(todo) /\ IsAfter(todo, i, after) /\ IsSeq(a) /\ OpsBr(page, runs, a) /\ Guarded(page, runs, a)
      BY <1>4, <1>d, <2>2
    <2>10. /\ OpsBr(page, runs, all) /\ Guarded(page, runs, all)
           /\ FirstEvents(page, runs, all) \subseteq FirstEvents(page, runs, a) \cup FirstEvents(page, runs, todo)
      BY <2>3, <2>7, <2>8, <2>9, JoinedBr
    <2> QED
      BY <2>2, <2>6, <2>10
  <1>6. PICK all : all = todo'
    OBVIOUS
  <1>7. /\ OpsBr(page, runs, all) /\ Guarded(page, runs, all)
        /\ FirstEvents(page, runs, all) \subseteq FirstEvents(page, runs, todo)
    <2>1. CASE todo[i].last
      BY <1>2, <1>5, <1>6, <2>1
    <2>2. CASE ~ todo[i].last
      <3>1. j \in DOMAIN after /\ after[j].op = "breakes"
        BY <1>1, <1>2, <1>3, <2>2, BreakesFollow
      <3> HIDE DEF j
      <3>2. all = SetBreak(after, j)
        BY <1>2, <1>6, <2>2
      <3>3. OpsBr(page, runs, after) /\ Guarded(page, runs, after) /\ OpsInv(runs, after)
        BY <1>4, <1>5
      <3>4. OpsBr(page, runs, all) /\ Guarded(page, runs, all)
        BY <3>1, <3>2, <3>3, SetBreakBr
      <3>5. FirstEvents(page, runs, all) = FirstEvents(page, runs, after)
        BY <3>1, <3>2, <3>3, SetBreakBr
      <3> QED
        BY <1>5, <3>4, <3>5
    <2> QED
      BY <2>1, <2>2
  <1>8. OpsBr(page, runs', todo') /\ Guarded(page, runs', todo')
    BY <1>2, <1>6, <1>7
  <1>9. \A ev \in FirstEvents(page, runs', todo') : ev \in FirstEvents(page, runs, todo) \/ Begun(ev, "")
    BY <1>2, <1>6, <1>7
  <1> QED
    BY <1>8, <1>9 DEF StepBr

\* The operations a task begins with belong to no first part.
LEMMA PlainTask ==
    ASSUME TypeInv, Next, NEW a, PlainList(page, runs', a), todo' = a
    PROVE  StepBr
  <1>1. OpsBr(page, runs', a) /\ Guarded(page, runs', a) /\ FirstEvents(page, runs', a) = {}
    BY PlainListOK
  <1>2. \A ev \in FirstEvents(page, runs', a) : ev \in FirstEvents(page, runs, todo) \/ Begun(ev, "")
    BY <1>1
  <1> QED
    BY <1>1, <1>2 DEF StepBr

\* An answer completes the action it was asked for.
LEMMA AnswerBr ==
    ASSUME TypeInv, Next, NEW r \in requests, Answer(r)
    PROVE  StepBr
  <1>1. \E type1, type2, site, data, result, key :
           LET o == FireOp(type1, site, data)
               d == FireOp(type2, site, data)
               c == CompleteOp(r.x, r.ev, result)
               s == [op |-> "store", key |-> key, value |-> result]
           IN  \/ todo' = <<o>> \o <<d, c>>
               \/ todo' = <<o>> \o (<<s>> \o <<c, d>>)
               \/ todo' = <<o>> \o (<<>> \o <<c, d>>)
    BY ZenonT(30) DEF Answer
  <1>2. PICK o, d, c, s :
           /\ o.op = "fire" /\ d.op = "fire" /\ c.op = "complete" /\ s.op = "store"
           /\ \/ todo' = <<o>> \o <<d, c>>
              \/ todo' = <<o>> \o (<<s>> \o <<c, d>>)
              \/ todo' = <<o>> \o (<<>> \o <<c, d>>)
    <2>1. PICK type1, type2, site, data, result, key :
           LET o == FireOp(type1, site, data)
               d == FireOp(type2, site, data)
               c == CompleteOp(r.x, r.ev, result)
               s == [op |-> "store", key |-> key, value |-> result]
           IN  \/ todo' = <<o>> \o <<d, c>>
               \/ todo' = <<o>> \o (<<s>> \o <<c, d>>)
               \/ todo' = <<o>> \o (<<>> \o <<c, d>>)
      BY <1>1
    <2> DEFINE o == FireOp(type1, site, data)
               d == FireOp(type2, site, data)
               c == CompleteOp(r.x, r.ev, result)
               s == [op |-> "store", key |-> key, value |-> result]
    <2>2. o.op = "fire" /\ d.op = "fire" /\ c.op = "complete" /\ s.op = "store"
      BY DEF FireOp, CompleteOp
    <2>3. \/ todo' = <<o>> \o <<d, c>>
          \/ todo' = <<o>> \o (<<s>> \o <<c, d>>)
          \/ todo' = <<o>> \o (<<>> \o <<c, d>>)
      BY <2>1
    <2> HIDE DEF o, d, c, s
    <2> QED
      BY <2>2, <2>3
  <1>3. o.op = "fire" /\ d.op = "fire" /\ c.op = "complete" /\ s.op = "store"
    BY <1>2
  <1>4. PlainBr(page, runs', o) /\ PlainBr(page, runs', d) /\ PlainBr(page, runs', c) /\ PlainBr(page, runs', s)
    BY <1>3, PlainBrKinds
  <1>5. PICK lo, ls, le, lcd, ldc : lo = <<o>> /\ ls = <<s>> /\ le = <<>> /\ lcd = <<c, d>> /\ ldc = <<d, c>>
    OBVIOUS
  <1>6. /\ PlainList(page, runs', <<o>>) /\ PlainList(page, runs', <<s>>) /\ PlainList(page, runs', <<>>)
        /\ PlainList(page, runs', <<c, d>>) /\ PlainList(page, runs', <<d, c>>)
    BY <1>4, PlainLists
  <1>7. /\ PlainList(page, runs', lo) /\ PlainList(page, runs', ls) /\ PlainList(page, runs', le)
        /\ PlainList(page, runs', lcd) /\ PlainList(page, runs', ldc)
    BY <1>5, <1>6
  <1>8. PICK m1, m2 : m1 = ls \o lcd /\ m2 = le \o lcd
    OBVIOUS
  <1>9. PICK a1, a2, a3 : a1 = lo \o ldc /\ a2 = lo \o m1 /\ a3 = lo \o m2
    OBVIOUS
  <1>10. PlainList(page, runs', m1) /\ PlainList(page, runs', m2)
    BY <1>7, <1>8, PlainConcat
  <1>11. PlainList(page, runs', a1) /\ PlainList(page, runs', a2) /\ PlainList(page, runs', a3)
    BY <1>7, <1>9, <1>10, PlainConcat
  <1>12. todo' = a1 \/ todo' = a2 \/ todo' = a3
    BY <1>2, <1>5, <1>8, <1>9
  <1> QED
    BY <1>11, <1>12, PlainTask, Zenon

\* The tasks of the user, the browser and the server: what waited is not before an action.
LEMMA TaskBr ==
    ASSUME TypeInv, WaitingEv, TodoBr, Next, User \/ Navigate \/ Announce \/ Respond \/ TimeOut \/ Tick
    PROVE  StepBr
  <1>1. ASSUME NEW o, PlainBr(page, runs', o), todo' = <<o>> PROVE StepBr
    <2>1. PlainList(page, runs', <<o>>)
      BY <1>1, PlainLists
    <2> QED
      BY <1>1, <2>1, PlainTask
  <1>2. CASE User \/ Announce
    <2>1. \E type, site, data : todo' = <<FireOp(type, site, data)>>
      BY <1>2 DEF User, Announce
    <2>2. \A type, site, data : FireOp(type, site, data).op = "fire"
      BY DEF FireOp
    <2>3. \A type, site, data : PlainBr(page, runs', FireOp(type, site, data))
      BY <2>2, PlainBrKinds
    <2> QED
      BY <1>1, <2>1, <2>3
  <1>3. CASE Navigate
    <2>1. runs' = runs /\ todo' = todo
      BY <1>3 DEF Navigate, dom
    <2>2. \A ev \in FirstEvents(page, runs', todo') : ev \in FirstEvents(page, runs, todo) \/ Begun(ev, "")
      BY <2>1
    <2> QED
      BY <2>1, <2>2 DEF StepBr, TodoBr
  <1>4. CASE Respond
    <2>1. PICK r \in requests : Answer(r) \/ Fail(r)
      BY <1>4 DEF Respond
    <2>2. CASE Answer(r)
      BY <2>2, AnswerBr
    <2>3. CASE Fail(r)
      <3>1. PICK o, p : todo' = <<o, p>> /\ o.op = "fire" /\ p.op = "fire"
        BY <2>3 DEF Fail, FireOp
      <3>2. o.op = "fire" /\ p.op = "fire"
        BY <3>1
      <3>3. PlainBr(page, runs', o) /\ PlainBr(page, runs', p)
        BY <3>2, PlainBrKinds
      <3>4. PlainList(page, runs', <<o, p>>)
        BY <3>3, PlainLists
      <3> QED
        BY <3>1, <3>4, PlainTask
    <2> QED
      BY <2>1, <2>2, <2>3
  <1>5. CASE TimeOut \/ Tick
    <2>1. PICK w \in timers \cup intervals : todo' = <<RunOp(w.x, w.ev)>>
      BY <1>5 DEF TimeOut, Tick
    <2>2. Executable(runs, w.x) /\ Grown(runs, runs')
      BY RunsStep DEF TypeInv, WaitingOK
    <2>3. MetaAt(page, runs, w.x).delay # "none"
      BY DEF WaitingEv
    <2>4. MetaAt(page, runs', w.x) = MetaAt(page, runs, w.x)
      BY <2>2, MetaStays
    <2>5. PlainBr(page, runs', RunOp(w.x, w.ev))
      BY <2>3, <2>4, PlainBrKinds DEF IsEarly
    <2> QED
      BY <1>1, <2>1, <2>5
  <1> QED
    BY <1>2, <1>3, <1>4, <1>5

\* Every step keeps the Breaks ahead of the actions that must not run.
LEMMA BreaksStep ==
    ASSUME TypeInv, WaitingEv, ResultsOK, TodoBr, Next
    PROVE  StepBr
  <1>1. CASE Fire
    BY <1>1, FireBr
  <1>2. CASE Dispatch
    BY <1>2, DispatchBr
  <1>3. CASE Invoke
    BY <1>3, InvokeBr
  <1>4. CASE CatchNothing \/ CaughtNothing \/ Send \/ Store
    BY <1>4, NothingLeftBr
  <1>5. CASE Actions
    BY <1>5, ActionsBr
  <1>6. CASE Action
    BY <1>6, ActionBr
  <1>7. CASE Execute
    BY <1>7, ExecuteBr
  <1>8. CASE Direct \/ Event \/ Ajax \/ Submit
    BY <1>8, RunActionBr
  <1>9. CASE Completed
    BY <1>9, CompletedBr
  <1>10. CASE Callback
    BY <1>10, CallbackBr
  <1>11. CASE BreakCallbacks
    BY <1>11, BreakCallbacksBr
  <1>12. CASE Uncaught
    BY <1>12, UncaughtBr
  <1>13. CASE BreakBefore
    BY <1>13, BreakBeforeBr
  <1>14. CASE BreakCallback
    BY <1>14, BreakCallbackBr
  <1>15. CASE RethrowCallback
    BY <1>15, RethrowBr
  <1>16. CASE ParseContext
    BY <1>16, ParseBr
  <1>17. CASE Insert \/ Trigger \/ Eval \/ HashStore \/ Attach \/ Detach
    BY <1>17, RunOtherBr
  <1>18. CASE Break
    BY <1>18, BreakBr
  <1>19. CASE User \/ Navigate \/ Announce \/ Respond \/ TimeOut \/ Tick
    BY <1>19, TaskBr
  <1> QED
    BY <1>1, <1>2, <1>3, <1>4, <1>5, <1>6, <1>7, <1>8, <1>9, <1>10, <1>11, <1>12, <1>13, <1>14, <1>15, <1>16, <1>17, <1>18, <1>19 DEF Next, Step

-------------------------------------------------------------------------------
(* What is recalled *)

\* A runner has a result for each of its metas.
LEMMA RunResults ==
    ASSUME NEW pg, NEW rs, AreRuns(pg, rs), NEW e \in Element, NEW r \in DOMAIN rs[e]
    PROVE  DOMAIN rs[e][r].result = DOMAIN pg.metas[rs[e][r].name]
  <1>1. IsRun(pg, rs[e][r])
    BY DEF AreRuns
  <1>2. PICK q : q = rs[e][r]
    BY Zenon
  <1>3. q.result = [i \in DOMAIN pg.metas[q.name] |-> q.result[i]]
    BY <1>1, <1>2 DEF IsRun
  <1>4. DOMAIN q.result = DOMAIN pg.metas[q.name]
    BY <1>3
  <1> QED
    BY <1>2, <1>4

\* An executable keeps its result but for that of a callback, and a new one has none.
LEMMA ResultsKept ==
    ASSUME TypeInv, Next, NEW e \in Element, NEW r \in DOMAIN runs'[e], NEW i \in DOMAIN runs'[e][r].result
    PROVE  \/ runs'[e][r].result[i] = NoData
           \/ /\ r \in DOMAIN runs[e] /\ i \in DOMAIN runs[e][r].result
              /\ runs'[e][r].result[i] = runs[e][r].result[i]
           \/ Callback /\ e = todo[1].x[1] /\ r = todo[1].x[2] /\ i = todo[1].x[3]
  <1>1. Frame
    BY Frames
  <1>2. CASE UNCHANGED runs
    BY <1>2
  <1>3. ASSUME NEW d, NEW q, NEW at, NEW ev, Stored(runs, runs', d, q, at, ev)
        PROVE  /\ r \in DOMAIN runs[e] /\ i \in DOMAIN runs[e][r].result
               /\ runs'[e][r].result[i] = runs[e][r].result[i]
    <2>1. r \in DOMAIN runs[e]
      BY <1>3 DEF Stored
    <2>2. runs'[e][r].result = runs[e][r].result
      BY <1>3, <2>1 DEF Stored
    <2> QED
      BY <2>1, <2>2
  <1>4. CASE Invoke
    <2>1. CASE Present(todo[1].site) /\ runner[todo[1].site[1]] # 0
      <3>1. \E d, q, at, ev : Stored(runs, runs', d, q, at, ev)
        BY <1>4, <2>1, InvokeDoes
      <3> QED
        BY <1>3, <3>1
    <2>2. CASE ~ (Present(todo[1].site) /\ runner[todo[1].site[1]] # 0)
      <3>1. UNCHANGED runs
        BY <1>4, <2>2 DEF Invoke
      <3> QED
        BY <1>2, <3>1
    <2> QED
      BY <2>1, <2>2
  <1>5. CASE Actions
    <2>1. \E d, q, at, ev : Stored(runs, runs', d, q, at, ev)
      BY <1>5, ActionsDoes
    <2> QED
      BY <1>3, <2>1
  <1>6. CASE Action
    <2>1. \E d, q, at, ev : Stored(runs, runs', d, q, at, ev)
      BY <1>6, ActionDoes
    <2> QED
      BY <1>3, <2>1
  <1>7. CASE BreakBefore
    <2>1. \E d, q, at, ev : Stored(runs, runs', d, q, at, ev)
      BY <1>7, BreakBeforeDoes
    <2> QED
      BY <1>3, <2>1
  <1>8. CASE Callback
    <2>1. todo # <<>> /\ todo[1].op = "callback"
      BY <1>8, Zenon DEF Callback, At
    <2>2. PICK x, data : x = todo[1].x /\ data = todo[1].data
      OBVIOUS
    <2>3. Executable(runs, x)
      BY <2>1, <2>2, AtHeadExecutable
    <2>4. ResultSet(runs, runs', x, data) /\ AreRuns(page, runs')
      BY <1>8, <2>2, <2>3, CallbackDoes DEF TypeInv
    <2>5. r \in DOMAIN runs[e]
      BY <2>4 DEF ResultSet
    <2>6. i \in DOMAIN runs[e][r].result
      <3>1. DOMAIN runs'[e][r].result = DOMAIN page.metas[runs'[e][r].name]
        BY <2>4, RunResults
      <3>2. runs'[e][r].name = runs[e][r].name
        BY <2>4, <2>5 DEF ResultSet, Grown
      <3>3. DOMAIN runs[e][r].result = DOMAIN page.metas[runs[e][r].name]
        BY <2>5, RunFacts DEF TypeInv, MetasOf
      <3> QED
        BY <3>1, <3>2, <3>3
    <2>7. runs'[e][r].result[i] = IF e = x[1] /\ r = x[2] /\ i = x[3] THEN data ELSE runs[e][r].result[i]
      BY <2>4, <2>5, <2>6 DEF ResultSet
    <2> QED
      BY <1>8, <2>2, <2>5, <2>6, <2>7, Zenon
  <1>9. CASE ParseContext
    <2>1. PICK S : Parsed(runs, runs', S)
      BY <1>9, ParseRuns DEF TypeInv
    <2>2. CASE r \in DOMAIN runs[e]
      <3>1. runs'[e][r] = runs[e][r]
        BY <2>1, <2>2 DEF Parsed
      <3> QED
        BY <2>2, <3>1
    <2>3. CASE r \notin DOMAIN runs[e]
      <3>1. e \in S /\ r = Len(runs[e]) + 1 /\ runs'[e][r].name = attr[e]
        BY <2>1, <2>3 DEF Parsed
      <3>2. AreRuns(page, runs')
        BY <1>9, ParseRuns DEF TypeInv
      <3>3. DOMAIN runs'[e][r].result = DOMAIN page.metas[runs'[e][r].name]
        BY <3>2, RunResults
      <3>4. runs'[e][r].result[i] = NoData
        BY <2>1, <3>1, <3>3 DEF Parsed
      <3> QED
        BY <3>4
    <2> QED
      BY <2>2, <2>3
  <1> QED
    BY <1>1, <1>2, <1>4, <1>5, <1>6, <1>7, <1>8, <1>9, Zenon DEF Frame

\* No executable before the action gets a result.
LEMMA ResultsStep ==
    ASSUME TypeInv, ResultsOK, TodoBr, Next
    PROVE  ResultsOK'
  <1>1. page' = page /\ Grown(runs, runs') /\ page \in Page /\ AreRuns(page, runs)
    BY RunsStep DEF TypeInv
  <1>2. ASSUME NEW e \in Element, NEW r \in DOMAIN runs'[e], NEW i \in DOMAIN runs'[e][r].result,
               ListOf(page.metas[runs'[e][r].name][i], Before)
        PROVE  runs'[e][r].result[i] = NoData
    <2>1. CASE r \in DOMAIN runs[e] /\ i \in DOMAIN runs[e][r].result /\ runs'[e][r].result[i] = runs[e][r].result[i]
      <3>1. runs'[e][r].name = runs[e][r].name
        BY <1>1, <2>1 DEF Grown
      <3>2. ListOf(MetasOf(e, r)[i], Before)
        BY <1>2, <3>1, Zenon DEF MetasOf
      <3> QED
        BY <2>1, <3>2 DEF ResultsOK
    <2>2. CASE Callback /\ e = todo[1].x[1] /\ r = todo[1].x[2] /\ i = todo[1].x[3]
      <3>1. todo # <<>> /\ todo[1].op = "callback"
        BY <2>2, Zenon DEF Callback, At
      <3>2. ~ ListOf(MetaAt(page, runs', todo[1].x), Before)
        BY <3>1, HeadBr DEF OpBr
      <3> QED
        BY <1>2, <2>2, <3>2, ZenonT(30) DEF MetaAt, MetasAt
    <2> QED
      BY <2>1, <2>2, ResultsKept
  <1>3. \A e \in Element : \A r \in DOMAIN runs'[e] : \A i \in DOMAIN runs'[e][r].result :
           ListOf(page.metas[runs'[e][r].name][i], Before) => runs'[e][r].result[i] = NoData
    BY <1>2
  <1> QED
    BY <1>1, <1>3 DEF ResultsOK, MetasOf
\* The events of the first parts have begun.
LEMMA FirstNumbers ==
    ASSUME EventsOK, NEW ev \in FirstEvents(page, runs, todo)
    PROVE  ev.n \in Nat /\ ev.n <= clock
  <1>1. PICK i \in DOMAIN todo : FirstPart(page, runs, todo[i]) /\ ev = todo[i].ev
    BY DEF FirstEvents
  <1>2. todo[i].op \in Evented /\ todo[i].op # "breakes"
    BY <1>1 DEF FirstPart, Evented
  <1>3. Numbers(todo[i]) = {ev.n}
    BY <1>1, <1>2 DEF Numbers
  <1>4. OpEv(page, runs, clock, todo[i])
    BY DEF EventsOK, OpsEv
  <1> QED
    BY <1>3, <1>4 DEF OpEv

\* What is left to be done of an event that had begun was left before the step.
LEMMA OldEvents ==
    ASSUME TypeInv, WaitingEv, ResultsOK, TodoBr, Next,
           NEW ev \in FirstEvents(page, runs', todo'), NEW n \in Nat, n <= clock, ev.n = n
    PROVE  ev \in FirstEvents(page, runs, todo)
  <1>1. clock \in Nat
    BY DEF TypeInv, CountersOK
  <1>2. \E t : ev \in FirstEvents(page, runs, todo) \/ Begun(ev, t)
    BY BreaksStep DEF StepBr
  <1>3. ~ (ev.n > clock)
    BY <1>1
  <1> QED
    BY <1>2, <1>3 DEF Begun

\* Events with one number go on to have one type.
LEMMA AgreeStep ==
    ASSUME TypeInv, EventsOK, WaitingEv, ResultsOK, TodoBr, Next
    PROVE  Agree(FirstEvents(page, runs', todo'))
  <1>1. PICK t : \A ev \in FirstEvents(page, runs', todo') :
                    ev \in FirstEvents(page, runs, todo) \/ Begun(ev, t)
    BY BreaksStep DEF StepBr
  <1>2. clock \in Nat
    BY DEF TypeInv, CountersOK
  <1>3. ASSUME NEW a \in FirstEvents(page, runs', todo'), NEW b \in FirstEvents(page, runs', todo'), a.n = b.n
        PROVE  a.type = b.type
    <2>1. CASE a \in FirstEvents(page, runs, todo)
      <3>1. a.n \in Nat /\ a.n <= clock
        BY <2>1, FirstNumbers
      <3>2. ~ (b.n > clock)
        BY <1>2, <1>3, <3>1
      <3>3. b \in FirstEvents(page, runs, todo)
        BY <1>1, <3>2 DEF Begun
      <3> QED
        BY <1>3, <2>1, <3>3 DEF TodoBr, Agree
    <2>2. CASE b \in FirstEvents(page, runs, todo)
      <3>1. b.n \in Nat /\ b.n <= clock
        BY <2>2, FirstNumbers
      <3>2. ~ (a.n > clock)
        BY <1>2, <1>3, <3>1
      <3>3. a \in FirstEvents(page, runs, todo)
        BY <1>1, <3>2 DEF Begun
      <3> QED
        BY <1>3, <2>2, <3>3 DEF TodoBr, Agree
    <2>3. CASE Begun(a, t) /\ Begun(b, t)
      BY <2>3 DEF Begun
    <2> QED
      BY <1>1, <2>1, <2>2, <2>3
  <1> QED
    BY <1>3 DEF Agree

\* What is left to be done keeps the Breaks ahead of the actions that must not run.
LEMMA TodoBrStep ==
    ASSUME TypeInv, EventsOK, WaitingEv, ResultsOK, TodoBr, Next
    PROVE  TodoBr'
  <1>1. page' = page
    BY RunsStep
  <1>2. OpsBr(page, runs', todo') /\ Guarded(page, runs', todo')
    BY BreaksStep DEF StepBr
  <1>3. Agree(FirstEvents(page, runs', todo'))
    BY AgreeStep
  <1> QED
    BY <1>1, <1>2, <1>3 DEF TodoBr

\* Every event of the first parts with the number of w is one that its runner breaks, or none is.
AllBreak(w, rs, ops) == \A ev \in FirstEvents(page, rs, ops) : ev.n = w[3] => Breaks(page, rs, w[1], w[2], ev.type)
NoneBreaks(w, rs, ops) == \A ev \in FirstEvents(page, rs, ops) : ev.n = w[3] => ~ Breaks(page, rs, w[1], w[2], ev.type)

\* What was true of a runner and a number that are recalled stays true.
LEMMA RecalledStays ==
    ASSUME TypeInv, WaitingEv, ResultsOK, TodoBr, Next, NEW w, Past(w)
    PROVE  /\ w[1] \in Element /\ w[2] \in DOMAIN runs'[w[1]] /\ w[3] \in Nat /\ w[3] <= clock'
           /\ AllBreak(w, runs, todo) => AllBreak(w, runs', todo')
           /\ NoneBreaks(w, runs, todo) => NoneBreaks(w, runs', todo')
  <1>1. Grown(runs, runs')
    BY RunsStep
  <1>2. clock \in Nat /\ clock' \in Nat /\ clock' >= clock
    BY ClockStep DEF TypeInv, CountersOK
  <1>3. w[1] \in Element /\ w[2] \in DOMAIN runs[w[1]] /\ w[3] \in Nat /\ w[3] <= clock
    BY DEF Past
  <1>4. w[2] \in DOMAIN runs'[w[1]]
    BY <1>1, <1>3 DEF Grown
  <1>5. w[3] <= clock'
    BY <1>2, <1>3
  <1>6. \A ev \in FirstEvents(page, runs', todo') : ev.n = w[3] => ev \in FirstEvents(page, runs, todo)
    BY <1>3, OldEvents
  <1>7. \A type : Breaks(page, runs', w[1], w[2], type) <=> Breaks(page, runs, w[1], w[2], type)
    BY <1>1, <1>3, BreaksStay
  <1>8. AllBreak(w, runs, todo) => AllBreak(w, runs', todo')
    BY <1>6, <1>7 DEF AllBreak
  <1>9. NoneBreaks(w, runs, todo) => NoneBreaks(w, runs', todo')
    BY <1>6, <1>7 DEF NoneBreaks
  <1> QED
    BY <1>3, <1>4, <1>5, <1>8, <1>9

\* What is true of one event of the first parts is true of all that have its number.
LEMMA OneForAll ==
    ASSUME EventsOK, TodoBr, NEW w, NEW ev \in FirstEvents(page, runs, todo),
           w[1] \in Element, w[2] \in DOMAIN runs[w[1]], w[3] = ev.n
    PROVE  /\ Past(w)
           /\ Breaks(page, runs, w[1], w[2], ev.type) => AllBreak(w, runs, todo)
           /\ ~ Breaks(page, runs, w[1], w[2], ev.type) => NoneBreaks(w, runs, todo)
  <1>1. ev.n \in Nat /\ ev.n <= clock
    BY FirstNumbers
  <1>2. Past(w)
    BY <1>1 DEF Past
  <1>3. \A b \in FirstEvents(page, runs, todo) : b.n = w[3] => b.type = ev.type
    BY DEF TodoBr, Agree
  <1>4. Breaks(page, runs, w[1], w[2], ev.type) => AllBreak(w, runs, todo)
    BY <1>3 DEF AllBreak
  <1>5. ~ Breaks(page, runs, w[1], w[2], ev.type) => NoneBreaks(w, runs, todo)
    BY <1>3 DEF NoneBreaks
  <1> QED
    BY <1>2, <1>4, <1>5

\* A runner is recalled as broken for an event of a first part that it breaks.
LEMMA BrokenNew ==
    ASSUME TypeInv, HistoryOK, EventsOK, TodoBr, Next, Break, NEW w \in history'.broken, w \notin history.broken
    PROVE  Past(w) /\ \E ev \in FirstEvents(page, runs, todo) : ev.n = w[3] /\ Breaks(page, runs, w[1], w[2], ev.type)
  <1>1. todo # <<>> /\ todo[1].op = "run" /\ Meta(todo[1].x).type = "Break"
    BY DEF Break, AtRun, At
  <1>2. PICK x, ev : x = todo[1].x /\ ev = todo[1].ev
    OBVIOUS
  <1>3. PICK v : v = <<x[1], x[2], ev.n>>
    OBVIOUS
  <1>4. IsEarly(Meta(x)) /\ w = v
    <2>1. PICK seen : seen = Seen(x, ev)
      OBVIOUS
    <2>2. seen.broken = history.broken /\ "broken" \in DOMAIN seen
      BY <2>1, SeenDoes DEF HistoryOK, Recalled
    <2>3. history' = [seen EXCEPT !.broken = IF ListOf(Meta(x), Before) /\ Meta(x).delay = "none"
                                                THEN seen.broken \cup {v} ELSE seen.broken]
      BY <1>2, <1>3, <2>1 DEF Break
    <2>4. history'.broken = IF ListOf(Meta(x), Before) /\ Meta(x).delay = "none"
                               THEN seen.broken \cup {v} ELSE seen.broken
      BY <2>2, <2>3
    <2> QED
      BY <2>2, <2>4 DEF IsEarly
  <1>5. Executable(runs, x) /\ MetaAt(page, runs, x) = Meta(x)
    BY <1>1, <1>2, AtHeadExecutable, HeadBr
  <1>6. FirstPart(page, runs, todo[1])
    BY <1>1, <1>2, <1>4, <1>5 DEF FirstPart
  <1>7. ev \in FirstEvents(page, runs, todo)
    BY <1>1, <1>2, <1>6, HeadBr
  <1>8. ev.type \in Meta(x).onBind /\ ValidFresh(Meta(x))
    <2>1. OpBr(page, runs, todo[1])
      BY <1>1, HeadBr
    <2> QED
      BY <1>1, <1>2, <1>4, <1>5, <2>1 DEF OpBr
  <1>9. IsBreaker(Meta(x))
    BY <1>1, <1>2, <1>4, <1>8, ZenonT(30) DEF IsBreaker
  <1>10. Breaks(page, runs, x[1], x[2], ev.type)
    <2>1. AreRuns(page, runs) /\ page \in Page /\ x[1] \in Element /\ x[2] \in DOMAIN runs[x[1]]
          /\ x[3] \in DOMAIN runs[x[1]][x[2]].event
      BY <1>5 DEF TypeInv, Executable
    <2>2. x[3] \in DOMAIN page.metas[runs[x[1]][x[2]].name]
      BY <2>1, RunFacts DEF MetasOf
    <2>3. Meta(x) = page.metas[runs[x[1]][x[2]].name][x[3]]
      BY <1>5 DEF MetaAt, MetasAt
    <2> QED
      BY <1>8, <1>9, <2>2, <2>3, Zenon DEF Breaks
  <1>11. w[1] = x[1] /\ w[2] = x[2] /\ w[3] = ev.n
    BY <1>3, <1>4
  <1>12. w[1] \in Element /\ w[2] \in DOMAIN runs[w[1]] /\ w[3] = ev.n
    BY <1>5, <1>11 DEF Executable
  <1>13. Past(w)
    BY <1>7, <1>12, OneForAll
  <1> QED
    BY <1>7, <1>10, <1>11, <1>13

\* A runner is recalled as having acted for an event of a first part that it does not break.
LEMMA ActedNew ==
    ASSUME TypeInv, HistoryOK, EventsOK, TodoBr, Next, Actions, NEW w \in history'.acted, w \notin history.acted
    PROVE  Past(w) /\ \E ev \in FirstEvents(page, runs, todo) : ev.n = w[3] /\ ~ Breaks(page, runs, w[1], w[2], ev.type)
  <1>1. todo # <<>> /\ todo[1].op = "actions"
    BY DEF Actions, At
  <1>2. PICK a : a = todo[1]
    OBVIOUS
  <1>3. PICK v : v = <<a.e, a.r, a.ev.n>>
    OBVIOUS
  <1>4. w = v
    <2>1. "acted" \in DOMAIN history
      BY DEF HistoryOK, Recalled
    <2>2. history' = [history EXCEPT !.acted = history.acted \cup {v}]
      BY <1>2, <1>3 DEF Actions
    <2>3. history'.acted = history.acted \cup {v}
      BY <2>1, <2>2
    <2> QED
      BY <2>3
  <1>5. w[1] = a.e /\ w[2] = a.r /\ w[3] = a.ev.n
    BY <1>3, <1>4
  <1>6. a.ev \in FirstEvents(page, runs, todo)
    <2>1. FirstPart(page, runs, todo[1])
      BY <1>1 DEF FirstPart
    <2> QED
      BY <1>1, <1>2, <2>1, HeadBr
  <1>7. a.e \in Element /\ a.r \in DOMAIN runs[a.e]
    <2>1. OpOK(runs, todo[1])
      BY <1>1, AtHead
    <2> QED
      BY <1>1, <1>2, <2>1 DEF OpOK
  <1>8. ~ Breaks(page, runs, a.e, a.r, a.ev.type)
    <2> SUFFICES ASSUME Breaks(page, runs, a.e, a.r, a.ev.type) PROVE FALSE
      OBVIOUS
    <2>1. 1 \in DOMAIN todo /\ IsSeq(todo)
      BY <1>1, AtHead, TodoStays
    <2>2. PICK j \in DOMAIN todo : Ahead(page, runs, todo, j, 1)
      BY <1>1, <1>2, <2>1 DEF TodoBr, Guarded
    <2>3. DOMAIN todo \subseteq Nat \ {0}
      BY <1>1, <2>1, TailIsAfter
    <2>4. j < 1 - 1
      BY <2>2 DEF Ahead
    <2> QED
      BY <2>2, <2>3, <2>4
  <1>9. Past(w)
    BY <1>5, <1>6, <1>7, OneForAll
  <1> QED
    BY <1>5, <1>6, <1>8, <1>9

\* The inductive invariant about breaks, beside the one about events.
BreaksOK == ResultsOK /\ TodoBr /\ BrokenOK /\ ActedOK /\ BreakPreventsActions

\* It is kept by every step.
LEMMA BreaksOKStep ==
    ASSUME EventInv, BreaksOK, Next
    PROVE  BreaksOK'
  <1>1. TypeInv /\ HistoryOK /\ EventsOK /\ WaitingEv
    BY DEF EventInv
  <1>2. ResultsOK /\ TodoBr /\ BrokenOK /\ ActedOK /\ history.broken \cap history.acted = {}
    BY DEF BreaksOK, BreakPreventsActions
  <1>3. ResultsOK' /\ TodoBr'
    BY <1>1, <1>2, ResultsStep, TodoBrStep
  <1>4. (Actions \/ history'.acted = history.acted) /\ (Break \/ history'.broken = history.broken)
    BY <1>1, HistoryFrames DEF HistoryFrame
  <1>5. ~ (Actions /\ Break)
    BY DEF Actions, Break, AtRun, At
  <1>6. page' = page
    BY <1>1, RunsStep
  <1>7. \A w \in history.broken : Past(w) /\ AllBreak(w, runs, todo)
    BY <1>2 DEF BrokenOK, AllBreak
  <1>8. \A w \in history.acted : Past(w) /\ NoneBreaks(w, runs, todo)
    BY <1>2 DEF ActedOK, NoneBreaks
  <1>9. ASSUME NEW w \in history'.broken, w \notin history.broken
        PROVE  Break /\ Past(w) /\ \E ev \in FirstEvents(page, runs, todo) :
                  ev.n = w[3] /\ Breaks(page, runs, w[1], w[2], ev.type)
    <2>1. Break
      BY <1>4, <1>9
    <2> QED
      BY <1>1, <1>2, <1>9, <2>1, BrokenNew
  <1>10. ASSUME NEW w \in history'.acted, w \notin history.acted
         PROVE  Actions /\ Past(w) /\ \E ev \in FirstEvents(page, runs, todo) :
                   ev.n = w[3] /\ ~ Breaks(page, runs, w[1], w[2], ev.type)
    <2>1. Actions
      BY <1>4, <1>10
    <2> QED
      BY <1>1, <1>2, <1>10, <2>1, ActedNew
  <1>11. ASSUME NEW w \in history'.broken PROVE Past(w) /\ AllBreak(w, runs, todo)
    <2>1. CASE w \in history.broken
      BY <1>7, <2>1
    <2>2. CASE w \notin history.broken
      <3>1. PICK ev \in FirstEvents(page, runs, todo) : ev.n = w[3] /\ Breaks(page, runs, w[1], w[2], ev.type)
        BY <1>9, <2>2
      <3>2. Past(w)
        BY <1>9, <2>2
      <3>3. w[1] \in Element /\ w[2] \in DOMAIN runs[w[1]] /\ w[3] = ev.n
        BY <3>1, <3>2 DEF Past
      <3> QED
        BY <1>1, <1>2, <3>1, <3>2, <3>3, OneForAll
    <2> QED
      BY <2>1, <2>2
  <1>12. ASSUME NEW w \in history'.acted PROVE Past(w) /\ NoneBreaks(w, runs, todo)
    <2>1. CASE w \in history.acted
      BY <1>8, <2>1
    <2>2. CASE w \notin history.acted
      <3>1. PICK ev \in FirstEvents(page, runs, todo) : ev.n = w[3] /\ ~ Breaks(page, runs, w[1], w[2], ev.type)
        BY <1>10, <2>2
      <3>2. Past(w)
        BY <1>10, <2>2
      <3>3. w[1] \in Element /\ w[2] \in DOMAIN runs[w[1]] /\ w[3] = ev.n
        BY <3>1, <3>2 DEF Past
      <3> QED
        BY <1>1, <1>2, <3>1, <3>2, <3>3, OneForAll
    <2> QED
      BY <2>1, <2>2
  <1>13. BrokenOK'
    <2>1. \A w \in history'.broken : /\ w[1] \in Element /\ w[2] \in DOMAIN runs'[w[1]] /\ w[3] \in Nat /\ w[3] <= clock'
                                     /\ AllBreak(w, runs', todo')
      BY <1>1, <1>2, <1>11, RecalledStays
    <2> QED
      BY <1>6, <2>1 DEF BrokenOK, Past, AllBreak
  <1>14. ActedOK'
    <2>1. \A w \in history'.acted : /\ w[1] \in Element /\ w[2] \in DOMAIN runs'[w[1]] /\ w[3] \in Nat /\ w[3] <= clock'
                                    /\ NoneBreaks(w, runs', todo')
      BY <1>1, <1>2, <1>12, RecalledStays
    <2> QED
      BY <1>6, <2>1 DEF ActedOK, Past, NoneBreaks
  <1>15. ASSUME NEW w \in history'.broken, w \in history'.acted PROVE FALSE
    <2>1. CASE w \notin history.broken
      <3>1. PICK ev \in FirstEvents(page, runs, todo) : ev.n = w[3] /\ Breaks(page, runs, w[1], w[2], ev.type)
        BY <1>9, <2>1
      <3>2. NoneBreaks(w, runs, todo)
        BY <1>12, <1>15
      <3> QED
        BY <3>1, <3>2 DEF NoneBreaks
    <2>2. CASE w \notin history.acted
      <3>1. PICK ev \in FirstEvents(page, runs, todo) : ev.n = w[3] /\ ~ Breaks(page, runs, w[1], w[2], ev.type)
        BY <1>10, <1>15, <2>2
      <3>2. AllBreak(w, runs, todo)
        BY <1>11
      <3> QED
        BY <3>1, <3>2 DEF AllBreak
    <2> QED
      BY <1>2, <2>1, <2>2
  <1>16. BreakPreventsActions'
    BY <1>15 DEF BreakPreventsActions
  <1> QED
    BY <1>3, <1>13, <1>14, <1>16 DEF BreaksOK

\* It holds at first: the page is about to be parsed, and nothing has broken or acted.
LEMMA BreaksOKInit ==
    ASSUME Init
    PROVE  BreaksOK
  <1>1. PICK o : o.op = "parse" /\ todo = <<o>>
    BY DEF Init, ParseOp
  <1>2. PlainBr(page, runs, o)
    BY <1>1, PlainBrKinds
  <1>3. PlainList(page, runs, <<o>>)
    BY <1>2, PlainLists
  <1>4. OpsBr(page, runs, todo) /\ Guarded(page, runs, todo) /\ FirstEvents(page, runs, todo) = {}
    BY <1>1, <1>3, PlainListOK
  <1>5. TodoBr
    BY <1>4 DEF TodoBr, Agree
  <1>6. ResultsOK
    <2>1. \A e \in Element : runs[e] = <<>>
      BY DEF Init
    <2> QED
      BY <2>1 DEF ResultsOK
  <1>7. history.broken = {} /\ history.acted = {}
    BY DEF Init
  <1>8. BrokenOK /\ ActedOK /\ BreakPreventsActions
    BY <1>7 DEF BrokenOK, ActedOK, BreakPreventsActions
  <1> QED
    BY <1>5, <1>6, <1>8 DEF BreaksOK

\* The inductive invariant about breaks.
BreakInv == EventInv /\ BreaksOK

\* The inductive invariant about breaks holds in every state.
THEOREM BreakInvariant == Spec => []BreakInv
  <1>1. Init => BreaksOK
    BY BreaksOKInit
  <1>2. EventInv /\ BreaksOK /\ [Next]_vars => BreaksOK'
    <2>1. ASSUME EventInv, BreaksOK, UNCHANGED vars PROVE BreaksOK'
      BY <2>1 DEF BreaksOK, ResultsOK, TodoBr, BrokenOK, ActedOK, BreakPreventsActions, Past, MetasOf, vars
    <2> QED
      BY <2>1, BreaksOKStep
  <1>3. EventInv /\ BreaksOK => BreakInv
    BY DEF BreakInv
  <1> QED
    BY <1>1, <1>2, <1>3, EventInvariant, PTL DEF Spec

\* A Break before the action that is not delayed keeps the actions of its event from running:
\* the exception is never caught by another catch than its event's, whatever nested events and
\* completions are under way, and an event that reaches a runner twice breaks twice.
THEOREM BreakPreventsActionsAlways == Spec => []BreakPreventsActions
  <1>1. BreakInv => BreakPreventsActions
    BY DEF BreakInv, BreaksOK
  <1> QED
    BY <1>1, BreakInvariant, PTL

-------------------------------------------------------------------------------
(* Steps that call no runner *)

\* An event that goes around and what it calls.
Named(o) == o.op \in {"dispatch", "invoke"}
IsInvoke(o) == o.op = "invoke"
IsDispatch(o) == o.op = "dispatch"

\* Initialisation is the engine's: no user, no other code and no ExecutableTrigger names it.
NotByHand(p) ==
    /\ \A u \in p.user : u[1] # InitIncoding
    /\ \A name \in DOMAIN p.metas : \A i \in DOMAIN p.metas[name] :
          p.metas[name][i].type = "Trigger" => p.metas[name][i].arg # InitIncoding

\* The events of a request that document counts: the engine triggers them, once each.
AjaxEvents == {"incajaxbefore", "incajaxcomplete"}

\* Nothing but the engine names them, and no element keeps them from document.
CountsItself(p) ==
    /\ \A u \in p.user : u[1] \notin AjaxEvents
    /\ \A name \in DOMAIN p.metas : \A i \in DOMAIN p.metas[name] :
          LET m == p.metas[name][i]
          IN  /\ m.type = "Trigger" => m.arg \notin AjaxEvents
              /\ m.onEventStatus = CancelAll => m.onBind \cap AjaxEvents = {}

\* What is to be sent or counted, and the steps that ask for it.
Counts(o) == o.op = "send" \/ (o.op = "fire" /\ o.type \in AjaxEvents)
Asking == AtRun("Ajax") \/ AtRun("Submit") \/ Respond

\* Operations that are followed: each stays until it is at the head, or is recalled as dropped.
Calm(o) == o.op \notin {"fire", "dispatch", "invoke"}
Watched(o) == ~ Calm(o) \/ o.op = "send"
Lost(o) ==
    \/ o.op = "fire" /\ o.type \in history'.dropped
    \/ o.op \in {"dispatch", "invoke"} /\ o.ev.type \in history'.dropped
    \/ o.op = "send" /\ "send" \in history'.dropped
IsSent(j) == j = 1 /\ todo[j].op = "send"

\* An operation that starts nothing by itself.
Mild(pg, rs, o) ==
    /\ ~ Named(o)
    /\ o.op = "fire" /\ NotByHand(pg) => o.type # InitIncoding
    /\ o.op = "run" => MetaAt(pg, rs, o.x).delay = "none"
    /\ Counts(o) /\ CountsItself(pg) => Asking
MildList(pg, rs, a) == IsSeq(a) /\ \A i \in DOMAIN a : Mild(pg, rs, a[i])

\* What was left of the operations, d further back.
Old(d, i) == i + d \in DOMAIN todo /\ i + d > 1 /\ todo'[i] = todo[i + d]

\* j, moved by d.
Kept(d, j) == j - d \in DOMAIN todo' /\ todo'[j - d] = todo[j]

\* What is left of the events that go around: nothing that begins, and what is not there any
\* more was sent or dropped.
QuietTodo ==
    \E d \in Int :
        /\ \A i \in DOMAIN todo' :
              \/ Mild(page, runs', todo'[i])
              \/ Old(d, i)
              \/ Len(todo') = 1 /\ ~ Named(todo'[i]) /\ todo'[i].op = "run"
        /\ \A j \in DOMAIN todo : Watched(todo[j]) => Kept(d, j) \/ Lost(todo[j]) \/ IsSent(j)

\* Operations that are pushed before what is left after the first k.
LEMMA QuietJoined1 ==
    ASSUME TypeInv, NEW k, NEW after, IsAfter(todo, k, after), k >= 1,
           NEW a, MildList(page, runs', a), todo' = a \o after,
           \A j \in DOMAIN todo : j <= k /\ Watched(todo[j]) => Lost(todo[j]) \/ IsSent(j)
    PROVE  QuietTodo
  <1>1. IsSeq(todo) /\ IsSeq(a) /\ \A i \in DOMAIN a : Mild(page, runs', a[i])
    BY DEF TypeInv, OpsOK, MildList
  <1>2. PICK all : all = a \o after
    OBVIOUS
  <1>3. PICK la : la = Len(a)
    OBVIOUS
  <1>4. IsJoin(a, after, all)
    BY <1>2 DEF IsJoin
  <1>5. /\ la \in Nat /\ k \in Nat /\ DOMAIN all \subseteq Nat /\ DOMAIN todo \subseteq Nat \ {0}
        /\ \A i \in DOMAIN all : (i \in DOMAIN a /\ all[i] = a[i]) \/ Left(todo, k, la, all, i)
        /\ \A m \in DOMAIN todo : m > k => m - k + la \in DOMAIN all /\ all[m - k + la] = todo[m]
    BY <1>1, <1>3, <1>4, JoinedPositions
  <1>6. todo' = all
    BY <1>2
  <1>7. PICK d \in Int : d = k - la
    BY <1>5
  <1>8. ASSUME NEW i \in DOMAIN todo' PROVE Mild(page, runs', todo'[i]) \/ Old(d, i)
    <2>1. CASE i \in DOMAIN a /\ all[i] = a[i]
      BY <1>1, <1>6, <2>1
    <2>2. CASE Left(todo, k, la, all, i)
      <3>1. i \in Nat /\ i > la /\ i - la + k \in DOMAIN todo /\ all[i] = todo[i - la + k]
        BY <1>5, <1>6, <2>2 DEF Left
      <3>2. i + d = i - la + k /\ i + d > 1
        BY <1>5, <1>7, <3>1
      <3> QED
        BY <1>6, <3>1, <3>2 DEF Old
    <2> QED
      BY <1>5, <1>6, <2>1, <2>2
  <1>9. ASSUME NEW j \in DOMAIN todo, Watched(todo[j])
        PROVE  Kept(d, j) \/ Lost(todo[j]) \/ IsSent(j)
    <2>1. CASE j <= k
      BY <1>9, <2>1
    <2>2. CASE j > k
      <3>1. j - k + la \in DOMAIN all /\ all[j - k + la] = todo[j] /\ j \in Nat
        BY <1>5, <2>2
      <3>2. j - k + la = j - d
        BY <1>5, <1>7, <3>1
      <3> QED
        BY <1>6, <3>1, <3>2 DEF Kept
    <2> QED
      BY <1>5, <2>1, <2>2
  <1> QED
    BY <1>8, <1>9 DEF QuietTodo

\* The operation at the head is replaced.
LEMMA QuietPushed ==
    ASSUME TypeInv, todo # <<>>, Calm(todo[1]), NEW a, MildList(page, runs', a), Do(a)
    PROVE  QuietTodo
  <1>1. IsSeq(todo)
    BY DEF TypeInv, OpsOK
  <1>2. PICK after : after = Tail(todo)
    OBVIOUS
  <1>3. IsAfter(todo, 1, after) /\ DOMAIN todo \subseteq Nat \ {0}
    BY <1>1, <1>2, TailIsAfter
  <1>4. \A j \in DOMAIN todo : j <= 1 => j = 1
    BY <1>3
  <1>5. \A j \in DOMAIN todo : j <= 1 /\ Watched(todo[j]) => Lost(todo[j]) \/ IsSent(j)
    BY <1>4 DEF Watched, IsSent
  <1>6. todo' = a \o after
    BY <1>2 DEF Do
  <1>7. PICK k : k = 1
    OBVIOUS
  <1>8. k >= 1 /\ IsAfter(todo, k, after) /\ \A j \in DOMAIN todo : j <= k /\ Watched(todo[j]) => Lost(todo[j]) \/ IsSent(j)
    BY <1>3, <1>5, <1>7
  <1> QED
    BY <1>6, <1>8, QuietJoined1

\* Lists of one and two operations.
LEMMA MildLists ==
    ASSUME NEW pg, NEW rs
    PROVE  /\ MildList(pg, rs, <<>>)
           /\ \A o : Mild(pg, rs, o) => MildList(pg, rs, <<o>>)
           /\ \A o, p : Mild(pg, rs, o) /\ Mild(pg, rs, p) => MildList(pg, rs, <<o, p>>)
  BY IsSeqEmpty, IsSeqTuples DEF MildList

\* by none, one or two operations.
LEMMA QuietPushes ==
    ASSUME TypeInv, todo # <<>>, Calm(todo[1])
    PROVE  /\ Do(<<>>) => QuietTodo
           /\ \A o : Mild(page, runs', o) /\ Do(<<o>>) => QuietTodo
           /\ \A o, p : Mild(page, runs', o) /\ Mild(page, runs', p) /\ Do(<<o, p>>) => QuietTodo
  <1>1. ASSUME NEW a, MildList(page, runs', a), Do(a) PROVE QuietTodo
    BY <1>1, QuietPushed
  <1> HIDE DEF Do
  <1>2. Do(<<>>) => QuietTodo
    BY <1>1, MildLists
  <1>3. ASSUME NEW o, Mild(page, runs', o), Do(<<o>>) PROVE QuietTodo
    <2>1. MildList(page, runs', <<o>>)
      BY <1>3, MildLists
    <2> QED
      BY <1>1, <1>3, <2>1
  <1>4. ASSUME NEW o, NEW p, Mild(page, runs', o), Mild(page, runs', p), Do(<<o, p>>) PROVE QuietTodo
    <2>1. MildList(page, runs', <<o, p>>)
      BY <1>4, MildLists
    <2> QED
      BY <1>1, <1>4, <2>1
  <1> QED
    BY <1>2, <1>3, <1>4

\* The operations that start nothing.
LEMMA MildKinds ==
    ASSUME NEW pg, NEW rs
    PROVE  /\ \A o : o.op \in {"throw", "parse", "store", "caught", "complete", "action",
                              "callback", "breakes", "execute", "catch", "actions"} => Mild(pg, rs, o)
           /\ \A type, site, data : type # InitIncoding /\ (type \in AjaxEvents => Asking)
                                      => Mild(pg, rs, FireOp(type, site, data))
           /\ \A o : o.op = "send" /\ Asking => Mild(pg, rs, o)
           /\ \A x, ev : MetaAt(pg, rs, x).delay = "none" => Mild(pg, rs, RunOp(x, ev))
  BY DEF Mild, Named, Counts, FireOp, RunOp

\* One operation for each element of a list.
LEMMA MildMapped ==
    ASSUME NEW pg, NEW rs, NEW xs, IsSeq(xs), NEW a, a = [i \in DOMAIN xs |-> a[i]],
           \A i \in DOMAIN xs : Mild(pg, rs, a[i])
    PROVE  MildList(pg, rs, a)
  <1>1. IsSeq(a) /\ DOMAIN a = DOMAIN xs
    BY Mapped
  <1> QED
    BY <1>1 DEF MildList

\* One list after the other.
LEMMA MildConcat ==
    ASSUME NEW pg, NEW rs, NEW a, MildList(pg, rs, a), NEW b, MildList(pg, rs, b), NEW all, all = a \o b
    PROVE  MildList(pg, rs, all)
  <1>1. IsSeq(a) /\ IsSeq(b)
    BY DEF MildList
  <1>2. Len(a) \in Nat /\ DOMAIN a = 1..Len(a) /\ Len(b) \in Nat /\ DOMAIN b = 1..Len(b)
    BY <1>1, IsSeqDom
  <1>3. /\ IsSeq(all) /\ DOMAIN all = 1..(Len(a) + Len(b))
        /\ \A i \in 1..Len(a) : all[i] = a[i]
        /\ \A i \in 1..Len(b) : all[Len(a) + i] = b[i]
    BY <1>1, IsSeqConcat
  <1>4. ASSUME NEW i \in DOMAIN all PROVE Mild(pg, rs, all[i])
    <2>1. CASE i <= Len(a)
      <3>1. i \in DOMAIN a /\ all[i] = a[i]
        BY <1>2, <1>3, <2>1
      <3> QED
        BY <3>1 DEF MildList
    <2>2. CASE i > Len(a)
      <3>1. i - Len(a) \in 1..Len(b) /\ Len(a) + (i - Len(a)) = i
        BY <1>2, <1>3, <2>2
      <3>2. all[Len(a) + (i - Len(a))] = b[i - Len(a)]
        BY <1>3, <3>1, Zenon
      <3> QED
        BY <1>2, <3>1, <3>2 DEF MildList
    <2> QED
      BY <1>2, <1>3, <2>1, <2>2
  <1> QED
    BY <1>3, <1>4 DEF MildList

\* The executable of the operation at the head, of the page and the runners after the step.
LEMMA HeadMeta ==
    ASSUME TypeInv, Next, todo # <<>>,
           todo[1].op \in {"execute", "run", "action", "callback", "caught", "complete", "send"}
    PROVE  /\ MetaAt(page, runs', todo[1].x) = Meta(todo[1].x)
           /\ Meta(todo[1].x).type = "Trigger" /\ NotByHand(page) => Meta(todo[1].x).arg # InitIncoding
           /\ Meta(todo[1].x).type = "Trigger" /\ CountsItself(page) => Meta(todo[1].x).arg \notin AjaxEvents
           /\ \E name \in DOMAIN page.metas : \E i \in DOMAIN page.metas[name] :
                 Meta(todo[1].x) = page.metas[name][i]
  <1>1. Executable(runs, todo[1].x) /\ Grown(runs, runs') /\ page \in Page /\ AreRuns(page, runs)
    BY AtHeadExecutable, RunsStep DEF TypeInv
  <1>2. PICK x : x = todo[1].x
    OBVIOUS
  <1>3. MetaAt(page, runs', x) = Meta(x)
    BY <1>1, <1>2, MetaStays, MetaIsMetaAt
  <1>4. /\ Meta(x) = MetasOf(x[1], x[2])[x[3]] /\ x[3] \in DOMAIN MetasOf(x[1], x[2])
        /\ x[1] \in Element /\ x[2] \in DOMAIN runs[x[1]]
    BY <1>1, <1>2, MetaFacts
  <1>5. runs[x[1]][x[2]].name \in DOMAIN page.metas
    BY <1>1, <1>4, RunFacts
  <1>6. PICK name : name = runs[x[1]][x[2]].name
    OBVIOUS
  <1>7. x[3] \in DOMAIN page.metas[name] /\ Meta(x) = page.metas[name][x[3]] /\ name \in DOMAIN page.metas
    BY <1>4, <1>5, <1>6 DEF MetasOf
  <1> QED
    BY <1>2, <1>3, <1>7 DEF NotByHand, CountsItself

\* The end of a try, and what is kept for later.
LEMMA NothingLeftQuiet ==
    ASSUME TypeInv, Next, CatchNothing \/ CaughtNothing \/ Send \/ Store
    PROVE  QuietTodo
  <1>1. todo # <<>> /\ todo[1].op \in {"catch", "caught", "send", "store"} /\ Do(<<>>)
    BY DEF CatchNothing, CaughtNothing, Send, Store, At
  <1>2. Calm(todo[1])
    BY <1>1 DEF Calm
  <1> HIDE DEF Do
  <1> QED
    BY <1>1, <1>2, QuietPushes

\* RedirectTo triggers an event or nothing.
LEMMA RedirectQuiet ==
    ASSUME TypeInv, todo # <<>>, Calm(todo[1]), NEW r, RedirectTo(r, <<>>)
    PROVE  QuietTodo
  <1>1. CASE Do(<<>>)
    BY <1>1, QuietPushes
  <1>2. CASE Do(<<FireOp(ChangeUrl, Doc, NoData)>> \o <<>>)
    <2>1. PICK o : o = FireOp(ChangeUrl, Doc, NoData)
      OBVIOUS
    <2>2. Do(<<o>>)
      <3>1. <<o>> \o <<>> = <<o>>
        OBVIOUS
      <3> QED
        BY <1>2, <2>1, <3>1
    <2>3. Mild(page, runs', o)
      <3>1. ChangeUrl # InitIncoding /\ ChangeUrl \notin AjaxEvents
        BY DEF ChangeUrl, InitIncoding, AjaxEvents
      <3> QED
        BY <2>1, <3>1, MildKinds
    <2> HIDE DEF Do
    <2> QED
      BY <2>2, <2>3, QuietPushes
  <1> QED
    BY <1>1, <1>2 DEF RedirectTo

\* Actions that run complete or send.
LEMMA RunActionQuiet ==
    ASSUME TypeInv, Next, Direct \/ Event \/ Ajax \/ Submit
    PROVE  QuietTodo
  <1>1. todo # <<>> /\ todo[1].op = "run"
    BY DEF Direct, Event, Ajax, Submit, AtRun, At
  <1>2. Calm(todo[1])
    BY <1>1 DEF Calm
  <1>3. \/ Do(<<>>)
        \/ \E x, ev, res : Do(<<CompleteOp(x, ev, res)>>)
        \/ \E site, data, x, ev, res : Do(<<FireOp("incajaxsuccess", site, data), CompleteOp(x, ev, res)>>)
        \/ (Ajax \/ Submit) /\ \E site, data, x, ev, d :
              Do(<<FireOp("incajaxbefore", site, data), [op |-> "send", x |-> x, ev |-> ev, data |-> d]>>)
    <2>1. CASE Direct \/ Event
      BY <2>1, Zenon DEF Direct, Event
    <2>2. CASE Ajax
      BY <2>2, Zenon DEF Ajax
    <2>3. CASE Submit
      BY <2>3 DEF Submit
    <2> QED
      BY <2>1, <2>2, <2>3
  <1>4. \A x, ev, res : Mild(page, runs', CompleteOp(x, ev, res))
    BY MildKinds DEF CompleteOp
  <1>5. Ajax \/ Submit => Asking
    BY DEF Asking, Ajax, Submit
  <1>6. \A site, data : Mild(page, runs', FireOp("incajaxsuccess", site, data))
    BY MildKinds DEF InitIncoding, AjaxEvents
  <1>11. Asking => /\ \A x, ev, d : Mild(page, runs', [op |-> "send", x |-> x, ev |-> ev, data |-> d])
                   /\ \A site, data : Mild(page, runs', FireOp("incajaxbefore", site, data))
    BY MildKinds DEF InitIncoding
  <1> HIDE DEF Do
  <1>7. CASE Do(<<>>)
    BY <1>1, <1>2, <1>7, QuietPushes
  <1>8. CASE \E x, ev, res : Do(<<CompleteOp(x, ev, res)>>)
    <2>1. PICK o : Do(<<o>>) /\ Mild(page, runs', o)
      BY <1>4, <1>8
    <2> QED
      BY <1>1, <1>2, <2>1, QuietPushes
  <1>9. CASE \E site, data, x, ev, res : Do(<<FireOp("incajaxsuccess", site, data), CompleteOp(x, ev, res)>>)
    <2>1. PICK o, p : Do(<<o, p>>) /\ Mild(page, runs', o) /\ Mild(page, runs', p)
      BY <1>4, <1>6, <1>9
    <2> QED
      BY <1>1, <1>2, <2>1, QuietPushes
  <1>10. CASE (Ajax \/ Submit) /\ \E site, data, x, ev, d :
                Do(<<FireOp("incajaxbefore", site, data), [op |-> "send", x |-> x, ev |-> ev, data |-> d]>>)
    <2>1. PICK o, p : Do(<<o, p>>) /\ Mild(page, runs', o) /\ Mild(page, runs', p)
      BY <1>5, <1>11, <1>10
    <2> QED
      BY <1>1, <1>2, <2>1, QuietPushes
  <1> QED
    BY <1>3, <1>7, <1>8, <1>9, <1>10

\* Executables that are no actions trigger, parse or throw.
LEMMA RunOtherQuiet ==
    ASSUME TypeInv, Next, Insert \/ Trigger \/ Break \/ Eval \/ HashStore \/ Attach \/ Detach
    PROVE  QuietTodo
  <1>1. todo # <<>> /\ todo[1].op = "run"
    BY DEF Insert, Trigger, Break, Eval, HashStore, Attach, Detach, AtRun, At
  <1>2. Calm(todo[1])
    BY <1>1 DEF Calm
  <1>3. CASE HashStore
    BY <1>1, <1>2, <1>3, RedirectQuiet DEF HashStore
  <1>4. CASE Trigger
    <2>1. PICK site, data : Do(<<FireOp(Meta(todo[1].x).arg, site, data)>>)
      BY <1>4 DEF Trigger
    <2>2. /\ NotByHand(page) => Meta(todo[1].x).arg # InitIncoding
          /\ CountsItself(page) => Meta(todo[1].x).arg \notin AjaxEvents
      BY <1>1, <1>4, HeadMeta DEF Trigger, AtRun
    <2>3. PICK o : o = FireOp(Meta(todo[1].x).arg, site, data)
      OBVIOUS
    <2>4. Mild(page, runs', o)
      BY <2>2, <2>3 DEF Mild, Named, Counts, FireOp
    <2> QED
      BY <1>1, <1>2, <2>1, <2>3, <2>4, QuietPushes
  <1>5. CASE ~ HashStore /\ ~ Trigger
    <2>1. \/ Do(<<>>)
          \/ \E kind : Do(<<ThrowOp(kind)>>)
          \/ \E e : Do(<<ParseOp(e)>>)
          \/ \E site, data : Do(<<FireOp("incinsert", site, data)>>)
          \/ \E e, site, data : Do(<<ParseOp(e), FireOp("incinsert", site, data)>>)
      <3>1. CASE Insert
        BY <3>1 DEF Insert
      <3>2. CASE Break
        BY <3>2 DEF Break
      <3>3. CASE Eval
        BY <3>3 DEF Eval
      <3>4. CASE Attach
        BY <3>4 DEF Attach
      <3>5. CASE Detach
        BY <3>5 DEF Detach
      <3> QED
        BY <1>5, <3>1, <3>2, <3>3, <3>4, <3>5
    <2>2. /\ \A kind : Mild(page, runs', ThrowOp(kind))
          /\ \A e : Mild(page, runs', ParseOp(e))
          /\ \A site, data : Mild(page, runs', FireOp("incinsert", site, data))
      <3>1. (\A kind : Mild(page, runs', ThrowOp(kind))) /\ \A e : Mild(page, runs', ParseOp(e))
        BY MildKinds DEF ThrowOp, ParseOp
      <3>2. "incinsert" # InitIncoding /\ "incinsert" \notin AjaxEvents
        BY DEF InitIncoding, AjaxEvents
      <3> QED
        BY <3>1, <3>2, MildKinds
    <2> HIDE DEF Do
    <2>3. \/ Do(<<>>)
          \/ \E o : Mild(page, runs', o) /\ Do(<<o>>)
          \/ \E o, p : Mild(page, runs', o) /\ Mild(page, runs', p) /\ Do(<<o, p>>)
      BY <2>1, <2>2
    <2> QED
      BY <1>1, <1>2, <2>3, QuietPushes
  <1> QED
    BY <1>3, <1>4, <1>5, Zenon

\* What is run now is not delayed; the rest waits.
LEMMA ExecuteQuiet ==
    ASSUME TypeInv, Next, Execute
    PROVE  QuietTodo
  <1>1. todo # <<>> /\ todo[1].op = "execute"
    BY DEF Execute, At
  <1>2. Calm(todo[1])
    BY <1>1 DEF Calm
  <1>3. Do(<<>>) \/ (Meta(todo[1].x).delay = "none" /\ Do(<<RunOp(todo[1].x, todo[1].ev)>>))
    BY DEF Execute
  <1>4. MetaAt(page, runs', todo[1].x) = Meta(todo[1].x)
    BY <1>1, HeadMeta
  <1>5. Meta(todo[1].x).delay = "none" => Mild(page, runs', RunOp(todo[1].x, todo[1].ev))
    BY <1>4, MildKinds
  <1> HIDE DEF Do
  <1> QED
    BY <1>1, <1>2, <1>3, <1>5, QuietPushes

\* The lists of the runner: its actions, the callbacks of one of them.
LEMMA ListsQuiet ==
    ASSUME TypeInv, Next, Actions \/ Action \/ Callback \/ BreakCallbacks
    PROVE  QuietTodo
  <1>1. todo # <<>> /\ todo[1].op \in {"actions", "action", "callback", "breakes"}
    BY DEF Actions, Action, Callback, BreakCallbacks, At
  <1>2. Calm(todo[1])
    BY <1>1 DEF Calm
  <1>3. CASE Action
    <2>1. PICK o : o = ExecuteOp(todo[1].x, todo[1].ev) /\ Do(<<o>>)
      BY <1>3 DEF Action
    <2>2. Mild(page, runs', o)
      BY <2>1, MildKinds DEF ExecuteOp
    <2> QED
      BY <1>1, <1>2, <2>1, <2>2, QuietPushes
  <1>4. CASE Callback
    <2>1. PICK o, p : o.op = "execute" /\ p.op = "caught" /\ Do(<<o, p>>)
      BY <1>4, Zenon DEF Callback, ExecuteOp
    <2>2. Mild(page, runs', o) /\ Mild(page, runs', p)
      BY <2>1, MildKinds
    <2> QED
      BY <1>1, <1>2, <2>1, <2>2, QuietPushes, Zenon
  <1>5. CASE BreakCallbacks
    <2>1. OpOK(runs, todo[1]) /\ todo[1].op = "breakes"
      BY <1>1, <1>5, AtHead DEF BreakCallbacks, At
    <2>2. IsSeq(todo[1].callbacks) /\ \A i \in DOMAIN todo[1].callbacks : todo[1].callbacks[i].op = "callback"
      BY <2>1 DEF OpOK
    <2>3. MildList(page, runs', todo[1].callbacks)
      BY <2>2, MildKinds DEF MildList
    <2>4. MildList(page, runs', <<>>)
      BY MildLists
    <2>5. Do(todo[1].callbacks) \/ Do(<<>>)
      BY <1>5 DEF BreakCallbacks
    <2> HIDE DEF Do
    <2> QED
      BY <1>1, <1>2, <2>3, <2>4, <2>5, QuietPushed
  <1>6. CASE Actions
    <2> DEFINE xs == ActionsOf(todo[1].e, todo[1].r, todo[1].ev.type)
               a == [i \in DOMAIN xs |-> [op |-> "action", x |-> xs[i], ev |-> todo[1].ev]]
    <2>1. Do(a)
      BY <1>6 DEF Actions, Each
    <2>2. IsSeq(xs)
      BY <1>6, ActionsDoes DEF Lists
    <2>3. \A i \in DOMAIN xs : Mild(page, runs', a[i])
      BY MildKinds
    <2>4. a = [i \in DOMAIN xs |-> a[i]]
      OBVIOUS
    <2> HIDE DEF a, xs, Do
    <2>5. MildList(page, runs', a)
      BY <2>2, <2>3, <2>4, MildMapped
    <2> QED
      BY <1>1, <1>2, <2>1, <2>5, QuietPushed
  <1> QED
    BY <1>3, <1>4, <1>5, <1>6

\* A completion: callbacks, then the executables on break.
LEMMA CompletedQuiet ==
    ASSUME TypeInv, Next, Completed
    PROVE  QuietTodo
  <1>1. todo # <<>> /\ todo[1].op = "complete"
    BY DEF Completed, At
  <1>2. Calm(todo[1])
    BY <1>1 DEF Calm
  <1>3. CASE todo[1].result.redirect # NoRedirect
    <2>1. PICK r : RedirectTo(r, <<>>)
      BY <1>3 DEF Completed
    <2> QED
      BY <1>1, <1>2, <2>1, RedirectQuiet
  <1>4. CASE todo[1].result.redirect = NoRedirect
    <2> DEFINE o == todo[1]
               Call(last, y) == [op |-> "callback", x |-> y, ev |-> o.ev, data |-> o.result.data, last |-> last]
               status == IF o.result.success THEN Success ELSE Error
               main == CallbacksOf(o.x, status)
               rest1 == CallbacksOf(o.x, Complete)
               xs == main \o rest1
               last1 == CallbacksOf(o.x, Breakes)
               a == [i \in DOMAIN xs |-> Call(FALSE, xs[i])]
               b == [op |-> "breakes", hasBreak |-> FALSE, callbacks |-> [i \in DOMAIN last1 |-> Call(TRUE, last1[i])]]
    <2>1. Do(a \o <<b>>)
      BY <1>4 DEF Completed, Each
    <2>2. IsSeq(main) /\ IsSeq(rest1)
      <3>1. Executable(runs, o.x) /\ page \in Page /\ AreRuns(page, runs)
        BY <1>1, AtHeadExecutable DEF TypeInv
      <3> HIDE DEF status
      <3> QED
        BY <3>1, CallbacksLists DEF Lists
    <2>3. IsSeq(xs)
      <3> HIDE DEF main, rest1
      <3> QED
        BY <2>2, IsSeqConcat
    <2>4. \A i \in DOMAIN xs : Mild(page, runs', a[i])
      <3> HIDE DEF xs
      <3> QED
        BY MildKinds
    <2>5. a = [i \in DOMAIN xs |-> a[i]]
      OBVIOUS
    <2>6. Mild(page, runs', b)
      <3>1. b.op = "breakes"
        OBVIOUS
      <3> HIDE DEF b
      <3> QED
        BY <3>1, MildKinds
    <2> HIDE DEF a, b, xs, Do
    <2>7. MildList(page, runs', a) /\ MildList(page, runs', <<b>>)
      BY <2>3, <2>4, <2>5, <2>6, MildMapped, MildLists
    <2>8. PICK all : all = a \o <<b>>
      OBVIOUS
    <2>9. MildList(page, runs', all)
      BY <2>7, <2>8, MildConcat
    <2> QED
      BY <1>1, <1>2, <2>1, <2>8, <2>9, QuietPushed
  <1> QED
    BY <1>3, <1>4

\* What is recalled of the events that were handled.
Remembered == {"handled", "twice", "started", "dropped"}
OnceHistoryOK == Remembered \subseteq DOMAIN history

\* What is followed and dropped is recalled.
LEMMA DroppedType ==
    ASSUME NEW ops, IsSeq(ops), NEW j \in DOMAIN ops, Watched(ops[j]), Dropped(ops) \subseteq history'.dropped
    PROVE  Lost(ops[j])
  <1>1. ops[j] \in ToSet(ops)
    BY DEF ToSet
  <1>2. PICK o : o = ops[j]
    OBVIOUS
  <1>3. CASE o.op = "fire"
    BY <1>1, <1>2, <1>3 DEF Dropped, Lost
  <1>4. CASE o.op \in {"dispatch", "invoke"}
    BY <1>1, <1>2, <1>4 DEF Dropped, Lost
  <1>5. CASE o.op = "send"
    BY <1>1, <1>2, <1>5 DEF Dropped, Lost
  <1> QED
    BY <1>2, <1>3, <1>4, <1>5 DEF Watched, Calm

\* One of the first k.
LEMMA DroppedFirst ==
    ASSUME TypeInv, NEW k \in 0..Len(todo), Dropped(SubSeq(todo, 1, k)) \subseteq history'.dropped,
           NEW j \in DOMAIN todo, j <= k, Watched(todo[j])
    PROVE  Lost(todo[j])
  <1>1. IsSeq(todo) /\ Len(todo) \in Nat /\ DOMAIN todo = 1..Len(todo)
    BY IsSeqDom DEF TypeInv, OpsOK
  <1>2. PICK S : todo \in Seq(S)
    BY <1>1 DEF IsSeq
  <1>3. PICK ops : ops = SubSeq(todo, 1, k)
    OBVIOUS
  <1>4. ops \in Seq(S) /\ ops[j] = todo[j] /\ j \in DOMAIN ops
    BY <1>1, <1>2, <1>3
  <1>5. IsSeq(ops)
    BY <1>4, IsSeqDef
  <1>6. Lost(ops[j])
    BY <1>3, <1>4, <1>5, DroppedType
  <1> QED
    BY <1>4, <1>6

\* An exception drops the whole task.
LEMMA UncaughtQuiet ==
    ASSUME TypeInv, OnceHistoryOK, Uncaught
    PROVE  QuietTodo
  <1>1. todo' = <<>> /\ history' = [history EXCEPT !.dropped = history.dropped \cup Dropped(todo)]
    BY DEF Uncaught
  <1>2. DOMAIN todo' = {}
    BY <1>1, IsSeqEmpty
  <1>3. history'.dropped = history.dropped \cup Dropped(todo)
    BY <1>1 DEF OnceHistoryOK, Remembered
  <1>4. \A j \in DOMAIN todo : Watched(todo[j]) => Lost(todo[j])
    BY <1>3, DroppedType DEF TypeInv, OpsOK
  <1>5. 0 \in Int
    OBVIOUS
  <1> QED
    BY <1>2, <1>4, <1>5 DEF QuietTodo

\* An exception is announced and thrown again.
LEMMA RethrowQuiet ==
    ASSUME TypeInv, OnceHistoryOK, RethrowCallback
    PROVE  QuietTodo
  <1>0. \E site, i : /\ i = FirstOf(Catchers("error"))
                     /\ todo' = <<FireOp("incglobalerror", site, NoData), ThrowOp("error")>> \o After(i)
                     /\ history' = [history EXCEPT !.dropped = history.dropped \cup Dropped(SubSeq(todo, 1, i))]
    BY DEF RethrowCallback
  <1>1. PICK site, i : /\ i = FirstOf(Catchers("error"))
                       /\ todo' = <<FireOp("incglobalerror", site, NoData), ThrowOp("error")>> \o After(i)
                       /\ history' = [history EXCEPT !.dropped = history.dropped \cup Dropped(SubSeq(todo, 1, i))]
    BY <1>0
  <1>2. PICK o, p : o = FireOp("incglobalerror", site, NoData) /\ p = ThrowOp("error")
    OBVIOUS
  <1>3. PICK a, after : a = <<o, p>> /\ after = After(i)
    OBVIOUS
  <1>4. i \in 0..Len(todo) /\ i >= 1
    <2>1. At("throw") /\ Catchers("error") # {}
      BY DEF RethrowCallback
    <2>2. i \in Nat /\ i > 1 /\ i <= Len(todo)
      BY <1>1, <2>1, CatcherDoes
    <2>3. Len(todo) \in Nat
      BY IsSeqDom DEF TypeInv, OpsOK
    <2> QED
      BY <2>2, <2>3
  <1>5. IsAfter(todo, i, after)
    BY <1>3, <1>4, AfterIsAfter
  <1>6. MildList(page, runs', a)
    <2>1. Mild(page, runs', o)
      <3>1. "incglobalerror" # InitIncoding /\ "incglobalerror" \notin AjaxEvents
        BY DEF InitIncoding, AjaxEvents
      <3> QED
        BY <1>2, <3>1, MildKinds
    <2>3. Mild(page, runs', p)
      <3>1. p.op = "throw"
        BY <1>2 DEF ThrowOp
      <3> QED
        BY <3>1, MildKinds
    <2> QED
      BY <1>3, <2>1, <2>3, MildLists
  <1>7. history'.dropped = history.dropped \cup Dropped(SubSeq(todo, 1, i))
    BY <1>1 DEF OnceHistoryOK, Remembered
  <1>8. \A j \in DOMAIN todo : j <= i /\ Watched(todo[j]) => Lost(todo[j])
    BY <1>4, <1>7, DroppedFirst
  <1>9. todo' = a \o after
    BY <1>1, <1>2, <1>3
  <1> QED
    BY <1>4, <1>5, <1>6, <1>8, <1>9, QuietJoined1

\* The executables on break are run instead of the actions.
LEMMA BreakBeforeQuiet ==
    ASSUME TypeInv, TodoBr, OnceHistoryOK, BreakBefore
    PROVE  QuietTodo
  <1>1. PICK i, c, ev, k : i = FirstOf(Catchers(todo[1].kind)) /\ c = todo[i] /\ ev = c.ev /\ k = i + 1
    OBVIOUS
  <1> DEFINE xs == BreakesOf(c.e, c.r, ev.type)
             ops == [l \in DOMAIN xs |-> ExecuteOp(xs[l], ev)]
             S == BreakesPositions(c.e, c.r, ev.type)
  <1>2. /\ At("throw") /\ Catchers(todo[1].kind) # {} /\ c.op = "catch" /\ todo' = ops \o After(k)
        /\ history' = [history EXCEPT !.dropped = history.dropped \cup Dropped(SubSeq(todo, 1, i))]
    BY <1>1, Zenon DEF BreakBefore, Each
  <1>3. i \in DOMAIN todo /\ i \in Nat /\ k \in Nat
    <2>1. i \in DOMAIN todo /\ i \in Nat
      BY <1>1, <1>2, CatcherDoes, Zenon
    <2> QED
      BY <1>1, <2>1
  <1>4. Lists(c.e, c.r, S, xs)
    BY <1>1, BreakBeforeDoes
  <1>5. ops = [l \in DOMAIN xs |-> ops[l]] /\ \A l \in DOMAIN xs : ops[l].op = "execute"
    BY DEF ExecuteOp
  <1> HIDE DEF ops, xs, S
  <1>6. k \in DOMAIN todo /\ todo[k].op = "actions"
    <2>1. Guarded(page, runs, todo)
      BY DEF TodoBr
    <2> QED
      BY <1>1, <1>2, <1>3, <2>1 DEF Guarded
  <1>7. PICK after : after = After(k)
    OBVIOUS
  <1>8. DOMAIN todo = 1..Len(todo) /\ Len(todo) \in Nat
    BY IsSeqDom DEF TypeInv, OpsOK
  <1>9. IsAfter(todo, k, after) /\ i \in 0..Len(todo)
    <2>1. k \in 0..Len(todo) /\ i \in 0..Len(todo)
      BY <1>3, <1>6, <1>8
    <2> QED
      BY <1>7, <2>1, AfterIsAfter
  <1>10. MildList(page, runs', ops)
    <2>1. IsSeq(xs)
      BY <1>4 DEF Lists
    <2>2. \A l \in DOMAIN xs : Mild(page, runs', ops[l])
      BY <1>5, MildKinds
    <2> QED
      BY <1>5, <2>1, <2>2, MildMapped
  <1>11. history'.dropped = history.dropped \cup Dropped(SubSeq(todo, 1, i))
    BY <1>2 DEF OnceHistoryOK, Remembered
  <1>12. ASSUME NEW j \in DOMAIN todo, j <= k, Watched(todo[j]) PROVE Lost(todo[j])
    <2>1. j # k
      BY <1>6, <1>12 DEF Watched, Calm
    <2>2. j <= i
      BY <1>1, <1>3, <1>8, <1>12, <2>1
    <2> QED
      BY <1>9, <1>11, <1>12, <2>2, DroppedFirst
  <1>13. todo' = ops \o after /\ k >= 1
    BY <1>1, <1>2, <1>3, <1>7
  <1> QED
    BY <1>9, <1>10, <1>12, <1>13, QuietJoined1

\* A Break is noted, or what was kept for the executables on break goes on.
LEMMA BreakCallbackQuiet ==
    ASSUME TypeInv, OnceHistoryOK, BreakCallback
    PROVE  QuietTodo
  <1>1. PICK i, after : i = FirstOf(Catchers("break")) /\ after = After(i)
    OBVIOUS
  <1> DEFINE j == FirstOf({k \in DOMAIN after : after[k].op = "breakes"})
  <1>2. /\ At("throw") /\ Catchers("break") # {} /\ todo[i].op = "caught"
        /\ todo' = IF todo[i].last THEN after ELSE SetBreak(after, j)
        /\ history' = [history EXCEPT !.dropped = history.dropped \cup Dropped(SubSeq(todo, 1, i))]
    BY <1>1 DEF BreakCallback, SetBreak
  <1>3. DOMAIN todo = 1..Len(todo) /\ Len(todo) \in Nat /\ IsSeq(todo)
    BY IsSeqDom DEF TypeInv, OpsOK
  <1>4. i \in DOMAIN todo /\ i \in Nat /\ i \in 0..Len(todo) /\ i > 1
    BY <1>1, <1>2, <1>3, CatcherDoes
  <1>5. IsAfter(todo, i, after) /\ OpsInv(runs, after)
    <2>1. IsAfter(todo, i, after)
      BY <1>1, <1>4, AfterIsAfter
    <2>2. OpsInv(runs, todo)
      BY DEF TypeInv, OpsInv
    <2>3. OpsInv(runs, after)
      BY <1>1, <1>4, <2>2, Suffix DEF After
    <2> QED
      BY <2>1, <2>3
  <1>6. history'.dropped = history.dropped \cup Dropped(SubSeq(todo, 1, i))
    BY <1>2 DEF OnceHistoryOK, Remembered
  <1>7. DOMAIN after = 1..(Len(todo) - i) /\ \A l \in DOMAIN after : after[l] = todo[i + l]
    BY <1>3, <1>4, <1>5, IsSeqDom DEF IsAfter
  <1>8. PICK all : all = todo'
    OBVIOUS
  <1>9. /\ DOMAIN all = DOMAIN after
        /\ \A l \in DOMAIN after : all[l] = after[l] \/ (after[l].op = "breakes" /\ all[l].op = "breakes")
    <2>1. CASE todo[i].last
      BY <1>2, <1>8, <2>1
    <2>2. CASE ~ todo[i].last
      <3>1. j \in DOMAIN after /\ after[j].op = "breakes"
        BY <1>1, <1>2, <1>4, <2>2, BreakesFollow
      <3> HIDE DEF j
      <3>2. all = SetBreak(after, j)
        BY <1>2, <1>8, <2>2
      <3>3. /\ DOMAIN all = DOMAIN after
            /\ \A l \in DOMAIN after : l # j => all[l] = after[l]
            /\ all[j] = [op |-> "breakes", hasBreak |-> TRUE, callbacks |-> after[j].callbacks]
        BY <1>5, <3>1, <3>2, SetBreakDoes
      <3>4. all[j].op = "breakes"
        BY <3>3
      <3> QED
        BY <3>1, <3>3, <3>4
    <2> QED
      BY <2>1, <2>2
  <1>10. ASSUME NEW l \in DOMAIN todo' PROVE Mild(page, runs', todo'[l]) \/ Old(i, l)
    <2>1. l \in DOMAIN after /\ after[l] = todo[l + i] /\ l + i \in DOMAIN todo /\ l + i > 1
      BY <1>3, <1>4, <1>7, <1>8, <1>9
    <2>2. CASE all[l] = after[l]
      BY <1>8, <2>1, <2>2 DEF Old
    <2>3. CASE all[l].op = "breakes"
      BY <1>8, <2>3, MildKinds
    <2> QED
      BY <1>9, <2>1, <2>2, <2>3
  <1>11. ASSUME NEW l \in DOMAIN todo, Watched(todo[l])
         PROVE  Kept(i, l) \/ Lost(todo[l])
    <2>1. CASE l <= i
      BY <1>4, <1>6, <1>11, <2>1, DroppedFirst
    <2>2. CASE l > i
      <3>1. l - i \in DOMAIN after /\ i + (l - i) = l
        BY <1>3, <1>4, <1>7, <2>2
      <3>2. after[l - i] = todo[l]
        BY <1>7, <3>1
      <3>3. all[l - i] = todo[l]
        BY <1>9, <1>11, <3>1, <3>2 DEF Watched, Calm
      <3> QED
        BY <1>8, <1>9, <3>1, <3>3 DEF Kept
    <2> QED
      BY <1>3, <1>4, <2>1, <2>2
  <1>12. i \in Int
    BY <1>4
  <1> QED
    BY <1>10, <1>11, <1>12 DEF QuietTodo

\* What a task begins with starts nothing, or is the one executable that waited.
LEMMA TaskQuiet ==
    ASSUME TypeInv, todo = <<>>, NEW a, todo' = a,
           MildList(page, runs', a) \/ \E x, ev : a = <<RunOp(x, ev)>>
    PROVE  QuietTodo
  <1>1. DOMAIN todo = {}
    BY IsSeqEmpty
  <1>2. 0 \in Int
    OBVIOUS
  <1>3. CASE MildList(page, runs', a)
    BY <1>1, <1>2, <1>3 DEF QuietTodo, MildList
  <1>4. CASE \E x, ev : a = <<RunOp(x, ev)>>
    <2>1. PICK o : a = <<o>> /\ o.op = "run"
      BY <1>4 DEF RunOp
    <2>2. Len(a) = 1 /\ DOMAIN a = {1} /\ a[1] = o
      BY <2>1
    <2>3. ~ Named(o)
      BY <2>1 DEF Named
    <2> QED
      BY <1>1, <1>2, <2>1, <2>2, <2>3 DEF QuietTodo
  <1> QED
    BY <1>3, <1>4

\* An answer completes the action it was asked for.
LEMMA AnswerQuiet ==
    ASSUME TypeInv, NEW r \in requests, Answer(r)
    PROVE  QuietTodo
  <1>1. \E o, d, c, s :
           /\ \E site, data : o = FireOp("incajaxsuccess", site, data) /\ d = FireOp("incajaxcomplete", site, data)
           /\ c.op = "complete" /\ s.op = "store"
           /\ \/ todo' = <<o>> \o <<d, c>>
              \/ todo' = <<o>> \o (<<s>> \o <<c, d>>)
              \/ todo' = <<o>> \o (<<>> \o <<c, d>>)
    <2>1. PICK site, data, result, key :
           LET o == FireOp("incajaxsuccess", site, data)
               d == FireOp("incajaxcomplete", site, data)
               c == CompleteOp(r.x, r.ev, result)
               s == [op |-> "store", key |-> key, value |-> result]
           IN  \/ todo' = <<o>> \o <<d, c>>
               \/ todo' = <<o>> \o (<<s>> \o <<c, d>>)
               \/ todo' = <<o>> \o (<<>> \o <<c, d>>)
      BY Zenon DEF Answer
    <2> DEFINE o == FireOp("incajaxsuccess", site, data)
               d == FireOp("incajaxcomplete", site, data)
               c == CompleteOp(r.x, r.ev, result)
               s == [op |-> "store", key |-> key, value |-> result]
    <2>2. c.op = "complete" /\ s.op = "store"
      BY DEF CompleteOp
    <2>3. \/ todo' = <<o>> \o <<d, c>>
          \/ todo' = <<o>> \o (<<s>> \o <<c, d>>)
          \/ todo' = <<o>> \o (<<>> \o <<c, d>>)
      BY <2>1
    <2>4. \E site1, data1 : o = FireOp("incajaxsuccess", site1, data1) /\ d = FireOp("incajaxcomplete", site1, data1)
      OBVIOUS
    <2> HIDE DEF o, d, c, s
    <2> QED
      BY <2>2, <2>3, <2>4, Zenon
  <1>2. PICK o, d, c, s :
           /\ \E site, data : o = FireOp("incajaxsuccess", site, data) /\ d = FireOp("incajaxcomplete", site, data)
           /\ c.op = "complete" /\ s.op = "store"
           /\ \/ todo' = <<o>> \o <<d, c>>
              \/ todo' = <<o>> \o (<<s>> \o <<c, d>>)
              \/ todo' = <<o>> \o (<<>> \o <<c, d>>)
    BY <1>1
  <1>3. PICK site, data : o = FireOp("incajaxsuccess", site, data) /\ d = FireOp("incajaxcomplete", site, data)
    BY <1>2
  <1>4. Mild(page, runs', o) /\ Mild(page, runs', d) /\ Mild(page, runs', c) /\ Mild(page, runs', s)
    <2>1. Mild(page, runs', o) /\ Mild(page, runs', d)
      <3>1. Asking
        BY DEF Asking, Respond
      <3> QED
        BY <1>3, <3>1, MildKinds DEF InitIncoding
    <2>2. c.op = "complete" /\ s.op = "store"
      BY <1>2
    <2> QED
      BY <2>1, <2>2, MildKinds
  <1>5. PICK lo, ls, le, lcd, ldc : lo = <<o>> /\ ls = <<s>> /\ le = <<>> /\ lcd = <<c, d>> /\ ldc = <<d, c>>
    OBVIOUS
  <1>6. /\ MildList(page, runs', lo) /\ MildList(page, runs', ls) /\ MildList(page, runs', le)
        /\ MildList(page, runs', lcd) /\ MildList(page, runs', ldc)
    BY <1>4, <1>5, MildLists
  <1>8. PICK m1, m2 : m1 = ls \o lcd /\ m2 = le \o lcd
    OBVIOUS
  <1>9. PICK a1, a2, a3 : a1 = lo \o ldc /\ a2 = lo \o m1 /\ a3 = lo \o m2
    OBVIOUS
  <1>10. MildList(page, runs', m1) /\ MildList(page, runs', m2)
    BY <1>6, <1>8, MildConcat
  <1>11. MildList(page, runs', a1) /\ MildList(page, runs', a2) /\ MildList(page, runs', a3)
    BY <1>6, <1>9, <1>10, MildConcat
  <1>12. todo' = a1 \/ todo' = a2 \/ todo' = a3
    BY <1>2, <1>5, <1>8, <1>9
  <1>13. todo = <<>>
    BY DEF Answer, Idle
  <1> QED
    BY <1>11, <1>12, <1>13, TaskQuiet

\* The tasks of the user, the browser and the server.
LEMMA TasksQuiet ==
    ASSUME TypeInv, Next, User \/ Navigate \/ Announce \/ Respond \/ TimeOut \/ Tick
    PROVE  QuietTodo
  <1>0. todo = <<>>
    BY DEF User, Navigate, Announce, Respond, Answer, Fail, TimeOut, Tick, Idle
  <1>1. ASSUME NEW o, Mild(page, runs', o), todo' = <<o>> PROVE QuietTodo
    <2>1. MildList(page, runs', <<o>>)
      BY <1>1, MildLists
    <2> QED
      BY <1>0, <1>1, <2>1, TaskQuiet
  <1>2. CASE User
    <2>1. PICK u \in page.user : todo' = <<FireOp(u[1], <<u[2], node[u[2]]>>, NoData)>>
      BY <1>2 DEF User
    <2>2. PICK o : o = FireOp(u[1], <<u[2], node[u[2]]>>, NoData)
      OBVIOUS
    <2>3. Mild(page, runs', o)
      BY <2>2 DEF Mild, Named, Counts, FireOp, NotByHand, CountsItself
    <2> QED
      BY <1>1, <2>1, <2>2, <2>3
  <1>3. CASE Announce
    <2>1. ChangeUrl # InitIncoding /\ ChangeUrl \notin AjaxEvents
      BY DEF ChangeUrl, InitIncoding, AjaxEvents
    <2>2. Mild(page, runs', FireOp(ChangeUrl, Doc, NoData))
      BY <2>1, MildKinds
    <2> QED
      BY <1>1, <1>3, <2>2 DEF Announce
  <1>4. CASE Navigate
    <2>1. todo' = <<>>
      BY <1>0, <1>4 DEF Navigate
    <2> QED
      BY <1>0, <2>1, MildLists, TaskQuiet
  <1>5. CASE Respond
    <2>1. PICK r \in requests : Answer(r) \/ Fail(r)
      BY <1>5 DEF Respond
    <2>2. CASE Answer(r)
      BY <2>2, AnswerQuiet
    <2>3. CASE Fail(r)
      <3>1. PICK site : todo' = <<FireOp("incajaxerror", site, NoData), FireOp("incajaxcomplete", site, NoData)>>
        BY <2>3 DEF Fail
      <3>2. PICK o, p : o = FireOp("incajaxerror", site, NoData) /\ p = FireOp("incajaxcomplete", site, NoData)
        OBVIOUS
      <3>3. Mild(page, runs', o) /\ Mild(page, runs', p)
        BY <1>5, <3>2, MildKinds DEF Asking, InitIncoding
      <3>4. MildList(page, runs', <<o, p>>)
        BY <3>3, MildLists
      <3> QED
        BY <1>0, <3>1, <3>2, <3>4, TaskQuiet
    <2> QED
      BY <2>1, <2>2, <2>3
  <1>6. CASE TimeOut \/ Tick
    <2>1. PICK x, ev : todo' = <<RunOp(x, ev)>>
      BY <1>6 DEF TimeOut, Tick
    <2> QED
      BY <1>0, <2>1, TaskQuiet
  <1> QED
    BY <1>2, <1>3, <1>4, <1>5, <1>6, Zenon

\* Every step but those of an event that goes around and of a parse is quiet.
LEMMA QuietStep ==
    ASSUME TypeInv, TodoBr, OnceHistoryOK, Next, ~ Fire, ~ Dispatch, ~ Invoke, ~ ParseContext
    PROVE  QuietTodo
  <1>1. CASE CatchNothing \/ CaughtNothing \/ Send \/ Store
    BY <1>1, NothingLeftQuiet
  <1>2. CASE Actions \/ Action \/ Callback \/ BreakCallbacks
    BY <1>2, ListsQuiet
  <1>3. CASE Execute
    BY <1>3, ExecuteQuiet
  <1>4. CASE Direct \/ Event \/ Ajax \/ Submit
    BY <1>4, RunActionQuiet
  <1>5. CASE Insert \/ Trigger \/ Break \/ Eval \/ HashStore \/ Attach \/ Detach
    BY <1>5, RunOtherQuiet
  <1>6. CASE Completed
    BY <1>6, CompletedQuiet
  <1>7. CASE Uncaught
    BY <1>7, UncaughtQuiet
  <1>8. CASE BreakBefore
    BY <1>8, BreakBeforeQuiet
  <1>9. CASE BreakCallback
    BY <1>9, BreakCallbackQuiet
  <1>10. CASE RethrowCallback
    BY <1>10, RethrowQuiet
  <1>11. CASE User \/ Navigate \/ Announce \/ Respond \/ TimeOut \/ Tick
    BY <1>11, TasksQuiet
  <1> QED
    BY <1>1, <1>2, <1>3, <1>4, <1>5, <1>6, <1>7, <1>8, <1>9, <1>10, <1>11 DEF Next, Step
===============================================================================
