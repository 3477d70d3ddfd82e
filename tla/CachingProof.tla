----------------------------- MODULE CachingProof -----------------------------
(***************************************************************************)
(* What holds of CachingFactory for any number of threads, names, versions   *)
(* and lock objects, and for every mix of the operations.                   *)
(***************************************************************************)
EXTENDS CachingFactory, SequenceTheorems, TLAPS

Types ==
    /\ stack \in [Thread -> Seq(Calls)]
    /\ miniLock \in [Key -> 0..MaxLocks]
    /\ cache \in [Key -> Value]
    /\ source \in [Key -> 1..MaxVersion]
    /\ called \in [Key -> 0..Lost]
    /\ overlapped \subseteq Key
    /\ thrown \subseteq {"KeyNotFound", "DuplicateKey"}

-------------------------------------------------------------------------------
(* Stacks *)

LEMMA TopIs ==
    ASSUME Types, NEW t \in Thread, ~ Idle(t)
    PROVE  /\ stack[t] \in Seq(Calls)
           /\ Len(stack[t]) \in Nat \ {0} /\ DOMAIN stack[t] = 1..Len(stack[t])
           /\ Top(t) = stack[t][Len(stack[t])] /\ Top(t) \in Calls
           /\ Rest(t) \in Seq(Calls) /\ Len(Rest(t)) = Len(stack[t]) - 1
           /\ DOMAIN Rest(t) = 1..(Len(stack[t]) - 1)
           /\ \A i \in 1..(Len(stack[t]) - 1) : Rest(t)[i] = stack[t][i]
  <1>1. /\ stack[t] \in Seq(Calls)
        /\ Len(stack[t]) \in Nat \ {0} /\ DOMAIN stack[t] = 1..Len(stack[t])
    BY EmptySeq, LenProperties DEF Types, Idle
  <1>2. Top(t) = stack[t][Len(stack[t])] /\ \A i \in 1..Len(stack[t]) : stack[t][i] \in Calls
    BY <1>1, ElementOfSeq DEF Top
  <1>3. /\ Rest(t) \in Seq(Calls) /\ Len(Rest(t)) = Len(stack[t]) - 1
        /\ \A i \in 1..(Len(stack[t]) - 1) : Rest(t)[i] = stack[t][i]
    BY <1>1, <1>2, SubSeqProperties DEF Rest
  <1>4. DOMAIN Rest(t) = 1..(Len(stack[t]) - 1)
    BY <1>3, LenProperties
  <1> QED
    BY <1>1, <1>2, <1>3, <1>4

\* The calls of the other threads and the first m of t stay what they are.
Kept(t, m) ==
    /\ \A u \in Thread \ {t} : stack'[u] = stack[u]
    /\ \A i \in 1..m : stack'[t][i] = stack[t][i]

LEMMA SetTopIs ==
    ASSUME Types, NEW t \in Thread, ~ Idle(t), NEW f \in Calls, SetTop(t, f)
    PROVE  /\ stack' \in [Thread -> Seq(Calls)] /\ Len(stack'[t]) = Len(stack[t])
           /\ DOMAIN stack'[t] = 1..Len(stack[t])
           /\ Kept(t, Len(stack[t]) - 1) /\ stack'[t][Len(stack[t])] = f
  <1>1. stack' = [stack EXCEPT ![t] = Append(Rest(t), f)]
    BY DEF SetTop
  <1>2. /\ Append(Rest(t), f) \in Seq(Calls) /\ Len(Append(Rest(t), f)) = Len(stack[t])
        /\ \A i \in 1..(Len(stack[t]) - 1) : Append(Rest(t), f)[i] = stack[t][i]
        /\ Append(Rest(t), f)[Len(stack[t])] = f
    BY TopIs
  <1> QED
    BY <1>1, <1>2, LenProperties DEF Kept, Types

LEMMA CallAndGoToIs ==
    ASSUME Types, NEW t \in Thread, ~ Idle(t), NEW f \in Calls, NEW pc,
           [Top(t) EXCEPT !.pc = pc] \in Calls, CallAndGoTo(t, pc, f)
    PROVE  /\ stack' \in [Thread -> Seq(Calls)] /\ Len(stack'[t]) = Len(stack[t]) + 1
           /\ DOMAIN stack'[t] = 1..(Len(stack[t]) + 1)
           /\ Kept(t, Len(stack[t]) - 1) /\ stack'[t][Len(stack[t])] = [Top(t) EXCEPT !.pc = pc]
           /\ stack'[t][Len(stack[t]) + 1] = f
  <1> DEFINE g == [Top(t) EXCEPT !.pc = pc]
             s == Append(Append(Rest(t), g), f)
  <1>1. stack' = [stack EXCEPT ![t] = s]
    BY DEF CallAndGoTo
  <1> HIDE DEF g
  <1>2. g \in Calls
    BY DEF g
  <1>3. /\ s \in Seq(Calls) /\ Len(s) = Len(stack[t]) + 1
        /\ \A i \in 1..(Len(stack[t]) - 1) : s[i] = stack[t][i]
        /\ s[Len(stack[t])] = g /\ s[Len(stack[t]) + 1] = f
    BY <1>2, TopIs
  <1> HIDE DEF s
  <1> QED
    BY <1>1, <1>3, LenProperties DEF Kept, Types, g

LEMMA ReturnIs ==
    ASSUME Types, NEW t \in Thread, ~ Idle(t), Return(t)
    PROVE  /\ stack' \in [Thread -> Seq(Calls)] /\ Len(stack'[t]) = Len(stack[t]) - 1
           /\ DOMAIN stack'[t] = 1..(Len(stack[t]) - 1)
           /\ Kept(t, Len(stack[t]) - 1)
  <1>1. stack' = [stack EXCEPT ![t] = Rest(t)]
    BY DEF Return
  <1> QED
    BY <1>1, TopIs DEF Kept, Types

\* A stack of at most one call.
LEMMA RestartIs ==
    ASSUME Types, NEW t \in Thread, NEW s, s = <<>> \/ \E f \in Calls : s = <<f>>,
           stack' = [stack EXCEPT ![t] = s]
    PROVE  /\ stack' \in [Thread -> Seq(Calls)] /\ stack'[t] = s
           /\ DOMAIN stack'[t] \subseteq {1} /\ Len(stack'[t]) \in {0, 1} /\ Kept(t, 0)
  <1>1. s \in Seq(Calls) /\ Len(s) \in {0, 1} /\ DOMAIN s \subseteq {1}
    <2>1. CASE s = <<>>
      BY <2>1
    <2>2. ASSUME NEW f \in Calls, s = <<f>> PROVE s \in Seq(Calls) /\ Len(s) = 1 /\ DOMAIN s = {1}
      BY <2>2
    <2> QED
      BY <2>1, <2>2
  <1> QED
    BY <1>1 DEF Kept, Types

-------------------------------------------------------------------------------
(* The invariant *)

LockedPc == {"locked", "store", "indexAgain", "callback", "nested", "leave"}

\* From here on no callback is counted: an entry is there, or one was lost.
Settled(k) == called[k] = Lost \/ cache[k] # Null

\* A call holds its lock between Enter and its end, and what it goes by still holds:
\* the entry it found is there or was lost, an entry it missed has not been added by
\* another call, the value it carries is no older than the data unless the update knows of it,
\* and until the name is settled there is one generation of its lock.
CallOK(f) ==
    /\ f.pc \in {"enter"} \cup LockedPc => f.lock # NoLock
    /\ f.held <=> f.pc \in LockedPc
    /\ f.pc \in {"indexAgain", "callback", "nested", "leave"} => f.op = "retrieve"
    /\ f.pc = "store" => f.op = "set"
    /\ f.op = "set" => /\ f.value \in 1..source[f.key]
                       /\ f.value < source[f.key] => f.key \in overlapped
    /\ f.pc \in {"index", "indexAgain"} => Settled(f.key)
    /\ f.pc = "store" /\ ~ f.seen => called[f.key] = Lost \/ cache[f.key] = Null
    /\ ~ Settled(f.key) /\ f.lock # NoLock => f.lock = miniLock[f.key]

Calm == \A t \in Thread : \A i \in DOMAIN stack[t] : CallOK(stack[t][i])

\* A call f that waits for g is in its callback, or gave its model to Set.
Inside(f, g) ==
    \/ f.pc = "nested" /\ g.op = "retrieve"
    \/ f.pc = "leave" /\ g.op = "set" /\ g.key = f.key

Shape == \A t \in Thread : \A i \in DOMAIN stack[t] :
    IF i < Len(stack[t]) THEN Inside(stack[t][i], stack[t][i + 1])
    ELSE stack[t][i].pc = "leave" => Settled(stack[t][i].key)

\* A lock object is held by one thread.
Exclusive == \A t, u \in Thread : \A i \in DOMAIN stack[t], j \in DOMAIN stack[u] :
    /\ stack[t][i].held /\ stack[u][j].held
    /\ stack[t][i].key = stack[u][j].key /\ stack[t][i].lock = stack[u][j].lock
    => t = u

Inv == Types /\ Calm /\ Shape /\ Exclusive

LEMMA CallsOf ==
    ASSUME Types, NEW u \in Thread, NEW i \in DOMAIN stack[u]
    PROVE  /\ stack[u] \in Seq(Calls) /\ Len(stack[u]) \in Nat
           /\ DOMAIN stack[u] = 1..Len(stack[u]) /\ stack[u][i] \in Calls
  <1>1. stack[u] \in Seq(Calls)
    BY DEF Types
  <1>2. Len(stack[u]) \in Nat /\ DOMAIN stack[u] = 1..Len(stack[u])
    BY <1>1, LenProperties
  <1> QED
    BY <1>1, <1>2, ElementOfSeq

LEMMA TopOK ==
    ASSUME Inv, NEW t \in Thread, ~ Idle(t)
    PROVE  CallOK(Top(t)) /\ Top(t) \in Calls /\ (Top(t).pc = "leave" => Settled(Top(t).key))
  BY TopIs DEF Inv, Calm, Shape

LEMMA HeldIsFree ==
    ASSUME Inv, NEW t \in Thread, ~ Idle(t), Top(t).held
    PROVE  Free(t, Top(t))
  BY TopIs DEF Inv, Exclusive, Free, Holds

\* What is common to every step: the other variables have their types, a name that is settled
\* stays so, and the calls a step of t does not touch go by what still holds.
Steady(t, m) ==
    /\ miniLock' \in [Key -> 0..MaxLocks] /\ cache' \in [Key -> Value]
    /\ source' \in [Key -> 1..MaxVersion] /\ called' \in [Key -> 0..Lost]
    /\ overlapped' \subseteq Key /\ thrown' \subseteq {"KeyNotFound", "DuplicateKey"}
    /\ \A k \in Key : Settled(k) => Settled(k)'
    /\ \A f \in Calls : (\E u \in Thread : \E i \in DOMAIN stack[u] :
                           f = stack[u][i] /\ (u # t \/ i <= m))
                       => CallOK(f)'

\* A step of t that leaves its first m calls and the other threads alone.
LEMMA StepInv ==
    ASSUME Inv, NEW t \in Thread, NEW m \in Nat, m <= Len(stack[t]),
           Steady(t, m), stack' \in [Thread -> Seq(Calls)], Kept(t, m), m <= Len(stack'[t]),
           \A f \in Calls : (\E i \in DOMAIN stack'[t] : i > m /\ f = stack'[t][i])
                             => CallOK(f)' /\ (f.held => Free(t, f)),
           \A i \in DOMAIN stack'[t] : i >= m /\ i < Len(stack'[t])
                             => Inside(stack'[t][i], stack'[t][i + 1]),
           \A f \in Calls : Len(stack'[t]) \in DOMAIN stack'[t] /\ f = stack'[t][Len(stack'[t])]
                             => (f.pc = "leave" => Settled(f.key)')
    PROVE  Inv'
  <1>1. ASSUME NEW u \in Thread
        PROVE  /\ Len(stack[u]) \in Nat /\ DOMAIN stack[u] = 1..Len(stack[u])
               /\ Len(stack'[u]) \in Nat /\ DOMAIN stack'[u] = 1..Len(stack'[u])
               /\ \A i \in DOMAIN stack'[u] : stack'[u][i] \in Calls
               /\ \A i \in DOMAIN stack[u] : stack[u][i] \in Calls
    <2>1. stack[u] \in Seq(Calls) /\ stack'[u] \in Seq(Calls)
      BY DEF Inv, Types
    <2> QED
      BY <2>1, LenProperties, ElementOfSeq
  <1>2. ASSUME NEW u \in Thread, NEW i \in DOMAIN stack'[u]
        PROVE  \/ u = t /\ i > m
               \/ i \in DOMAIN stack[u] /\ stack'[u][i] = stack[u][i] /\ (u # t \/ i <= m)
    BY <1>1, <1>2 DEF Kept
  <1>3. Types'
    BY DEF Types, Steady
  <1>4. Calm'
    <2>1. ASSUME NEW u \in Thread, NEW i \in DOMAIN stack'[u] PROVE CallOK(stack[u][i])'
      <3>1. PICK f \in Calls : f = stack'[u][i]
        BY <1>1, <2>1
      <3>2. CallOK(f)'
        <4>1. CASE u = t /\ i > m
          BY <2>1, <3>1, <4>1
        <4>2. CASE i \in DOMAIN stack[u] /\ stack'[u][i] = stack[u][i] /\ (u # t \/ i <= m)
          BY <3>1, <4>2 DEF Steady
        <4> QED
          BY <1>2, <2>1, <4>1, <4>2
      <3> QED
        BY <3>1, <3>2 DEF CallOK, Settled
    <2> QED
      BY <2>1 DEF Calm
  <1>5. Shape'
    <2>1. ASSUME NEW u \in Thread, NEW i \in DOMAIN stack'[u], i < Len(stack'[u])
          PROVE  Inside(stack'[u][i], stack'[u][i + 1])
      <3>1. CASE u = t /\ i >= m
        BY <2>1, <3>1
      <3>2. CASE u # t
        BY <2>1, <3>2 DEF Inv, Shape, Kept
      <3>3. CASE u = t /\ i < m
        <4>1. i \in DOMAIN stack[t] /\ i < Len(stack[t])
          BY <1>1, <1>2, <2>1, <3>3
        <4>2. stack'[u][i] = stack[u][i] /\ stack'[u][i + 1] = stack[u][i + 1]
          BY <1>1, <2>1, <3>3 DEF Kept
        <4> QED
          BY <3>3, <4>1, <4>2 DEF Inv, Shape
      <3> QED
        BY <1>1, <2>1, <3>1, <3>2, <3>3
    <2>2. ASSUME NEW u \in Thread, NEW i \in DOMAIN stack'[u], ~ (i < Len(stack'[u])),
                 stack'[u][i].pc = "leave"
          PROVE  Settled(stack[u][i].key)'
      <3>1. PICK f \in Calls : f = stack'[u][i]
        BY <1>1, <2>2
      <3>2. i = Len(stack'[u])
        BY <1>1, <2>2
      <3>3. Settled(f.key)'
        <4>1. CASE u = t
          BY <2>2, <3>1, <3>2, <4>1
        <4>2. CASE u # t
          <5>1. Settled(f.key)
            BY <2>2, <3>1, <4>2 DEF Inv, Shape, Kept
          <5>2. f.key \in Key
            BY <3>1 DEF Calls
          <5> QED
            BY <5>1, <5>2 DEF Steady
        <4> QED
          BY <4>1, <4>2
      <3> QED
        BY <3>1, <3>3 DEF Settled
    <2> QED
      BY <2>1, <2>2 DEF Shape
  <1>6. Exclusive'
    <2>1. ASSUME NEW i \in DOMAIN stack'[t], stack'[t][i].held,
                 NEW v \in Thread \ {t}, NEW j \in DOMAIN stack'[v], stack'[v][j].held,
                 stack'[t][i].key = stack'[v][j].key, stack'[t][i].lock = stack'[v][j].lock
          PROVE  FALSE
      <3>1. j \in DOMAIN stack[v] /\ stack'[v][j] = stack[v][j]
        BY <1>2, <2>1
      <3>2. CASE i > m
        <4>1. stack'[t][i] \in Calls /\ Free(t, stack'[t][i])
          BY <1>1, <2>1, <3>2
        <4> QED
          BY <2>1, <3>1, <4>1 DEF Free, Holds
      <3>3. CASE ~ (i > m)
        <4>1. i \in DOMAIN stack[t] /\ stack'[t][i] = stack[t][i]
          BY <1>2, <2>1, <3>3
        <4> QED
          BY <2>1, <3>1, <4>1 DEF Inv, Exclusive
      <3> QED
        BY <3>2, <3>3
    <2>2. ASSUME NEW u \in Thread \ {t}, NEW i \in DOMAIN stack'[u], stack'[u][i].held,
                 NEW v \in Thread \ {t}, NEW j \in DOMAIN stack'[v], stack'[v][j].held,
                 stack'[u][i].key = stack'[v][j].key, stack'[u][i].lock = stack'[v][j].lock
          PROVE  u = v
      <3>1. i \in DOMAIN stack[u] /\ stack'[u][i] = stack[u][i]
        BY <1>2, <2>2
      <3>2. j \in DOMAIN stack[v] /\ stack'[v][j] = stack[v][j]
        BY <1>2, <2>2
      <3> QED
        BY <2>2, <3>1, <3>2 DEF Inv, Exclusive
    <2>3. ASSUME NEW u \in Thread, NEW v \in Thread,
                 NEW i \in DOMAIN stack'[u], NEW j \in DOMAIN stack'[v],
                 stack'[u][i].held, stack'[v][j].held,
                 stack'[u][i].key = stack'[v][j].key, stack'[u][i].lock = stack'[v][j].lock
          PROVE  u = v
      <3>1. CASE u # t /\ v # t
        BY <2>2, <2>3, <3>1
      <3>2. CASE u = t /\ v # t
        BY <2>1, <2>3, <3>2
      <3>3. CASE u # t /\ v = t
        BY <2>1, <2>3, <3>3
      <3> QED
        BY <3>1, <3>2, <3>3
    <2> QED
      BY <2>3 DEF Exclusive
  <1> QED
    BY <1>3, <1>4, <1>5, <1>6 DEF Inv

\* The top of t becomes f, the same call further on.
LEMMA ReplaceInv ==
    ASSUME Inv, NEW t \in Thread, ~ Idle(t), NEW f \in Calls, SetTop(t, f),
           f.op = Top(t).op, f.key = Top(t).key, Steady(t, Len(stack[t]) - 1), CallOK(f)',
           f.pc = "leave" => Settled(f.key)',
           f.held => Free(t, f)
    PROVE  Inv'
  <1> DEFINE n == Len(stack[t])
             m == n - 1
  <1>1. /\ n \in Nat \ {0} /\ DOMAIN stack[t] = 1..n /\ Top(t) = stack[t][n]
        /\ stack' \in [Thread -> Seq(Calls)] /\ Len(stack'[t]) = n /\ DOMAIN stack'[t] = 1..n
        /\ Kept(t, m) /\ stack'[t][n] = f
    BY TopIs, SetTopIs DEF Inv
  <1>2. Steady(t, m)
    OBVIOUS
  <1>3. \A i \in DOMAIN stack'[t] : i >= m /\ i < n => Inside(stack'[t][i], stack'[t][i + 1])
    <2>1. ASSUME NEW i \in DOMAIN stack'[t], i >= m, i < n
          PROVE  Inside(stack'[t][i], stack'[t][i + 1])
      <3>1. i = m /\ i + 1 = n /\ i \in DOMAIN stack[t]
        BY <1>1, <2>1
      <3>2. Inside(stack[t][i], stack[t][i + 1])
        BY <1>1, <3>1, <2>1 DEF Inv, Shape
      <3>3. stack'[t][i] = stack[t][i] /\ stack'[t][i + 1] = f /\ stack[t][i + 1] = Top(t)
        BY <1>1, <2>1, <3>1 DEF Kept
      <3> QED
        BY <3>2, <3>3 DEF Inside
    <2> QED
      BY <2>1
  <1> HIDE DEF n
  <1>4. /\ m \in Nat /\ m <= Len(stack[t]) /\ m <= Len(stack'[t])
        /\ \A i \in DOMAIN stack'[t] : i > m => stack'[t][i] = f
        /\ stack'[t][Len(stack'[t])] = f
    BY <1>1 DEF n
  <1> HIDE DEF m
  <1>5. \A g \in Calls : (\E i \in DOMAIN stack'[t] : i > m /\ g = stack'[t][i])
                          => CallOK(g)' /\ (g.held => Free(t, g))
    BY <1>4
  <1>6. \A g \in Calls : Len(stack'[t]) \in DOMAIN stack'[t] /\ g = stack'[t][Len(stack'[t])]
                          => (g.pc = "leave" => Settled(g.key)')
    BY <1>4
  <1>7. \A i \in DOMAIN stack'[t] : i >= m /\ i < Len(stack'[t])
                          => Inside(stack'[t][i], stack'[t][i + 1])
    BY <1>1, <1>3
  <1> QED
    BY <1>1, <1>2, <1>4, <1>5, <1>6, <1>7, StepInv

\* The top of t calls f: another Retrieve of its callback, or the Set of its model.
LEMMA CallInv ==
    ASSUME Inv, NEW t \in Thread, ~ Idle(t), NEW f \in Calls, NEW g \in Calls, NEW pc,
           g = [Top(t) EXCEPT !.pc = pc], CallAndGoTo(t, pc, f),
           Inside(g, f), Top(t).op = "retrieve",
           Top(t).held, ~ f.held, f.pc # "leave",
           Steady(t, Len(stack[t]) - 1), CallOK(f)', CallOK(g)'
    PROVE  Inv'
  <1> DEFINE n == Len(stack[t])
             m == n - 1
  <1>1. /\ n \in Nat \ {0} /\ DOMAIN stack[t] = 1..n /\ Top(t) = stack[t][n] /\ Top(t) \in Calls
        /\ stack' \in [Thread -> Seq(Calls)] /\ Len(stack'[t]) = n + 1
        /\ DOMAIN stack'[t] = 1..(n + 1)
        /\ Kept(t, m) /\ stack'[t][n] = g /\ stack'[t][n + 1] = f
    BY TopIs, CallAndGoToIs DEF Inv
  <1>2. Steady(t, m) /\ g.op = Top(t).op /\ g.key = Top(t).key /\ g.lock = Top(t).lock
    BY <1>1 DEF Calls
  <1>3. Free(t, g)
    BY <1>2, HeldIsFree DEF Free
  <1>4. ASSUME NEW i \in DOMAIN stack'[t], i >= m, i < n + 1
        PROVE  Inside(stack'[t][i], stack'[t][i + 1])
    <2>1. CASE i = m
      <3>1. i + 1 = n /\ i \in DOMAIN stack[t]
        BY <1>1, <1>4, <2>1
      <3>2. Inside(stack[t][i], stack[t][i + 1])
        BY <1>1, <3>1, <1>4 DEF Inv, Shape
      <3>3. stack'[t][i + 1] = g /\ stack[t][i + 1] = Top(t)
        BY <1>1, <3>1
      <3>4. i \in 1..m
        BY <1>1, <2>1, <3>1
      <3>5. stack'[t][i] = stack[t][i]
        BY <1>1, <3>4 DEF Kept
      <3> QED
        BY <1>2, <3>2, <3>3, <3>5 DEF Inside
    <2>2. CASE i = n
      BY <1>1, <2>2
    <2> QED
      BY <1>1, <1>4, <2>1, <2>2
  <1> HIDE DEF n
  <1>5. /\ m \in Nat /\ m <= Len(stack[t]) /\ m <= Len(stack'[t])
        /\ \A i \in DOMAIN stack'[t] : i > m => stack'[t][i] \in {f, g}
        /\ stack'[t][Len(stack'[t])] = f
    BY <1>1 DEF n
  <1> HIDE DEF m
  <1>6. \A h \in Calls : (\E i \in DOMAIN stack'[t] : i > m /\ h = stack'[t][i])
                          => CallOK(h)' /\ (h.held => Free(t, h))
    BY <1>3, <1>5
  <1>7. \A h \in Calls : Len(stack'[t]) \in DOMAIN stack'[t] /\ h = stack'[t][Len(stack'[t])]
                          => (h.pc = "leave" => Settled(h.key)')
    BY <1>5
  <1>8. \A i \in DOMAIN stack'[t] : i >= m /\ i < Len(stack'[t])
                          => Inside(stack'[t][i], stack'[t][i + 1])
    BY <1>1, <1>4
  <1> QED
    BY <1>1, <1>2, <1>5, <1>6, <1>7, <1>8, StepInv

\* The top of t returns.
LEMMA ReturnInv ==
    ASSUME Inv, NEW t \in Thread, ~ Idle(t), NEW f \in Calls, f = Top(t), Return(t),
           Steady(t, Len(stack[t]) - 1), f.op = "set" => Settled(f.key)'
    PROVE  Inv'
  <1> DEFINE n == Len(stack[t])
             m == n - 1
  <1>1. /\ n \in Nat \ {0} /\ DOMAIN stack[t] = 1..n /\ Top(t) = stack[t][n]
        /\ stack' \in [Thread -> Seq(Calls)] /\ Len(stack'[t]) = m
        /\ DOMAIN stack'[t] = 1..m /\ Kept(t, m)
    BY TopIs, ReturnIs DEF Inv
  <1>2. Steady(t, m)
    OBVIOUS
  <1>3. ASSUME NEW g \in Calls, m \in DOMAIN stack'[t], g = stack'[t][m], g.pc = "leave"
        PROVE  Settled(g.key)'
    <2>1. m \in DOMAIN stack[t] /\ m < n /\ m + 1 = n /\ stack'[t][m] = stack[t][m]
      BY <1>1, <1>3 DEF Kept
    <2>2. Inside(stack[t][m], stack[t][m + 1])
      BY <2>1 DEF Inv, Shape
    <2>3. f.op = "set" /\ f.key = g.key
      BY <1>1, <1>3, <2>1, <2>2 DEF Inside
    <2>4. Settled(f.key)'
      BY <2>3
    <2> QED
      BY <2>3, <2>4
  <1> HIDE DEF n
  <1>4. m \in Nat /\ m <= Len(stack[t]) /\ m <= Len(stack'[t])
    BY <1>1 DEF n
  <1> HIDE DEF m
  <1>5. \A g \in Calls : (\E i \in DOMAIN stack'[t] : i > m /\ g = stack'[t][i])
                          => CallOK(g)' /\ (g.held => Free(t, g))
    BY <1>1, <1>4
  <1>6. \A g \in Calls : Len(stack'[t]) \in DOMAIN stack'[t] /\ g = stack'[t][Len(stack'[t])]
                          => (g.pc = "leave" => Settled(g.key)')
    BY <1>1, <1>3
  <1>7. \A i \in DOMAIN stack'[t] : i >= m /\ i < Len(stack'[t])
                          => Inside(stack'[t][i], stack'[t][i + 1])
    BY <1>1, <1>4
  <1> QED
    BY <1>1, <1>2, <1>4, <1>5, <1>6, <1>7, StepInv

\* A thread begins, or an exception ends all its calls.
LEMMA RestartInv ==
    ASSUME Inv, NEW t \in Thread, NEW s,
           s = <<>> \/ \E f \in Calls : s = <<f>> /\ CallOK(f)' /\ ~ f.held /\ f.pc # "leave",
           stack' = [stack EXCEPT ![t] = s], Steady(t, 0)
    PROVE  Inv'
  <1>1. /\ stack' \in [Thread -> Seq(Calls)] /\ stack'[t] = s
        /\ DOMAIN stack'[t] \subseteq {1} /\ Len(stack'[t]) \in {0, 1} /\ Kept(t, 0)
    BY RestartIs DEF Inv
  <1>2. ASSUME NEW i \in DOMAIN stack'[t]
        PROVE  \E f \in Calls : /\ stack'[t][i] = f
                                /\ CallOK(f)' /\ ~ f.held /\ f.pc # "leave"
    <2>1. i = 1 /\ s # <<>>
      BY <1>1, <1>2
    <2>2. PICK f \in Calls : s = <<f>> /\ CallOK(f)' /\ ~ f.held /\ f.pc # "leave"
      BY <2>1
    <2>3. stack'[t][i] = f
      BY <1>1, <2>1, <2>2
    <2> QED
      BY <2>2, <2>3
  <1>3. \A f \in Calls : (\E i \in DOMAIN stack'[t] : i > 0 /\ f = stack'[t][i])
                          => CallOK(f)' /\ (f.held => Free(t, f))
    <2>1. ASSUME NEW f \in Calls, NEW i \in DOMAIN stack'[t], f = stack'[t][i]
          PROVE  CallOK(f)' /\ ~ f.held
      <3>1. PICK g \in Calls : stack'[t][i] = g /\ CallOK(g)' /\ ~ g.held
        BY <1>2, <2>1
      <3>2. f = g
        BY <2>1, <3>1
      <3> QED
        BY <3>1, <3>2
    <2> QED
      BY <2>1
  <1>4. \A f \in Calls : Len(stack'[t]) \in DOMAIN stack'[t] /\ f = stack'[t][Len(stack'[t])]
                          => (f.pc = "leave" => Settled(f.key)')
    BY <1>2
  <1>5. \A i \in DOMAIN stack'[t] : i >= 0 /\ i < Len(stack'[t])
                          => Inside(stack'[t][i], stack'[t][i + 1])
    BY <1>1
  <1>6. 0 <= Len(stack[t]) /\ 0 <= Len(stack'[t])
    BY <1>1, LenProperties DEF Inv, Types
  <1> QED
    BY <1>1, <1>3, <1>4, <1>5, <1>6, StepInv

-------------------------------------------------------------------------------
(* The actions *)

\* Names are lost, and entries only with them.
Loses ==
    /\ \A k \in Key : called'[k] = Lost \/ (called[k] # Lost /\ cache'[k] = cache[k])
    /\ called' \in [Key -> 0..Lost] /\ cache' \in [Key -> Value]
    /\ thrown' \subseteq {"KeyNotFound", "DuplicateKey"}
    /\ UNCHANGED <<miniLock, source, overlapped>>

LEMMA LosesSteady ==
    ASSUME Inv, Loses, NEW t, NEW m
    PROVE  Steady(t, m)
  <1>1. ASSUME NEW f \in Calls, CallOK(f) PROVE CallOK(f)'
    <2>1. f.key \in Key
      BY DEF Calls
    <2> QED
      BY <1>1, <2>1 DEF CallOK, Settled, Loses, Inv, Types
  <1>2. \A f \in Calls : (\E u \in Thread : \E i \in DOMAIN stack[u] :
                           f = stack[u][i] /\ (u # t \/ i <= m))
                       => CallOK(f)'
    BY <1>1 DEF Inv, Calm
  <1> QED
    BY <1>2 DEF Steady, Loses, Settled, Inv, Types

LEMMA NothingLost ==
    ASSUME Inv, UNCHANGED <<miniLock, cache, source, called, overlapped, thrown>>
    PROVE  Loses
  BY DEF Inv, Types, Loses

LEMMA BeginInv ==
    ASSUME Inv, NEW t \in Thread, NEW op \in Operation, NEW k \in Key, Begin(t, op, k)
    PROVE  Inv'
  <1> DEFINE v == IF op = "set" THEN source[k] ELSE Null
  <1>1. PICK f : f = Call(op, k, v)
    OBVIOUS
  <1>2. /\ f \in Calls /\ f.op = op /\ f.key = k /\ f.value = v /\ ~ f.held /\ f.lock = NoLock
        /\ f.pc \in {"lock", "begin"}
    BY <1>1, CachingAssumption DEF Call, Calls, Value, Null, NoLock, Inv, Types
  <1>3. CallOK(f)'
    BY <1>2 DEF CallOK, LockedPc, NoLock, Begin, Inv, Types
  <1>4. Steady(t, 0)
    BY NothingLost, LosesSteady DEF Begin
  <1> QED
    BY <1>1, <1>2, <1>3, <1>4, RestartInv DEF Begin

LEMMA GetOrAddLockInv ==
    ASSUME Inv, NEW t \in Thread, GetOrAddLock(t)
    PROVE  Inv'
  <1> DEFINE k == Top(t).key
             l == IF miniLock[k] = NoLock THEN FreshLock(k) ELSE miniLock[k]
  <1>1. ~ Idle(t)
    BY DEF GetOrAddLock, At
  <1>2. PICK f : f = [Top(t) EXCEPT !.lock = l, !.pc = "enter"]
    OBVIOUS
  <1>3. k \in Key /\ Top(t) \in Calls /\ ~ Top(t).held /\ CallOK(Top(t))
    BY <1>1, TopOK DEF Calls, CallOK, LockedPc, GetOrAddLock, At
  <1>4. l \in 1..MaxLocks /\ l \in 0..MaxLocks
    <2>1. miniLock[k] = NoLock => FreshLock(k) \in FreeLocks(k)
      BY DEF FreshLock, GetOrAddLock
    <2> QED
      BY <1>3, <2>1, CachingAssumption DEF FreeLocks, NoLock, Inv, Types
  <1>5. miniLock' = [miniLock EXCEPT ![k] = l] /\ SetTop(t, f)
    BY <1>2 DEF GetOrAddLock
  <1> HIDE DEF l
  <1>6. /\ f \in Calls /\ f.op = Top(t).op /\ f.key = k /\ f.lock = l /\ f.pc = "enter"
        /\ ~ f.held /\ f.value = Top(t).value /\ f.seen = Top(t).seen
    BY <1>2, <1>3, <1>4 DEF Calls
  <1>7. CallOK(f)'
    <2>1. miniLock'[k] = l /\ l # NoLock
      BY <1>3, <1>4, <1>5 DEF NoLock, Inv, Types
    <2> QED
      BY <1>3, <1>6, <2>1 DEF CallOK, LockedPc, Settled, GetOrAddLock
  <1>8. Steady(t, Len(stack[t]) - 1)
    <2>1. ASSUME NEW g \in Calls, CallOK(g) PROVE CallOK(g)'
      <3>1. g.key \in Key /\ g.lock \in 0..MaxLocks
        BY DEF Calls
      <3>2. miniLock[k] # NoLock => l = miniLock[k]
        BY DEF l
      <3>3. ~ Settled(g.key) /\ g.lock # NoLock => g.lock = miniLock'[g.key]
        BY <1>3, <1>5, <2>1, <3>1, <3>2 DEF CallOK, Inv, Types
      <3> QED
        BY <2>1, <3>3 DEF CallOK, Settled, GetOrAddLock
    <2>2. \A g \in Calls : (\E u \in Thread : \E i \in DOMAIN stack[u] : g = stack[u][i])
                           => CallOK(g)'
      BY <2>1 DEF Inv, Calm
    <2>3. miniLock' \in [Key -> 0..MaxLocks]
      BY <1>4, <1>5 DEF Inv, Types
    <2> QED
      BY <2>2, <2>3 DEF Steady, GetOrAddLock, Settled, Inv, Types
  <1> QED
    BY <1>1, <1>5, <1>6, <1>7, <1>8, ReplaceInv

LEMMA EnterInv ==
    ASSUME Inv, NEW t \in Thread, Acquire(t)
    PROVE  Inv'
  <1>1. ~ Idle(t) /\ Top(t).pc = "enter" /\ Free(t, Top(t))
    BY DEF Acquire, Enter, At
  <1>2. PICK f : f = [Top(t) EXCEPT !.held = TRUE, !.pc = "locked"]
    OBVIOUS
  <1>3. Top(t) \in Calls /\ CallOK(Top(t))
    BY <1>1, TopOK
  <1>4. /\ f \in Calls /\ f.op = Top(t).op /\ f.key = Top(t).key /\ f.lock = Top(t).lock
        /\ f.pc = "locked" /\ f.held /\ f.value = Top(t).value /\ f.seen = Top(t).seen
    BY <1>2, <1>3 DEF Calls
  <1>5. SetTop(t, f) /\ UNCHANGED <<miniLock, cache, source, called, overlapped, thrown>>
    BY <1>2 DEF Acquire, Enter
  <1>6. CallOK(f)'
    BY <1>1, <1>3, <1>4, <1>5 DEF CallOK, LockedPc, Settled
  <1>7. Steady(t, Len(stack[t]) - 1)
    BY <1>5, NothingLost, LosesSteady
  <1>8. Free(t, f)
    BY <1>1, <1>4 DEF Free
  <1> QED
    BY <1>1, <1>4, <1>5, <1>6, <1>7, <1>8, ReplaceInv

LEMMA GetContainsInv ==
    ASSUME Inv, NEW t \in Thread, GetContains(t)
    PROVE  Inv'
  <1>1. /\ ~ Idle(t) /\ Top(t).op = "get" /\ Top(t).pc = "begin"
        /\ UNCHANGED <<miniLock, cache, source, called, overlapped, thrown>>
    BY DEF GetContains, At
  <1>2. Top(t) \in Calls /\ CallOK(Top(t))
    BY <1>1, TopOK
  <1>3. Steady(t, Len(stack[t]) - 1)
    BY <1>1, NothingLost, LosesSteady
  <1>4. CASE Missing(t)
    BY <1>1, <1>2, <1>3, <1>4, ReturnInv DEF GetContains
  <1>5. CASE ~ Missing(t)
    <2>1. PICK f : f = [Top(t) EXCEPT !.pc = "index"]
      OBVIOUS
    <2>2. /\ f \in Calls /\ f.op = "get" /\ f.key = Top(t).key /\ f.lock = Top(t).lock
          /\ f.pc = "index" /\ f.held = Top(t).held /\ f.value = Top(t).value
      BY <1>1, <1>2, <2>1 DEF Calls
    <2>3. SetTop(t, f)
      BY <1>5, <2>1 DEF GetContains, GoTo
    <2>4. CallOK(f)' /\ ~ f.held
      BY <1>1, <1>2, <1>5, <2>2 DEF CallOK, LockedPc, Settled, Missing
    <2> QED
      BY <1>1, <1>3, <2>2, <2>3, <2>4, ReplaceInv
  <1> QED
    BY <1>4, <1>5

LEMMA RetrieveContainsInv ==
    ASSUME Inv, NEW t \in Thread, RetrieveContains(t)
    PROVE  Inv'
  <1> DEFINE pc == IF Missing(t) THEN "lock" ELSE "index"
  <1>1. /\ ~ Idle(t) /\ Top(t).op = "retrieve" /\ Top(t).pc = "begin"
        /\ UNCHANGED <<miniLock, cache, source, called, overlapped, thrown>>
    BY DEF RetrieveContains, At
  <1>2. Top(t) \in Calls /\ CallOK(Top(t))
    BY <1>1, TopOK
  <1>3. Steady(t, Len(stack[t]) - 1)
    BY <1>1, NothingLost, LosesSteady
  <1>4. PICK f : f = [Top(t) EXCEPT !.pc = pc]
    OBVIOUS
  <1>5. /\ f \in Calls /\ f.op = "retrieve" /\ f.key = Top(t).key /\ f.lock = Top(t).lock
        /\ f.pc = pc /\ f.held = Top(t).held /\ f.value = Top(t).value
    BY <1>1, <1>2, <1>4 DEF Calls
  <1>6. SetTop(t, f)
    BY <1>4 DEF RetrieveContains, GoTo
  <1>7. CallOK(f)' /\ ~ f.held
    BY <1>1, <1>2, <1>5 DEF CallOK, LockedPc, Settled, Missing
  <1> QED
    BY <1>1, <1>3, <1>5, <1>6, <1>7, ReplaceInv

LEMMA CountedIs ==
    ASSUME Types, NEW k \in Key
    PROVE  /\ Counted(k) \in [Key -> 0..Lost]
           /\ \A j \in Key : Counted(k)[j] = Lost <=> called[j] = Lost
           /\ \A j \in Key \ {k} : Counted(k)[j] = called[j]
           /\ called[k] = 0 => Counted(k)[k] = 1
  BY DEF Types, Counted, Lost

LEMMA RetrieveContainsAgainInv ==
    ASSUME Inv, NEW t \in Thread, RetrieveContainsAgain(t)
    PROVE  Inv'
  <1> DEFINE pc == IF Missing(t) THEN "callback" ELSE "indexAgain"
  <1>1. /\ ~ Idle(t) /\ Top(t).op = "retrieve" /\ Top(t).pc = "locked"
        /\ UNCHANGED <<miniLock, cache, source, overlapped, thrown>>
    BY DEF RetrieveContainsAgain, At
  <1>2. Top(t) \in Calls /\ CallOK(Top(t)) /\ Top(t).key \in Key
    BY <1>1, TopOK DEF Calls
  <1>3. \A k \in Key : called'[k] = Lost <=> called[k] = Lost
    BY <1>2, CountedIs DEF RetrieveContainsAgain, Inv
  <1>4. called' \in [Key -> 0..Lost]
    BY <1>2, CountedIs DEF RetrieveContainsAgain, Inv, Types
  <1>5. Steady(t, Len(stack[t]) - 1)
    BY <1>1, <1>3, <1>4, LosesSteady DEF Loses, Inv, Types
  <1>6. PICK f : f = [Top(t) EXCEPT !.pc = pc]
    OBVIOUS
  <1>7. /\ f \in Calls /\ f.op = "retrieve" /\ f.key = Top(t).key /\ f.lock = Top(t).lock
        /\ f.pc = pc /\ f.held = Top(t).held /\ f.value = Top(t).value
    BY <1>1, <1>2, <1>6 DEF Calls
  <1>8. SetTop(t, f)
    BY <1>6 DEF RetrieveContainsAgain, GoTo
  <1>9. CallOK(f)'
    BY <1>1, <1>2, <1>3, <1>7 DEF CallOK, LockedPc, Settled, Missing
  <1>10. Free(t, f)
    BY <1>1, <1>2, <1>7, HeldIsFree DEF CallOK, LockedPc, Free
  <1> QED
    BY <1>1, <1>5, <1>7, <1>8, <1>9, <1>10, ReplaceInv

\* An exception loses the names whose callbacks it ends.
LEMMA ThrowInv ==
    ASSUME Inv, NEW t \in Thread, ~ Idle(t), NEW what, what \subseteq {"KeyNotFound", "DuplicateKey"},
           Throw(t, what), UNCHANGED <<miniLock, cache, source, overlapped>>
    PROVE  Inv'
  <1>1. Loses
    <2>1. called' \in [Key -> 0..Lost] /\ \A k \in Key : called'[k] \in {Lost, called[k]}
      BY DEF Throw, Inv, Types, Lost
    <2> QED
      BY <2>1 DEF Loses, Throw, Inv, Types
  <1> QED
    BY <1>1, LosesSteady, RestartInv DEF Throw

LEMMA IndexInv ==
    ASSUME Inv, NEW t \in Thread, Index(t)
    PROVE  Inv'
  <1>1. ~ Idle(t) /\ Top(t).pc \in {"index", "indexAgain"} /\ Top(t).op \in {"get", "retrieve"}
    BY DEF Index, At
  <1>2. Top(t) \in Calls /\ CallOK(Top(t))
    BY <1>1, TopOK
  <1>3. CASE Missing(t)
    BY <1>1, <1>3, ThrowInv DEF Index
  <1>4. CASE ~ Missing(t)
    <2>1. UNCHANGED <<miniLock, cache, source, called, overlapped, thrown>>
      BY <1>4 DEF Index
    <2>2. Steady(t, Len(stack[t]) - 1)
      BY <2>1, NothingLost, LosesSteady
    <2>3. CASE Top(t).pc = "index"
      BY <1>1, <1>2, <1>4, <2>2, <2>3, ReturnInv DEF Index
    <2>4. CASE Top(t).pc # "index"
      <3>1. PICK f : f = [Top(t) EXCEPT !.pc = "leave"]
        OBVIOUS
      <3>2. /\ f \in Calls /\ f.op = Top(t).op /\ f.key = Top(t).key /\ f.lock = Top(t).lock
            /\ f.pc = "leave" /\ f.held = Top(t).held /\ f.value = Top(t).value
        BY <1>2, <3>1 DEF Calls
      <3>3. SetTop(t, f)
        BY <1>4, <2>4, <3>1 DEF Index, GoTo
      <3>4. CallOK(f)' /\ Settled(f.key)'
        BY <1>1, <1>2, <1>4, <2>1, <2>4, <3>2 DEF CallOK, LockedPc, Settled, Missing
      <3>5. Free(t, f)
        BY <1>1, <1>2, <2>4, <3>2, HeldIsFree DEF CallOK, LockedPc, Free
      <3> QED
        BY <1>1, <2>2, <3>2, <3>3, <3>4, <3>5, ReplaceInv
    <2> QED
      BY <2>3, <2>4
  <1> QED
    BY <1>3, <1>4

LEMMA SetContainsInv ==
    ASSUME Inv, NEW t \in Thread, SetContains(t)
    PROVE  Inv'
  <1>1. /\ ~ Idle(t) /\ Top(t).op = "set" /\ Top(t).pc = "locked"
        /\ UNCHANGED <<miniLock, cache, source, called, overlapped, thrown>>
    BY DEF SetContains, At
  <1>2. Top(t) \in Calls /\ CallOK(Top(t)) /\ (~ Missing(t)) \in BOOLEAN
    BY <1>1, TopOK DEF Missing
  <1>3. Steady(t, Len(stack[t]) - 1)
    BY <1>1, NothingLost, LosesSteady
  <1>4. PICK f : f = [Top(t) EXCEPT !.seen = ~ Missing(t), !.pc = "store"]
    OBVIOUS
  <1>5. /\ f \in Calls /\ f.op = "set" /\ f.key = Top(t).key /\ f.lock = Top(t).lock
        /\ f.pc = "store" /\ f.held = Top(t).held /\ f.value = Top(t).value
        /\ f.seen <=> ~ Missing(t)
    BY <1>1, <1>2, <1>4 DEF Calls
  <1>6. SetTop(t, f)
    BY <1>4 DEF SetContains
  <1>7. CallOK(f)'
    BY <1>1, <1>2, <1>5 DEF CallOK, LockedPc, Settled, Missing
  <1>8. Free(t, f)
    BY <1>1, <1>2, <1>5, HeldIsFree DEF CallOK, LockedPc, Free
  <1> QED
    BY <1>1, <1>3, <1>5, <1>6, <1>7, <1>8, ReplaceInv

\* Until a name is settled one call at a time is between the test and the store of its Set.
LEMMA OneStores ==
    ASSUME Inv, NEW t \in Thread, At(t, "set", "store"), ~ Settled(Top(t).key),
           NEW u \in Thread, NEW i \in DOMAIN stack[u],
           stack[u][i].pc = "store", stack[u][i].key = Top(t).key
    PROVE  u = t /\ i = Len(stack[t])
  <1>1. /\ ~ Idle(t) /\ Top(t).pc = "store"
        /\ CallOK(Top(t)) /\ Top(t).key \in Key
        /\ Len(stack[t]) \in DOMAIN stack[t] /\ Top(t) = stack[t][Len(stack[t])]
    BY TopOK, TopIs DEF At, Calls, Inv
  <1>2. CallOK(stack[u][i])
    BY DEF Inv, Calm
  <1>3. Top(t).held /\ stack[u][i].held /\ Top(t).lock = stack[u][i].lock
    BY <1>1, <1>2 DEF CallOK, LockedPc
  <1>4. u = t
    BY <1>1, <1>3 DEF Inv, Exclusive
  <1>5. ~ (i < Len(stack[t]))
    BY <1>4 DEF Inv, Shape, Inside
  <1> QED
    BY <1>4, <1>5, CallsOf DEF Inv

LEMMA SetStoreInv ==
    ASSUME Inv, NEW t \in Thread, SetStore(t)
    PROVE  Inv'
  <1> DEFINE k == Top(t).key
  <1>1. ~ Idle(t) /\ Top(t).op = "set" /\ Top(t).pc = "store" /\ At(t, "set", "store")
    BY DEF SetStore, At
  <1>2. Top(t) \in Calls /\ CallOK(Top(t)) /\ k \in Key /\ Top(t).value \in Value
    BY <1>1, TopOK DEF Calls
  <1>3. CASE Missing(t) \/ Top(t).seen
    <2>1. /\ cache' = [cache EXCEPT ![k] = Top(t).value] /\ Return(t)
          /\ UNCHANGED <<miniLock, source, called, overlapped, thrown>>
      BY <1>3 DEF SetStore
    <2>2. cache' \in [Key -> Value] /\ cache'[k] # Null
      BY <1>1, <1>2, <2>1 DEF CallOK, Null, Inv, Types
    <2>3. ASSUME NEW f \in Calls, NEW u \in Thread, NEW i \in DOMAIN stack[u], f = stack[u][i],
                 u # t \/ i <= Len(stack[t]) - 1
          PROVE  CallOK(f)'
      <3>1. CallOK(f) /\ f.key \in Key
        BY <2>3 DEF Inv, Calm, Calls
      <3>2. \A j \in Key : j # k => cache'[j] = cache[j]
        BY <2>1 DEF Inv, Types
      <3>3. ASSUME f.key = k, f.pc = "store", ~ f.seen PROVE called'[k] = Lost
        <4>1. CASE Settled(k)
          BY <2>1, <3>1, <3>3, <4>1 DEF CallOK, Settled
        <4>2. CASE ~ Settled(k)
          <5>1. u = t /\ i = Len(stack[t])
            BY <1>1, <2>3, <3>3, <4>2, OneStores
          <5>2. Len(stack[t]) \in Nat
            BY <1>1, TopIs DEF Inv
          <5> QED
            BY <2>3, <5>1, <5>2
        <4> QED
          BY <4>1, <4>2
      <3>4. CASE f.key = k
        BY <2>1, <2>2, <3>1, <3>3, <3>4 DEF CallOK, Settled
      <3>5. CASE f.key # k
        BY <2>1, <3>1, <3>2, <3>5 DEF CallOK, Settled
      <3> QED
        BY <3>4, <3>5
    <2>4. Steady(t, Len(stack[t]) - 1)
      BY <2>1, <2>2, <2>3 DEF Steady, Settled, Inv, Types
    <2>5. PICK f \in Calls : f = Top(t)
      BY <1>2
    <2>6. Settled(f.key)'
      BY <2>2, <2>5 DEF Settled
    <2> QED
      BY <1>1, <2>1, <2>4, <2>5, <2>6, ReturnInv
  <1>4. CASE ~ (Missing(t) \/ Top(t).seen)
    BY <1>1, <1>4, ThrowInv DEF SetStore
  <1> QED
    BY <1>3, <1>4

LEMMA DeleteInv ==
    ASSUME Inv, NEW t \in Thread, Delete(t) \/ DeleteAll(t)
    PROVE  Inv'
  <1>1. ~ Idle(t) /\ Top(t).op \in {"delete", "deleteAll"} /\ Return(t)
    BY DEF Delete, DeleteAll, At
  <1>2. Top(t) \in Calls /\ Top(t).key \in Key
    BY <1>1, TopOK DEF Calls
  <1>3. Loses
    <2>1. Null \in Value /\ Lost \in 0..Lost
      BY CachingAssumption DEF Null, Value, Lost
    <2>2. CASE Delete(t)
      BY <1>2, <2>1, <2>2 DEF Loses, Delete, Inv, Types
    <2>3. CASE DeleteAll(t)
      BY <2>1, <2>3 DEF Loses, DeleteAll, Inv, Types
    <2> QED
      BY <2>2, <2>3
  <1>4. Steady(t, Len(stack[t]) - 1)
    BY <1>3, LosesSteady
  <1> QED
    BY <1>1, <1>2, <1>4, ReturnInv

LEMMA UpdateSourceInv ==
    ASSUME Inv, NEW t \in Thread, UpdateSource(t)
    PROVE  Inv'
  <1> DEFINE k == Top(t).key
  <1>1. /\ ~ Idle(t) /\ UNCHANGED <<miniLock, cache, called, thrown>>
        /\ source' = [source EXCEPT ![k] = IF @ < MaxVersion THEN @ + 1 ELSE @]
        /\ overlapped' = IF Storing(k) THEN overlapped \cup {k} ELSE overlapped
        /\ stack' = [stack EXCEPT ![t] = <<Call("delete", k, Null)>>]
    BY DEF UpdateSource, At
  <1>2. k \in Key
    BY <1>1, TopOK DEF Calls
  <1>3. PICK f : f = Call("delete", k, Null)
    OBVIOUS
  <1>4. /\ f \in Calls /\ f.op = "delete" /\ f.pc = "begin" /\ ~ f.held /\ f.lock = NoLock
    BY <1>2, <1>3, CachingAssumption DEF Call, Calls, Value, Null, NoLock
  <1>5. CallOK(f)'
    BY <1>4 DEF CallOK, LockedPc
  <1>6. /\ source' \in [Key -> 1..MaxVersion] /\ source[k] <= source'[k]
        /\ \A j \in Key \ {k} : source'[j] = source[j]
    BY <1>1, <1>2, CachingAssumption DEF Inv, Types
  <1>7. ASSUME NEW g \in Calls, NEW u \in Thread, NEW i \in DOMAIN stack[u], g = stack[u][i]
        PROVE  CallOK(g)'
    <2>1. CallOK(g) /\ g.key \in Key /\ g.value \in Value
      BY <1>7 DEF Inv, Calm, Calls
    <2>2. CASE g.op = "set"
      <3>1. g.value \in 1..source'[g.key]
        <4>1. g.value \in 1..source[g.key] /\ source[g.key] \in Nat /\ source'[g.key] \in Nat
          BY <1>6, <2>1, <2>2 DEF CallOK, Inv, Types
        <4>2. source[g.key] <= source'[g.key]
          BY <1>6, <2>1, <4>1
        <4> QED
          BY <4>1, <4>2
      <3>2. g.key = k => k \in overlapped'
        BY <1>1, <1>7, <2>2 DEF Storing
      <3>3. g.value < source'[g.key] => g.key \in overlapped'
        BY <1>1, <1>6, <2>1, <2>2, <3>2 DEF CallOK
      <3> QED
        BY <1>1, <2>1, <3>1, <3>3 DEF CallOK, Settled
    <2>3. CASE g.op # "set"
      BY <1>1, <2>1, <2>3 DEF CallOK, Settled
    <2> QED
      BY <2>2, <2>3
  <1>8. Steady(t, 0)
    BY <1>1, <1>2, <1>6, <1>7 DEF Steady, Settled, Inv, Types
  <1> QED
    BY <1>1, <1>3, <1>4, <1>5, <1>8, RestartInv

LEMMA InCallbackIs ==
    ASSUME Inv, NEW t \in Thread, InCallback(t)
    PROVE  /\ ~ Idle(t) /\ Top(t).op = "retrieve" /\ Top(t).pc \in {"callback", "nested"}
           /\ Top(t) \in Calls /\ Top(t).key \in Key /\ CallOK(Top(t))
           /\ Top(t).held /\ Top(t).lock # NoLock
  <1>1. ~ Idle(t) /\ Top(t).op = "retrieve" /\ Top(t).pc \in {"callback", "nested"}
    BY DEF InCallback, At
  <1> QED
    BY <1>1, TopOK DEF CallOK, LockedPc, Calls

LEMMA CallbackCallsInv ==
    ASSUME Inv, NEW t \in Thread, InCallback(t), NEW pc \in {"nested", "leave"}, NEW f \in Calls,
           CallAndGoTo(t, pc, f), UNCHANGED <<miniLock, cache, source, called, overlapped, thrown>>,
           CallOK(f)', ~ f.held, f.pc # "leave",
           IF pc = "nested" THEN f.op = "retrieve" ELSE f.op = "set" /\ f.key = Top(t).key
    PROVE  Inv'
  <1>1. PICK g : g = [Top(t) EXCEPT !.pc = pc]
    OBVIOUS
  <1>2. /\ g \in Calls /\ g.op = "retrieve" /\ g.key = Top(t).key /\ g.lock = Top(t).lock
        /\ g.pc = pc /\ g.held = Top(t).held
    BY <1>1, InCallbackIs DEF Calls
  <1>3. CallOK(g)'
    BY <1>2, InCallbackIs DEF CallOK, LockedPc, Settled
  <1>4. Inside(g, f)
    BY <1>2 DEF Inside
  <1>5. Steady(t, Len(stack[t]) - 1)
    BY NothingLost, LosesSteady
  <1> QED
    BY <1>1, <1>2, <1>3, <1>4, <1>5, InCallbackIs, CallInv

LEMMA CallbackInv ==
    ASSUME Inv, NEW t \in Thread,
           \/ \E j \in Key : CallbackRetrieves(t, j)
           \/ CallbackReturnsNull(t) \/ CallbackReturns(t) \/ CallbackThrows(t)
    PROVE  Inv'
  <1>1. ASSUME NEW j \in Key, CallbackRetrieves(t, j) PROVE Inv'
    <2>1. InCallback(t) /\ UNCHANGED <<miniLock, cache, source, called, overlapped, thrown>>
      BY <1>1 DEF CallbackRetrieves, InCallback
    <2>2. PICK f : f = Call("retrieve", j, Null)
      OBVIOUS
    <2>3. "retrieve" \in Operation \cup {"set", "delete"}
      BY <2>1, InCallbackIs DEF Calls
    <2>4. /\ f \in Calls /\ f.op = "retrieve" /\ f.pc = "begin" /\ ~ f.held /\ f.lock = NoLock
      BY <2>2, <2>3, CachingAssumption DEF Call, Calls, Value, Null, NoLock
    <2>5. CallOK(f)'
      BY <2>4 DEF CallOK, LockedPc
    <2> QED
      BY <1>1, <2>1, <2>2, <2>4, <2>5, CallbackCallsInv DEF CallbackRetrieves
  <1>2. CASE CallbackReturnsNull(t)
    <2>1. InCallback(t) /\ GoTo(t, "leave") /\ UNCHANGED <<miniLock, cache, source, overlapped, thrown>>
      BY <1>2 DEF CallbackReturnsNull
    <2>2. /\ called' \in [Key -> 0..Lost] /\ called'[Top(t).key] = Lost
          /\ \A k \in Key : called'[k] \in {Lost, called[k]}
      BY <1>2, <2>1, InCallbackIs DEF CallbackReturnsNull, Inv, Types, Lost
    <2>3. Steady(t, Len(stack[t]) - 1)
      BY <2>1, <2>2, LosesSteady DEF Loses, Inv, Types
    <2>4. PICK f : f = [Top(t) EXCEPT !.pc = "leave"]
      OBVIOUS
    <2>5. /\ f \in Calls /\ f.op = "retrieve" /\ f.key = Top(t).key /\ f.lock = Top(t).lock
          /\ f.pc = "leave" /\ f.held = Top(t).held
      BY <2>1, <2>4, InCallbackIs DEF Calls
    <2>6. CallOK(f)' /\ Settled(f.key)'
      BY <2>1, <2>2, <2>5, InCallbackIs DEF CallOK, LockedPc, Settled
    <2>7. Free(t, f)
      BY <2>1, <2>5, InCallbackIs, HeldIsFree DEF Free
    <2> QED
      BY <2>1, <2>3, <2>4, <2>5, <2>6, <2>7, InCallbackIs, ReplaceInv DEF GoTo
  <1>3. CASE CallbackReturns(t)
    <2> DEFINE k == Top(t).key
    <2>1. InCallback(t) /\ UNCHANGED <<miniLock, cache, source, called, overlapped, thrown>>
      BY <1>3 DEF CallbackReturns
    <2>2. PICK f : f = Call("set", k, source[k])
      OBVIOUS
    <2>3. k \in Key /\ source[k] \in 1..MaxVersion
      BY <2>1, InCallbackIs DEF Inv, Types
    <2>4. /\ f \in Calls /\ f.op = "set" /\ f.key = k /\ f.pc = "lock" /\ ~ f.held
          /\ f.lock = NoLock /\ f.value = source[k]
      BY <2>2, <2>3, CachingAssumption DEF Call, Calls, Value, NoLock
    <2>5. CallOK(f)'
      BY <2>1, <2>3, <2>4 DEF CallOK, LockedPc
    <2> QED
      BY <1>3, <2>1, <2>2, <2>4, <2>5, CallbackCallsInv DEF CallbackReturns
  <1>4. CASE CallbackThrows(t)
    BY <1>4, InCallbackIs, ThrowInv DEF CallbackThrows
  <1> QED
    BY <1>1, <1>2, <1>3, <1>4

LEMMA RetrieveLeaveInv ==
    ASSUME Inv, NEW t \in Thread, RetrieveLeave(t)
    PROVE  Inv'
  <1> DEFINE k == Top(t).key
  <1>1. /\ ~ Idle(t) /\ Top(t).op = "retrieve" /\ Top(t).pc = "leave" /\ Return(t)
        /\ UNCHANGED <<cache, source, called, overlapped, thrown>>
        /\ miniLock' \in {miniLock, [miniLock EXCEPT ![k] = NoLock]}
    BY DEF RetrieveLeave, At
  <1>2. Top(t) \in Calls /\ k \in Key /\ Settled(k)
    BY <1>1, TopOK DEF Calls
  <1>3. /\ miniLock' \in [Key -> 0..MaxLocks]
        /\ \A j \in Key \ {k} : miniLock'[j] = miniLock[j]
    BY <1>1, <1>2, CachingAssumption DEF Inv, Types, NoLock
  <1>4. ASSUME NEW f \in Calls, CallOK(f) PROVE CallOK(f)'
    <2>1. f.key \in Key /\ (Settled(f.key) \/ miniLock'[f.key] = miniLock[f.key])
      BY <1>2, <1>3 DEF Calls
    <2> QED
      BY <1>1, <1>4, <2>1 DEF CallOK, Settled
  <1>5. Steady(t, Len(stack[t]) - 1)
    BY <1>1, <1>3, <1>4 DEF Steady, Settled, Inv, Types, Calm
  <1> QED
    BY <1>1, <1>2, <1>5, ReturnInv

-------------------------------------------------------------------------------
(* The theorems *)

LEMMA InitInv ==
    ASSUME Init PROVE Inv
  <1>1. Types
    BY CachingAssumption, EmptySeq DEF Init, InitState, Types, NoLock, Null, Value, Lost
  <1>2. \A t \in Thread : stack[t] = <<>> /\ DOMAIN stack[t] = {}
    BY DEF Init, InitState
  <1> QED
    BY <1>1, <1>2 DEF Inv, Calm, Shape, Exclusive

LEMMA StepKeeps ==
    ASSUME Inv, [Next]_vars
    PROVE  Inv'
  <1>1. ASSUME NEW t \in Thread, NEW op \in Operation, NEW k \in Key, Begin(t, op, k) PROVE Inv'
    BY <1>1, BeginInv
  <1>2. ASSUME NEW t \in Thread, Run(t) PROVE Inv'
    BY <1>2, EnterInv, GetContainsInv, RetrieveContainsInv, RetrieveContainsAgainInv, IndexInv,
       GetOrAddLockInv, SetContainsInv, SetStoreInv, DeleteInv, UpdateSourceInv, CallbackInv,
       RetrieveLeaveInv
    DEF Run
  <1>3. CASE UNCHANGED vars
    BY <1>3 DEF vars, Inv, Types, Calm, Shape, Exclusive, CallOK, Settled
  <1> QED
    BY <1>1, <1>2, <1>3 DEF Next

LEMMA Invariant == Spec => []Inv
  <1>1. Init => Inv
    BY InitInv
  <1>2. Inv /\ [Next]_vars => Inv'
    BY StepKeeps
  <1> QED
    BY <1>1, <1>2, PTL DEF Spec

\* Every variable has its type and a monitor one owner, whatever generations of it there are.
THEOREM TypeCorrect == Spec => []TypeOK
  <1>1. Inv => TypeOK
    <2>1. ASSUME Exclusive, NEW k \in Key, NEW l \in 1..MaxLocks, NEW t \in Thread, NEW u \in Thread,
                 Holds(t, k, l), Holds(u, k, l)
          PROVE  t = u
      BY <2>1 DEF Exclusive, Holds
    <2> QED
      BY <2>1 DEF Inv, Types, TypeOK
  <1> QED
    BY <1>1, Invariant, PTL

LEMMA ThrowLoses ==
    ASSUME Types, NEW t \in Thread, NEW what, Throw(t, what), NEW k \in Key, called[k] = Lost
    PROVE  called'[k] = Lost
  BY DEF Throw, Types

LEMMA LostStays ==
    ASSUME Inv, NEW t \in Thread, Run(t), NEW k \in Key, called[k] = Lost
    PROVE  called'[k] = Lost
  <1>1. CASE UNCHANGED called
    BY <1>1
  <1>2. CASE RetrieveContainsAgain(t)
    <2>1. Top(t).key \in Key
      BY <1>2, TopOK DEF RetrieveContainsAgain, At, Calls
    <2> QED
      BY <1>2, <2>1, CountedIs DEF RetrieveContainsAgain, Inv
  <1>3. CASE \E what : Throw(t, what)
    BY <1>3, ThrowLoses DEF Inv
  <1>4. CASE Delete(t) \/ DeleteAll(t) \/ CallbackReturnsNull(t)
    BY <1>4 DEF Delete, DeleteAll, CallbackReturnsNull, Inv, Types
  <1> QED
    BY <1>1, <1>2, <1>3, <1>4 DEF Run, Acquire, Enter, GetContains, RetrieveContains, Index,
       GetOrAddLock, SetContains, SetStore, UpdateSource, CallbackRetrieves, CallbackReturns,
       CallbackThrows, RetrieveLeave

\* Get of a missing name returns default(T), Set adds or replaces, for any number of threads, names
\* and generations of the locks: neither throws before an entry was deleted or a callback left
\* its lock behind without one.
THEOREM ThrowsAfterLoss == Spec => []ThrowsOnlyAfterLoss
  <1>1. Init => ThrowsOnlyAfterLoss
    BY DEF Init, ThrowsOnlyAfterLoss
  <1>2. ASSUME Inv, ThrowsOnlyAfterLoss, NEW t \in Thread, Run(t) PROVE ThrowsOnlyAfterLoss'
    <2>1. CASE thrown' = thrown
      BY <1>2, <2>1, LostStays DEF ThrowsOnlyAfterLoss
    <2>2. CASE Index(t) /\ Missing(t)
      <3>1. ~ Idle(t) /\ Top(t).pc \in {"index", "indexAgain"}
        BY <2>2 DEF Index, At
      <3>2. Top(t).key \in Key /\ called[Top(t).key] = Lost
        BY <1>2, <2>2, <3>1, TopOK DEF CallOK, Settled, Missing, Calls
      <3>3. PICK k \in Key : called[k] = Lost
        BY <3>2
      <3> QED
        BY <1>2, <3>3, LostStays DEF ThrowsOnlyAfterLoss
    <2>3. CASE SetStore(t) /\ ~ (Missing(t) \/ Top(t).seen)
      <3>1. ~ Idle(t) /\ Top(t).pc = "store"
        BY <2>3 DEF SetStore, At
      <3>2. Top(t).key \in Key /\ called[Top(t).key] = Lost
        BY <1>2, <2>3, <3>1, TopOK DEF CallOK, Missing, Calls
      <3>3. PICK k \in Key : called[k] = Lost
        BY <3>2
      <3> QED
        BY <1>2, <3>3, LostStays DEF ThrowsOnlyAfterLoss
    <2> QED
      BY <1>2, <2>1, <2>2, <2>3 DEF Run, Acquire, Enter, GetContains, RetrieveContains,
         RetrieveContainsAgain, Index, GetOrAddLock, SetContains, SetStore, Delete, DeleteAll,
         UpdateSource, CallbackRetrieves, CallbackReturnsNull, CallbackReturns, CallbackThrows,
         Throw, RetrieveLeave
  <1>3. ASSUME Inv, ThrowsOnlyAfterLoss, [Next]_vars PROVE ThrowsOnlyAfterLoss'
    <2>1. CASE UNCHANGED <<called, thrown>>
      BY <1>3, <2>1 DEF ThrowsOnlyAfterLoss
    <2> QED
      BY <1>2, <1>3, <2>1 DEF Next, Begin, vars
  <1> QED
    BY <1>1, <1>3, Invariant, PTL DEF Spec

LEMMA OthersWait ==
    ASSUME Types, NEW t \in Thread, Run(t) \/ \E op \in Operation, k \in Key : Begin(t, op, k),
           NEW u \in Thread \ {t}
    PROVE  stack'[u] = stack[u]
  <1>1. \E s : stack' = [stack EXCEPT ![t] = s]
    BY DEF Begin, Run, Acquire, Enter, GetContains, RetrieveContains,
       RetrieveContainsAgain, Index, GetOrAddLock, SetContains, SetStore, Delete, DeleteAll,
       UpdateSource, CallbackRetrieves, CallbackReturnsNull, CallbackReturns, CallbackThrows,
       Throw, RetrieveLeave, Return, GoTo, SetTop, CallAndGoTo
  <1> QED
    BY <1>1 DEF Types

Deleting(t, k) == At(t, "delete", "begin") /\ Top(t).key = k

\* A value older than its source is in the cache only while the Delete of the update is
\* outstanding, unless somebody held the old value when the source changed, for any number of
\* threads, names and versions.
THEOREM StaleAfterOverlap == Spec => []StaleOnlyAfterOverlap
  <1>1. Init => StaleOnlyAfterOverlap
    BY DEF Init, InitState, StaleOnlyAfterOverlap
  <1>2. ASSUME Inv, StaleOnlyAfterOverlap, NEW t \in Thread,
               Run(t) \/ \E op \in Operation, k \in Key : Begin(t, op, k),
               NEW k \in Key, cache'[k] # Null, cache'[k] < source'[k]
        PROVE  k \in overlapped' \/ \E u \in Thread : Deleting(u, k)'
    <2>1. ASSUME ~ Deleting(t, k), cache'[k] = cache[k], source'[k] = source[k],
                 overlapped \subseteq overlapped'
          PROVE  k \in overlapped' \/ \E u \in Thread : Deleting(u, k)'
      <3>1. k \in overlapped \/ \E u \in Thread : Deleting(u, k)
        BY <1>2, <2>1 DEF StaleOnlyAfterOverlap, Deleting
      <3>2. ASSUME NEW u \in Thread, Deleting(u, k) PROVE Deleting(u, k)'
        <4>1. u # t
          BY <2>1, <3>2
        <4>2. stack'[u] = stack[u]
          BY <1>2, <4>1, OthersWait DEF Inv
        <4> QED
          BY <3>2, <4>2 DEF Deleting, At, Idle, Top
      <3> QED
        BY <2>1, <3>1, <3>2
    <2>2. CASE SetStore(t)
      <3>1. ~ Idle(t) /\ Top(t).op = "set"
        BY <2>2 DEF SetStore, At
      <3>2. Top(t).key \in Key /\ CallOK(Top(t)) /\ ~ Deleting(t, k)
        BY <1>2, <3>1, TopOK DEF Calls, Deleting, At
      <3>3. UNCHANGED <<source, overlapped>>
        BY <2>2 DEF SetStore
      <3>4. CASE cache'[k] = cache[k]
        BY <2>1, <3>2, <3>3, <3>4
      <3>5. CASE cache'[k] # cache[k]
        <4>1. k = Top(t).key /\ cache'[k] = Top(t).value
          BY <1>2, <2>2, <3>2, <3>5 DEF SetStore, Inv, Types
        <4> QED
          BY <1>2, <3>1, <3>2, <3>3, <4>1 DEF CallOK
      <3> QED
        BY <3>4, <3>5
    <2>3. CASE UpdateSource(t)
      <3>1. ~ Idle(t) /\ Top(t).op = "update"
        BY <2>3 DEF UpdateSource, At
      <3>2. ~ Deleting(t, k) /\ cache' = cache /\ overlapped \subseteq overlapped'
        BY <2>3, <3>1 DEF Deleting, At, UpdateSource
      <3>3. CASE k = Top(t).key
        <4>1. stack'[t] = <<Call("delete", k, Null)>>
          BY <1>2, <2>3, <3>3 DEF UpdateSource, Inv, Types
        <4>2. Deleting(t, k)'
          BY <4>1 DEF Deleting, At, Idle, Top, Call
        <4> QED
          BY <4>2
      <3>4. CASE k # Top(t).key
        <4>1. source'[k] = source[k]
          BY <1>2, <2>3, <3>4 DEF UpdateSource, Inv, Types
        <4> QED
          BY <2>1, <3>2, <4>1
      <3> QED
        BY <3>3, <3>4
    <2>4. CASE Delete(t)
      <3>1. k # Top(t).key /\ UNCHANGED <<source, overlapped>>
        BY <1>2, <2>4 DEF Delete, Inv, Types
      <3>2. cache'[k] = cache[k]
        BY <1>2, <2>4, <3>1 DEF Delete, Inv, Types
      <3> QED
        BY <2>1, <3>1, <3>2 DEF Deleting
    <2>5. CASE DeleteAll(t)
      BY <1>2, <2>5 DEF DeleteAll
    <2>6. CASE UNCHANGED <<cache, source, overlapped>> /\ ~ At(t, "delete", "begin")
      BY <2>1, <2>6 DEF Deleting
    <2> QED
      BY <1>2, <2>2, <2>3, <2>4, <2>5, <2>6
      DEF Begin, Run, Acquire, Enter, GetContains, RetrieveContains,
          RetrieveContainsAgain, Index, GetOrAddLock, SetContains, CallbackRetrieves,
          CallbackReturnsNull, CallbackReturns, CallbackThrows, InCallback, RetrieveLeave, At
  <1>3. ASSUME Inv, StaleOnlyAfterOverlap, [Next]_vars PROVE StaleOnlyAfterOverlap'
    <2>1. CASE UNCHANGED vars
      BY <1>3, <2>1 DEF vars, StaleOnlyAfterOverlap, At, Idle, Top
    <2>2. CASE Next
      BY <1>2, <1>3, <2>2 DEF Next, StaleOnlyAfterOverlap, Deleting
    <2> QED
      BY <1>3, <2>1, <2>2
  <1> QED
    BY <1>1, <1>3, Invariant, PTL DEF Spec

-------------------------------------------------------------------------------
(* Callbacks that retrieve along an order of the names *)

\* What a thread retrieves inside a callback comes later in the order.
Rising(rank) == \A t \in Thread : \A i, j \in DOMAIN stack[t] :
    i < j /\ stack[t][j].op # "set" => rank[stack[t][i].key] < rank[stack[t][j].key]

\* The call runs the callback of k or carries its model to the cache.
Computing(t, i, k) ==
    /\ stack[t][i].key = k
    /\ \/ stack[t][i].pc \in {"callback", "nested"}
       \/ stack[t][i].pc = "leave" /\ i < Len(stack[t])

\* A callback that ran and left nothing yet is still running.
Once == \A k \in Key :
    /\ called[k] \in {0, 1, Lost}
    /\ called[k] = 1 /\ ~ Settled(k) =>
          \E t \in Thread : \E i \in DOMAIN stack[t] : Computing(t, i, k)

LEMMA AppendedIn ==
    ASSUME NEW S, NEW s \in Seq(S), NEW f, Append(s, f) \in Seq(S)
    PROVE  f \in S
  <1>1. s \in Seq(S \cup {f}) /\ f \in S \cup {f}
    OBVIOUS
  <1>2. Len(s) \in Nat /\ Len(Append(s, f)) = Len(s) + 1 /\ Append(s, f)[Len(s) + 1] = f
    BY <1>1, AppendProperties, LenProperties
  <1> QED
    BY <1>2, ElementOfSeq

LEMMA PlacedIn ==
    ASSUME Types, Types', NEW t \in Thread, NEW s, stack' = [stack EXCEPT ![t] = s]
    PROVE  s \in Seq(Calls)
  BY DEF Types

\* What a step does to the calls of its thread.
Replaces(t) == \E f \in Calls :
    /\ SetTop(t, f) /\ f.op = Top(t).op /\ f.key = Top(t).key
    /\ Top(t).pc \in {"callback", "nested"} => called'[Top(t).key] = Lost
CallsOn(t) == \E f \in Calls, pc \in {"nested", "leave"} :
    /\ Top(t).op = "retrieve"
    /\ CallAndGoTo(t, pc, f) /\ [Top(t) EXCEPT !.pc = pc] \in Calls
    /\ f.op = "set" \/ <<Top(t).key, f.key>> \in Inner
Returns(t) ==
    /\ Return(t) /\ Top(t).pc \notin {"callback", "nested"}
    /\ Top(t).op = "set" => cache'[Top(t).key] # Null
Restarts(t) ==
    /\ \E s : (s = <<>> \/ \E f \in Calls : s = <<f>>) /\ stack' = [stack EXCEPT ![t] = s]
    /\ \A i \in DOMAIN stack[t] : stack[t][i].op = "retrieve" => called'[stack[t][i].key] = Lost

LEMMA ReplacesBy ==
    ASSUME Inv, Inv', NEW t \in Thread, ~ Idle(t), NEW f, SetTop(t, f),
           f.op = Top(t).op, f.key = Top(t).key,
           Top(t).pc \in {"callback", "nested"} => called'[Top(t).key] = Lost
    PROVE  Replaces(t)
  <1>1. Rest(t) \in Seq(Calls) /\ Append(Rest(t), f) \in Seq(Calls)
    BY TopIs, PlacedIn DEF Inv, SetTop
  <1>2. f \in Calls
    BY <1>1, AppendedIn
  <1> QED
    BY <1>2 DEF Replaces

LEMMA CallsOnBy ==
    ASSUME Inv, Inv', NEW t \in Thread, ~ Idle(t), NEW pc \in {"nested", "leave"}, NEW f,
           CallAndGoTo(t, pc, f), f.op = "set" \/ <<Top(t).key, f.key>> \in Inner,
           Top(t).op = "retrieve"
    PROVE  CallsOn(t)
  <1>1. PICK g : g = [Top(t) EXCEPT !.pc = pc]
    OBVIOUS
  <1>2. g \in Calls /\ Rest(t) \in Seq(Calls)
    BY <1>1, TopIs DEF Calls, Inv
  <1>3. Append(Rest(t), g) \in Seq(Calls)
    BY <1>2
  <1>4. Append(Append(Rest(t), g), f) \in Seq(Calls)
    BY <1>1, PlacedIn DEF Inv, CallAndGoTo
  <1>5. f \in Calls
    BY <1>3, <1>4, AppendedIn
  <1> QED
    BY <1>1, <1>2, <1>5 DEF CallsOn

LEMMA StepForms ==
    ASSUME Inv, Inv', NEW t \in Thread, Run(t)
    PROVE  ~ Idle(t) /\ (Replaces(t) \/ CallsOn(t) \/ Returns(t) \/ Restarts(t))
  <1>1. ~ Idle(t)
    BY DEF Run, Acquire, Enter, GetContains, RetrieveContains,
       RetrieveContainsAgain, Index, GetOrAddLock, SetContains, SetStore, Delete, DeleteAll,
       UpdateSource, CallbackRetrieves, CallbackReturnsNull, CallbackReturns, CallbackThrows,
       InCallback, RetrieveLeave, At
  <1>2. Top(t) \in Calls /\ Top(t).key \in Key /\ CallOK(Top(t))
    BY <1>1, TopOK DEF Calls
  <1>3. ASSUME NEW what, Throw(t, what) PROVE Restarts(t)
    BY <1>3, CallsOf DEF Throw, Restarts, Inv, Calls
  <1>4. CASE Acquire(t)
    <2>1. SetTop(t, [Top(t) EXCEPT !.held = TRUE, !.pc = "locked"]) /\ Top(t).pc = "enter"
      BY <1>4 DEF Acquire, Enter, At
    <2> QED
      BY <1>1, <1>2, <2>1, ReplacesBy DEF Calls
  <1>5. ASSUME NEW pc, GoTo(t, pc),
               Top(t).pc \in {"callback", "nested"} => called'[Top(t).key] = Lost
        PROVE  Replaces(t)
    BY <1>1, <1>2, <1>5, ReplacesBy DEF GoTo, Calls
  <1>6. CASE GetContains(t) \/ RetrieveContains(t) \/ RetrieveContainsAgain(t) \/ Index(t)
    BY <1>3, <1>5, <1>6 DEF GetContains, RetrieveContains, RetrieveContainsAgain, Index, At, Returns
  <1>7. CASE GetOrAddLock(t)
    <2>1. PICK l : SetTop(t, [Top(t) EXCEPT !.lock = l, !.pc = "enter"])
      BY <1>7 DEF GetOrAddLock
    <2>2. Top(t).pc = "lock"
      BY <1>7 DEF GetOrAddLock, At
    <2> QED
      BY <1>1, <1>2, <2>1, <2>2, ReplacesBy DEF Calls
  <1>8. CASE SetContains(t)
    <2>1. /\ SetTop(t, [Top(t) EXCEPT !.seen = ~ Missing(t), !.pc = "store"])
          /\ Top(t).pc = "locked"
      BY <1>8 DEF SetContains, At
    <2> QED
      BY <1>1, <1>2, <2>1, ReplacesBy DEF Calls
  <1>9. CASE SetStore(t)
    <2>1. Top(t).op = "set" /\ Top(t).pc = "store"
      BY <1>9 DEF SetStore, At
    <2>2. CASE Missing(t) \/ Top(t).seen
      <3>1. Return(t) /\ cache' = [cache EXCEPT ![Top(t).key] = Top(t).value]
        BY <1>9, <2>2 DEF SetStore
      <3>2. cache'[Top(t).key] # Null
        BY <1>2, <2>1, <3>1 DEF CallOK, Null, Inv, Types
      <3> QED
        BY <1>1, <2>1, <3>1, <3>2 DEF Returns
    <2>3. CASE ~ (Missing(t) \/ Top(t).seen)
      BY <1>1, <1>3, <1>9, <2>3 DEF SetStore
    <2> QED
      BY <2>2, <2>3
  <1>10. CASE Delete(t) \/ DeleteAll(t) \/ RetrieveLeave(t)
    BY <1>10 DEF Delete, DeleteAll, RetrieveLeave, Returns, At
  <1>11. CASE UpdateSource(t)
    <2>1. Top(t).op = "update" /\ stack' = [stack EXCEPT ![t] = <<Call("delete", Top(t).key, Null)>>]
      BY <1>11 DEF UpdateSource, At
    <2>2. Call("delete", Top(t).key, Null) \in Calls
      BY <1>2, CachingAssumption DEF Call, Calls, Value, Null, NoLock
    <2>3. Len(stack[t]) = 1
      <3> DEFINE n == Len(stack[t])
      <3>1. n \in Nat \ {0} /\ DOMAIN stack[t] = 1..n /\ Top(t) = stack[t][n]
        BY <1>1, TopIs DEF Inv
      <3>2. \A i \in DOMAIN stack[t] : i < n => Inside(stack[t][i], stack[t][i + 1])
        BY DEF Inv, Shape
      <3> HIDE DEF n
      <3>3. CASE n > 1
        <4>1. n - 1 \in 1..n /\ n - 1 < n /\ (n - 1) + 1 = n
          BY <3>1, <3>3
        <4>2. Inside(stack[t][n - 1], stack[t][(n - 1) + 1])
          BY <3>1, <3>2, <4>1
        <4>3. Inside(stack[t][n - 1], Top(t))
          BY <3>1, <4>1, <4>2
        <4> QED
          BY <2>1, <4>3 DEF Inside
      <3>4. CASE ~ (n > 1)
        <4>1. n = 1
          BY <3>1, <3>4
        <4> QED
          BY <4>1 DEF n
      <3> QED
        BY <3>3, <3>4
    <2>4. \A i \in DOMAIN stack[t] : stack[t][i].op # "retrieve"
      BY <1>1, <2>1, <2>3, TopIs DEF Inv
    <2> QED
      BY <1>1, <2>1, <2>2, <2>4 DEF Restarts
  <1>12. ASSUME NEW j \in Key, CallbackRetrieves(t, j) PROVE CallsOn(t)
    BY <1>1, <1>12, CallsOnBy DEF CallbackRetrieves, Call, At
  <1>13. CASE CallbackReturnsNull(t)
    <2>1. called'[Top(t).key] = Lost
      BY <1>2, <1>13 DEF CallbackReturnsNull, Inv, Types
    <2> QED
      BY <1>1, <1>5, <1>13, <2>1 DEF CallbackReturnsNull
  <1>14. CASE CallbackReturns(t)
    BY <1>1, <1>14, CallsOnBy DEF CallbackReturns, Call, InCallback, At
  <1>15. CASE CallbackThrows(t)
    BY <1>1, <1>3, <1>15 DEF CallbackThrows
  <1> QED
    BY <1>1, <1>4, <1>6, <1>7, <1>8, <1>9, <1>10, <1>11, <1>12, <1>13, <1>14, <1>15 DEF Run

\* The calls of t after a step, below its top.
LEMMA FormsKeep ==
    ASSUME Inv, Inv', NEW t \in Thread, ~ Idle(t),
           Replaces(t) \/ CallsOn(t) \/ Returns(t)
    PROVE  /\ Kept(t, Len(stack[t]) - 1) /\ Len(stack[t]) \in Nat \ {0}
           /\ DOMAIN stack[t] = 1..Len(stack[t]) /\ DOMAIN stack'[t] = 1..Len(stack'[t])
           /\ Len(stack'[t]) \in Nat /\ Len(stack'[t]) >= Len(stack[t]) - 1
           /\ Replaces(t) => /\ Len(stack'[t]) = Len(stack[t])
                             /\ stack'[t][Len(stack[t])].op = Top(t).op
                             /\ stack'[t][Len(stack[t])].key = Top(t).key
           /\ CallsOn(t) => /\ Len(stack'[t]) = Len(stack[t]) + 1 /\ Top(t).op = "retrieve"
                            /\ stack'[t][Len(stack[t])].op = Top(t).op
                            /\ stack'[t][Len(stack[t])].key = Top(t).key
                            /\ stack'[t][Len(stack[t])].pc \in {"nested", "leave"}
                            /\ \/ stack'[t][Len(stack[t]) + 1].op = "set"
                               \/ <<Top(t).key, stack'[t][Len(stack[t]) + 1].key>> \in Inner
           /\ Returns(t) => Len(stack'[t]) = Len(stack[t]) - 1
  <1>1. Len(stack[t]) \in Nat \ {0} /\ DOMAIN stack[t] = 1..Len(stack[t]) /\ Top(t) \in Calls
    BY TopIs DEF Inv
  <1>2. Replaces(t) =>
          /\ Len(stack'[t]) = Len(stack[t]) /\ DOMAIN stack'[t] = 1..Len(stack'[t])
          /\ stack'[t][Len(stack[t])].op = Top(t).op /\ stack'[t][Len(stack[t])].key = Top(t).key
          /\ Kept(t, Len(stack[t]) - 1)
    BY SetTopIs DEF Replaces, Inv
  <1>3. ASSUME CallsOn(t)
        PROVE  /\ Len(stack'[t]) = Len(stack[t]) + 1 /\ DOMAIN stack'[t] = 1..Len(stack'[t])
               /\ Top(t).op = "retrieve"
               /\ stack'[t][Len(stack[t])].op = Top(t).op
               /\ stack'[t][Len(stack[t])].key = Top(t).key
               /\ stack'[t][Len(stack[t])].pc \in {"nested", "leave"}
               /\ \/ stack'[t][Len(stack[t]) + 1].op = "set"
                  \/ <<Top(t).key, stack'[t][Len(stack[t]) + 1].key>> \in Inner
               /\ Kept(t, Len(stack[t]) - 1)
    <2>1. PICK f \in Calls, pc \in {"nested", "leave"} :
              /\ CallAndGoTo(t, pc, f) /\ [Top(t) EXCEPT !.pc = pc] \in Calls
              /\ f.op = "set" \/ <<Top(t).key, f.key>> \in Inner
      BY <1>3 DEF CallsOn
    <2>2. /\ Len(stack'[t]) = Len(stack[t]) + 1 /\ DOMAIN stack'[t] = 1..(Len(stack[t]) + 1)
          /\ Kept(t, Len(stack[t]) - 1) /\ stack'[t][Len(stack[t])] = [Top(t) EXCEPT !.pc = pc]
          /\ stack'[t][Len(stack[t]) + 1] = f
      BY <2>1, CallAndGoToIs DEF Inv
    <2>3. /\ stack'[t][Len(stack[t])].op = Top(t).op
          /\ stack'[t][Len(stack[t])].key = Top(t).key
          /\ stack'[t][Len(stack[t])].pc = pc
      BY <1>1, <2>2 DEF Calls
    <2>4. \/ stack'[t][Len(stack[t]) + 1].op = "set"
          \/ <<Top(t).key, stack'[t][Len(stack[t]) + 1].key>> \in Inner
      BY <2>1, <2>2
    <2>5. /\ DOMAIN stack'[t] = 1..Len(stack'[t]) /\ Len(stack'[t]) = Len(stack[t]) + 1
          /\ Kept(t, Len(stack[t]) - 1)
      BY <2>2
    <2>6. Top(t).op = "retrieve"
      BY <1>3 DEF CallsOn
    <2> QED
      BY <2>3, <2>4, <2>5, <2>6
  <1>4. Returns(t) => /\ Len(stack'[t]) = Len(stack[t]) - 1 /\ DOMAIN stack'[t] = 1..Len(stack'[t])
                      /\ Kept(t, Len(stack[t]) - 1)
    BY ReturnIs DEF Returns, Inv
  <1> QED
    BY <1>1, <1>2, <1>3, <1>4

LEMMA RisingStays ==
    ASSUME NEW rank \in [Key -> Nat],
           \A j, k \in Key : <<j, k>> \in Inner => rank[j] < rank[k],
           Inv, Inv', Rising(rank), NEW t \in Thread, Run(t)
    PROVE  Rising(rank)'
  <1> DEFINE n == Len(stack[t])
  <1>1. ASSUME NEW u \in Thread \ {t} PROVE stack'[u] = stack[u]
    BY <1>1, OthersWait DEF Inv
  <1>2. ASSUME NEW i \in DOMAIN stack'[t], NEW j \in DOMAIN stack'[t], i < j,
               stack'[t][j].op # "set"
        PROVE  rank[stack'[t][i].key] < rank[stack'[t][j].key]
    <2>1. CASE Restarts(t)
      <3>1. Len(stack'[t]) \in {0, 1} /\ DOMAIN stack'[t] \subseteq {1}
        BY <2>1, RestartIs DEF Restarts, Inv
      <3> QED
        BY <1>2, <3>1
    <2>2. CASE Replaces(t) \/ CallsOn(t) \/ Returns(t)
      <3>1. /\ n \in Nat \ {0} /\ DOMAIN stack[t] = 1..n /\ DOMAIN stack'[t] = 1..Len(stack'[t])
            /\ Len(stack'[t]) \in Nat /\ Top(t) = stack[t][n] /\ Top(t).key \in Key
            /\ \A h \in 1..n : stack[t][h].key \in Key
            /\ \A h \in 1..(n - 1) : stack'[t][h] = stack[t][h]
        <4>1. ~ Idle(t)
          BY StepForms
        <4>2. /\ n \in Nat \ {0} /\ DOMAIN stack[t] = 1..n /\ DOMAIN stack'[t] = 1..Len(stack'[t])
              /\ Len(stack'[t]) \in Nat /\ Kept(t, n - 1)
          BY <2>2, <4>1, FormsKeep
        <4>3. \A h \in 1..n : stack[t][h] \in Calls
          BY <4>2, CallsOf DEF Inv
        <4>4. Top(t) = stack[t][n]
          BY DEF Top
        <4> QED
          BY <4>2, <4>3, <4>4 DEF Kept, Calls
      <3> HIDE DEF n
      <3>2. ASSUME NEW h \in DOMAIN stack'[t], h <= n
            PROVE  /\ h \in DOMAIN stack[t]
                   /\ stack'[t][h].op = stack[t][h].op /\ stack'[t][h].key = stack[t][h].key
        <4>1. CASE h < n
          BY <3>1, <3>2, <4>1
        <4>2. CASE h = n
          <5>1. /\ Replaces(t) \/ CallsOn(t) => /\ stack'[t][n].op = Top(t).op
                                                /\ stack'[t][n].key = Top(t).key
                /\ Returns(t) => Len(stack'[t]) = n - 1
            BY StepForms, FormsKeep DEF n
          <5>2. ~ Returns(t) \/ Replaces(t) \/ CallsOn(t)
            BY <3>1, <3>2, <4>2, <5>1
          <5> QED
            BY <2>2, <3>1, <4>2, <5>1, <5>2
        <4> QED
          BY <3>1, <3>2, <4>1, <4>2
      <3>3. CASE j <= n
        <4>1. i \in DOMAIN stack[t] /\ stack'[t][i].key = stack[t][i].key
          BY <1>2, <3>1, <3>2, <3>3
        <4>2. /\ j \in DOMAIN stack[t] /\ stack'[t][j].op = stack[t][j].op
              /\ stack'[t][j].key = stack[t][j].key
          BY <3>2, <3>3
        <4> QED
          BY <1>2, <4>1, <4>2 DEF Rising
      <3>4. CASE ~ (j <= n)
        <4>1. CallsOn(t) /\ j = n + 1
          <5>1. /\ Replaces(t) => Len(stack'[t]) = n
                /\ CallsOn(t) => Len(stack'[t]) = n + 1
                /\ Returns(t) => Len(stack'[t]) = n - 1
            BY StepForms, FormsKeep DEF n
          <5> QED
            BY <1>2, <2>2, <3>1, <3>4, <5>1
        <4>2. Top(t).op = "retrieve" /\ <<Top(t).key, stack'[t][j].key>> \in Inner
          BY <1>2, <4>1, StepForms, FormsKeep DEF n
        <4>3. rank[Top(t).key] < rank[stack'[t][j].key] /\ stack'[t][j].key \in Key
          BY <3>1, <4>2, CachingAssumption
        <4>4. i \in DOMAIN stack[t] /\ stack'[t][i].key = stack[t][i].key
          BY <1>2, <3>1, <3>2, <4>1
        <4>5. CASE i = n
          BY <3>1, <4>3, <4>4, <4>5
        <4>6. CASE i < n
          <5>1. rank[stack[t][i].key] < rank[Top(t).key]
            BY <3>1, <4>2, <4>4, <4>6 DEF Rising
          <5>2. /\ rank[stack[t][i].key] \in Nat /\ rank[Top(t).key] \in Nat
                /\ rank[stack'[t][j].key] \in Nat
            BY <3>1, <4>3, <4>4
          <5> QED
            BY <4>3, <4>4, <5>1, <5>2
        <4> QED
          BY <1>2, <3>1, <4>1, <4>5, <4>6
      <3> QED
        BY <3>1, <3>3, <3>4
    <2> QED
      BY <2>1, <2>2, StepForms
  <1>3. ASSUME NEW u \in Thread, NEW i \in DOMAIN stack'[u], NEW j \in DOMAIN stack'[u], i < j,
               stack'[u][j].op # "set"
        PROVE  rank[stack'[u][i].key] < rank[stack'[u][j].key]
    BY <1>1, <1>2, <1>3 DEF Rising
  <1> QED
    BY <1>3 DEF Rising

LEMMA ComputingStays ==
    ASSUME Inv, Inv', NEW t \in Thread, Run(t),
           NEW k \in Key, NEW u \in Thread, NEW i \in DOMAIN stack[u], Computing(u, i, k),
           ~ Settled(k)'
    PROVE  i \in DOMAIN stack'[u] /\ Computing(u, i, k)'
  <1> DEFINE n == Len(stack[t])
  <1>1. CASE u # t
    <2>1. stack'[u] = stack[u]
      BY <1>1, OthersWait DEF Inv
    <2> QED
      BY <2>1 DEF Computing
  <1>2. CASE u = t
    <2>1. CallOK(stack[t][i]) /\ stack[t][i].op = "retrieve" /\ stack[t][i].key = k
      BY <1>2 DEF Inv, Calm, CallOK, Computing
    <2>2. ~ Restarts(t) /\ called'[k] # Lost /\ cache'[k] = Null
      BY <1>2, <2>1 DEF Restarts, Settled
    <2>3. /\ n \in Nat \ {0} /\ DOMAIN stack[t] = 1..n /\ DOMAIN stack'[t] = 1..Len(stack'[t])
          /\ Len(stack'[t]) \in Nat /\ Kept(t, n - 1) /\ Top(t) = stack[t][n]
          /\ Replaces(t) => Len(stack'[t]) = n
          /\ CallsOn(t) => /\ Len(stack'[t]) = n + 1 /\ stack'[t][n].key = Top(t).key
                           /\ stack'[t][n].pc \in {"nested", "leave"}
          /\ Returns(t) => Len(stack'[t]) = n - 1
          /\ Replaces(t) \/ CallsOn(t) \/ Returns(t)
      BY <2>2, StepForms, FormsKeep, TopIs DEF Inv
    <2>4. i < n => Inside(stack[t][i], stack[t][i + 1])
      BY <1>2 DEF Inv, Shape
    <2> HIDE DEF n
    <2>5. CASE i = n
      <3>1. Top(t).pc \in {"callback", "nested"} /\ Top(t).key = k
        <4>1. ~ (i < Len(stack[t]))
          BY <2>3, <2>5 DEF n
        <4> QED
          BY <1>2, <2>3, <2>5, <4>1 DEF Computing
      <3>2. CallsOn(t)
        BY <2>2, <2>3, <3>1 DEF Replaces, Returns
      <3> QED
        BY <1>2, <2>3, <2>5, <3>1, <3>2 DEF Computing
    <2>6. CASE i < n
      <3>1. stack'[t][i] = stack[t][i]
        BY <1>2, <2>3, <2>6 DEF Kept
      <3>2. CASE stack[t][i].pc \in {"callback", "nested"}
        BY <1>2, <2>1, <2>3, <2>6, <3>1, <3>2 DEF Computing
      <3>3. CASE stack[t][i].pc = "leave"
        <4>1. stack[t][i + 1].op = "set" /\ stack[t][i + 1].key = k
          BY <2>1, <2>4, <2>6, <3>3 DEF Inside
        <4>2. CASE i + 1 = n
          <5>1. ~ Returns(t)
            BY <2>2, <2>3, <4>1, <4>2 DEF Returns
          <5> QED
            BY <1>2, <2>1, <2>3, <2>6, <3>1, <3>3, <5>1 DEF Computing
        <4>3. CASE i + 1 # n
          BY <1>2, <2>1, <2>3, <2>6, <3>1, <3>3, <4>3 DEF Computing
        <4> QED
          BY <4>2, <4>3
      <3> QED
        BY <1>2, <3>2, <3>3 DEF Computing
    <2> QED
      BY <1>2, <2>3, <2>5, <2>6
  <1> QED
    BY <1>1, <1>2

\* The thread inside the lock of a name that is not settled is the only one that computes it.
LEMMA NobodyElse ==
    ASSUME NEW rank \in [Key -> Nat], Inv, Rising(rank),
           NEW t \in Thread, At(t, "retrieve", "locked"), ~ Settled(Top(t).key),
           NEW u \in Thread, NEW i \in DOMAIN stack[u], Computing(u, i, Top(t).key)
    PROVE  FALSE
  <1> DEFINE n == Len(stack[t])
  <1>1. /\ n \in Nat \ {0} /\ DOMAIN stack[t] = 1..n /\ Top(t) = stack[t][n]
        /\ Top(t).op = "retrieve" /\ Top(t).pc = "locked" /\ CallOK(Top(t)) /\ Top(t).key \in Key
    BY TopIs, TopOK DEF At, Inv, Calls
  <1>2. CallOK(stack[u][i]) /\ stack[u][i].key = Top(t).key
        /\ stack[u][i].pc \in {"callback", "nested", "leave"}
    BY DEF Inv, Calm, Computing
  <1>3. Top(t).held /\ stack[u][i].held /\ Top(t).lock = stack[u][i].lock
    BY <1>1, <1>2 DEF CallOK, LockedPc
  <1>4. u = t
    BY <1>1, <1>2, <1>3 DEF Inv, Exclusive
  <1>5. i < n
    BY <1>1, <1>2, <1>4
  <1>6. rank[stack[t][i].key] < rank[stack[t][n].key]
    BY <1>1, <1>4, <1>5 DEF Rising
  <1>7. rank[Top(t).key] \in Nat
    BY <1>1
  <1> QED
    BY <1>1, <1>2, <1>4, <1>6, <1>7

LEMMA SettledStays ==
    ASSUME Inv, NEW t \in Thread, Run(t), NEW k \in Key, Settled(k)
    PROVE  Settled(k)'
  <1>1. CASE called[k] = Lost
    BY <1>1, LostStays DEF Settled
  <1>2. CASE cache' = cache
    BY <1>1, <1>2 DEF Settled
  <1>3. CASE SetStore(t) /\ ~ UNCHANGED cache
    <2>1. Top(t).value # Null /\ cache' = [cache EXCEPT ![Top(t).key] = Top(t).value]
      <3>1. ~ Idle(t) /\ Top(t).op = "set" /\ cache' = [cache EXCEPT ![Top(t).key] = Top(t).value]
        BY <1>3 DEF SetStore, At
      <3>2. CallOK(Top(t))
        BY <3>1, TopOK
      <3>3. Top(t).value # Null
        BY <3>1, <3>2 DEF CallOK, Null
      <3> QED
        BY <3>1, <3>3
    <2> QED
      BY <1>1, <2>1 DEF Settled, Inv, Types
  <1>4. CASE Delete(t) \/ DeleteAll(t)
    BY <1>4 DEF Delete, DeleteAll, Settled, Inv, Types
  <1> QED
    BY <1>2, <1>3, <1>4 DEF Run, Acquire, Enter, GetContains, RetrieveContains,
       RetrieveContainsAgain, Index, GetOrAddLock, SetContains,
       UpdateSource, CallbackRetrieves, CallbackReturnsNull, CallbackReturns, CallbackThrows,
       RetrieveLeave

LEMMA OnceStays ==
    ASSUME NEW rank \in [Key -> Nat], Inv, Inv', Rising(rank), Once, NEW t \in Thread, Run(t)
    PROVE  Once'
  <1>1. ASSUME NEW k \in Key, called'[k] = called[k], called'[k] = 1, ~ Settled(k)'
        PROVE  \E u \in Thread : \E i \in DOMAIN stack'[u] : Computing(u, i, k)'
    <2>1. ~ Settled(k)
      BY <1>1, SettledStays
    <2>2. PICK u \in Thread : \E i \in DOMAIN stack[u] : Computing(u, i, k)
      BY <1>1, <2>1 DEF Once
    <2>3. PICK i \in DOMAIN stack[u] : Computing(u, i, k)
      BY <2>2
    <2> QED
      BY <1>1, <2>3, ComputingStays
  <1>2. ASSUME NEW k \in Key, called'[k] # called[k], called'[k] # Lost
        PROVE  /\ called'[k] = 1
               /\ \E u \in Thread : \E i \in DOMAIN stack'[u] : Computing(u, i, k)'
    <2>1. RetrieveContainsAgain(t) /\ Missing(t)
      BY <1>2 DEF Run, Acquire, Enter, GetContains, RetrieveContains,
         RetrieveContainsAgain, Index, GetOrAddLock, SetContains, SetStore, Delete, DeleteAll,
         UpdateSource, CallbackRetrieves, CallbackReturnsNull, CallbackReturns, CallbackThrows,
         Throw, RetrieveLeave, Inv, Types
    <2>2. At(t, "retrieve", "locked") /\ ~ Idle(t) /\ called' = Counted(Top(t).key)
      BY <2>1 DEF RetrieveContainsAgain, At
    <2>3. Top(t) \in Calls /\ Top(t).key = k
      BY <1>2, <2>2, TopOK, CountedIs DEF Calls, Inv
    <2>4. called[k] # Lost /\ ~ Settled(k)
      BY <1>2, <2>1, <2>2, <2>3, CountedIs DEF Settled, Missing, Inv
    <2>5. called[k] = 0
      <3>1. CASE called[k] = 1
        <4>1. PICK u \in Thread : \E i \in DOMAIN stack[u] : Computing(u, i, k)
          BY <2>4, <3>1 DEF Once
        <4>2. PICK i \in DOMAIN stack[u] : Computing(u, i, k)
          BY <4>1
        <4> QED
          BY <2>2, <2>3, <2>4, <4>2, NobodyElse
      <3> QED
        BY <2>4, <3>1 DEF Once
    <2>6. called'[k] = 1
      BY <2>2, <2>3, <2>5, CountedIs DEF Inv
    <2>7. PICK f : f = [Top(t) EXCEPT !.pc = "callback"]
      OBVIOUS
    <2>8. f \in Calls /\ f.key = k /\ f.pc = "callback"
      BY <2>3, <2>7 DEF Calls
    <2>9. SetTop(t, f)
      BY <2>1, <2>7 DEF RetrieveContainsAgain, GoTo
    <2>10. Len(stack[t]) \in DOMAIN stack'[t] /\ stack'[t][Len(stack[t])] = f
      BY <2>2, <2>8, <2>9, TopIs, SetTopIs DEF Inv
    <2> QED
      BY <2>6, <2>8, <2>10 DEF Computing
  <1>3. ASSUME NEW k \in Key PROVE called'[k] \in {0, 1, Lost}
    BY <1>2, <1>3 DEF Once
  <1>4. ASSUME NEW k \in Key, called'[k] = 1, ~ Settled(k)'
        PROVE  \E u \in Thread : \E i \in DOMAIN stack'[u] : Computing(u, i, k)'
    BY <1>1, <1>2, <1>4 DEF Lost
  <1> QED
    BY <1>3, <1>4 DEF Once

\* As long as no entry is deleted and no callback fails to return a model, the callback of a name
\* runs at most once, for any number of threads and generations of its lock, when callbacks
\* retrieve along an order of the names.
THEOREM OnceEach ==
    ASSUME NEW rank \in [Key -> Nat], \A j, k \in Key : <<j, k>> \in Inner => rank[j] < rank[k]
    PROVE  Spec => []CallbackAtMostOnce
  <1> DEFINE Ordered == Rising(rank) /\ Once
  <1>1. Init => Ordered
    <2>1. Init => Rising(rank)
      BY DEF Init, InitState, Rising
    <2>2. Init => Once
      BY DEF Init, InitState, Once
    <2> QED
      BY <2>1, <2>2
  <1>2. Inv /\ Inv' /\ Ordered /\ [Next]_vars => Ordered'
    <2> SUFFICES ASSUME Inv, Inv', Ordered, [Next]_vars PROVE Ordered'
      OBVIOUS
    <2>1. ASSUME NEW t \in Thread, Run(t) PROVE Ordered'
      BY <2>1, RisingStays, OnceStays
    <2>2. ASSUME NEW t \in Thread, NEW op \in Operation, NEW k \in Key, Begin(t, op, k)
          PROVE  Ordered'
      <3>1. ASSUME NEW u \in Thread \ {t} PROVE stack'[u] = stack[u]
        BY <2>2, <3>1, OthersWait DEF Inv
      <3>2. DOMAIN stack[t] = {} /\ DOMAIN stack'[t] \subseteq {1}
        <4>1. PICK f : stack' = [stack EXCEPT ![t] = <<f>>]
          BY <2>2 DEF Begin
        <4>2. stack[t] = <<>> /\ stack'[t] = <<f>>
          BY <2>2, <4>1 DEF Begin, Idle, Inv, Types
        <4> QED
          BY <4>2
      <3>3. ASSUME NEW u \in Thread, NEW i \in DOMAIN stack'[u], NEW j \in DOMAIN stack'[u], i < j
            PROVE  u # t /\ stack'[u] = stack[u]
        BY <3>1, <3>2, <3>3
      <3>4. Rising(rank)'
        BY <3>3 DEF Rising
      <3>5. ASSUME NEW j \in Key, NEW u \in Thread, NEW i \in DOMAIN stack[u], Computing(u, i, j)
            PROVE  i \in DOMAIN stack'[u] /\ Computing(u, i, j)'
        BY <3>1, <3>2, <3>5 DEF Computing
      <3>6. Once'
        BY <2>2, <3>5 DEF Once, Settled, Begin
      <3> QED
        BY <3>4, <3>6
    <2>3. CASE UNCHANGED vars
      BY <2>3 DEF vars, Rising, Once, Computing, Settled
    <2> QED
      BY <2>1, <2>2, <2>3 DEF Next
  <1>3. Ordered => CallbackAtMostOnce
    BY DEF Once, CallbackAtMostOnce
  <1> QED
    BY <1>1, <1>2, <1>3, Invariant, PTL DEF Spec
===============================================================================
