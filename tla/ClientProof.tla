----------------------------- MODULE ClientProof ------------------------------
(***************************************************************************)
(* The client runtime keeps its types on every page: what it has still to   *)
(* do refers to executables that exist, whatever was inserted, parsed or    *)
(* removed since, and a callback that breaks always finds the executables   *)
(* on break of its completion.  Intervals keep their names.                 *)
(*                                                                         *)
(* The operations of the engine are kept in todo, so most of the proof is   *)
(* about lists: what an action pushes, what an exception drops.  So are     *)
(* hashes, which are lists of segments: what ClientUrl makes of them is     *)
(* proved here too, for every hash.                                         *)
(***************************************************************************)
EXTENDS ClientRuntime, FiniteSetTheorems, WellFoundedInduction, TLAPS

-------------------------------------------------------------------------------
(* Sequences *)

\* A sequence of whatever its elements are.
IsSeq(s) == s \in Seq({s[i] : i \in DOMAIN s})

\* A member of Seq(S) is a sequence.
LEMMA IsSeqDef ==
    ASSUME NEW S, NEW s \in Seq(S)
    PROVE  IsSeq(s)
  BY DEF IsSeq

\* The length and the domain of a sequence, and the sequence as a function.
LEMMA IsSeqDom ==
    ASSUME NEW s, IsSeq(s)
    PROVE  Len(s) \in Nat /\ DOMAIN s = 1..Len(s) /\ s = [i \in 1..Len(s) |-> s[i]]
  BY DEF IsSeq

\* A function on 1..n is a sequence of length n.
LEMMA IsSeqMake ==
    ASSUME NEW s, NEW n \in Nat, s = [i \in 1..n |-> s[i]]
    PROVE  IsSeq(s) /\ Len(s) = n
  BY DEF IsSeq

\* The empty tuple is the sequence without elements.
LEMMA IsSeqEmpty == IsSeq(<<>>) /\ Len(<<>>) = 0 /\ DOMAIN <<>> = {}
  BY DEF IsSeq

\* The elements of a concatenation, by position.
LEMMA IsSeqConcat ==
    ASSUME NEW s, NEW t, IsSeq(s), IsSeq(t)
    PROVE  /\ IsSeq(s \o t)
           /\ Len(s \o t) = Len(s) + Len(t)
           /\ DOMAIN (s \o t) = 1..(Len(s) + Len(t))
           /\ \A i \in 1..Len(s) : (s \o t)[i] = s[i]
           /\ \A i \in 1..Len(t) : (s \o t)[Len(s) + i] = t[i]
  <1> DEFINE S == {s[i] : i \in DOMAIN s} \cup {t[i] : i \in DOMAIN t}
  <1>1. s \in Seq(S) /\ t \in Seq(S)
    BY DEF IsSeq
  <1> HIDE DEF S
  <1>2. s \o t \in Seq(S)
    BY <1>1
  <1>3. IsSeq(s \o t)
    BY <1>2, IsSeqDef
  <1>4. Len(s \o t) = Len(s) + Len(t) /\ DOMAIN (s \o t) = 1..(Len(s) + Len(t))
    BY <1>1
  <1>5. \A i \in 1..Len(s) : (s \o t)[i] = s[i]
    BY <1>1
  <1>6. \A i \in 1..Len(t) : (s \o t)[Len(s) + i] = t[i]
    BY <1>1
  <1> QED
    BY <1>3, <1>4, <1>5, <1>6

\* Each element of s and of t is one of u.
HasBoth(s, t, u) ==
    /\ IsSeq(u)
    /\ \A k \in DOMAIN s : k \in DOMAIN u /\ u[k] = s[k]
    /\ \A k \in DOMAIN t : Len(s) + k \in DOMAIN u /\ u[Len(s) + k] = t[k]

\* A concatenation has the elements of both.
LEMMA ConcatAt ==
    ASSUME NEW s, NEW t, IsSeq(s), IsSeq(t)
    PROVE  HasBoth(s, t, s \o t)
  <1>1. PICK m, n : m = Len(s) /\ n = Len(t)
    OBVIOUS
  <1>2. m \in Nat /\ n \in Nat /\ DOMAIN s = 1..m /\ DOMAIN t = 1..n
    BY <1>1, IsSeqDom
  <1>3. PICK u : u = s \o t
    OBVIOUS
  <1>4. /\ IsSeq(u) /\ DOMAIN u = 1..(m + n)
        /\ \A i \in 1..m : u[i] = s[i]
        /\ \A i \in 1..n : u[m + i] = t[i]
    BY <1>1, <1>3, IsSeqConcat
  <1>5. HasBoth(s, t, u)
    BY <1>1, <1>2, <1>4 DEF HasBoth
  <1> QED
    BY <1>3, <1>5

\* The elements of a tail, by position.
LEMMA IsSeqTail ==
    ASSUME NEW s, IsSeq(s), s # <<>>
    PROVE  /\ IsSeq(Tail(s))
           /\ Len(s) > 0
           /\ Len(Tail(s)) = Len(s) - 1
           /\ \A i \in 1..(Len(s) - 1) : Tail(s)[i] = s[i + 1]
  <1> DEFINE S == {s[i] : i \in DOMAIN s}
  <1>1. s \in Seq(S)
    BY DEF IsSeq
  <1> HIDE DEF S
  <1>2. Tail(s) \in Seq(S)
    BY <1>1
  <1>3. IsSeq(Tail(s))
    BY <1>2, IsSeqDef
  <1>4. Len(s) > 0 /\ Len(Tail(s)) = Len(s) - 1
    BY <1>1
  <1>5. \A i \in 1..(Len(s) - 1) : Tail(s)[i] = s[i + 1]
    BY <1>1
  <1> QED
    BY <1>3, <1>4, <1>5

\* The elements of what follows position k, by position: After of the model.
LEMMA IsSeqSub ==
    ASSUME NEW s, IsSeq(s), NEW k \in 0..Len(s)
    PROVE  LET t == SubSeq(s, k + 1, Len(s))
           IN  /\ IsSeq(t)
               /\ Len(t) = Len(s) - k
               /\ \A i \in 1..(Len(s) - k) : t[i] = s[k + i]
  <1> DEFINE S == {s[i] : i \in DOMAIN s}
  <1>1. s \in Seq(S)
    BY DEF IsSeq
  <1> HIDE DEF S
  <1>0. Len(s) \in Nat /\ k \in Nat /\ k <= Len(s)
    BY <1>1
  <1>2. SubSeq(s, k + 1, Len(s)) \in Seq(S)
    BY <1>1, <1>0
  <1>3. IsSeq(SubSeq(s, k + 1, Len(s)))
    BY <1>2, IsSeqDef
  <1>4. Len(SubSeq(s, k + 1, Len(s))) = Len(s) - k
    BY <1>1, <1>0
  <1>5. \A i \in 1..(Len(s) - k) : SubSeq(s, k + 1, Len(s))[i] = s[k + i]
    BY <1>1, <1>0
  <1> QED
    BY <1>3, <1>4, <1>5

\* Tuples of one and two elements are sequences.
LEMMA IsSeqTuples ==
    /\ \A a : IsSeq(<<a>>) /\ Len(<<a>>) = 1 /\ <<a>>[1] = a
    /\ \A a, b : IsSeq(<<a, b>>) /\ Len(<<a, b>>) = 2
  BY DEF IsSeq

\* Every set of numbers that is not empty has a least member: what replaces induction here.
LEMMA SomeIsLeast ==
    ASSUME NEW D \in SUBSET Nat, D # {}
    PROVE  \E t \in D : \A u \in D : t <= u
  <1> DEFINE less == {ss \in Nat \X Nat : ss[1] < ss[2]}
  <1>1. IsWellFoundedOn(less, Nat)
    BY NatLessThanWellFounded DEF OpToRel
  <1>2. PICK t \in D : \A u \in D : ~ (<<u, t>> \in less)
    BY <1>1, WFMin
  <1>3. \A u \in D : ~ (u < t)
    BY <1>2
  <1> QED
    BY <1>3

\* s lists the numbers of S in order.
Listed(S, s) == /\ s \in [1..Cardinality(S) -> S]
                /\ \A i, j \in 1..Cardinality(S) : i < j => s[i] < s[j]

\* The numbers up to n that are in S can be listed in order.
LEMMA ListExists ==
    ASSUME NEW n \in Nat, NEW S \in SUBSET (1..n)
    PROVE  \E s : Listed(S, s)
  <1> DEFINE Bad == {m \in Nat : \E T \in SUBSET (1..m) : ~ \E s : Listed(T, s)}
  <1>1. ASSUME Bad # {} PROVE FALSE
    <2>1. PICK m \in Bad : \A u \in Bad : m <= u
      BY <1>1, SomeIsLeast
    <2>2. PICK T \in SUBSET (1..m) : ~ \E s : Listed(T, s)
      BY <2>1
    <2>fin. IsFiniteSet(T) /\ Cardinality(T) \in Nat
      <3>1. m \in Nat /\ T \in SUBSET Nat /\ \A t \in T : t <= m
        BY <2>1
      <3> QED
        BY <3>1, FS_BoundedSetOfNaturals, FS_CardinalityType
    <2>3. CASE m = 0
      <3>0. T = {}
        BY <2>3
      <3>1. T = {} /\ Cardinality(T) = 0
        BY <3>0, FS_EmptySet
      <3>2. Listed(T, [i \in 1..0 |-> 1])
        BY <3>1 DEF Listed
      <3> QED
        BY <2>2, <3>2
    <2>4. CASE m > 0
      <3> DEFINE U == T \ {m}
      <3>1. U \in SUBSET (1..(m-1)) /\ m - 1 \in Nat
        BY <2>1, <2>4
      <3>2. m - 1 \notin Bad
        BY <2>1, <3>1
      <3>3. PICK s : Listed(U, s)
        BY <3>1, <3>2
      <3>4. CASE m \notin T
        BY <3>4, <3>3, <2>2, U = T
      <3>5. CASE m \in T
        <4> DEFINE k == Cardinality(T)
                   t == [i \in 1..k |-> IF i = k THEN m ELSE s[i]]
        <4>1. Cardinality(U) = k - 1 /\ k \in Nat
          BY <3>5, <2>fin, FS_RemoveElement
        <4>2a. s \in [1..(k-1) -> U]
          BY <3>3, <4>1 DEF Listed
        <4>2b. \A u \in U : u < m
          BY <3>1, <2>1
        <4>2. \A i \in 1..(k-1) : s[i] \in U /\ s[i] < m
          BY <4>2a, <4>2b
        <4>3. t \in [1..k -> T]
          BY <4>2, <4>1, <3>5
        <4>4. ASSUME NEW i \in 1..k, NEW j \in 1..k, i < j PROVE t[i] < t[j]
          <5>1. CASE j = k
            BY <5>1, <4>4, <4>2, <4>1
          <5>2. CASE j # k
            <6>1. i \in 1..(k-1) /\ j \in 1..(k-1)
              BY <5>2, <4>4, <4>1
            <6>2. s[i] < s[j]
              BY <6>1, <4>4, <3>3, <4>1 DEF Listed
            <6> QED
              BY <6>1, <6>2, <4>1
          <5> QED
            BY <5>1, <5>2
        <4>5. Listed(T, t)
          BY <4>3, <4>4 DEF Listed
        <4> QED
          BY <4>5, <2>2
      <3> QED
        BY <3>4, <3>5
    <2> QED
      BY <2>1, <2>3, <2>4
  <1> QED
    BY <1>1

\* InOrder lists the members of S, each of them, in order.
LEMMA InOrderType ==
    ASSUME NEW n \in Nat, NEW S \in SUBSET (1..n)
    PROVE  /\ Cardinality(S) \in Nat
           /\ InOrder(S) \in [1..Cardinality(S) -> S]
           /\ \A i, j \in 1..Cardinality(S) : i < j => InOrder(S)[i] < InOrder(S)[j]
           /\ \A p \in S : \E i \in 1..Cardinality(S) : InOrder(S)[i] = p
  <1> DEFINE k == Cardinality(S)
  <1>fin. IsFiniteSet(S) /\ k \in Nat
    <2>1. S \in SUBSET Nat /\ \A s \in S : s <= n
      OBVIOUS
    <2> QED
      BY <2>1, FS_BoundedSetOfNaturals, FS_CardinalityType
  <1>1. PICK s : Listed(S, s)
    BY ListExists
  <1>2. s \in [1..k -> S]
    BY <1>1 DEF Listed
  <1>3. \A i, j \in 1..k : i < j => s[i] < s[j]
    BY <1>1 DEF Listed
  <1> HIDE DEF k
  <1>4. \A i \in 1..k : s[i] \in Nat /\ s[i] \in S
    <2>1. \A i \in 1..k : s[i] \in S
      BY <1>2
    <2>2. \A m \in S : m \in Nat
      OBVIOUS
    <2> QED
      BY <2>1, <2>2
  <1>5. \A i, j \in 1..k : s[i] < s[j] => i < j
    <2> SUFFICES ASSUME NEW i \in 1..k, NEW j \in 1..k, s[i] < s[j] PROVE i < j
      OBVIOUS
    <2>1. s[i] \in Nat /\ s[j] \in Nat /\ i \in Nat /\ j \in Nat
      BY <1>4
    <2>2. CASE j < i
      BY <1>3, <2>1, <2>2
    <2> QED
      BY <2>1, <2>2
  <1>6. \A i, j \in 1..k : i # j => s[i] # s[j]
    <2> SUFFICES ASSUME NEW i \in 1..k, NEW j \in 1..k, i # j PROVE s[i] # s[j]
      OBVIOUS
    <2>1. s[i] \in Nat /\ s[j] \in Nat /\ (i < j \/ j < i)
      BY <1>4
    <2> QED
      BY <1>3, <2>1
  <1>7. s \in Surjection(1..k, S)
    <2>1. IsFiniteSet(1..k) /\ Cardinality(1..k) = k
      BY <1>fin, FS_Interval
    <2>2. s \in Injection(1..k, S)
      BY <1>2, <1>6 DEF Injection, IsInjective
    <2> QED
      BY <1>fin, <2>1, <2>2, FS_Injection DEF k
  <1>8. \A p \in S : \E i \in 1..k : s[i] = p
    BY <1>7 DEF Surjection
  <1>9. \A i \in 1..k : Cardinality({m \in S : m < s[i]}) = i - 1
    <2> SUFFICES ASSUME NEW i \in 1..k PROVE Cardinality({m \in S : m < s[i]}) = i - 1
      OBVIOUS
    <2> DEFINE below == {m \in S : m < s[i]}
               g == [j \in 1..(i - 1) |-> s[j]]
    <2>1. i \in Nat /\ i - 1 \in Nat /\ \A j \in 1..(i - 1) : j \in 1..k /\ j < i
      BY <1>fin
    <2>2. \A j \in 1..(i - 1) : g[j] \in below
      BY <1>3, <1>4, <2>1
    <2>3. \A m \in below : \E j \in 1..(i - 1) : g[j] = m
      <3> SUFFICES ASSUME NEW m \in below PROVE \E j \in 1..(i - 1) : g[j] = m
        OBVIOUS
      <3>1. PICK j \in 1..k : s[j] = m
        BY <1>8
      <3>2. j < i
        BY <1>5, <3>1
      <3>3. j \in 1..(i - 1)
        BY <1>fin, <3>2
      <3> QED
        BY <3>1, <3>3
    <2>4. \A j, h \in 1..(i - 1) : g[j] = g[h] => j = h
      BY <1>6, <2>1
    <2>5. g \in Bijection(1..(i - 1), below)
      BY <2>2, <2>3, <2>4 DEF Bijection, Injection, IsInjective, Surjection
    <2> HIDE DEF below, g
    <2>6. ExistsBijection(1..(i - 1), below)
      BY <2>5 DEF ExistsBijection
    <2>7. Cardinality(below) = i - 1
      BY <2>1, <2>6, FS_CountingElements
    <2> QED
      BY <2>7 DEF below
  <1>10. \A i \in 1..k : InOrder(S)[i] = s[i]
    <2> SUFFICES ASSUME NEW i \in 1..k PROVE InOrder(S)[i] = s[i]
      OBVIOUS
    <2> DEFINE Rank(m) == Cardinality({l \in S : l < m})
    <2>1. \A m \in S : Rank(m) = i - 1 => m = s[i]
      <3> SUFFICES ASSUME NEW m \in S, Rank(m) = i - 1 PROVE m = s[i]
        OBVIOUS
      <3>1. PICK j \in 1..k : s[j] = m
        BY <1>8
      <3>2. Rank(m) = j - 1
        BY <1>9, <3>1
      <3> HIDE DEF Rank
      <3>3. i = j
        BY <3>2
      <3> QED
        BY <3>1, <3>3
    <2>2. s[i] \in S /\ Rank(s[i]) = i - 1
      BY <1>4, <1>9
    <2>3. InOrder(S)[i] = CHOOSE m \in S : Rank(m) = i - 1
      BY DEF InOrder, k
    <2> HIDE DEF Rank
    <2> QED
      BY <2>1, <2>2, <2>3
  <1>11. InOrder(S) = [i \in 1..k |-> InOrder(S)[i]]
    <2> DEFINE Nth(i) == CHOOSE m \in S : Cardinality({l \in S : l < m}) = i - 1
    <2>1. InOrder(S) = [i \in 1..k |-> Nth(i)]
      BY DEF InOrder, k
    <2> HIDE DEF Nth
    <2> QED
      BY <2>1
  <1>12. InOrder(S) \in [1..k -> S]
    BY <1>4, <1>10, <1>11
  <1>13. \A i, j \in 1..k : i < j => InOrder(S)[i] < InOrder(S)[j]
    BY <1>3, <1>10
  <1>14. \A p \in S : \E i \in 1..k : InOrder(S)[i] = p
    BY <1>8, <1>10
  <1> QED
    BY <1>fin, <1>12, <1>13, <1>14 DEF k

\* f[i] joins the first i sequences of ss.
Flat(ss, m, f) == f = [i \in 1..m |-> IF i = 1 THEN ss[i] ELSE f[i - 1] \o ss[i]]

\* The running concatenation by which FlattenSeq is defined exists.
LEMMA FlatExists ==
    ASSUME NEW ss, NEW n \in Nat, n > 0
    PROVE  \E f : Flat(ss, n, f)
  <1> DEFINE Bad == {m \in Nat : m > 0 /\ ~ \E f : Flat(ss, m, f)}
  <1>1. ASSUME Bad # {} PROVE FALSE
    <2>1. PICK m \in Bad : \A u \in Bad : m <= u
      BY <1>1, SomeIsLeast
    <2>2. CASE m = 1
      <3> DEFINE g == [i \in 1..1 |-> ss[i]]
      <3>1. g = [i \in 1..1 |-> IF i = 1 THEN ss[i] ELSE g[i - 1] \o ss[i]]
        OBVIOUS
      <3>2. Flat(ss, 1, g)
        BY <3>1 DEF Flat
      <3> QED
        BY <2>1, <2>2, <3>2
    <2>3. CASE m > 1
      <3>1. m - 1 \in Nat /\ m - 1 > 0 /\ ~ (m <= m - 1)
        BY <2>1, <2>3
      <3>2. m - 1 \notin Bad
        BY <2>1, <3>1
      <3>3. PICK f : Flat(ss, m - 1, f)
        BY <3>1, <3>2
      <3> DEFINE g == [i \in 1..m |-> IF i < m THEN f[i] ELSE f[m - 1] \o ss[m]]
      <3>3a. f = [i \in 1..(m - 1) |-> IF i = 1 THEN ss[i] ELSE f[i - 1] \o ss[i]]
        BY <3>3 DEF Flat
      <3>4. \A i \in 1..m : g[i] = IF i = 1 THEN ss[i] ELSE g[i - 1] \o ss[i]
        <4> SUFFICES ASSUME NEW i \in 1..m PROVE g[i] = IF i = 1 THEN ss[i] ELSE g[i - 1] \o ss[i]
          OBVIOUS
        <4>1. CASE i = m
          BY <4>1, <2>3
        <4>2. CASE i < m
          <5>1. i \in 1..(m - 1) /\ g[i] = f[i]
            BY <4>2
          <5>2. i # 1 => g[i - 1] = f[i - 1]
            BY <4>2
          <5>3. f[i] = IF i = 1 THEN ss[i] ELSE f[i - 1] \o ss[i]
            BY <5>1, <3>3a
          <5> QED
            BY <5>1, <5>2, <5>3
        <4> QED
          BY <4>1, <4>2
      <3>5. g = [i \in 1..m |-> IF i = 1 THEN ss[i] ELSE g[i - 1] \o ss[i]]
        <4> HIDE <3>3a
        <4> DEFINE h == [i \in 1..m |-> IF i = 1 THEN ss[i] ELSE g[i - 1] \o ss[i]]
        <4>1. \A i \in 1..m : g[i] = h[i]
          BY <3>4
        <4>2. g = [i \in 1..m |-> g[i]] /\ h = [i \in 1..m |-> h[i]]
          OBVIOUS
        <4> HIDE DEF g, h
        <4>3. g = h
          BY <4>1, <4>2
        <4> QED
          BY <4>3 DEF h
      <3>6. Flat(ss, m, g)
        BY <3>5 DEF Flat
      <3> QED
        BY <2>1, <3>6
    <2> QED
      BY <2>1, <2>2, <2>3
  <1> QED
    BY <1>1

\* The running concatenation is a sequence at every position.
LEMMA FlatType ==
    ASSUME NEW T, NEW ss \in Seq(Seq(T)), NEW f, Flat(ss, Len(ss), f)
    PROVE  \A i \in 1..Len(ss) : f[i] \in Seq(T)
  <1> DEFINE n == Len(ss)
             Bad == {m \in 1..n : f[m] \notin Seq(T)}
  <1>0. n \in Nat
    OBVIOUS
  <1>1. ASSUME Bad # {} PROVE FALSE
    <2>0. Bad \in SUBSET Nat
      BY <1>0
    <2>1. PICK m \in Bad : \A u \in Bad : m <= u
      BY <2>0, <1>1, SomeIsLeast
    <2>2. f[m] = IF m = 1 THEN ss[m] ELSE f[m - 1] \o ss[m]
      BY <2>1 DEF Flat
    <2>3. ss[m] \in Seq(T) /\ f[m] \notin Seq(T)
      BY <2>1
    <2>4. m # 1 => f[m - 1] \in Seq(T)
      <3>1. ASSUME m # 1 PROVE m - 1 \in 1..n /\ ~ (m <= m - 1)
        BY <2>1, <1>0, <3>1
      <3> QED
        BY <3>1, <2>1
    <2>5. CASE m = 1
      BY <2>2, <2>3, <2>5
    <2>6. CASE m # 1
      <3>1. f[m] = f[m - 1] \o ss[m] /\ f[m - 1] \in Seq(T)
        BY <2>2, <2>4, <2>6
      <3>2. f[m - 1] \o ss[m] \in Seq(T)
        BY <3>1, <2>3
      <3> QED
        BY <3>1, <3>2, <2>3
    <2> QED
      BY <2>5, <2>6
  <1> QED
    BY <1>1

\* FlattenSeq of sequences over T is a sequence over T.
LEMMA FlattenType ==
    ASSUME NEW T, NEW ss \in Seq(Seq(T))
    PROVE  FlattenSeq(ss) \in Seq(T)
  <1> DEFINE n == Len(ss)
             flatten == CHOOSE f : Flat(ss, n, f)
  <1>1. CASE n = 0
    <2>1. ss = <<>>
      BY <1>1
    <2>2. FlattenSeq(ss) = ss
      BY <1>1 DEF FlattenSeq
    <2>3. <<>> \in Seq(T)
      OBVIOUS
    <2> QED
      BY <2>1, <2>2, <2>3
  <1>2. CASE n # 0
    <2>1. n \in Nat /\ n > 0
      BY <1>2
    <2>2. Flat(ss, n, flatten)
      BY <2>1, FlatExists
    <2>3. FlattenSeq(ss) = flatten[n]
      BY <1>2 DEF FlattenSeq, Flat
    <2> HIDE DEF flatten
    <2>4. \A i \in 1..n : flatten[i] \in Seq(T)
      BY <2>2, FlatType
    <2>5. n \in 1..n
      BY <2>1
    <2> QED
      BY <2>3, <2>4, <2>5
  <1> QED
    BY <1>1, <1>2

\* FlattenSeq of sequences is a sequence.
LEMMA IsSeqFlatten ==
    ASSUME NEW ss, IsSeq(ss), \A i \in DOMAIN ss : IsSeq(ss[i])
    PROVE  IsSeq(FlattenSeq(ss))
  <1> DEFINE T == UNION {{ss[i][j] : j \in DOMAIN ss[i]} : i \in DOMAIN ss}
  <1>1. \A i \in DOMAIN ss : \A j \in DOMAIN ss[i] : ss[i][j] \in T
    OBVIOUS
  <1> HIDE DEF T
  <1>2. ASSUME NEW i \in DOMAIN ss PROVE ss[i] \in Seq(T)
    <2>1. PICK s : s = ss[i] /\ IsSeq(s)
      OBVIOUS
    <2>2. \A j \in DOMAIN s : s[j] \in T
      BY <1>1, <2>1
    <2>3. Len(s) \in Nat /\ DOMAIN s = 1..Len(s) /\ s = [j \in 1..Len(s) |-> s[j]]
      BY <2>1, IsSeqDom
    <2>4. s \in Seq(T)
      BY <2>2, <2>3
    <2> QED
      BY <2>1, <2>4
  <1>3. ss \in Seq(Seq(T))
    <2>1. Len(ss) \in Nat /\ DOMAIN ss = 1..Len(ss) /\ ss = [j \in 1..Len(ss) |-> ss[j]]
      BY IsSeqDom
    <2> QED
      BY <1>2, <2>1
  <1>4. FlattenSeq(ss) \in Seq(T)
    BY <1>3, FlattenType
  <1> QED
    BY <1>4, IsSeqDef

\* What FlattenSeq joins: the elements of each of the sequences.
LEMMA FlattenElements ==
    ASSUME NEW ss, IsSeq(ss), \A i \in DOMAIN ss : IsSeq(ss[i]), NEW t, t = FlattenSeq(ss)
    PROVE  /\ IsSeq(t)
           /\ \A n \in DOMAIN t : \E i \in DOMAIN ss : \E j \in DOMAIN ss[i] : t[n] = ss[i][j]
           /\ \A i \in DOMAIN ss : \A j \in DOMAIN ss[i] : \E n \in DOMAIN t : t[n] = ss[i][j]
  <1> DEFINE T == UNION {{ss[i][j] : j \in DOMAIN ss[i]} : i \in DOMAIN ss}
  <1>1. \A i \in DOMAIN ss : \A j \in DOMAIN ss[i] : ss[i][j] \in T
    OBVIOUS
  <1>2. \A a \in T : \E i \in DOMAIN ss : \E j \in DOMAIN ss[i] : a = ss[i][j]
    OBVIOUS
  <1> HIDE DEF T
  <1>3. PICK n : n = Len(ss)
    OBVIOUS
  <1>4. n \in Nat /\ DOMAIN ss = 1..n /\ ss = [i \in 1..n |-> ss[i]]
    BY <1>3, IsSeqDom
  <1>5. ASSUME NEW i \in 1..n PROVE ss[i] \in Seq(T)
    <2>1. PICK s : s = ss[i] /\ IsSeq(s)
      BY <1>4
    <2>2. \A j \in DOMAIN s : s[j] \in T
      BY <1>1, <1>4, <2>1
    <2>3. Len(s) \in Nat /\ DOMAIN s = 1..Len(s) /\ s = [j \in 1..Len(s) |-> s[j]]
      BY <2>1, IsSeqDom
    <2>4. s \in Seq(T)
      BY <2>2, <2>3
    <2> QED
      BY <2>1, <2>4
  <1>6. ss \in Seq(Seq(T))
    BY <1>4, <1>5
  <1>7. t \in Seq(T)
    BY <1>6, FlattenType
  <1>8. \A k \in DOMAIN t : \E i \in DOMAIN ss : \E j \in DOMAIN ss[i] : t[k] = ss[i][j]
    BY <1>2, <1>7
  <1>9. ASSUME NEW i \in 1..n, NEW j \in DOMAIN ss[i] PROVE \E k \in DOMAIN t : t[k] = ss[i][j]
    <2> DEFINE flatten == CHOOSE f : Flat(ss, n, f)
    <2>1. n > 0
      BY <1>4
    <2>2. Flat(ss, n, flatten)
      BY <1>4, <2>1, FlatExists
    <2>3. t = flatten[n]
      BY <1>3, <2>1 DEF FlattenSeq, Flat
    <2>4. PICK f : f = flatten
      OBVIOUS
    <2> HIDE DEF flatten
    <2>5. /\ \A m \in 1..n : f[m] = IF m = 1 THEN ss[m] ELSE f[m - 1] \o ss[m]
          /\ \A m \in 1..n : f[m] \in Seq(T)
      <3>1. Flat(ss, n, f)
        BY <2>2, <2>4
      <3> QED
        BY <1>3, <1>6, <3>1, FlatType DEF Flat
    <2> DEFINE Has(m) == \E k \in DOMAIN f[m] : f[m][k] = ss[i][j]
               Bad == {m \in i..n : ~ Has(m)}
    <2>6. Has(i)
      <3>1. CASE i = 1
        BY <2>5, <3>1
      <3>2. CASE i # 1
        <4>1. PICK g : g = f[i - 1] /\ IsSeq(g)
          <5>1. i - 1 \in 1..n
            BY <1>4, <3>2
          <5> QED
            BY <2>5, <5>1, IsSeqDef
        <4>2. PICK u : u = ss[i] /\ IsSeq(u)
          BY <1>4
        <4>3. f[i] = g \o u
          BY <2>5, <3>2, <4>1, <4>2
        <4>4. HasBoth(g, u, f[i])
          BY <4>1, <4>2, <4>3, ConcatAt, Zenon
        <4> QED
          BY <4>2, <4>4, Zenon DEF HasBoth
      <3> QED
        BY <3>1, <3>2
    <2>7. ASSUME Bad # {} PROVE FALSE
      <3>1. Bad \in SUBSET Nat
        BY <1>4
      <3>2. PICK m \in Bad : \A l \in Bad : m <= l
        <4> HIDE DEF Bad
        <4> QED
          BY <2>7, <3>1, SomeIsLeast
      <3>3. m \in i..n /\ ~ Has(m)
        OBVIOUS
      <3>4. m # i
        BY <2>6, <3>3
      <3>5. m - 1 \in i..n /\ ~ (m <= m - 1) /\ m - 1 \in 1..n /\ m \in 1..n /\ m # 1
        BY <1>4, <3>3, <3>4
      <3>6. Has(m - 1)
        <4>1. m - 1 \notin Bad
          BY <3>2, <3>5
        <4> HIDE DEF Has
        <4> QED
          BY <3>5, <4>1
      <3>7. PICK g, u : g = f[m - 1] /\ u = ss[m] /\ IsSeq(g) /\ IsSeq(u)
        BY <1>4, <2>5, <3>5, IsSeqDef
      <3>8. f[m] = g \o u
        BY <2>5, <3>5, <3>7
      <3>9. PICK k \in DOMAIN g : g[k] = ss[i][j]
        BY <3>6, <3>7
      <3>10. HasBoth(g, u, f[m])
        BY <3>7, <3>8, ConcatAt, Zenon
      <3> QED
        BY <3>3, <3>9, <3>10, Zenon DEF HasBoth
    <2>8. Has(n)
      <3>1. n \in i..n
        BY <1>4
      <3> HIDE DEF Has
      <3> QED
        BY <2>7, <3>1
    <2> QED
      BY <2>3, <2>4, <2>8
  <1> QED
    BY <1>4, <1>7, <1>8, <1>9, IsSeqDef

\* One sequence is joined to itself.
LEMMA FlattenOne ==
    ASSUME NEW ss, IsSeq(ss), Len(ss) = 1
    PROVE  FlattenSeq(ss) = ss[1]
  <1> DEFINE flatten == CHOOSE f : Flat(ss, 1, f)
  <1>1. Flat(ss, 1, flatten)
    BY FlatExists
  <1>2. FlattenSeq(ss) = flatten[1]
    BY DEF FlattenSeq, Flat
  <1> HIDE DEF flatten
  <1>3. flatten[1] = ss[1]
    BY <1>1 DEF Flat
  <1> QED
    BY <1>2, <1>3

-------------------------------------------------------------------------------
(* The inductive invariant *)

\* The executables of a runner are those its attribute lists.
IsRun(pg, q) ==
    /\ q = [name |-> q.name, incarnation |-> q.incarnation, event |-> q.event, result |-> q.result]
    /\ q.name \in DOMAIN pg.metas
    /\ q.incarnation \in Nat
    /\ q.event = [i \in DOMAIN pg.metas[q.name] |-> q.event[i]]
    /\ q.result = [i \in DOMAIN pg.metas[q.name] |-> q.result[i]]

\* Every element has a sequence of runners.
AreRuns(pg, rs) ==
    /\ rs = [e \in Element |-> rs[e]]
    /\ \A e \in Element : IsSeq(rs[e]) /\ \A r \in DOMAIN rs[e] : IsRun(pg, rs[e][r])

\* A step makes runners and never drops or renames one.
Grown(rs, rs2) ==
    \A e \in Element : \A r \in DOMAIN rs[e] :
        /\ r \in DOMAIN rs2[e]
        /\ rs2[e][r].name = rs[e][r].name
        /\ rs2[e][r].incarnation = rs[e][r].incarnation
        /\ DOMAIN rs2[e][r].event = DOMAIN rs[e][r].event

\* x is an executable of a runner that was made.
Executable(rs, x) ==
    /\ x[1] \in Element
    /\ x[2] \in DOMAIN rs[x[1]]
    /\ x[3] \in DOMAIN rs[x[1]][x[2]].event

\* An operation refers to what exists; the executables on break wait as callbacks.
OpOK(rs, o) ==
    /\ o.op \in {"execute", "run", "action", "callback", "caught", "complete", "send"} => Executable(rs, o.x)
    /\ o.op \in {"catch", "actions"} => o.e \in Element /\ o.r \in DOMAIN rs[o.e]
    /\ o.op = "dispatch" => o = [op |-> "dispatch", path |-> o.path, ev |-> o.ev]
    /\ o.op = "breakes" => /\ o = [op |-> "breakes", hasBreak |-> o.hasBreak, callbacks |-> o.callbacks]
                           /\ IsSeq(o.callbacks)
                           /\ \A i \in DOMAIN o.callbacks :
                                 LET c == o.callbacks[i]
                                 IN  c.op = "callback" /\ c.last /\ Executable(rs, c.x)

\* and so does each of a list.
OpsOK(rs, ops) == IsSeq(ops) /\ \A i \in DOMAIN ops : OpOK(rs, ops[i])

\* An executable of a completion that is not one of those on break.
InLoop(o) == o.op \in {"callback", "caught"} /\ ~ o.last

\* The executables on break follow.
LoopsEnd(ops) ==
    \A i \in DOMAIN ops : InLoop(ops[i]) => \E k \in DOMAIN ops : k > i /\ ops[k].op = "breakes"

\* The runner of an element is one of its present incarnation.
DomOK ==
    /\ node \in [Element -> Nat]
    /\ attr \in [Element -> DOMAIN page.metas \cup {""}]
    /\ runner \in [Element -> Nat]
    /\ \A e \in Element : runner[e] # 0 => /\ runner[e] \in DOMAIN runs[e]
                                           /\ runs[e][runner[e]].incarnation = node[e]

\* Handlers are kept in sequences.
BindsOK ==
    /\ binds = [e \in Element |-> binds[e]]
    /\ \A e \in Element : IsSeq(binds[e])
    /\ IsSeq(docBinds)

\* What waits for an answer, a time-out or a tick is an executable.
WaitingOK == \A w \in requests \cup timers \cup intervals : Executable(runs, w.x)

\* Numbers and bounds.
CountersOK ==
    /\ intervalIds \in [Id -> Nat]
    /\ clock \in Nat /\ events \in 0..page.events /\ ticks \in 0..MaxTicks
    /\ leaving \in BOOLEAN

\* The inductive invariant: TypeOK and what keeps it.
TypeInv ==
    /\ page \in Page
    /\ AreRuns(page, runs)
    /\ DomOK /\ BindsOK
    /\ OpsOK(runs, todo) /\ LoopsEnd(todo)
    /\ WaitingOK /\ CountersOK

-------------------------------------------------------------------------------
(* Selected executables *)

\* The list of executable i of S of runner r of e, for each i, in some order.
Lists(e, r, S, xs) ==
    /\ IsSeq(xs)
    /\ \A i \in DOMAIN xs : xs[i][3] \in S /\ xs[i] = <<e, r, xs[i][3]>>
    /\ \A p \in S : \E i \in DOMAIN xs : xs[i] = <<e, r, p>>

\* InOrder lists positions of s.
LEMMA InOrderSeq ==
    ASSUME NEW s, IsSeq(s), NEW S, S \subseteq DOMAIN s
    PROVE  /\ IsSeq(InOrder(S))
           /\ \A k \in DOMAIN InOrder(S) : InOrder(S)[k] \in S
           /\ \A p \in S : \E k \in DOMAIN InOrder(S) : InOrder(S)[k] = p
  <1>1. S \in SUBSET (1..Len(s)) /\ Len(s) \in Nat
    BY IsSeqDom
  <1>2. /\ Cardinality(S) \in Nat
        /\ InOrder(S) \in [1..Cardinality(S) -> S]
        /\ \A p \in S : \E i \in 1..Cardinality(S) : InOrder(S)[i] = p
    BY <1>1, InOrderType
  <1>3. InOrder(S) = [i \in 1..Cardinality(S) |-> InOrder(S)[i]]
    BY <1>2
  <1>4. IsSeq(InOrder(S))
    BY <1>2, <1>3, IsSeqMake
  <1> QED
    BY <1>2, <1>4

\* A function on the positions of a sequence is a sequence of the same length.
LEMMA Mapped ==
    ASSUME NEW s, IsSeq(s), NEW t, t = [i \in DOMAIN s |-> t[i]]
    PROVE  IsSeq(t) /\ Len(t) = Len(s)
  BY IsSeqDom, IsSeqMake

\* What Select returns for the positions S.
LEMMA SelectedLists ==
    ASSUME NEW metas, IsSeq(metas), NEW S, S \subseteq DOMAIN metas, NEW e, NEW r,
           NEW xs, xs = [i \in DOMAIN InOrder(S) |-> <<e, r, InOrder(S)[i]>>]
    PROVE  Lists(e, r, S, xs)
  <1> DEFINE at == InOrder(S)
  <1>1. /\ IsSeq(at)
        /\ \A k \in DOMAIN at : at[k] \in S
        /\ \A p \in S : \E k \in DOMAIN at : at[k] = p
    BY InOrderSeq
  <1> HIDE DEF at
  <1>2. xs = [i \in DOMAIN at |-> <<e, r, at[i]>>]
    BY DEF at
  <1>2a. xs = [i \in DOMAIN at |-> xs[i]]
    BY <1>2
  <1>3. IsSeq(xs)
    BY <1>1, <1>2a, Mapped
  <1>4. \A i \in DOMAIN xs : xs[i] = <<e, r, at[i]>> /\ xs[i][3] = at[i] /\ i \in DOMAIN at
    BY <1>2
  <1>5. \A i \in DOMAIN xs : xs[i][3] \in S /\ xs[i] = <<e, r, xs[i][3]>>
    BY <1>1, <1>4
  <1>6. \A p \in S : \E i \in DOMAIN xs : xs[i] = <<e, r, p>>
    BY <1>1, <1>2
  <1> QED
    BY <1>3, <1>5, <1>6 DEF Lists

\* The attribute runner r of e was made from.
MetasOf(e, r) == page.metas[runs[e][r].name]

\* What PageAssumption says of the page that was loaded.
LEMMA PageFacts ==
    ASSUME page \in Page
    PROVE  /\ Element \subseteq DOMAIN page.metas
           /\ page.order \in Seq(Element)
           /\ page.events \in Nat
           /\ \A name \in DOMAIN page.metas :
                 /\ IsSeq(page.metas[name])
                 /\ \A i \in DOMAIN page.metas[name] :
                       LET m == page.metas[name][i]
                       IN  /\ m.type = "Attach" => m.arg \in DOMAIN page.metas
                           /\ m.delay = "interval" => m.intervalId \in Id
  <1>1. IsPage(page)
    BY PageAssumption
  <1>2. /\ Element \subseteq DOMAIN page.metas
        /\ page.order \in Seq(Element)
        /\ page.events \in Nat
    BY <1>1, Zenon DEF IsPage
  <1>3. ASSUME NEW name \in DOMAIN page.metas
        PROVE  /\ page.metas[name] \in Seq(ToSet(page.metas[name]))
               /\ \A i \in DOMAIN page.metas[name] :
                     LET m == page.metas[name][i]
                     IN  /\ m.type = "Attach" => m.arg \in DOMAIN page.metas
                         /\ m.delay = "interval" => m.intervalId \in Id
    BY <1>1, Zenon DEF IsPage
  <1>4. ASSUME NEW name \in DOMAIN page.metas PROVE IsSeq(page.metas[name])
    BY <1>3, IsSeqDef
  <1> QED
    BY <1>2, <1>3, <1>4

\* A runner has an event and a result for each executable of its attribute.
LEMMA RunFacts ==
    ASSUME page \in Page, AreRuns(page, runs), NEW e \in Element, NEW r \in DOMAIN runs[e]
    PROVE  /\ runs[e][r].name \in DOMAIN page.metas
           /\ IsSeq(MetasOf(e, r))
           /\ DOMAIN runs[e][r].event = DOMAIN MetasOf(e, r)
           /\ DOMAIN runs[e][r].result = DOMAIN MetasOf(e, r)
  <1>1. IsRun(page, runs[e][r])
    BY DEF AreRuns
  <1> QED
    BY <1>1, PageFacts DEF IsRun, MetasOf

\* The lists of a runner and the positions they hold.
LEMMA BeforeLists ==
    ASSUME page \in Page, AreRuns(page, runs), NEW e \in Element, NEW r \in DOMAIN runs[e], NEW type
    PROVE  Lists(e, r, {i \in DOMAIN MetasOf(e, r) : /\ ListOf(MetasOf(e, r)[i], Before)
                                                     /\ type \in MetasOf(e, r)[i].onBind},
                 BeforeOf(e, r, type))
  <1> DEFINE S == {i \in DOMAIN MetasOf(e, r) : /\ ListOf(MetasOf(e, r)[i], Before)
                                                /\ type \in MetasOf(e, r)[i].onBind}
  <1>1. BeforeOf(e, r, type) = [i \in DOMAIN InOrder(S) |-> <<e, r, InOrder(S)[i]>>]
    BY DEF BeforeOf, Select, MetasOf
  <1>2. S \subseteq DOMAIN MetasOf(e, r) /\ IsSeq(MetasOf(e, r))
    BY RunFacts
  <1> QED
    BY <1>1, <1>2, SelectedLists

\* BreakesOf lists the executables on break whose onBind names the type.
LEMMA BreakesLists ==
    ASSUME page \in Page, AreRuns(page, runs), NEW e \in Element, NEW r \in DOMAIN runs[e], NEW type
    PROVE  Lists(e, r, {i \in DOMAIN MetasOf(e, r) : /\ ListOf(MetasOf(e, r)[i], Breakes)
                                                     /\ type \in MetasOf(e, r)[i].onBind},
                 BreakesOf(e, r, type))
  <1> DEFINE S == {i \in DOMAIN MetasOf(e, r) : /\ ListOf(MetasOf(e, r)[i], Breakes)
                                                /\ type \in MetasOf(e, r)[i].onBind}
  <1>1. BreakesOf(e, r, type) = [i \in DOMAIN InOrder(S) |-> <<e, r, InOrder(S)[i]>>]
    BY DEF BreakesOf, Select, MetasOf
  <1>2. S \subseteq DOMAIN MetasOf(e, r) /\ IsSeq(MetasOf(e, r))
    BY RunFacts
  <1> QED
    BY <1>1, <1>2, SelectedLists

\* ActionsOf lists the actions whose onBind names the type.
LEMMA ActionsLists ==
    ASSUME page \in Page, AreRuns(page, runs), NEW e \in Element, NEW r \in DOMAIN runs[e], NEW type
    PROVE  Lists(e, r, {i \in DOMAIN MetasOf(e, r) : /\ IsAction(MetasOf(e, r)[i])
                                                     /\ type \in MetasOf(e, r)[i].onBind},
                 ActionsOf(e, r, type))
  <1> DEFINE S == {i \in DOMAIN MetasOf(e, r) : /\ IsAction(MetasOf(e, r)[i])
                                                /\ type \in MetasOf(e, r)[i].onBind}
  <1>1. ActionsOf(e, r, type) = [i \in DOMAIN InOrder(S) |-> <<e, r, InOrder(S)[i]>>]
    BY DEF ActionsOf, Select, MetasOf
  <1>2. S \subseteq DOMAIN MetasOf(e, r) /\ IsSeq(MetasOf(e, r))
    BY RunFacts
  <1> QED
    BY <1>1, <1>2, SelectedLists

\* CallbacksOf lists the executables of a status with the onBind of the action.
LEMMA CallbacksLists ==
    ASSUME page \in Page, AreRuns(page, runs), NEW x, Executable(runs, x), NEW status
    PROVE  Lists(x[1], x[2], {i \in DOMAIN MetasOf(x[1], x[2]) :
                                 /\ ListOf(MetasOf(x[1], x[2])[i], status)
                                 /\ MetasOf(x[1], x[2])[i].onBind = Meta(x).onBind},
                 CallbacksOf(x, status))
  <1> DEFINE S == {i \in DOMAIN MetasOf(x[1], x[2]) :
                      /\ ListOf(MetasOf(x[1], x[2])[i], status)
                      /\ MetasOf(x[1], x[2])[i].onBind = Meta(x).onBind}
  <1>1. CallbacksOf(x, status) = [i \in DOMAIN InOrder(S) |-> <<x[1], x[2], InOrder(S)[i]>>]
    BY DEF CallbacksOf, Select, MetasOf
  <1>2. S \subseteq DOMAIN MetasOf(x[1], x[2]) /\ IsSeq(MetasOf(x[1], x[2]))
    BY RunFacts DEF Executable
  <1> QED
    BY <1>1, <1>2, SelectedLists

\* What is listed are executables of the runner.
LEMMA ListedExecutable ==
    ASSUME page \in Page, AreRuns(page, runs), NEW e \in Element, NEW r \in DOMAIN runs[e],
           NEW S, S \subseteq DOMAIN MetasOf(e, r), NEW xs, Lists(e, r, S, xs)
    PROVE  \A i \in DOMAIN xs : Executable(runs, xs[i]) /\ xs[i][1] = e /\ xs[i][2] = r
  BY RunFacts DEF Lists, Executable

\* What filterExecutableByEvent changes: the event of the executables it lets pass.
Stored(rs, rs2, e, r, at, ev) ==
    /\ Grown(rs, rs2)
    /\ \A d \in Element : DOMAIN rs2[d] = DOMAIN rs[d]
    /\ \A d \in Element : \A q \in DOMAIN rs[d] :
          /\ rs2[d][q].result = rs[d][q].result
          /\ \A i \in DOMAIN rs[d][q].event :
                rs2[d][q].event[i] = IF d = e /\ q = r /\ i \in at THEN ev ELSE rs[d][q].event[i]

\* StoreEvent changes the events of the listed executables and nothing else.
LEMMA StoreEventDoes ==
    ASSUME page \in Page, AreRuns(page, runs), NEW e \in Element, NEW r \in DOMAIN runs[e],
           NEW xs, IsSeq(xs), \A i \in DOMAIN xs : xs[i][1] = e /\ xs[i][2] = r, NEW ev,
           StoreEvent(xs, ev)
    PROVE  /\ AreRuns(page, runs')
           /\ Stored(runs, runs', e, r, {xs[i][3] : i \in DOMAIN xs}, ev)
  <1> DEFINE at == {xs[i][3] : i \in DOMAIN xs}
  <1>1. CASE xs = <<>>
    <2>1. runs' = runs
      BY <1>1 DEF StoreEvent
    <2>2. at = {}
      BY <1>1
    <2> QED
      BY <2>1, <2>2 DEF Stored, Grown
  <1>2. CASE xs # <<>>
    <2>0. xs[1][1] = e /\ xs[1][2] = r
      <3>1. 1 \in DOMAIN xs
        BY <1>2, IsSeqDom, IsSeqTail
      <3> QED
        BY <3>1
    <2> DEFINE q0 == runs[e][r]
               stored == [i \in DOMAIN q0.event |-> IF i \in at THEN ev ELSE q0.event[i]]
               q1 == [name |-> q0.name, incarnation |-> q0.incarnation, event |-> stored,
                      result |-> q0.result]
    <2>1. runs' = [runs EXCEPT ![e][r].event = stored]
      BY <1>2, <2>0 DEF StoreEvent
    <2> HIDE DEF at
    <2>2. IsRun(page, q0) /\ IsSeq(runs[e]) /\ runs = [d \in Element |-> runs[d]]
      BY DEF AreRuns
    <2>3. [q0 EXCEPT !.event = stored] = q1
      <3>1. q0 = [name |-> q0.name, incarnation |-> q0.incarnation, event |-> q0.event, result |-> q0.result]
        BY <2>2 DEF IsRun
      <3> HIDE DEF stored, q0
      <3>2. \A a, b, c, d, f : [[name |-> a, incarnation |-> b, event |-> c, result |-> d] EXCEPT !.event = f]
                               = [name |-> a, incarnation |-> b, event |-> f, result |-> d]
        OBVIOUS
      <3> QED
        BY <3>1, <3>2
    <2>4. runs' = [runs EXCEPT ![e] = [runs[e] EXCEPT ![r] = q1]]
      BY <2>1, <2>3
    <2>5. \A d \in Element \ {e} : runs'[d] = runs[d]
      BY <2>4, <2>2
    <2>6. runs'[e] = [runs[e] EXCEPT ![r] = q1]
      BY <2>4, <2>2
    <2>7. DOMAIN runs'[e] = DOMAIN runs[e] /\ runs'[e][r] = q1 /\ \A q \in DOMAIN runs[e] \ {r} : runs'[e][q] = runs[e][q]
      BY <2>6, <2>2
    <2>8. IsRun(page, q1)
      <3> HIDE DEF q0
      <3>1. q0.event = [i \in DOMAIN page.metas[q0.name] |-> q0.event[i]]
        BY <2>2 DEF IsRun
      <3>2. stored = [i \in DOMAIN page.metas[q0.name] |-> stored[i]]
        BY <3>1
      <3> HIDE DEF stored
      <3> QED
        BY <2>2, <3>2 DEF IsRun
    <2>9. IsSeq(runs'[e])
      <3>1. runs'[e] = [q \in DOMAIN runs[e] |-> runs'[e][q]]
        BY <2>6
      <3> QED
        BY <2>2, <3>1, Mapped
    <2>10. runs' = [d \in Element |-> runs'[d]]
      BY <2>4, <2>2
    <2>11. AreRuns(page, runs')
      <3>1. \A d \in Element : IsSeq(runs'[d]) /\ \A q \in DOMAIN runs'[d] : IsRun(page, runs'[d][q])
        <4> SUFFICES ASSUME NEW d \in Element
                     PROVE  IsSeq(runs'[d]) /\ \A q \in DOMAIN runs'[d] : IsRun(page, runs'[d][q])
          OBVIOUS
        <4> HIDE DEF q1, q0
        <4>1. CASE d = e
          BY <4>1, <2>7, <2>8, <2>9 DEF AreRuns
        <4>2. CASE d # e
          BY <4>2, <2>5 DEF AreRuns
        <4> QED
          BY <4>1, <4>2
      <3> QED
        BY <3>1, <2>10 DEF AreRuns
    <2>12. /\ q1.name = q0.name /\ q1.incarnation = q0.incarnation
           /\ q1.result = q0.result /\ DOMAIN q1.event = DOMAIN q0.event
           /\ \A i \in DOMAIN q0.event : q1.event[i] = IF i \in at THEN ev ELSE q0.event[i]
      OBVIOUS
    <2> HIDE DEF q1
    <2>13. Stored(runs, runs', e, r, at, ev)
      <3> SUFFICES ASSUME NEW d \in Element
                   PROVE  /\ DOMAIN runs'[d] = DOMAIN runs[d]
                          /\ \A q \in DOMAIN runs[d] :
                                /\ q \in DOMAIN runs'[d]
                                /\ runs'[d][q].name = runs[d][q].name
                                /\ runs'[d][q].incarnation = runs[d][q].incarnation
                                /\ DOMAIN runs'[d][q].event = DOMAIN runs[d][q].event
                                /\ runs'[d][q].result = runs[d][q].result
                                /\ \A i \in DOMAIN runs[d][q].event :
                                      runs'[d][q].event[i] = IF d = e /\ q = r /\ i \in at THEN ev
                                                             ELSE runs[d][q].event[i]
        BY Zenon DEF Stored, Grown
      <3>1. CASE d # e
        BY <3>1, <2>5
      <3>2. CASE d = e
        BY <3>2, <2>7, <2>12
      <3> QED
        BY <3>1, <3>2
    <2> QED
      BY <2>11, <2>13 DEF at
  <1> QED
    BY <1>1, <1>2

-------------------------------------------------------------------------------
(* What a step does to the runners *)

\* Nothing is dropped where nothing changes.
LEMMA GrownRefl ==
    ASSUME NEW rs
    PROVE  Grown(rs, rs)
  BY DEF Grown

\* Those lists elements of s, each one whose position is in S.
LEMMA ThoseSeq ==
    ASSUME NEW s, IsSeq(s), NEW S, S \subseteq DOMAIN s,
           NEW t, t = [k \in DOMAIN InOrder(S) |-> s[InOrder(S)[k]]]
    PROVE  /\ IsSeq(t)
           /\ \A k \in DOMAIN t : \E i \in S : t[k] = s[i]
           /\ \A i \in S : \E k \in DOMAIN t : t[k] = s[i]
  <1> DEFINE at == InOrder(S)
  <1>1. /\ IsSeq(at)
        /\ \A k \in DOMAIN at : at[k] \in S
        /\ \A p \in S : \E k \in DOMAIN at : at[k] = p
    BY InOrderSeq
  <1> HIDE DEF at
  <1>2. t = [k \in DOMAIN at |-> s[at[k]]]
    BY DEF at
  <1>3. t = [k \in DOMAIN at |-> t[k]]
    BY <1>2
  <1>4. IsSeq(t)
    BY <1>1, <1>3, Mapped
  <1> QED
    BY <1>1, <1>2, <1>4

\* Which elements are parsed.
LEMMA UnparsedSeq ==
    ASSUME page \in Page, NEW context
    PROVE  /\ IsSeq(Unparsed(context))
           /\ \A k \in DOMAIN Unparsed(context) :
                 LET e == Unparsed(context)[k]
                 IN  e \in Element /\ node[e] > 0 /\ attr[e] # ""
  <1> DEFINE order == page.order
             S == {i \in DOMAIN order :
                      /\ node[order[i]] > 0 /\ attr[order[i]] # ""
                      /\ \/ context = "document" \/ order[i] = context \/ order[i] \in Inside(context)}
             es == Unparsed(context)
  <1>1. es = [k \in DOMAIN InOrder(S) |-> order[InOrder(S)[k]]]
    BY DEF Unparsed, Those
  <1>2. IsSeq(order) /\ order \in Seq(Element) /\ S \subseteq DOMAIN order
    BY PageFacts, IsSeqDef
  <1>3b. \A i \in S : node[order[i]] > 0 /\ attr[order[i]] # ""
    OBVIOUS
  <1> HIDE DEF S, order, es
  <1>3a. \A i \in DOMAIN order : order[i] \in Element
    BY <1>2
  <1>3. \A i \in S : order[i] \in Element /\ node[order[i]] > 0 /\ attr[order[i]] # ""
    BY <1>2, <1>3a, <1>3b
  <1>4. IsSeq(es) /\ \A k \in DOMAIN es : \E i \in S : es[k] = order[i]
    <2>1. /\ IsSeq(es)
          /\ \A k \in DOMAIN es : \E i \in S : es[k] = order[i]
          /\ \A i \in S : \E k \in DOMAIN es : es[k] = order[i]
      <3>1. IsSeq(order) /\ S \subseteq DOMAIN order
        BY <1>2
      <3> QED
        BY <1>1, <3>1, ThoseSeq
    <2> QED
      BY <2>1
  <1>5. IsSeq(es) /\ \A k \in DOMAIN es : es[k] \in Element /\ node[es[k]] > 0 /\ attr[es[k]] # ""
    BY <1>3, <1>4
  <1> QED
    BY <1>5 DEF es

\* The elements after an Append, by position.
LEMMA IsSeqAppend ==
    ASSUME NEW s, IsSeq(s), NEW a
    PROVE  /\ IsSeq(Append(s, a))
           /\ DOMAIN Append(s, a) = 1..(Len(s) + 1)
           /\ Len(s) + 1 \in DOMAIN Append(s, a)
           /\ \A i \in DOMAIN s : i \in DOMAIN Append(s, a) /\ Append(s, a)[i] = s[i]
           /\ Append(s, a)[Len(s) + 1] = a
  <1> DEFINE S == {s[i] : i \in DOMAIN s} \cup {a}
  <1>1. s \in Seq(S) /\ a \in S
    BY DEF IsSeq
  <1> HIDE DEF S
  <1>2. Append(s, a) \in Seq(S)
    BY <1>1
  <1>3. IsSeq(Append(s, a))
    BY <1>2, IsSeqDef
  <1>4. DOMAIN Append(s, a) = 1..(Len(s) + 1) /\ Len(s) \in Nat /\ DOMAIN s = 1..Len(s)
    BY <1>1
  <1>5. \A i \in 1..Len(s) : Append(s, a)[i] = s[i]
    BY <1>1
  <1>6. Append(s, a)[Len(s) + 1] = a
    BY <1>1
  <1> QED
    BY <1>3, <1>4, <1>5, <1>6

\* What parse adds to the runners.
Parsed(rs, rs2, S) ==
    \A e \in Element :
        /\ e \notin S => rs2[e] = rs[e]
        /\ e \in S =>
              /\ DOMAIN rs2[e] = DOMAIN rs[e] \cup {Len(rs[e]) + 1}
              /\ \A r \in DOMAIN rs[e] : rs2[e][r] = rs[e][r]
              /\ rs2[e][Len(rs[e]) + 1].incarnation = node[e]
              /\ rs2[e][Len(rs[e]) + 1].name = attr[e]
              /\ \A i \in DOMAIN page.metas[attr[e]] :
                    /\ rs2[e][Len(rs[e]) + 1].event[i] = NoEvent
                    /\ rs2[e][Len(rs[e]) + 1].result[i] = NoData

\* parse appends a runner to each element it finds and keeps those that are there.
LEMMA ParseRuns ==
    ASSUME page \in Page, AreRuns(page, runs), DomOK, ParseContext
    PROVE  /\ AreRuns(page, runs')
           /\ Grown(runs, runs')
           /\ Parsed(runs, runs', ToSet(Unparsed(todo[1].context)))
  <1> DEFINE es == Unparsed(todo[1].context)
             S == ToSet(es)
             New(e) == [name |-> attr[e], incarnation |-> node[e],
                        event |-> [i \in DOMAIN page.metas[attr[e]] |-> NoEvent],
                        result |-> [i \in DOMAIN page.metas[attr[e]] |-> NoData]]
  <1>1. runs' = [e \in Element |-> IF e \in S THEN Append(runs[e], New(e)) ELSE runs[e]]
    BY DEF ParseContext
  <1>2. \A e \in S : e \in Element /\ attr[e] # ""
    BY UnparsedSeq DEF ToSet
  <1> HIDE DEF S
  <1>3. ASSUME NEW e \in S
        PROVE  /\ IsRun(page, New(e))
               /\ New(e).name = attr[e] /\ New(e).incarnation = node[e]
               /\ \A i \in DOMAIN page.metas[attr[e]] : New(e).event[i] = NoEvent /\ New(e).result[i] = NoData
    <2>1. attr[e] \in DOMAIN page.metas /\ node[e] \in Nat
      BY <1>2 DEF DomOK
    <2> QED
      BY <2>1 DEF IsRun
  <1> HIDE DEF New
  <1>4. ASSUME NEW e \in Element
        PROVE  /\ IsSeq(runs[e]) /\ \A r \in DOMAIN runs[e] : IsRun(page, runs[e][r])
               /\ Len(runs[e]) \in Nat /\ DOMAIN runs[e] = 1..Len(runs[e])
    BY IsSeqDom DEF AreRuns
  <1>5. ASSUME NEW e \in Element, e \notin S
        PROVE  runs'[e] = runs[e]
    BY <1>1, <1>5
  <1>6. ASSUME NEW e \in S
        PROVE  /\ IsSeq(runs'[e])
               /\ DOMAIN runs'[e] = DOMAIN runs[e] \cup {Len(runs[e]) + 1}
               /\ \A r \in DOMAIN runs[e] : runs'[e][r] = runs[e][r]
               /\ runs'[e][Len(runs[e]) + 1] = New(e)
    <2>1. e \in Element /\ runs'[e] = Append(runs[e], New(e))
      BY <1>1, <1>2
    <2>2. 1..(Len(runs[e]) + 1) = 1..Len(runs[e]) \cup {Len(runs[e]) + 1}
      BY <1>4, <2>1
    <2> QED
      BY <2>1, <2>2, <1>4, IsSeqAppend
  <1>7. AreRuns(page, runs')
    <2>1. runs' = [e \in Element |-> runs'[e]]
      BY <1>1
    <2>2. ASSUME NEW e \in Element
          PROVE  IsSeq(runs'[e]) /\ \A r \in DOMAIN runs'[e] : IsRun(page, runs'[e][r])
      <3>1. CASE e \in S
        BY <3>1, <1>3, <1>4, <1>6
      <3>2. CASE e \notin S
        BY <3>2, <1>4, <1>5
      <3> QED
        BY <3>1, <3>2
    <2> QED
      BY <2>1, <2>2 DEF AreRuns
  <1>8. Grown(runs, runs')
    <2> SUFFICES ASSUME NEW e \in Element, NEW r \in DOMAIN runs[e]
                 PROVE  r \in DOMAIN runs'[e] /\ runs'[e][r] = runs[e][r]
      BY Zenon DEF Grown
    <2> QED
      BY <1>5, <1>6
  <1>9. Parsed(runs, runs', S)
    BY <1>3, <1>5, <1>6 DEF Parsed
  <1> QED
    BY <1>7, <1>8, <1>9 DEF S

-------------------------------------------------------------------------------
(* Hashes *)

\* A text is a sequence.
LEMMA TextIs ==
    ASSUME NEW v
    PROVE  IsText(v) <=> IsSeq(v)
  BY DEF IsText, IsSeq, ToSet

\* A hash is a sequence of segments.
LEMMA HashIs ==
    ASSUME NEW h, IsHash(h)
    PROVE  IsSeq(h) /\ \A i \in DOMAIN h : IsSegment(h[i])
  <1>1. \A i \in DOMAIN h : h[i] \in ToSet(h)
    BY DEF ToSet
  <1>2. IsSeq(h)
    BY DEF IsHash, IsSeq, ToSet
  <1> QED
    BY <1>1, <1>2 DEF IsHash

\* A sequence of segments is a hash.
LEMMA HashMade ==
    ASSUME NEW h, IsSeq(h), \A i \in DOMAIN h : IsSegment(h[i])
    PROVE  IsHash(h)
  BY DEF IsSeq, ToSet, IsHash

\* No hash is one.
LEMMA NoHashIsHash == IsHash(NoHash)
  <1>1. NoHash \in Seq(ToSet(NoHash)) /\ ToSet(NoHash) = {}
    BY DEF NoHash, ToSet
  <1> QED
    BY <1>1 DEF IsHash

\* The prefixes, root first.
LEMMA PrefixFacts ==
    /\ IsSeq(PrefixOrder) /\ 1 \in DOMAIN PrefixOrder /\ PrefixOrder[1] = "root"
    /\ \A i \in DOMAIN PrefixOrder : PrefixOrder[i] \in ToSet(PrefixOrder)
    /\ \A p \in ToSet(PrefixOrder) : \E i \in DOMAIN PrefixOrder : PrefixOrder[i] = p
  <1>1. IsSeq(PrefixOrder)
    BY PrefixAssumption DEF IsSeq, ToSet
  <1>2. Len(PrefixOrder) > 0 /\ DOMAIN PrefixOrder = 1..Len(PrefixOrder) /\ Len(PrefixOrder) \in Nat
    BY <1>1, IsSeqDom, IsSeqTail, PrefixAssumption
  <1> QED
    BY <1>1, <1>2, PrefixAssumption DEF ToSet

\* What a text is turned into piece by piece: escaped, or decoded when all of it decodes.
Escape(x) == IF x = "reserved" THEN "reservedEscaped" ELSE x

\* Pieces changes each piece in its place.
LEMMA PiecesAre ==
    ASSUME NEW v, IsSeq(v)
    PROVE  /\ IsSeq(UrlEncode(v)) /\ UrlEncode(v) = [i \in DOMAIN v |-> Escape(v[i])]
           /\ IsSeq(DecodePair(v))
           /\ DecodePair(v) = IF "percent" \in ToSet(v) THEN v ELSE [i \in DOMAIN v |-> DecodePiece(v[i])]
  <1>1. UrlEncode(v) = [i \in DOMAIN v |-> Escape(v[i])]
    BY DEF UrlEncode, Pieces, Escape
  <1>2. DecodePair(v) = IF "percent" \in ToSet(v) THEN v ELSE [i \in DOMAIN v |-> DecodePiece(v[i])]
    BY DEF DecodePair, Pieces
  <1>3. \A t : t = [i \in DOMAIN v |-> t[i]] => IsSeq(t)
    BY Mapped
  <1>4. IsSeq(UrlEncode(v))
    <2>1. PICK t : t = UrlEncode(v)
      OBVIOUS
    <2>2. t = [i \in DOMAIN v |-> t[i]]
      BY <1>1, <2>1
    <2> QED
      BY <1>3, <2>1, <2>2
  <1>5. IsSeq(DecodePair(v))
    <2>1. PICK t : t = [i \in DOMAIN v |-> DecodePiece(v[i])]
      OBVIOUS
    <2>2. t = [i \in DOMAIN v |-> t[i]]
      BY <2>1
    <2> QED
      BY <1>2, <1>3, <2>1, <2>2
  <1> QED
    BY <1>1, <1>2, <1>4, <1>5

\* Escaping makes a text of a text, which ends in ! if it did.
LEMMA EncodedText ==
    ASSUME NEW v, IsText(v)
    PROVE  IsText(UrlEncode(v)) /\ (EndsInBang(UrlEncode(v)) <=> EndsInBang(v))
  <1>1. PICK t : t = UrlEncode(v)
    OBVIOUS
  <1>2. IsSeq(v) /\ IsSeq(t)
    BY <1>1, TextIs, PiecesAre
  <1>3. DOMAIN t = DOMAIN v /\ \A i \in DOMAIN v : t[i] = Escape(v[i])
    <2>1. t = [i \in DOMAIN v |-> Escape(v[i])]
      BY <1>1, <1>2, PiecesAre
    <2> QED
      BY <2>1
  <1>4. EndsInBang(t) <=> EndsInBang(v)
    <2>1. \A x : Escape(x) = "bang" <=> x = "bang"
      BY DEF Escape
    <2> QED
      BY <1>3, <2>1 DEF EndsInBang
  <1> QED
    BY <1>1, <1>2, <1>4, TextIs

\* Values that are encoded, once or twice, and read back.
LEMMA Decoded ==
    ASSUME NEW v, IsText(v), ~ Odd(v)
    PROVE  DecodePair(UrlEncode(v)) = v /\ DecodePair(UrlEncode(UrlEncode(v))) = v
  <1>1. PICK t : t = UrlEncode(v)
    OBVIOUS
  <1>2. IsSeq(v) /\ IsSeq(t)
    BY <1>1, TextIs, PiecesAre
  <1>3. v = [i \in DOMAIN v |-> v[i]]
    BY <1>2, IsSeqDom
  <1>4. t = [i \in DOMAIN v |-> Escape(v[i])]
    BY <1>1, <1>2, PiecesAre
  <1>5. DOMAIN t = DOMAIN v /\ \A i \in DOMAIN v : t[i] = Escape(v[i])
    BY <1>4
  <1>6. UrlEncode(t) = t
    <2>1. PICK u : u = UrlEncode(t)
      OBVIOUS
    <2>2. u = [i \in DOMAIN t |-> Escape(t[i])]
      BY <1>2, <2>1, PiecesAre
    <2>3. \A x : Escape(Escape(x)) = Escape(x)
      BY DEF Escape
    <2>4. \A i \in DOMAIN v : Escape(t[i]) = Escape(v[i])
      BY <1>5, <2>3
    <2>5. u = [i \in DOMAIN v |-> Escape(v[i])]
      BY <1>5, <2>2, <2>4
    <2> QED
      BY <1>4, <2>1, <2>5
  <1>7. "percent" \in ToSet(t) <=> "percent" \in ToSet(v)
    <2>1. \A x : Escape(x) = "percent" <=> x = "percent"
      BY DEF Escape
    <2> QED
      BY <1>5, <2>1 DEF ToSet
  <1>8. CASE "percent" \in ToSet(v)
    <2>1. \A i \in DOMAIN v : v[i] # "reserved"
      BY <1>8 DEF Odd, ToSet
    <2>2. \A i \in DOMAIN v : Escape(v[i]) = v[i]
      BY <2>1 DEF Escape
    <2>3. t = v
      BY <1>3, <1>4, <2>2
    <2>4. DecodePair(v) = v
      BY <1>2, <1>8, PiecesAre
    <2> QED
      BY <1>1, <1>6, <2>3, <2>4
  <1>9. CASE "percent" \notin ToSet(v)
    <2>1. DecodePair(t) = [i \in DOMAIN t |-> DecodePiece(t[i])]
      BY <1>2, <1>7, <1>9, PiecesAre
    <2>2. \A i \in DOMAIN v : v[i] \notin OddPieces
      BY DEF Odd, ToSet
    <2>3. \A x : x \notin OddPieces => DecodePiece(Escape(x)) = x
      BY DEF OddPieces, DecodePiece, Escape
    <2>4. \A i \in DOMAIN v : DecodePiece(t[i]) = v[i]
      BY <1>5, <2>2, <2>3
    <2>5. DecodePair(t) = [i \in DOMAIN v |-> v[i]]
      BY <1>5, <2>1, <2>4
    <2> QED
      BY <1>1, <1>3, <1>6, <2>5
  <1> QED
    BY <1>8, <1>9

\* What a segment says of a parameter is a text.
LEMMA ValueText ==
    ASSUME NEW s, IsSegment(s), NEW k
    PROVE  IsText(ValueIn(s, k))
  <1>1. IsText(Empty)
    BY IsSeqEmpty, TextIs DEF Empty
  <1>2. ASSUME k \in DOMAIN s.params PROVE IsText(DecodePair(s.params[k]))
    <2>1. IsText(s.params[k])
      BY <1>2 DEF IsSegment
    <2> QED
      BY <2>1, TextIs, PiecesAre
  <1> QED
    BY <1>1, <1>2 DEF ValueIn

\* Where a parameter is, and the last of those.
KeyAt(h, p, k) == {i \in DOMAIN h : h[i].prefix = p /\ k \in ToSet(KeysOf(h[i]))}
LatestOf(S) == CHOOSE i \in S : \A j \in S : j <= i

\* There is a last one.
LEMMA LatestIs ==
    ASSUME NEW h, IsSeq(h), NEW p, NEW k, KeyAt(h, p, k) # {}
    PROVE  LatestOf(KeyAt(h, p, k)) \in KeyAt(h, p, k)
  <1> DEFINE S == KeyAt(h, p, k)
  <1>1. PICK n \in Nat : DOMAIN h = 1..n
    BY IsSeqDom
  <1>2. S \subseteq 1..n
    BY <1>1 DEF KeyAt
  <1> DEFINE D == {n - i : i \in S}
  <1> HIDE DEF S
  <1>3. D \in SUBSET Nat /\ D # {}
    BY <1>2 DEF S
  <1>4. PICK t \in D : \A u \in D : t <= u
    <2> HIDE DEF D
    <2> QED
      BY <1>3, SomeIsLeast
  <1>5. PICK i \in S : t = n - i
    OBVIOUS
  <1>6. \A j \in S : j <= i
    <2> SUFFICES ASSUME NEW j \in S PROVE j <= i
      OBVIOUS
    <2>1. t <= n - j /\ i \in 1..n /\ j \in 1..n
      BY <1>2, <1>4
    <2> QED
      BY <1>5, <2>1
  <1>7. LatestOf(S) \in S
    BY <1>6 DEF LatestOf
  <1> QED
    BY <1>7 DEF S

\* What a hash is parsed to.
LEMMA ParseIs ==
    ASSUME NEW h
    PROVE  Parse(h) = [pk \in UNION {{h[i].prefix} \X ToSet(KeysOf(h[i])) : i \in DOMAIN h} |->
                          ValueIn(h[LatestOf(KeyAt(h, pk[1], pk[2]))], pk[2])]
  BY DEF Parse, KeyAt, LatestOf

\* The parameters of a hash.
LEMMA ParseDomain ==
    ASSUME NEW h
    PROVE  /\ Parse(h) = [pk \in DOMAIN Parse(h) |-> Parse(h)[pk]]
           /\ \A pk \in DOMAIN Parse(h) :
                 /\ pk = <<pk[1], pk[2]>>
                 /\ \E i \in DOMAIN h : h[i].prefix = pk[1] /\ pk[2] \in ToSet(KeysOf(h[i]))
           /\ \A i \in DOMAIN h : \A k \in ToSet(KeysOf(h[i])) : <<h[i].prefix, k>> \in DOMAIN Parse(h)
  <1> DEFINE K(i) == ToSet(KeysOf(h[i]))
             D == UNION {{h[i].prefix} \X K(i) : i \in DOMAIN h}
  <1>1. DOMAIN Parse(h) = D /\ Parse(h) = [pk \in DOMAIN Parse(h) |-> Parse(h)[pk]]
    BY ParseIs
  <1> HIDE DEF K
  <1>2. ASSUME NEW pk \in D
        PROVE  pk = <<pk[1], pk[2]>> /\ \E i \in DOMAIN h : h[i].prefix = pk[1] /\ pk[2] \in K(i)
    <2>1. PICK i \in DOMAIN h : pk \in {h[i].prefix} \X K(i)
      OBVIOUS
    <2> QED
      BY <2>1
  <1>3. ASSUME NEW i \in DOMAIN h, NEW k \in K(i) PROVE <<h[i].prefix, k>> \in D
    <2>1. <<h[i].prefix, k>> \in {h[i].prefix} \X K(i)
      OBVIOUS
    <2> QED
      BY <2>1
  <1> HIDE DEF D
  <1> QED
    BY <1>1, <1>2, <1>3 DEF K

\* The value of a parameter is read from one of its segments.
LEMMA ParseAt ==
    ASSUME NEW h, IsSeq(h), NEW p, NEW k, <<p, k>> \in DOMAIN Parse(h)
    PROVE  \E i \in DOMAIN h : /\ h[i].prefix = p /\ k \in ToSet(KeysOf(h[i]))
                               /\ Parse(h)[<<p, k>>] = ValueIn(h[i], k)
  <1>1. PICK i \in DOMAIN h : h[i].prefix = p /\ k \in ToSet(KeysOf(h[i]))
    BY ParseDomain
  <1>2. KeyAt(h, p, k) # {}
    BY <1>1 DEF KeyAt
  <1>3. LatestOf(KeyAt(h, p, k)) \in KeyAt(h, p, k)
    BY <1>2, LatestIs
  <1>4. Parse(h)[<<p, k>>] = ValueIn(h[LatestOf(KeyAt(h, p, k))], k)
    BY ParseIs
  <1> QED
    BY <1>3, <1>4 DEF KeyAt

\* The keys of a segment are a sequence, and there is one.
LEMMA KeysOfIs ==
    ASSUME NEW s, IsSegment(s)
    PROVE  IsSeq(KeysOf(s))
  <1>1. IsSeq(s.keys)
    BY TextIs DEF IsSegment
  <1>2. \A a : IsSeq(<<a>> \o s.keys)
    BY <1>1, IsSeqTuples, IsSeqConcat
  <1>3. IsSeq(<<NoKey>>)
    BY IsSeqTuples, Zenon
  <1> QED
    BY <1>1, <1>2, <1>3, Zenon DEF KeysOf

\* The parameters that a hash can be made of, and the order in which they are written.
IsParam(pk, value) == pk = <<pk[1], pk[2]>> /\ pk[1] \in ToSet(PrefixOrder) /\ IsText(value)
IsFparams(fp) ==
    /\ IsSeq(fp.order) /\ \A n \in DOMAIN fp.order : fp.order[n] \in DOMAIN fp.value
    /\ \A pk \in DOMAIN fp.value :
          IsParam(pk, fp.value[pk]) /\ \E n \in DOMAIN fp.order : fp.order[n] = pk

\* The order in which the parameters of a hash are met.
LEMMA OrderIs ==
    ASSUME NEW h, IsHash(h), NEW order, order = Fparams(h).order
    PROVE  /\ IsSeq(order) /\ \A n \in DOMAIN order : order[n] \in DOMAIN Parse(h)
           /\ \A pk \in DOMAIN Parse(h) : \E n \in DOMAIN order : order[n] = pk
  <1> DEFINE Of(i) == [n \in DOMAIN KeysOf(h[i]) |-> <<h[i].prefix, KeysOf(h[i])[n]>>]
             lists == [i \in DOMAIN h |-> Of(i)]
             all == FlattenSeq(lists)
             S == {n \in DOMAIN all : \A m \in 1..(n - 1) : all[m] # all[n]}
  <1>1. order = [n \in DOMAIN InOrder(S) |-> all[InOrder(S)[n]]]
    BY DEF Fparams
  <1>2. IsSeq(h) /\ \A i \in DOMAIN h : IsSegment(h[i])
    BY HashIs
  <1>3. ASSUME NEW i \in DOMAIN h
        PROVE  /\ IsSeq(Of(i))
               /\ \A n \in DOMAIN Of(i) : Of(i)[n] \in DOMAIN Parse(h)
               /\ \A k \in ToSet(KeysOf(h[i])) : \E n \in DOMAIN Of(i) : Of(i)[n] = <<h[i].prefix, k>>
    <2>1. PICK ks, of : ks = KeysOf(h[i]) /\ of = Of(i)
      OBVIOUS
    <2>2. IsSeq(ks)
      BY <1>2, <2>1, KeysOfIs
    <2>3. of = [n \in DOMAIN ks |-> <<h[i].prefix, ks[n]>>]
      BY <2>1
    <2>4. of = [n \in DOMAIN ks |-> of[n]] /\ DOMAIN of = DOMAIN ks /\ \A n \in DOMAIN ks : of[n] = <<h[i].prefix, ks[n]>>
      BY <2>3
    <2>5. IsSeq(of)
      BY <2>2, <2>4, Mapped
    <2>6. \A k \in ToSet(ks) : <<h[i].prefix, k>> \in DOMAIN Parse(h)
      BY <2>1, ParseDomain
    <2>7. \A n \in DOMAIN ks : ks[n] \in ToSet(ks)
      BY DEF ToSet
    <2>8. \A k \in ToSet(ks) : \E n \in DOMAIN ks : ks[n] = k
      BY DEF ToSet
    <2>9. \A n \in DOMAIN of : of[n] \in DOMAIN Parse(h)
      BY <2>4, <2>6, <2>7
    <2>10. \A k \in ToSet(ks) : \E n \in DOMAIN of : of[n] = <<h[i].prefix, k>>
      BY <2>4, <2>8
    <2> HIDE DEF Of
    <2> QED
      BY <2>1, <2>5, <2>9, <2>10, Zenon
  <1>4. PICK ls : ls = lists
    OBVIOUS
  <1> HIDE DEF Of
  <1>5. DOMAIN ls = DOMAIN h /\ ls = [i \in DOMAIN h |-> ls[i]] /\ \A i \in DOMAIN h : ls[i] = Of(i)
    BY <1>4
  <1>6. IsSeq(ls)
    BY <1>2, <1>5, Mapped
  <1>7. PICK t : t = FlattenSeq(ls)
    OBVIOUS
  <1>8. /\ IsSeq(t)
        /\ \A n \in DOMAIN t : \E i \in DOMAIN ls : \E j \in DOMAIN ls[i] : t[n] = ls[i][j]
        /\ \A i \in DOMAIN ls : \A j \in DOMAIN ls[i] : \E n \in DOMAIN t : t[n] = ls[i][j]
    <2>1. \A i \in DOMAIN ls : IsSeq(ls[i])
      BY <1>3, <1>5
    <2> QED
      BY <1>6, <1>7, <2>1, FlattenElements
  <1>9. \A n \in DOMAIN t : t[n] \in DOMAIN Parse(h)
    BY <1>3, <1>5, <1>8
  <1>10. ASSUME NEW pk \in DOMAIN Parse(h) PROVE \E n \in DOMAIN t : t[n] = pk
    <2>1. PICK i \in DOMAIN h : h[i].prefix = pk[1] /\ pk[2] \in ToSet(KeysOf(h[i]))
      BY ParseDomain
    <2>2. pk = <<h[i].prefix, pk[2]>>
      BY <2>1, ParseDomain
    <2>3. PICK n \in DOMAIN Of(i) : Of(i)[n] = pk
      BY <1>3, <2>1, <2>2
    <2> QED
      BY <1>5, <1>8, <2>3
  <1> DEFINE F == {n \in DOMAIN t : \A m \in 1..(n - 1) : t[m] # t[n]}
  <1>11. order = [n \in DOMAIN InOrder(F) |-> t[InOrder(F)[n]]]
    <2>1. t = all
      BY <1>4, <1>7, Zenon
    <2> HIDE DEF all
    <2> QED
      BY <1>1, <2>1, Zenon
  <1>12. ASSUME NEW k \in DOMAIN t PROVE \E n \in F : t[n] = t[k]
    <2> DEFINE Same == {n \in DOMAIN t : t[n] = t[k]}
    <2>1. DOMAIN t = 1..Len(t) /\ Len(t) \in Nat
      BY <1>8, IsSeqDom
    <2>2. Same \in SUBSET Nat /\ Same # {}
      BY <2>1
    <2>3. PICK n \in Same : \A m \in Same : n <= m
      <3> HIDE DEF Same
      <3> QED
        BY <2>2, SomeIsLeast
    <2>4. n \in DOMAIN t /\ t[n] = t[k]
      OBVIOUS
    <2>5. ASSUME NEW m \in 1..(n - 1) PROVE t[m] # t[n]
      <3>1. m \in DOMAIN t /\ ~ (n <= m)
        BY <2>1, <2>4
      <3> QED
        BY <2>3, <2>4, <3>1
    <2> QED
      BY <2>4, <2>5
  <1>13. F \subseteq DOMAIN t
    OBVIOUS
  <1> HIDE DEF F
  <1>14. /\ IsSeq(order)
         /\ \A n \in DOMAIN order : \E i \in F : order[n] = t[i]
         /\ \A i \in F : \E n \in DOMAIN order : order[n] = t[i]
    BY <1>8, <1>11, <1>13, ThoseSeq
  <1>15. \A n \in DOMAIN order : order[n] \in DOMAIN Parse(h)
    BY <1>9, <1>13, <1>14
  <1>16. \A pk \in DOMAIN Parse(h) : \E n \in DOMAIN order : order[n] = pk
    BY <1>10, <1>12, <1>14
  <1> QED
    BY <1>14, <1>15, <1>16

\* The parameters of a hash are such.
LEMMA ParsedFparams ==
    ASSUME NEW h, IsHash(h)
    PROVE  IsFparams(Fparams(h)) /\ Fparams(h).value = Parse(h)
  <1>1. PICK fp : fp = Fparams(h)
    OBVIOUS
  <1>2. fp.value = Parse(h)
    BY <1>1 DEF Fparams
  <1>3. /\ IsSeq(fp.order) /\ \A n \in DOMAIN fp.order : fp.order[n] \in DOMAIN Parse(h)
        /\ \A pk \in DOMAIN Parse(h) : \E n \in DOMAIN fp.order : fp.order[n] = pk
    BY <1>1, OrderIs
  <1>4. ASSUME NEW pk \in DOMAIN Parse(h) PROVE IsParam(pk, Parse(h)[pk])
    <2>1. pk = <<pk[1], pk[2]>>
      BY ParseDomain
    <2>2. PICK p, k : p = pk[1] /\ k = pk[2]
      OBVIOUS
    <2>3. <<p, k>> \in DOMAIN Parse(h) /\ pk = <<p, k>>
      BY <2>1, <2>2
    <2>4. IsSeq(h)
      BY HashIs
    <2>5. PICK i \in DOMAIN h : h[i].prefix = p /\ Parse(h)[<<p, k>>] = ValueIn(h[i], k)
      BY <2>3, <2>4, ParseAt
    <2>6. IsSegment(h[i])
      BY HashIs
    <2>7. IsText(ValueIn(h[i], k)) /\ p \in ToSet(PrefixOrder)
      BY <2>5, <2>6, ValueText DEF IsSegment
    <2> QED
      BY <2>1, <2>2, <2>3, <2>5, <2>7 DEF IsParam
  <1> QED
    BY <1>1, <1>2, <1>3, <1>4 DEF IsFparams

\* The prefixes a hash is made for.
LEMMA FprefixesAre ==
    ASSUME NEW fp, NEW fs, fs = Fprefixes(fp)
    PROVE  /\ IsSeq(fs)
           /\ \A i \in DOMAIN fs : fs[i] \in ToSet(PrefixOrder)
           /\ \E i \in DOMAIN fs : fs[i] = "root"
           /\ \A pk \in DOMAIN fp.value : pk[1] \in ToSet(PrefixOrder) => \E i \in DOMAIN fs : fs[i] = pk[1]
  <1>0. PICK D : D = DOMAIN fp.value
    OBVIOUS
  <1> DEFINE T == {i \in DOMAIN PrefixOrder : \/ PrefixOrder[i] = "root"
                                             \/ \E pk \in D : pk[1] = PrefixOrder[i]}
  <1>1. fs = [k \in DOMAIN InOrder(T) |-> PrefixOrder[InOrder(T)[k]]]
    BY <1>0 DEF Fprefixes, Those
  <1>2. T \subseteq DOMAIN PrefixOrder
    OBVIOUS
  <1>3. 1 \in T
    BY PrefixFacts
  <1>4. \A pk \in D : \A i \in DOMAIN PrefixOrder : PrefixOrder[i] = pk[1] => i \in T
    OBVIOUS
  <1> HIDE DEF T
  <1>5. /\ IsSeq(fs)
        /\ \A k \in DOMAIN fs : \E i \in T : fs[k] = PrefixOrder[i]
        /\ \A i \in T : \E k \in DOMAIN fs : fs[k] = PrefixOrder[i]
    BY <1>1, <1>2, PrefixFacts, ThoseSeq
  <1>6. \A i \in DOMAIN fs : fs[i] \in ToSet(PrefixOrder)
    BY <1>2, <1>5, PrefixFacts
  <1>7. \E i \in DOMAIN fs : fs[i] = "root"
    BY <1>3, <1>5, PrefixFacts
  <1>8. ASSUME NEW pk \in D, pk[1] \in ToSet(PrefixOrder) PROVE \E i \in DOMAIN fs : fs[i] = pk[1]
    <2>1. PICK i \in DOMAIN PrefixOrder : PrefixOrder[i] = pk[1]
      BY <1>8, PrefixFacts
    <2>2. i \in T
      BY <1>4, <2>1
    <2> QED
      BY <1>5, <2>1, <2>2
  <1> QED
    BY <1>0, <1>5, <1>6, <1>7, <1>8

\* What a change makes of the parameters.
Removed(fp, it, fq) ==
    /\ DOMAIN fq.value = DOMAIN fp.value \ {it}
    /\ \A pk \in DOMAIN fq.value : fq.value[pk] = fp.value[pk]
Added(fp, it, v, fq) ==
    /\ DOMAIN fq.value = DOMAIN fp.value \cup {it} /\ fq.value[it] = v
    /\ \A pk \in DOMAIN fp.value : pk # it => fq.value[pk] = fp.value[pk]

\* removeFparam
LEMMA RemoveIs ==
    ASSUME NEW fp, IsFparams(fp), NEW p, NEW k, NEW fq, fq = RemoveFparam(fp, p, k)
    PROVE  IsFparams(fq) /\ Removed(fp, <<p, k>>, fq)
  <1>1. PICK it, order, value, D : it = <<p, k>> /\ order = fp.order /\ value = fp.value /\ D = DOMAIN value
    OBVIOUS
  <1>2. /\ fq.order = Those(order, LAMBDA pk : pk # it)
        /\ fq.value = [pk \in D \ {it} |-> value[pk]]
    BY <1>1 DEF RemoveFparam
  <1>3. DOMAIN fq.value = D \ {it} /\ \A pk \in D \ {it} : fq.value[pk] = value[pk]
    BY <1>2
  <1>4. /\ IsSeq(order) /\ \A n \in DOMAIN order : order[n] \in D
        /\ \A pk \in D : IsParam(pk, value[pk]) /\ \E n \in DOMAIN order : order[n] = pk
    BY <1>1 DEF IsFparams
  <1> DEFINE S == {n \in DOMAIN order : order[n] # it}
  <1>5. fq.order = [n \in DOMAIN InOrder(S) |-> order[InOrder(S)[n]]]
    BY <1>2 DEF Those
  <1>6. S \subseteq DOMAIN order
    OBVIOUS
  <1>7. \A n \in DOMAIN order : n \in S <=> order[n] # it
    OBVIOUS
  <1>8. PICK t : t = fq.order
    OBVIOUS
  <1> HIDE DEF S
  <1>9. /\ IsSeq(t)
        /\ \A n \in DOMAIN t : \E i \in S : t[n] = order[i]
        /\ \A i \in S : \E n \in DOMAIN t : t[n] = order[i]
    BY <1>4, <1>5, <1>6, <1>8, ThoseSeq
  <1>10. \A n \in DOMAIN t : t[n] \in D \ {it}
    BY <1>4, <1>6, <1>7, <1>9
  <1>11. \A pk \in D \ {it} : \E n \in DOMAIN t : t[n] = pk
    BY <1>4, <1>7, <1>9
  <1>12. IsFparams(fq)
    BY <1>3, <1>4, <1>8, <1>9, <1>10, <1>11 DEF IsFparams
  <1> QED
    BY <1>1, <1>3, <1>12 DEF Removed

\* setFparam
LEMMA SetIs ==
    ASSUME NEW fp, IsFparams(fp), NEW p \in ToSet(PrefixOrder), NEW k, NEW v, IsText(v),
           NEW fq, fq = SetFparam(fp, p, k, v)
    PROVE  IsFparams(fq) /\ Added(fp, <<p, k>>, UrlEncode(v), fq)
  <1>1. PICK it, u, order, value, D : /\ it = <<p, k>> /\ u = UrlEncode(v)
                                      /\ order = fp.order /\ value = fp.value /\ D = DOMAIN value
    OBVIOUS
  <1>2. /\ fq.order = IF it \in D THEN order ELSE Append(order, it)
        /\ fq.value = [pk \in D \cup {it} |-> IF pk = it THEN u ELSE value[pk]]
    BY <1>1 DEF SetFparam
  <1>3. /\ DOMAIN fq.value = D \cup {it} /\ fq.value[it] = u
        /\ \A pk \in D : pk # it => fq.value[pk] = value[pk]
    BY <1>2
  <1>4. /\ IsSeq(order) /\ \A n \in DOMAIN order : order[n] \in D
        /\ \A pk \in D : IsParam(pk, value[pk]) /\ \E n \in DOMAIN order : order[n] = pk
    BY <1>1 DEF IsFparams
  <1>5. PICK t : t = fq.order
    OBVIOUS
  <1>6. IsSeq(t) /\ \A n \in DOMAIN t : t[n] \in D \cup {it}
    <2>1. CASE it \in D
      BY <1>2, <1>4, <1>5, <2>1
    <2>2. CASE it \notin D
      <3>1. t = Append(order, it)
        BY <1>2, <1>5, <2>2
      <3>2. /\ IsSeq(t) /\ DOMAIN t = 1..(Len(order) + 1)
            /\ \A i \in DOMAIN order : t[i] = order[i]
            /\ t[Len(order) + 1] = it
        BY <1>4, <3>1, IsSeqAppend
      <3>3. DOMAIN order = 1..Len(order) /\ Len(order) \in Nat
        BY <1>4, IsSeqDom
      <3>4. \A n \in DOMAIN t : n \in DOMAIN order \/ n = Len(order) + 1
        BY <3>2, <3>3
      <3> QED
        BY <1>4, <3>2, <3>4
    <2> QED
      BY <2>1, <2>2
  <1>7. \A pk \in D \cup {it} : \E n \in DOMAIN t : t[n] = pk
    <2>1. CASE it \in D
      BY <1>2, <1>4, <1>5, <2>1
    <2>2. CASE it \notin D
      <3>1. t = Append(order, it)
        BY <1>2, <1>5, <2>2
      <3>2. /\ Len(order) + 1 \in DOMAIN t
            /\ \A i \in DOMAIN order : i \in DOMAIN t /\ t[i] = order[i]
            /\ t[Len(order) + 1] = it
        BY <1>4, <3>1, IsSeqAppend
      <3> QED
        BY <1>4, <3>2
    <2> QED
      BY <2>1, <2>2
  <1>8. IsParam(it, u)
    <2>1. IsText(u)
      BY <1>1, EncodedText
    <2>2. it = <<it[1], it[2]>> /\ it[1] = p
      BY <1>1
    <2> QED
      BY <2>1, <2>2 DEF IsParam
  <1>9. \A pk \in D \cup {it} : IsParam(pk, fq.value[pk])
    BY <1>3, <1>4, <1>8
  <1>10. IsFparams(fq)
    BY <1>3, <1>5, <1>6, <1>7, <1>9 DEF IsFparams
  <1> QED
    BY <1>1, <1>3, <1>10 DEF Added

\* encodeAllParams
LEMMA EncodeAllIs ==
    ASSUME NEW fp, IsFparams(fp), NEW fq, fq = EncodeAllParams(fp)
    PROVE  /\ IsFparams(fq) /\ DOMAIN fq.value = DOMAIN fp.value
           /\ \A pk \in DOMAIN fp.value : fq.value[pk] = UrlEncode(fp.value[pk])
  <1>1. fq.order = fp.order /\ fq.value = [pk \in DOMAIN fp.value |-> UrlEncode(fp.value[pk])]
    BY DEF EncodeAllParams
  <1>2. DOMAIN fq.value = DOMAIN fp.value /\ \A pk \in DOMAIN fp.value : fq.value[pk] = UrlEncode(fp.value[pk])
    BY <1>1
  <1>3. \A pk \in DOMAIN fp.value : IsParam(pk, UrlEncode(fp.value[pk]))
    BY EncodedText DEF IsFparams, IsParam
  <1> QED
    BY <1>1, <1>2, <1>3 DEF IsFparams

\* The parameters there were before a change: none, those of the hash or those of it escaped.
ChangedFrom(c, was) ==
    /\ IsFparams(was)
    /\ c.verb = "insert" /\ c.replace => DOMAIN was.value = {}
    /\ ~ (c.verb = "insert" /\ c.replace) =>
          /\ DOMAIN was.value = DOMAIN Parse(hash)
          /\ \A pk \in DOMAIN was.value :
                was.value[pk] = Parse(hash)[pk] \/ was.value[pk] = UrlEncode(Parse(hash)[pk])

\* The parameters after a change.
LEMMA ChangedFparams ==
    ASSUME IsHash(hash), NEW c, c.prefix \in ToSet(PrefixOrder), IsText(c.value), NEW fp, fp = Changed(c),
           NEW it, it = <<c.prefix, c.key>>
    PROVE  /\ IsFparams(fp)
           /\ \E was : /\ ChangedFrom(c, was)
                       /\ IF c.verb = "remove" \/ (c.verb = "insert" /\ c.value = Empty)
                             THEN Removed(was, it, fp) ELSE Added(was, it, UrlEncode(c.value), fp)
  <1> DEFINE old == CASE c.verb = "insert" /\ c.replace -> NoFparams
                      [] c.verb = "insert" /\ ~ c.replace -> Fparams(hash)
                      [] OTHER -> EncodeAllParams(Fparams(hash))
  <1>1. PICK was : was = old
    OBVIOUS
  <1>2. fp = Change(was, c)
    BY <1>1 DEF Changed
  <1>3. IsFparams(Fparams(hash)) /\ Fparams(hash).value = Parse(hash)
    BY ParsedFparams
  <1>4. IsFparams(NoFparams)
    BY IsSeqEmpty DEF NoFparams, IsFparams
  <1>5. /\ IsFparams(EncodeAllParams(Fparams(hash)))
        /\ DOMAIN EncodeAllParams(Fparams(hash)).value = DOMAIN Parse(hash)
        /\ \A pk \in DOMAIN Parse(hash) :
              EncodeAllParams(Fparams(hash)).value[pk] = UrlEncode(Parse(hash)[pk])
    BY <1>3, EncodeAllIs
  <1>6. ChangedFrom(c, was)
    <2>1. CASE c.verb = "insert" /\ c.replace
      <3>1. was = NoFparams
        BY <1>1, <2>1
      <3>2. DOMAIN NoFparams.value = {}
        BY IsSeqEmpty DEF NoFparams
      <3> QED
        BY <1>4, <2>1, <3>1, <3>2 DEF ChangedFrom
    <2>2. CASE c.verb = "insert" /\ ~ c.replace
      BY <1>1, <1>3, <2>2 DEF ChangedFrom
    <2>3. CASE c.verb # "insert"
      <3>1. was = EncodeAllParams(Fparams(hash))
        BY <1>1, <2>3
      <3> QED
        BY <1>5, <2>3, <3>1 DEF ChangedFrom
    <2> QED
      BY <2>1, <2>2, <2>3
  <1> DEFINE removes == c.verb = "remove" \/ (c.verb = "insert" /\ c.value = Empty)
  <1>7. IF removes THEN fp = RemoveFparam(was, c.prefix, c.key) ELSE fp = SetFparam(was, c.prefix, c.key, c.value)
    BY <1>2 DEF Change
  <1>8. IsFparams(was)
    BY <1>6 DEF ChangedFrom
  <1> HIDE DEF removes
  <1>9. CASE removes
    <2>1. IsFparams(fp) /\ Removed(was, it, fp)
      BY <1>7, <1>8, <1>9, RemoveIs
    <2> QED
      BY <1>6, <1>9, <2>1 DEF removes
  <1>10. CASE ~ removes
    <2>1. IsFparams(fp) /\ Added(was, it, UrlEncode(c.value), fp)
      BY <1>7, <1>8, <1>10, SetIs
    <2> QED
      BY <1>6, <1>10, <2>1 DEF removes
  <1> QED
    BY <1>9, <1>10

\* The parts of a segment that toHref makes: the parameters of the prefix in their order, what is
\* written of each, those that are not run together with the one before, and what runs together.
OwnOf(fp, p) == Those(fp.order, LAMBDA pk : pk[1] = p /\ pk[2] # NoKey)
RawOf(fp, p, own, n) == UrlEncode(fp.value[<<p, own[n][2]>>])
StartsOf(fp, p, own) == {n \in DOMAIN own : n = 1 \/ ~ EndsInBang(RawOf(fp, p, own, n - 1))}
RunSet(fp, p, own, n) ==
    {m \in DOMAIN own : n <= m /\ \A j \in n..(m - 1) : EndsInBang(RawOf(fp, p, own, j))}
PartsOf(fp, p, own, n) ==
    [i \in DOMAIN InOrder(RunSet(fp, p, own, n)) |->
        IF i = 1 THEN RawOf(fp, p, own, n)
        ELSE <<own[InOrder(RunSet(fp, p, own, n))[i]][2], "reserved">>
                \o RawOf(fp, p, own, InOrder(RunSet(fp, p, own, n))[i])]
KeysMade(own, starts) == [i \in DOMAIN InOrder(starts) |-> own[InOrder(starts)[i]][2]]

\* s is made of such parts.
MadeOf(h, fp, p, s, own, starts, keys) ==
    /\ own = OwnOf(fp, p) /\ starts = StartsOf(fp, p, own) /\ keys = KeysMade(own, starts)
    /\ s = Segment(s.prefix, s.url, s.query, s.keys, s.params)
    /\ s.prefix = p /\ s.url = Furl(h, p) /\ (s.query <=> Furl(h, p) # NoUrl) /\ s.keys = keys
    /\ s.params = [k \in ToSet(keys) |->
                      FlattenSeq(PartsOf(fp, p, own, CHOOSE n \in starts : own[n][2] = k))]

\* The parameters of a prefix, all but the one without a name.
LEMMA OwnFacts ==
    ASSUME NEW fp, IsFparams(fp), NEW p, NEW own, own = OwnOf(fp, p)
    PROVE  /\ IsSeq(own)
           /\ \A n \in DOMAIN own : own[n] = <<p, own[n][2]>> /\ own[n] \in DOMAIN fp.value
           /\ \A k : k # NoKey /\ <<p, k>> \in DOMAIN fp.value => \E n \in DOMAIN own : own[n][2] = k
  <1>1. PICK order, D : order = fp.order /\ D = DOMAIN fp.value
    OBVIOUS
  <1>2. /\ IsSeq(order) /\ \A n \in DOMAIN order : order[n] \in D
        /\ \A pk \in D : pk = <<pk[1], pk[2]>> /\ \E n \in DOMAIN order : order[n] = pk
    BY <1>1 DEF IsFparams, IsParam
  <1> DEFINE S == {n \in DOMAIN order : order[n][1] = p /\ order[n][2] # NoKey}
  <1>3. own = [n \in DOMAIN InOrder(S) |-> order[InOrder(S)[n]]]
    BY <1>1 DEF OwnOf, Those
  <1>4. S \subseteq DOMAIN order
    OBVIOUS
  <1>5. \A n \in DOMAIN order : n \in S <=> order[n][1] = p /\ order[n][2] # NoKey
    OBVIOUS
  <1> HIDE DEF S
  <1>6. /\ IsSeq(own)
        /\ \A n \in DOMAIN own : \E i \in S : own[n] = order[i]
        /\ \A i \in S : \E n \in DOMAIN own : own[n] = order[i]
    BY <1>2, <1>3, <1>4, ThoseSeq
  <1>7. ASSUME NEW n \in DOMAIN own PROVE own[n] = <<p, own[n][2]>> /\ own[n] \in D
    <2>1. PICK i \in S : own[n] = order[i]
      BY <1>6
    <2>2. i \in DOMAIN order /\ order[i][1] = p
      BY <1>4, <1>5
    <2> QED
      BY <1>2, <2>1, <2>2
  <1>8. ASSUME NEW k, k # NoKey, <<p, k>> \in D PROVE \E n \in DOMAIN own : own[n][2] = k
    <2>0. <<p, k>>[1] = p /\ <<p, k>>[2] = k
      OBVIOUS
    <2>1. PICK pk : pk = <<p, k>> /\ pk[1] = p /\ pk[2] = k
      BY <2>0, Zenon
    <2>2. PICK i \in DOMAIN order : order[i] = pk
      BY <1>2, <1>8, <2>1
    <2>3. i \in S
      BY <1>5, <1>8, <2>1, <2>2
    <2> QED
      BY <1>6, <2>1, <2>2, <2>3
  <1> QED
    BY <1>1, <1>6, <1>7, <1>8

\* What is written of them are texts, and the keys are some of theirs: none only if they are none.
LEMMA PartsFacts ==
    ASSUME NEW fp, IsFparams(fp), NEW p, NEW own, own = OwnOf(fp, p),
           NEW starts, starts = StartsOf(fp, p, own), NEW keys, keys = KeysMade(own, starts)
    PROVE  /\ \A n \in DOMAIN own : IsText(RawOf(fp, p, own, n))
           /\ \A n \in DOMAIN own : IsSeq(FlattenSeq(PartsOf(fp, p, own, n)))
           /\ IsSeq(keys) /\ starts \subseteq DOMAIN own
           /\ \A k \in ToSet(keys) : \E n \in starts : own[n][2] = k
           /\ \A n \in starts : own[n][2] \in ToSet(keys)
           /\ own # <<>> => keys # <<>>
  <1>1. /\ IsSeq(own)
        /\ \A n \in DOMAIN own : own[n] = <<p, own[n][2]>> /\ own[n] \in DOMAIN fp.value
    BY OwnFacts
  <1>2. ASSUME NEW n \in DOMAIN own PROVE IsText(RawOf(fp, p, own, n))
    <2>1. IsText(fp.value[own[n]]) /\ own[n] = <<p, own[n][2]>>
      BY <1>1 DEF IsFparams, IsParam
    <2>2. IsText(UrlEncode(fp.value[<<p, own[n][2]>>]))
      BY <2>1, EncodedText
    <2> QED
      BY <2>2 DEF RawOf
  <1>3. ASSUME NEW n \in DOMAIN own PROVE IsSeq(FlattenSeq(PartsOf(fp, p, own, n)))
    <2>1. PICK at : at = InOrder(RunSet(fp, p, own, n))
      OBVIOUS
    <2>2. IsSeq(at) /\ \A i \in DOMAIN at : at[i] \in DOMAIN own
      <3>1. RunSet(fp, p, own, n) \subseteq DOMAIN own
        BY DEF RunSet
      <3> QED
        BY <1>1, <2>1, <3>1, InOrderSeq
    <2> DEFINE Part(i) == IF i = 1 THEN RawOf(fp, p, own, n)
                          ELSE <<own[at[i]][2], "reserved">> \o RawOf(fp, p, own, at[i])
    <2>3. PICK ps : ps = PartsOf(fp, p, own, n)
      OBVIOUS
    <2>4. ps = [i \in DOMAIN at |-> Part(i)]
      BY <2>1, <2>3 DEF PartsOf
    <2>5. ASSUME NEW i \in DOMAIN at PROVE IsSeq(Part(i))
      <3>1. PICK r : r = RawOf(fp, p, own, at[i])
        OBVIOUS
      <3>2. IsSeq(r) /\ IsSeq(RawOf(fp, p, own, n))
        BY <1>2, <2>2, <3>1, TextIs
      <3>3. PICK a : a = <<own[at[i]][2], "reserved">>
        OBVIOUS
      <3>4. IsSeq(a)
        BY <3>3, IsSeqTuples, Zenon
      <3>5. HasBoth(a, r, a \o r)
        BY <3>2, <3>4, ConcatAt
      <3>6. IsSeq(a \o r)
        BY <3>5 DEF HasBoth
      <3> QED
        BY <3>1, <3>2, <3>3, <3>6, Zenon
    <2> HIDE DEF Part
    <2>6. DOMAIN ps = DOMAIN at /\ ps = [i \in DOMAIN at |-> ps[i]] /\ \A i \in DOMAIN ps : IsSeq(ps[i])
      BY <2>4, <2>5
    <2>7. IsSeq(ps)
      BY <2>2, <2>6, Mapped
    <2>8. IsSeq(FlattenSeq(ps))
      BY <2>6, <2>7, IsSeqFlatten
    <2> QED
      BY <2>3, <2>8
  <1>4. starts \subseteq DOMAIN own
    BY DEF StartsOf
  <1>5. PICK at : at = InOrder(starts)
    OBVIOUS
  <1>6. /\ IsSeq(at)
        /\ \A i \in DOMAIN at : at[i] \in starts
        /\ \A n \in starts : \E i \in DOMAIN at : at[i] = n
    BY <1>1, <1>4, <1>5, InOrderSeq
  <1>7. keys = [i \in DOMAIN at |-> own[at[i]][2]]
    BY <1>5 DEF KeysMade
  <1>8. DOMAIN keys = DOMAIN at /\ keys = [i \in DOMAIN at |-> keys[i]] /\ \A i \in DOMAIN at : keys[i] = own[at[i]][2]
    BY <1>7
  <1>9. IsSeq(keys)
    BY <1>6, <1>8, Mapped
  <1>10. \A k \in ToSet(keys) : \E n \in starts : own[n][2] = k
    BY <1>6, <1>8 DEF ToSet
  <1>11. \A n \in starts : own[n][2] \in ToSet(keys)
    BY <1>6, <1>8 DEF ToSet
  <1>12. ASSUME own # <<>> PROVE keys # <<>>
    <2>1. Len(own) > 0 /\ DOMAIN own = 1..Len(own) /\ Len(own) \in Nat
      BY <1>1, <1>12, IsSeqTail, IsSeqDom
    <2>2. 1 \in starts
      BY <2>1 DEF StartsOf
    <2>3. DOMAIN keys # {}
      BY <1>6, <1>8, <2>2
    <2> QED
      BY <2>3, IsSeqEmpty
  <1> QED
    BY <1>2, <1>3, <1>4, <1>9, <1>10, <1>11, <1>12

\* What toHref makes is made of such parts.
LEMMA SegmentParts ==
    ASSUME NEW h, NEW fp, IsFparams(fp), NEW p, NEW s, s = SegmentOf(h, fp, p)
    PROVE  \E own, starts, keys : MadeOf(h, fp, p, s, own, starts, keys)
  <1> DEFINE OwnIs == OwnOf(fp, p)
             StartsAre == StartsOf(fp, p, OwnIs)
             KeysAre == KeysMade(OwnIs, StartsAre)
             TextIsOf == [n \in StartsAre |-> FlattenSeq(PartsOf(fp, p, OwnIs, n))]
             ParamsAre == [k \in ToSet(KeysAre) |-> TextIsOf[CHOOSE n \in StartsAre : OwnIs[n][2] = k]]
  <1>1. SegmentOf(h, fp, p) = Segment(p, Furl(h, p), Furl(h, p) # NoUrl, KeysAre, ParamsAre)
    BY DEF SegmentOf, OwnOf, RawOf, StartsOf, RunSet, PartsOf, KeysMade
  <1>2. OwnIs = OwnOf(fp, p)
    OBVIOUS
  <1> HIDE DEF OwnIs
  <1>3. StartsAre = StartsOf(fp, p, OwnIs)
    OBVIOUS
  <1> HIDE DEF StartsAre
  <1>4. KeysAre = KeysMade(OwnIs, StartsAre)
    OBVIOUS
  <1> HIDE DEF KeysAre
  <1>5. ParamsAre = [k \in ToSet(KeysAre) |->
                        FlattenSeq(PartsOf(fp, p, OwnIs, CHOOSE n \in StartsAre : OwnIs[n][2] = k))]
    <2>1. \A k \in ToSet(KeysAre) : \E n \in StartsAre : OwnIs[n][2] = k
      BY <1>2, <1>3, <1>4, PartsFacts
    <2>2. ASSUME NEW k \in ToSet(KeysAre), NEW n, n = (CHOOSE m \in StartsAre : OwnIs[m][2] = k)
          PROVE  TextIsOf[n] = FlattenSeq(PartsOf(fp, p, OwnIs, n))
      <3>1. n \in StartsAre
        BY <2>1, <2>2
      <3> QED
        BY <3>1
    <2> HIDE DEF TextIsOf
    <2> QED
      BY <2>2, Zenon
  <1> HIDE DEF ParamsAre
  <1>6. PICK u, q : u = Furl(h, p) /\ q = (Furl(h, p) # NoUrl)
    OBVIOUS
  <1>7. s = Segment(p, u, q, KeysAre, ParamsAre)
    BY <1>1, <1>6, Zenon
  <1>8. s.prefix = p /\ s.url = u /\ s.query = q /\ s.keys = KeysAre /\ s.params = ParamsAre
    BY <1>7 DEF Segment
  <1>9. MadeOf(h, fp, p, s, OwnIs, StartsAre, KeysAre)
    BY <1>2, <1>3, <1>4, <1>5, <1>6, <1>7, <1>8, Zenon DEF MadeOf
  <1> QED
    BY <1>9, Zenon

\* No value of the prefix p ends in !.
QuietIn(fp, p) == \A pk \in DOMAIN fp.value : pk[1] = p => ~ EndsInBang(fp.value[pk])

\* Then each of its parameters is written by itself.
LEMMA QuietParts ==
    ASSUME NEW fp, IsFparams(fp), NEW p, QuietIn(fp, p), NEW own, own = OwnOf(fp, p)
    PROVE  /\ StartsOf(fp, p, own) = DOMAIN own
           /\ \A n \in DOMAIN own : FlattenSeq(PartsOf(fp, p, own, n)) = RawOf(fp, p, own, n)
  <1>1. /\ IsSeq(own)
        /\ \A n \in DOMAIN own : own[n] = <<p, own[n][2]>> /\ own[n] \in DOMAIN fp.value
    BY OwnFacts
  <1>2. DOMAIN own = 1..Len(own) /\ Len(own) \in Nat
    BY <1>1, IsSeqDom
  <1>3. ASSUME NEW n \in DOMAIN own PROVE ~ EndsInBang(RawOf(fp, p, own, n))
    <2>1. PICK pk : pk = own[n] /\ pk = <<p, own[n][2]>> /\ pk \in DOMAIN fp.value
      BY <1>1
    <2>2. pk[1] = p
      BY <2>1
    <2>3. IsText(fp.value[pk]) /\ ~ EndsInBang(fp.value[pk])
      BY <2>1, <2>2 DEF IsFparams, IsParam, QuietIn
    <2>4. ~ EndsInBang(UrlEncode(fp.value[pk]))
      BY <2>3, EncodedText
    <2>5. UrlEncode(fp.value[pk]) = RawOf(fp, p, own, n)
      BY <2>1, Zenon DEF RawOf
    <2> QED
      BY <2>4, <2>5
  <1>4. StartsOf(fp, p, own) = DOMAIN own
    <2>1. \A n \in DOMAIN own : n = 1 \/ n - 1 \in DOMAIN own
      BY <1>2
    <2> QED
      BY <1>3, <2>1 DEF StartsOf
  <1>5. ASSUME NEW n \in DOMAIN own PROVE FlattenSeq(PartsOf(fp, p, own, n)) = RawOf(fp, p, own, n)
    <2>1. RunSet(fp, p, own, n) = {n}
      <3>1. ASSUME NEW m \in RunSet(fp, p, own, n) PROVE m = n
        <4>1. m \in DOMAIN own /\ n <= m /\ \A j \in n..(m - 1) : EndsInBang(RawOf(fp, p, own, j))
          BY DEF RunSet
        <4>2. m # n => n \in n..(m - 1)
          BY <1>2, <4>1
        <4> QED
          BY <1>3, <4>1, <4>2
      <3>2. n \in RunSet(fp, p, own, n)
        <4>1. n <= n /\ n..(n - 1) = {}
          BY <1>2
        <4> QED
          BY <4>1 DEF RunSet
      <3> QED
        BY <3>1, <3>2
    <2>2. PICK at : at = InOrder({n})
      OBVIOUS
    <2>3. DOMAIN at = {1} /\ IsSeq(at)
      <3>1. {n} \in SUBSET (1..Len(own)) /\ {n} \subseteq DOMAIN own
        BY <1>2
      <3>2. at \in [1..Cardinality({n}) -> {n}]
        BY <1>2, <2>2, <3>1, InOrderType
      <3>3. Cardinality({n}) = 1
        BY FS_Singleton
      <3>4. IsSeq(at)
        BY <1>1, <2>2, <3>1, InOrderSeq
      <3> QED
        BY <3>2, <3>3, <3>4
    <2>4. PICK ps, r : ps = PartsOf(fp, p, own, n) /\ r = RawOf(fp, p, own, n)
      OBVIOUS
    <2> DEFINE Part(i) == IF i = 1 THEN r ELSE <<own[at[i]][2], "reserved">> \o RawOf(fp, p, own, at[i])
    <2>5. ps = [i \in DOMAIN at |-> Part(i)]
      BY <2>1, <2>2, <2>4, Zenon DEF PartsOf
    <2>6. Part(1) = r
      OBVIOUS
    <2> HIDE DEF Part
    <2>7. DOMAIN ps = {1} /\ ps[1] = r /\ ps = [i \in DOMAIN at |-> ps[i]]
      BY <2>3, <2>5, <2>6
    <2>8. IsSeq(ps)
      BY <2>3, <2>7, Mapped
    <2>9. Len(ps) = 1
      <3>1. DOMAIN ps = 1..Len(ps) /\ Len(ps) \in Nat
        BY <2>8, IsSeqDom
      <3> QED
        BY <2>7, <3>1
    <2> QED
      BY <2>4, <2>7, <2>8, <2>9, FlattenOne
  <1> QED
    BY <1>4, <1>5

\* A segment made is one.
LEMMA SegmentMade ==
    ASSUME NEW h, NEW fp, IsFparams(fp), NEW p \in ToSet(PrefixOrder), NEW s, s = SegmentOf(h, fp, p)
    PROVE  IsSegment(s)
  <1>0. PICK own, starts, keys : MadeOf(h, fp, p, s, own, starts, keys)
    BY SegmentParts, Zenon
  <1>1. own = OwnOf(fp, p) /\ starts = StartsOf(fp, p, own) /\ keys = KeysMade(own, starts)
    BY <1>0, Zenon DEF MadeOf
  <1>2. /\ s = Segment(s.prefix, s.url, s.query, s.keys, s.params)
        /\ s.prefix = p /\ s.keys = keys
        /\ s.params = [k \in ToSet(keys) |->
                          FlattenSeq(PartsOf(fp, p, own, CHOOSE n \in starts : own[n][2] = k))]
    BY <1>0, Zenon DEF MadeOf
  <1>3. /\ \A n \in DOMAIN own : IsSeq(FlattenSeq(PartsOf(fp, p, own, n)))
        /\ IsSeq(keys) /\ starts \subseteq DOMAIN own
        /\ \A k \in ToSet(keys) : \E n \in starts : own[n][2] = k
    BY <1>1, PartsFacts
  <1> DEFINE StartOf(k) == CHOOSE n \in starts : own[n][2] = k
             T(n) == FlattenSeq(PartsOf(fp, p, own, n))
  <1>4. \A k \in ToSet(keys) : StartOf(k) \in DOMAIN own
    BY <1>3
  <1>5. s.params = [k \in ToSet(keys) |-> T(StartOf(k))] /\ \A n \in DOMAIN own : IsSeq(T(n))
    BY <1>2, <1>3
  <1> HIDE DEF StartOf, T
  <1>6. DOMAIN s.params = ToSet(keys) /\ \A k \in ToSet(keys) : IsSeq(s.params[k])
    BY <1>4, <1>5
  <1>7. IsText(keys) /\ \A k \in ToSet(keys) : IsText(s.params[k])
    BY <1>3, <1>6, TextIs
  <1> QED
    BY <1>2, <1>6, <1>7 DEF IsSegment

\* A segment made for a prefix none of whose values ends in ! says what its parameters say.
LEMMA SegmentSays ==
    ASSUME NEW h, NEW fp, IsFparams(fp), NEW p, QuietIn(fp, p), NEW s, s = SegmentOf(h, fp, p),
           NEW k, k # NoKey, <<p, k>> \in DOMAIN fp.value
    PROVE  k \in ToSet(KeysOf(s)) /\ ValueIn(s, k) = DecodePair(UrlEncode(fp.value[<<p, k>>]))
  <1>0. PICK own, starts, keys : MadeOf(h, fp, p, s, own, starts, keys)
    BY SegmentParts, Zenon
  <1>1. own = OwnOf(fp, p) /\ starts = StartsOf(fp, p, own) /\ keys = KeysMade(own, starts)
    BY <1>0, Zenon DEF MadeOf
  <1>2. /\ s.url = Furl(h, p) /\ (s.query <=> Furl(h, p) # NoUrl) /\ s.keys = keys
        /\ s.params = [l \in ToSet(keys) |->
                          FlattenSeq(PartsOf(fp, p, own, CHOOSE n \in starts : own[n][2] = l))]
    BY <1>0, Zenon DEF MadeOf
  <1>3. starts = DOMAIN own /\ \A n \in DOMAIN own : FlattenSeq(PartsOf(fp, p, own, n)) = RawOf(fp, p, own, n)
    BY <1>1, QuietParts
  <1>4. PICK n \in DOMAIN own : own[n][2] = k
    BY <1>1, OwnFacts
  <1>5. k \in ToSet(keys)
    <2>1. \A m \in starts : own[m][2] \in ToSet(keys)
      BY <1>1, PartsFacts
    <2> QED
      BY <1>3, <1>4, <2>1
  <1>6. s.params[k] = UrlEncode(fp.value[<<p, k>>])
    <2>1. PICK m : m = CHOOSE l \in starts : own[l][2] = k
      OBVIOUS
    <2>2. m \in DOMAIN own /\ own[m][2] = k
      BY <1>3, <1>4, <2>1
    <2>3. PICK r : r = FlattenSeq(PartsOf(fp, p, own, m))
      OBVIOUS
    <2>4. s.params[k] = r
      BY <1>2, <1>5, <2>1, <2>3
    <2>5. r = UrlEncode(fp.value[<<p, k>>])
      BY <1>3, <2>2, <2>3 DEF RawOf
    <2> QED
      BY <2>4, <2>5
  <1>7. ~ Bare(s)
    BY <1>2 DEF Bare
  <1>8. keys # <<>>
    BY <1>5, IsSeqEmpty DEF ToSet
  <1>9. KeysOf(s) = keys
    BY <1>2, <1>7, <1>8, Zenon DEF KeysOf
  <1>10. DOMAIN s.params = ToSet(keys)
    BY <1>2
  <1>11. ValueIn(s, k) = DecodePair(s.params[k])
    BY <1>5, <1>7, <1>10, Zenon DEF ValueIn
  <1> QED
    BY <1>5, <1>6, <1>9, <1>11

\* A segment made without keys is for a prefix without parameters, but the one without a name.
LEMMA SegmentSilent ==
    ASSUME NEW h, NEW fp, IsFparams(fp), NEW p, NEW s, s = SegmentOf(h, fp, p), s.keys = <<>>,
           NEW k, k # NoKey
    PROVE  <<p, k>> \notin DOMAIN fp.value
  <1>0. PICK own, starts, keys : MadeOf(h, fp, p, s, own, starts, keys)
    BY SegmentParts, Zenon
  <1>1. own = OwnOf(fp, p) /\ starts = StartsOf(fp, p, own) /\ keys = KeysMade(own, starts)
    BY <1>0, Zenon DEF MadeOf
  <1>2. s.keys = keys
    BY <1>0, Zenon DEF MadeOf
  <1>3. own # <<>> => keys # <<>>
    BY <1>1, PartsFacts
  <1>4. DOMAIN own = {}
    BY <1>2, <1>3, IsSeqEmpty
  <1> QED
    BY <1>1, <1>4, OwnFacts

\* What toHref makes.
HrefMade(h, fp) == [i \in DOMAIN Fprefixes(fp) |-> SegmentOf(h, fp, Fprefixes(fp)[i])]

\* It is left out only when it is empty.
LEMMA HrefIs ==
    ASSUME NEW h, NEW fp
    PROVE  ToHref(h, fp) = IF HrefMade(h, fp) = EmptyHash /\ h # NoHash THEN NoHash ELSE HrefMade(h, fp)
  BY DEF ToHref, HrefMade

\* A segment made has the url of its prefix, and what it carries is a query if there is one.
LEMMA SegmentUrl ==
    ASSUME NEW h, NEW fp, NEW p
    PROVE  LET s == SegmentOf(h, fp, p)
           IN  s.prefix = p /\ s.url = Furl(h, p) /\ (s.query <=> Furl(h, p) # NoUrl)
  <1>1. PICK u, q : u = Furl(h, p) /\ q = (Furl(h, p) # NoUrl)
    OBVIOUS
  <1>2. \E keys, params : SegmentOf(h, fp, p) = Segment(p, u, q, keys, params)
    BY <1>1, Zenon DEF SegmentOf
  <1>3. PICK keys, params : SegmentOf(h, fp, p) = Segment(p, u, q, keys, params)
    BY <1>2
  <1>4. SegmentOf(h, fp, p).prefix = p /\ SegmentOf(h, fp, p).url = u /\ SegmentOf(h, fp, p).query = q
    BY <1>3 DEF Segment
  <1> QED
    BY <1>1, <1>4, Zenon

\* The segments made are a hash, one for root and one for each prefix of a parameter.
LEMMA MadeIs ==
    ASSUME NEW h, NEW fp, IsFparams(fp), NEW m, m = HrefMade(h, fp)
    PROVE  /\ IsHash(m) /\ IsSeq(m)
           /\ \A i \in DOMAIN m : m[i] = SegmentOf(h, fp, m[i].prefix)
           /\ \E i \in DOMAIN m : m[i].prefix = "root"
           /\ \A pk \in DOMAIN fp.value : \E i \in DOMAIN m : m[i].prefix = pk[1]
  <1>1. PICK fs : fs = Fprefixes(fp)
    OBVIOUS
  <1>2. m = [i \in DOMAIN fs |-> SegmentOf(h, fp, fs[i])]
    BY <1>1 DEF HrefMade
  <1>3. /\ IsSeq(fs)
        /\ \A i \in DOMAIN fs : fs[i] \in ToSet(PrefixOrder)
        /\ \E i \in DOMAIN fs : fs[i] = "root"
        /\ \A pk \in DOMAIN fp.value : pk[1] \in ToSet(PrefixOrder) => \E i \in DOMAIN fs : fs[i] = pk[1]
    BY <1>1, FprefixesAre
  <1>4. DOMAIN m = DOMAIN fs /\ \A i \in DOMAIN m : m[i] = SegmentOf(h, fp, fs[i])
    BY <1>2
  <1>5. \A p : SegmentOf(h, fp, p).prefix = p
    BY SegmentUrl
  <1>6. \A i \in DOMAIN m : m[i].prefix = fs[i]
    BY <1>4, <1>5
  <1>7. IsSeq(m)
    BY <1>2, <1>3, <1>4, Mapped
  <1>8. \A i \in DOMAIN m : IsSegment(m[i])
    BY <1>3, <1>4, SegmentMade
  <1>9. IsHash(m)
    BY <1>7, <1>8, HashMade
  <1>10. \A pk \in DOMAIN fp.value : \E i \in DOMAIN m : m[i].prefix = pk[1]
    <2>1. \A pk \in DOMAIN fp.value : pk[1] \in ToSet(PrefixOrder)
      BY DEF IsFparams, IsParam
    <2> QED
      BY <1>3, <1>4, <1>6, <2>1
  <1> QED
    BY <1>3, <1>4, <1>6, <1>7, <1>9, <1>10

\* What toHref writes is read back, decoded, under a prefix none of whose values ends in !.
LEMMA MadeParses ==
    ASSUME NEW h, NEW fp, IsFparams(fp), NEW m, m = HrefMade(h, fp),
           NEW p, NEW k, k # NoKey, <<p, k>> \in DOMAIN fp.value, QuietIn(fp, p)
    PROVE  /\ <<p, k>> \in DOMAIN Parse(m)
           /\ Parse(m)[<<p, k>>] = DecodePair(UrlEncode(fp.value[<<p, k>>]))
  <1>1. PICK pk : pk = <<p, k>>
    OBVIOUS
  <1>2. /\ IsSeq(m)
        /\ \A i \in DOMAIN m : m[i] = SegmentOf(h, fp, m[i].prefix)
        /\ \A q \in DOMAIN fp.value : \E i \in DOMAIN m : m[i].prefix = q[1]
    BY MadeIs
  <1>3. \A i \in DOMAIN m : m[i].prefix = p =>
            k \in ToSet(KeysOf(m[i])) /\ ValueIn(m[i], k) = DecodePair(UrlEncode(fp.value[<<p, k>>]))
    BY <1>2, SegmentSays
  <1>4. pk \in DOMAIN Parse(m)
    <2>1. pk[1] = p /\ pk \in DOMAIN fp.value
      BY <1>1
    <2>2. PICK i \in DOMAIN m : m[i].prefix = p
      BY <1>2, <2>1
    <2>3. k \in ToSet(KeysOf(m[i]))
      BY <1>3, <2>2
    <2>4. <<m[i].prefix, k>> \in DOMAIN Parse(m)
      BY <2>3, ParseDomain
    <2> QED
      BY <1>1, <2>2, <2>4
  <1>5. Parse(m)[pk] = DecodePair(UrlEncode(fp.value[pk]))
    <2>1. <<p, k>> \in DOMAIN Parse(m)
      BY <1>1, <1>4
    <2>2. PICK i \in DOMAIN m : m[i].prefix = p /\ Parse(m)[<<p, k>>] = ValueIn(m[i], k)
      BY <1>2, <2>1, ParseAt
    <2> QED
      BY <1>1, <1>3, <2>2
  <1> QED
    BY <1>1, <1>4, <1>5

\* The new hash: there is one unless nothing is left.
LEMMA HrefParse ==
    ASSUME NEW h, NEW fp, IsFparams(fp), NEW href, href = ToHref(h, fp)
    PROVE  /\ IsHash(href)
           /\ href = NoHash => DOMAIN fp.value \subseteq {<<"root", NoKey>>}
           /\ href # NoHash => href = HrefMade(h, fp)
  <1>1. PICK m : m = HrefMade(h, fp)
    OBVIOUS
  <1>2. /\ IsHash(m) /\ \E i \in DOMAIN m : m[i].prefix = "root"
        /\ \A i \in DOMAIN m : m[i] = SegmentOf(h, fp, m[i].prefix)
        /\ \A pk \in DOMAIN fp.value : \E i \in DOMAIN m : m[i].prefix = pk[1]
    BY <1>1, MadeIs
  <1>3. m # NoHash
    BY <1>2, IsSeqEmpty DEF NoHash
  <1>4. href = IF m = EmptyHash /\ h # NoHash THEN NoHash ELSE m
    BY <1>1, HrefIs
  <1>5. CASE m = EmptyHash
    <2>1. PICK s : s = Segment("root", NoUrl, FALSE, <<>>, <<>>)
      OBVIOUS
    <2>2. s.prefix = "root" /\ s.keys = <<>>
      BY <2>1 DEF Segment
    <2>3. m = <<s>>
      BY <1>5, <2>1 DEF EmptyHash
    <2>4. DOMAIN m = {1} /\ m[1] = s
      BY <2>3
    <2>5. s = SegmentOf(h, fp, "root")
      BY <1>2, <2>2, <2>4
    <2>6. ASSUME NEW pk \in DOMAIN fp.value PROVE pk \in {<<"root", NoKey>>}
      <3>1. pk = <<pk[1], pk[2]>>
        BY DEF IsFparams, IsParam
      <3>2. pk[1] = "root"
        BY <1>2, <2>2, <2>4
      <3>3. PICK k : pk = <<"root", k>>
        BY <3>1, <3>2
      <3>4. k = NoKey
        BY <2>2, <2>5, <3>3, SegmentSilent
      <3> QED
        BY <3>3, <3>4
    <2> QED
      BY <1>1, <1>2, <1>4, <2>6, NoHashIsHash
  <1>6. CASE m # EmptyHash
    BY <1>1, <1>2, <1>3, <1>4, <1>6
  <1> QED
    BY <1>5, <1>6

\* decodeURIComponent of a piece: a + stays one.
DecodeRaw(x) == IF x = "plus" THEN x ELSE DecodePiece(x)

\* Texts that decode to the same are read to the same.
LEMMA SameText ==
    ASSUME NEW v, IsText(v), NEW w, IsText(w), "percent" \notin ToSet(v), "percent" \notin ToSet(w),
           NEW t, t = [i \in DOMAIN v |-> DecodeRaw(v[i])], t = [i \in DOMAIN w |-> DecodeRaw(w[i])]
    PROVE  DecodePair(v) = DecodePair(w)
  <1>1. IsSeq(v) /\ IsSeq(w)
    BY TextIs
  <1>3. DOMAIN v = DOMAIN w /\ \A i \in DOMAIN v : DecodeRaw(v[i]) = DecodeRaw(w[i])
    OBVIOUS
  <1>4. \A x, y : DecodeRaw(x) = DecodeRaw(y) => DecodePiece(x) = DecodePiece(y)
    BY DEF DecodeRaw, DecodePiece
  <1>5. \A i \in DOMAIN v : DecodePiece(v[i]) = DecodePiece(w[i])
    BY <1>3, <1>4
  <1>6. /\ DecodePair(v) = [i \in DOMAIN v |-> DecodePiece(v[i])]
        /\ DecodePair(w) = [i \in DOMAIN w |-> DecodePiece(w[i])]
    BY <1>1, PiecesAre
  <1> QED
    BY <1>3, <1>5, <1>6

\* Hashes that are the same decoded are parsed to the same.
LEMMA SameParse ==
    ASSUME NEW h, IsHash(h), NEW g, IsHash(g), SameHash(h, g)
    PROVE  Parse(h) = Parse(g)
  <1> DEFINE Decode(v) == Pieces(v, DecodeRaw)
             Decoded1(s) == [s EXCEPT !.params = [k \in DOMAIN s.params |-> Decode(s.params[k])]]
             Escapes(a) == \E i \in DOMAIN a : \E k \in DOMAIN a[i].params : "percent" \in ToSet(a[i].params[k])
  <1>1. \A a : DecodeUri(a) = IF Escapes(a) THEN a ELSE [i \in DOMAIN a |-> Decoded1(a[i])]
    BY Zenon DEF DecodeUri, DecodeRaw
  <1>2. ASSUME NEW v, "percent" \in ToSet(Decode(v)) PROVE "percent" \in ToSet(v)
    <2>1. \A x : DecodeRaw(x) = "percent" => x = "percent"
      BY DEF DecodeRaw, DecodePiece
    <2>2. PICK t : t = Decode(v)
      OBVIOUS
    <2>3. t = [i \in DOMAIN v |-> DecodeRaw(v[i])]
      BY <2>2 DEF Pieces
    <2>4. PICK i \in DOMAIN v : t[i] = "percent"
      BY <1>2, <2>2, <2>3 DEF ToSet
    <2> QED
      BY <2>1, <2>3, <2>4 DEF ToSet
  <1>2a. ASSUME NEW v, NEW w, IsText(v), IsText(w), "percent" \notin ToSet(v), "percent" \notin ToSet(w),
                Decode(v) = Decode(w)
         PROVE  DecodePair(v) = DecodePair(w)
    <2>1. PICK t : t = Decode(v)
      OBVIOUS
    <2>2. t = [i \in DOMAIN v |-> DecodeRaw(v[i])] /\ t = [i \in DOMAIN w |-> DecodeRaw(w[i])]
      BY <1>2a, <2>1 DEF Pieces
    <2> QED
      BY <1>2a, <2>2, SameText
  <1> HIDE DEF Decode
  <1>3. ASSUME NEW s, IsSegment(s)
        PROVE  /\ Decoded1(s) = Segment(s.prefix, s.url, s.query, s.keys, [k \in DOMAIN s.params |-> Decode(s.params[k])])
               /\ DOMAIN s.params = ToSet(s.keys) /\ \A k \in DOMAIN s.params : IsText(s.params[k])
    BY <1>3 DEF IsSegment, Segment
  \* segments that decode to the same have the same keys and values
  <1>4. ASSUME NEW s, NEW t, IsSegment(s), IsSegment(t), Decoded1(s) = Decoded1(t),
               \A k \in DOMAIN s.params : "percent" \notin ToSet(s.params[k]),
               \A k \in DOMAIN t.params : "percent" \notin ToSet(t.params[k])
        PROVE  s.prefix = t.prefix /\ KeysOf(s) = KeysOf(t) /\ \A k : ValueIn(s, k) = ValueIn(t, k)
    <2>1. PICK sp, tp : /\ sp = [k \in DOMAIN s.params |-> Decode(s.params[k])]
                        /\ tp = [k \in DOMAIN t.params |-> Decode(t.params[k])]
      OBVIOUS
    <2>2. Segment(s.prefix, s.url, s.query, s.keys, sp) = Segment(t.prefix, t.url, t.query, t.keys, tp)
      <3> HIDE DEF Decoded1
      <3> QED
        BY <1>3, <1>4, <2>1
    <2>3. s.prefix = t.prefix /\ s.url = t.url /\ s.query = t.query /\ s.keys = t.keys /\ sp = tp
      BY <2>2 DEF Segment
    <2>4. DOMAIN s.params = DOMAIN t.params /\ \A k \in DOMAIN s.params : Decode(s.params[k]) = Decode(t.params[k])
      BY <2>1, <2>3
    <2>5. \A k \in DOMAIN s.params : IsText(s.params[k]) /\ IsText(t.params[k])
      BY <1>3, <1>4, <2>4
    <2>6. \A k \in DOMAIN s.params : DecodePair(s.params[k]) = DecodePair(t.params[k])
      BY <1>2a, <1>4, <2>4, <2>5
    <2>7. Bare(s) <=> Bare(t)
      BY <2>3 DEF Bare
    <2>8. KeysOf(s) = KeysOf(t)
      BY <2>3, <2>7, Zenon DEF KeysOf
    <2>9. \A k : ValueIn(s, k) = ValueIn(t, k)
      BY <2>3, <2>4, <2>6, <2>7 DEF ValueIn
    <2> QED
      BY <2>3, <2>8, <2>9
  \* a decoded hash holds nothing that does not decode
  <1>5. ASSUME NEW a, IsHash(a), NEW b, IsHash(b), Escapes(a), ~ Escapes(b), DecodeUri(a) = DecodeUri(b)
        PROVE  FALSE
    <2>1. a = [i \in DOMAIN b |-> Decoded1(b[i])]
      BY <1>1, <1>5
    <2>2. PICK i \in DOMAIN a : \E k \in DOMAIN a[i].params : "percent" \in ToSet(a[i].params[k])
      BY <1>5
    <2>3. i \in DOMAIN b /\ a[i] = Decoded1(b[i])
      <3> HIDE DEF Decoded1
      <3> QED
        BY <2>1, <2>2
    <2>4. IsSegment(b[i])
      BY <1>5, <2>3, HashIs
    <2>5. PICK ps : ps = [k \in DOMAIN b[i].params |-> Decode(b[i].params[k])]
      OBVIOUS
    <2>6. a[i] = Segment(b[i].prefix, b[i].url, b[i].query, b[i].keys, ps)
      <3> HIDE DEF Decoded1
      <3> QED
        BY <1>3, <2>3, <2>4, <2>5
    <2>7. a[i].params = ps
      BY <2>6 DEF Segment
    <2>8. PICK k \in DOMAIN ps : "percent" \in ToSet(ps[k])
      BY <2>2, <2>7
    <2>9. k \in DOMAIN b[i].params /\ "percent" \in ToSet(Decode(b[i].params[k]))
      BY <2>5, <2>8
    <2>10. "percent" \in ToSet(b[i].params[k])
      BY <1>2, <1>3, <2>4, <2>9
    <2> QED
      BY <1>5, <2>3, <2>9, <2>10
  <1>6. DecodeUri(h) = DecodeUri(g)
    BY DEF SameHash
  <1>7. CASE Escapes(h) /\ Escapes(g)
    BY <1>1, <1>6, <1>7
  <1>8. CASE ~ Escapes(h) /\ ~ Escapes(g)
    <2>1. [i \in DOMAIN h |-> Decoded1(h[i])] = [i \in DOMAIN g |-> Decoded1(g[i])]
      BY <1>1, <1>6, <1>8
    <2>2. DOMAIN h = DOMAIN g /\ \A i \in DOMAIN h : Decoded1(h[i]) = Decoded1(g[i])
      <3> HIDE DEF Decoded1
      <3> QED
        BY <2>1
    <2>3. \A i \in DOMAIN h : /\ h[i].prefix = g[i].prefix /\ KeysOf(h[i]) = KeysOf(g[i])
                              /\ \A k : ValueIn(h[i], k) = ValueIn(g[i], k)
      <3> SUFFICES ASSUME NEW i \in DOMAIN h
                   PROVE  /\ h[i].prefix = g[i].prefix /\ KeysOf(h[i]) = KeysOf(g[i])
                          /\ \A k : ValueIn(h[i], k) = ValueIn(g[i], k)
        OBVIOUS
      <3>1. IsSegment(h[i]) /\ IsSegment(g[i])
        BY <2>2, HashIs
      <3>2. Decoded1(h[i]) = Decoded1(g[i])
        BY <2>2
      <3>3. /\ \A k \in DOMAIN h[i].params : "percent" \notin ToSet(h[i].params[k])
            /\ \A k \in DOMAIN g[i].params : "percent" \notin ToSet(g[i].params[k])
        BY <1>8, <2>2
      <3> HIDE DEF Decoded1
      <3> QED
        BY <1>4, <3>1, <3>2, <3>3
    <2>4. \A p, k : KeyAt(h, p, k) = KeyAt(g, p, k)
      BY <2>2, <2>3 DEF KeyAt
    <2>5. UNION {{h[i].prefix} \X ToSet(KeysOf(h[i])) : i \in DOMAIN h}
             = UNION {{g[i].prefix} \X ToSet(KeysOf(g[i])) : i \in DOMAIN g}
      BY <2>2, <2>3
    <2>6. ASSUME NEW pk \in UNION {{h[i].prefix} \X ToSet(KeysOf(h[i])) : i \in DOMAIN h}
          PROVE  ValueIn(h[LatestOf(KeyAt(h, pk[1], pk[2]))], pk[2]) = ValueIn(g[LatestOf(KeyAt(g, pk[1], pk[2]))], pk[2])
      <3>1. PICK i \in DOMAIN h : pk \in {h[i].prefix} \X ToSet(KeysOf(h[i]))
        OBVIOUS
      <3>2. i \in KeyAt(h, pk[1], pk[2])
        BY <3>1 DEF KeyAt
      <3>3. LatestOf(KeyAt(h, pk[1], pk[2])) \in KeyAt(h, pk[1], pk[2])
        BY <3>2, HashIs, LatestIs
      <3>4. LatestOf(KeyAt(h, pk[1], pk[2])) \in DOMAIN h
        BY <3>3 DEF KeyAt
      <3> QED
        BY <2>3, <2>4, <3>4
    <2> QED
      BY <2>5, <2>6, ParseIs, Zenon
  <1> QED
    BY <1>5, <1>6, <1>7, <1>8

\* The route of a prefix is kept while the hash has one segment.
LEMMA RouteKept ==
    ASSUME NEW h, IsHash(h), Len(h) = 1, NEW fp, IsFparams(fp), NEW m, m = HrefMade(h, fp),
           NEW p, p = h[1].prefix, \E i \in DOMAIN m : m[i].prefix = p
    PROVE  RouteOf(m, p) = RouteOf(h, p)
  <1>1. DOMAIN h = {1} /\ h # NoHash
    <2>1. DOMAIN h = 1..1
      BY HashIs, IsSeqDom
    <2>2. DOMAIN NoHash = {}
      BY IsSeqEmpty DEF NoHash
    <2> QED
      BY <2>1, <2>2
  <1>2. /\ h[1].query => Furl(h, p) = h[1].url
        /\ ~ h[1].query => Furl(h, p) = NoUrl
    BY <1>1 DEF Furl
  <1>3. RouteOf(h, p) = Furl(h, p)
    BY <1>1, <1>2 DEF RouteOf
  <1>4. \A i \in DOMAIN m : m[i] = SegmentOf(h, fp, m[i].prefix)
    BY MadeIs
  <1>5. \A i \in DOMAIN m : m[i].prefix = p => m[i].url = Furl(h, p) /\ (m[i].query <=> Furl(h, p) # NoUrl)
    <2> SUFFICES ASSUME NEW i \in DOMAIN m, m[i].prefix = p
                 PROVE  m[i].url = Furl(h, p) /\ (m[i].query <=> Furl(h, p) # NoUrl)
      OBVIOUS
    <2>1. m[i] = SegmentOf(h, fp, p)
      BY <1>4
    <2> QED
      BY <2>1, SegmentUrl
  <1>6. RouteOf(m, p) = Furl(h, p)
    BY <1>5 DEF RouteOf
  <1> QED
    BY <1>3, <1>6

-------------------------------------------------------------------------------
(* What each action leaves alone *)

\* Which actions change what.
Frame ==
    /\ page' = page
    /\ ParseContext \/ Insert \/ Attach \/ Detach
          \/ UNCHANGED <<node, attr, runner, binds, docBinds>>
    /\ Invoke \/ Actions \/ Action \/ BreakBefore \/ Callback \/ ParseContext \/ UNCHANGED runs
    /\ Send \/ Execute \/ Eval \/ Respond \/ TimeOut \/ UNCHANGED <<requests, timers, intervals>>
    /\ Execute \/ UNCHANGED intervalIds

\* Every action leaves alone what Frame says it leaves alone.
LEMMA Frames ==
    ASSUME Next
    PROVE  Frame
  <1>1. CASE Fire
    BY <1>1 DEF Frame, Fire, dom, timing, rest
  <1>2. CASE Dispatch
    BY <1>2 DEF Frame, Dispatch, dom, timing, rest
  <1>3. CASE Invoke
    BY <1>3 DEF Frame, Invoke, dom, timing, rest
  <1>4. CASE CatchNothing
    BY <1>4 DEF Frame, CatchNothing, dom, timing, rest
  <1>5. CASE Actions
    BY <1>5 DEF Frame, Actions, dom, timing, rest
  <1>6. CASE Action
    BY <1>6 DEF Frame, Action, dom, timing, rest
  <1>7. CASE Execute
    BY <1>7 DEF Frame, Execute, dom, timing, rest
  <1>8. CASE Direct
    BY <1>8 DEF Frame, Direct, dom, timing, rest
  <1>9. CASE Event
    BY <1>9 DEF Frame, Event, dom, timing, rest
  <1>10. CASE Ajax
    BY <1>10 DEF Frame, Ajax, dom, timing, rest
  <1>11. CASE Submit
    BY <1>11 DEF Frame, Submit, dom, timing, rest
  <1>12. CASE Send
    BY <1>12 DEF Frame, Send, dom, timing, rest
  <1>13. CASE Store
    BY <1>13 DEF Frame, Store, dom, timing, rest
  <1>14. CASE Completed
    BY <1>14 DEF Frame, Completed, RedirectTo, dom, timing, rest
  <1>15. CASE Callback
    BY <1>15 DEF Frame, Callback, dom, timing, rest
  <1>16. CASE CaughtNothing
    BY <1>16 DEF Frame, CaughtNothing, dom, timing, rest
  <1>17. CASE BreakCallbacks
    BY <1>17 DEF Frame, BreakCallbacks, dom, timing, rest
  <1>18. CASE Uncaught
    BY <1>18 DEF Frame, Uncaught, dom, timing, rest
  <1>19. CASE BreakBefore
    BY <1>19 DEF Frame, BreakBefore, dom, timing, rest
  <1>20. CASE BreakCallback
    BY <1>20 DEF Frame, BreakCallback, dom, timing, rest
  <1>21. CASE RethrowCallback
    BY <1>21 DEF Frame, RethrowCallback, dom, timing, rest
  <1>22. CASE ParseContext
    BY <1>22 DEF Frame, ParseContext, dom, timing, rest
  <1>23. CASE Insert
    BY <1>23 DEF Frame, Insert, dom, timing, rest
  <1>24. CASE Trigger
    BY <1>24 DEF Frame, Trigger, dom, timing, rest
  <1>25. CASE Break
    BY <1>25 DEF Frame, Break, dom, timing, rest
  <1>26. CASE Eval
    BY <1>26 DEF Frame, Eval, dom, timing, rest
  <1>27. CASE HashStore
    BY <1>27 DEF Frame, HashStore, RedirectTo, dom, timing, rest
  <1>28. CASE Attach
    BY <1>28 DEF Frame, Attach, dom, timing, rest
  <1>29. CASE Detach
    BY <1>29 DEF Frame, Detach, dom, timing, rest
  <1>30. CASE User
    BY <1>30 DEF Frame, User, dom, timing, rest
  <1>31. CASE Navigate
    BY <1>31 DEF Frame, Navigate, dom, timing, rest
  <1>32. CASE Announce
    BY <1>32 DEF Frame, Announce, dom, timing, rest
  <1>33. CASE Respond
    BY <1>33 DEF Frame, Respond, Answer, Fail, dom, timing, rest
  <1>34. CASE TimeOut
    BY <1>34 DEF Frame, TimeOut, dom, timing, rest
  <1>35. CASE Tick
    BY <1>35 DEF Frame, Tick, dom, timing, rest
  <1> QED
    BY <1>1, <1>2, <1>3, <1>4, <1>5, <1>6, <1>7, <1>8, <1>9, <1>10, <1>11, <1>12, <1>13, <1>14, <1>15, <1>16, <1>17, <1>18, <1>19, <1>20, <1>21, <1>22, <1>23, <1>24, <1>25, <1>26, <1>27, <1>28, <1>29, <1>30, <1>31, <1>32, <1>33, <1>34, <1>35 DEF Next, Step

-------------------------------------------------------------------------------
(* Runners *)

\* Two lists of executables, one after the other, list both sets of positions.
LEMMA ListsConcat ==
    ASSUME NEW e, NEW r, NEW S, NEW T, NEW xs, Lists(e, r, S, xs), NEW ys, Lists(e, r, T, ys)
    PROVE  Lists(e, r, S \cup T, xs \o ys)
  <1>1. IsSeq(xs) /\ IsSeq(ys)
    BY DEF Lists
  <1>2. /\ IsSeq(xs \o ys)
        /\ DOMAIN (xs \o ys) = 1..(Len(xs) + Len(ys))
        /\ \A i \in 1..Len(xs) : (xs \o ys)[i] = xs[i]
        /\ \A i \in 1..Len(ys) : (xs \o ys)[Len(xs) + i] = ys[i]
    BY <1>1, IsSeqConcat
  <1>3. Len(xs) \in Nat /\ Len(ys) \in Nat /\ DOMAIN xs = 1..Len(xs) /\ DOMAIN ys = 1..Len(ys)
    BY <1>1, IsSeqDom
  <1> DEFINE zs == xs \o ys
  <1> HIDE DEF zs
  <1>4. ASSUME NEW i \in DOMAIN zs
        PROVE  zs[i][3] \in S \cup T /\ zs[i] = <<e, r, zs[i][3]>>
    <2>1. CASE i \in 1..Len(xs)
      <3>1. zs[i] = xs[i] /\ i \in DOMAIN xs
        BY <2>1, <1>2, <1>3 DEF zs
      <3> QED
        BY <3>1 DEF Lists
    <2>2. CASE i \notin 1..Len(xs)
      <3>1. i - Len(xs) \in 1..Len(ys) /\ i = Len(xs) + (i - Len(xs))
        BY <2>2, <1>2, <1>3 DEF zs
      <3>2. zs[i] = ys[i - Len(xs)] /\ i - Len(xs) \in DOMAIN ys
        BY <3>1, <1>2, <1>3 DEF zs
      <3> QED
        BY <3>2 DEF Lists
    <2> QED
      BY <2>1, <2>2
  <1>5. ASSUME NEW p \in S \cup T
        PROVE  \E i \in DOMAIN zs : zs[i] = <<e, r, p>>
    <2>1. CASE p \in S
      <3>1. PICK i \in DOMAIN xs : xs[i] = <<e, r, p>>
        BY <2>1 DEF Lists
      <3>2. i \in DOMAIN zs /\ zs[i] = xs[i]
        BY <1>2, <1>3 DEF zs
      <3> QED
        BY <3>1, <3>2
    <2>2. CASE p \in T
      <3>1. PICK i \in DOMAIN ys : ys[i] = <<e, r, p>>
        BY <2>2 DEF Lists
      <3>2. Len(xs) + i \in DOMAIN zs /\ zs[Len(xs) + i] = ys[i]
        BY <1>2, <1>3 DEF zs
      <3> QED
        BY <3>1, <3>2
    <2> QED
      BY <2>1, <2>2
  <1> QED
    BY <1>2, <1>4, <1>5, Zenon DEF Lists, zs

\* The executables that complete the action x.
CallbackPositions(x) ==
    {i \in DOMAIN MetasOf(x[1], x[2]) :
        /\ \E status \in {Success, Error, Complete, Breakes} : ListOf(MetasOf(x[1], x[2])[i], status)
        /\ MetasOf(x[1], x[2])[i].onBind = Meta(x).onBind}

\* The callbacks an action stores its event in.
AllCallbacksOf(x) ==
    CallbacksOf(x, Success) \o CallbacksOf(x, Error) \o CallbacksOf(x, Complete) \o CallbacksOf(x, Breakes)

\* What an action stores its event in: its callbacks of every status.
LEMMA AllCallbacksLists ==
    ASSUME page \in Page, AreRuns(page, runs), NEW x, Executable(runs, x)
    PROVE  Lists(x[1], x[2], CallbackPositions(x), AllCallbacksOf(x))
  <1> DEFINE P(status) == {i \in DOMAIN MetasOf(x[1], x[2]) :
                              /\ ListOf(MetasOf(x[1], x[2])[i], status)
                              /\ MetasOf(x[1], x[2])[i].onBind = Meta(x).onBind}
  <1>1. /\ Lists(x[1], x[2], P(Success), CallbacksOf(x, Success))
        /\ Lists(x[1], x[2], P(Error), CallbacksOf(x, Error))
        /\ Lists(x[1], x[2], P(Complete), CallbacksOf(x, Complete))
        /\ Lists(x[1], x[2], P(Breakes), CallbacksOf(x, Breakes))
    BY CallbacksLists
  <1>2. CallbackPositions(x) = ((P(Success) \cup P(Error)) \cup P(Complete)) \cup P(Breakes)
    BY DEF CallbackPositions
  <1> HIDE DEF P
  <1>3. Lists(x[1], x[2], P(Success) \cup P(Error), CallbacksOf(x, Success) \o CallbacksOf(x, Error))
    BY <1>1, ListsConcat
  <1>4. Lists(x[1], x[2], (P(Success) \cup P(Error)) \cup P(Complete),
              (CallbacksOf(x, Success) \o CallbacksOf(x, Error)) \o CallbacksOf(x, Complete))
    BY <1>1, <1>3, ListsConcat
  <1>5. Lists(x[1], x[2], ((P(Success) \cup P(Error)) \cup P(Complete)) \cup P(Breakes),
              ((CallbacksOf(x, Success) \o CallbacksOf(x, Error)) \o CallbacksOf(x, Complete))
                \o CallbacksOf(x, Breakes))
    BY <1>1, <1>4, ListsConcat
  <1> QED
    BY <1>2, <1>5 DEF AllCallbacksOf

\* What executeState changes: the result of one executable.
ResultSet(rs, rs2, x, data) ==
    /\ Grown(rs, rs2)
    /\ \A d \in Element : DOMAIN rs2[d] = DOMAIN rs[d]
    /\ \A d \in Element : \A q \in DOMAIN rs[d] :
          /\ rs2[d][q].event = rs[d][q].event
          /\ \A i \in DOMAIN rs[d][q].result :
                rs2[d][q].result[i] = IF d = x[1] /\ q = x[2] /\ i = x[3] THEN data ELSE rs[d][q].result[i]

\* executeState sets the result of one executable and nothing else.
LEMMA CallbackDoes ==
    ASSUME page \in Page, AreRuns(page, runs), Callback, Executable(runs, todo[1].x)
    PROVE  /\ AreRuns(page, runs')
           /\ ResultSet(runs, runs', todo[1].x, todo[1].data)
  <1> DEFINE x == todo[1].x
             data == todo[1].data
             e == x[1]
             r == x[2]
  <1>0. runs' = [runs EXCEPT ![e][r].result[x[3]] = data] /\ e \in Element /\ r \in DOMAIN runs[e]
    BY DEF Callback, Executable
  <1> DEFINE q0 == runs[e][r]
             set == [q0.result EXCEPT ![x[3]] = data]
             q1 == [name |-> q0.name, incarnation |-> q0.incarnation, event |-> q0.event, result |-> set]
  <1> HIDE DEF data
  <1>2. IsRun(page, q0) /\ IsSeq(runs[e]) /\ runs = [d \in Element |-> runs[d]]
    BY <1>0 DEF AreRuns
  <1> HIDE DEF x
  <1>3. [q0 EXCEPT !.result = set] = q1
    <2>1. q0 = [name |-> q0.name, incarnation |-> q0.incarnation, event |-> q0.event, result |-> q0.result]
      BY <1>2 DEF IsRun
    <2> HIDE DEF set, q0
    <2>2. \A a, b, c, d, f : [[name |-> a, incarnation |-> b, event |-> c, result |-> d] EXCEPT !.result = f]
                             = [name |-> a, incarnation |-> b, event |-> c, result |-> f]
      OBVIOUS
    <2> QED
      BY <2>1, <2>2
  <1>4. runs' = [runs EXCEPT ![e] = [runs[e] EXCEPT ![r] = q1]]
    <2>1. runs' = [runs EXCEPT ![e] = [runs[e] EXCEPT ![r] = [q0 EXCEPT !.result = set]]]
      BY <1>0
    <2> QED
      BY <2>1, <1>3
  <1>5. \A d \in Element \ {e} : runs'[d] = runs[d]
    BY <1>4, <1>2, <1>0
  <1>6. runs'[e] = [runs[e] EXCEPT ![r] = q1]
    BY <1>4, <1>2, <1>0
  <1>7. DOMAIN runs'[e] = DOMAIN runs[e] /\ runs'[e][r] = q1 /\ \A q \in DOMAIN runs[e] \ {r} : runs'[e][q] = runs[e][q]
    BY <1>6, <1>2, <1>0
  <1>8. IsRun(page, q1)
    <2> HIDE DEF q0
    <2>1. q0.result = [i \in DOMAIN page.metas[q0.name] |-> q0.result[i]]
      BY <1>2 DEF IsRun
    <2>2. set = [i \in DOMAIN page.metas[q0.name] |-> set[i]]
      BY <2>1
    <2> HIDE DEF set
    <2> QED
      BY <1>2, <2>2 DEF IsRun
  <1>9. IsSeq(runs'[e])
    <2>1. runs'[e] = [q \in DOMAIN runs[e] |-> runs'[e][q]]
      BY <1>6
    <2> QED
      BY <1>2, <2>1, Mapped
  <1>10. runs' = [d \in Element |-> runs'[d]]
    BY <1>4, <1>2
  <1>12. /\ q1.name = q0.name /\ q1.incarnation = q0.incarnation /\ q1.event = q0.event
         /\ \A i \in DOMAIN q0.result : q1.result[i] = IF i = x[3] THEN data ELSE q0.result[i]
    OBVIOUS
  <1> HIDE DEF q1
  <1>11. AreRuns(page, runs')
    <2>1. ASSUME NEW d \in Element
          PROVE  IsSeq(runs'[d]) /\ \A q \in DOMAIN runs'[d] : IsRun(page, runs'[d][q])
      <3> HIDE DEF q0
      <3>1. CASE d = e
        BY <3>1, <1>7, <1>8, <1>9 DEF AreRuns
      <3>2. CASE d # e
        BY <3>2, <1>5 DEF AreRuns
      <3> QED
        BY <3>1, <3>2
    <2> QED
      BY <2>1, <1>10 DEF AreRuns
  <1>13. ResultSet(runs, runs', x, data)
    <2>1. ASSUME NEW d \in Element
          PROVE  /\ DOMAIN runs'[d] = DOMAIN runs[d]
                 /\ \A q \in DOMAIN runs[d] :
                       /\ q \in DOMAIN runs'[d]
                       /\ runs'[d][q].name = runs[d][q].name
                       /\ runs'[d][q].incarnation = runs[d][q].incarnation
                       /\ DOMAIN runs'[d][q].event = DOMAIN runs[d][q].event
                       /\ runs'[d][q].event = runs[d][q].event
                       /\ \A i \in DOMAIN runs[d][q].result :
                             runs'[d][q].result[i] = IF d = x[1] /\ q = x[2] /\ i = x[3] THEN data
                                                     ELSE runs[d][q].result[i]
      <3>1. CASE d # e
        BY <3>1, <1>5
      <3>2. CASE d = e
        BY <3>2, <1>7, <1>12
      <3> QED
        BY <3>1, <3>2
    <2>2. Grown(runs, runs')
      BY <2>1, Zenon DEF Grown
    <2> QED
      BY <2>1, <2>2, ZenonT(60) DEF ResultSet
  <1> QED
    BY <1>11, <1>13 DEF x, data

\* The positions of a list are those it was made from.
LEMMA ListsPositions ==
    ASSUME NEW e, NEW r, NEW S, NEW xs, Lists(e, r, S, xs)
    PROVE  {xs[i][3] : i \in DOMAIN xs} = S
  <1>1. ASSUME NEW p \in S
        PROVE  p \in {xs[i][3] : i \in DOMAIN xs}
    <2>1. PICK i \in DOMAIN xs : xs[i] = <<e, r, p>>
      BY DEF Lists
    <2>2. xs[i][3] = p
      BY <2>1
    <2> QED
      BY <2>2
  <1> QED
    BY <1>1 DEF Lists

\* The positions BeforeOf, BreakesOf and ActionsOf list.
BeforePositions(e, r, type) ==
    {i \in DOMAIN MetasOf(e, r) : ListOf(MetasOf(e, r)[i], Before) /\ type \in MetasOf(e, r)[i].onBind}
BreakesPositions(e, r, type) ==
    {i \in DOMAIN MetasOf(e, r) : ListOf(MetasOf(e, r)[i], Breakes) /\ type \in MetasOf(e, r)[i].onBind}
ActionPositions(e, r, type) ==
    {i \in DOMAIN MetasOf(e, r) : IsAction(MetasOf(e, r)[i]) /\ type \in MetasOf(e, r)[i].onBind}

\* Storing an event in a list sets it at the positions of the list.
LEMMA ListsStored ==
    ASSUME page \in Page, AreRuns(page, runs), NEW e \in Element, NEW r \in DOMAIN runs[e],
           NEW S, S \subseteq DOMAIN MetasOf(e, r), NEW xs, Lists(e, r, S, xs), NEW ev, StoreEvent(xs, ev)
    PROVE  AreRuns(page, runs') /\ Stored(runs, runs', e, r, S, ev)
  <1>1. IsSeq(xs) /\ \A i \in DOMAIN xs : xs[i][1] = e /\ xs[i][2] = r
    BY DEF Lists
  <1>2. AreRuns(page, runs') /\ Stored(runs, runs', e, r, {xs[i][3] : i \in DOMAIN xs}, ev)
    BY <1>1, StoreEventDoes
  <1>3. {xs[i][3] : i \in DOMAIN xs} = S
    BY ListsPositions
  <1> QED
    BY <1>2, <1>3

\* The operation at the head and those after it.
LEMMA AtHead ==
    ASSUME TypeInv, todo # <<>>
    PROVE  /\ OpOK(runs, todo[1])
           /\ 1 \in DOMAIN todo
           /\ Len(todo) \in Nat /\ Len(todo) > 0
  <1>1. IsSeq(todo)
    BY DEF TypeInv, OpsOK
  <1>2. 1 \in DOMAIN todo /\ Len(todo) \in Nat /\ Len(todo) > 0
    BY <1>1, IsSeqDom, IsSeqTail
  <1>3. \A i \in DOMAIN todo : OpOK(runs, todo[i])
    BY DEF TypeInv, OpsOK
  <1> QED
    BY <1>2, <1>3

\* invoke stores the event in the executables before the action.
LEMMA InvokeDoes ==
    ASSUME TypeInv, Invoke, NEW e, e = todo[1].site[1], NEW r, r = runner[e], NEW ev, ev = todo[1].ev,
           Present(todo[1].site), r # 0
    PROVE  /\ e \in Element /\ r \in DOMAIN runs[e]
           /\ Lists(e, r, BeforePositions(e, r, ev.type), BeforeOf(e, r, ev.type))
           /\ AreRuns(page, runs')
           /\ Stored(runs, runs', e, r, BeforePositions(e, r, ev.type), ev)
  <1>1. e \in Element /\ r \in DOMAIN runs[e] /\ page \in Page /\ AreRuns(page, runs)
    BY DEF Present, TypeInv, DomOK
  <1>2. Lists(e, r, BeforePositions(e, r, ev.type), BeforeOf(e, r, ev.type))
    BY <1>1, BeforeLists DEF BeforePositions
  <1>3. StoreEvent(BeforeOf(e, r, ev.type), ev)
    BY DEF Invoke
  <1>4. BeforePositions(e, r, ev.type) \subseteq DOMAIN MetasOf(e, r)
    BY DEF BeforePositions
  <1> QED
    BY <1>1, <1>2, <1>3, <1>4, ListsStored

\* DoIt stores the event in the actions.
LEMMA ActionsDoes ==
    ASSUME TypeInv, Actions, NEW e, e = todo[1].e, NEW r, r = todo[1].r, NEW ev, ev = todo[1].ev
    PROVE  /\ e \in Element /\ r \in DOMAIN runs[e]
           /\ Lists(e, r, ActionPositions(e, r, ev.type), ActionsOf(e, r, ev.type))
           /\ AreRuns(page, runs')
           /\ Stored(runs, runs', e, r, ActionPositions(e, r, ev.type), ev)
  <1>h. todo # <<>> /\ todo[1].op = "actions"
    BY DEF Actions, At
  <1>0. OpOK(runs, todo[1])
    BY <1>h, AtHead
  <1>1. e \in Element /\ r \in DOMAIN runs[e] /\ page \in Page /\ AreRuns(page, runs)
    BY <1>0, <1>h DEF OpOK, TypeInv
  <1>2. Lists(e, r, ActionPositions(e, r, ev.type), ActionsOf(e, r, ev.type))
    BY <1>1, ActionsLists DEF ActionPositions
  <1>3. StoreEvent(ActionsOf(e, r, ev.type), ev)
    BY DEF Actions
  <1>4. ActionPositions(e, r, ev.type) \subseteq DOMAIN MetasOf(e, r)
    BY DEF ActionPositions
  <1> QED
    BY <1>1, <1>2, <1>3, <1>4, ListsStored

\* An action that begins stores the event in its callbacks.
LEMMA ActionDoes ==
    ASSUME TypeInv, Action, NEW x, x = todo[1].x
    PROVE  /\ Executable(runs, x)
           /\ AreRuns(page, runs')
           /\ Stored(runs, runs', x[1], x[2], CallbackPositions(x), todo[1].ev)
  <1>h. todo # <<>> /\ todo[1].op = "action"
    BY DEF Action, At
  <1>0. OpOK(runs, todo[1])
    BY <1>h, AtHead
  <1>1. Executable(runs, x) /\ page \in Page /\ AreRuns(page, runs)
    BY <1>0, <1>h DEF OpOK, TypeInv
  <1>2. Lists(x[1], x[2], CallbackPositions(x), AllCallbacksOf(x))
    BY <1>1, AllCallbacksLists
  <1>3. StoreEvent(AllCallbacksOf(x), todo[1].ev)
    BY DEF Action, AllCallbacksOf
  <1>4. CallbackPositions(x) \subseteq DOMAIN MetasOf(x[1], x[2])
    BY DEF CallbackPositions
  <1>5. x[1] \in Element /\ x[2] \in DOMAIN runs[x[1]]
    BY <1>1 DEF Executable
  <1> HIDE DEF CallbackPositions
  <1>6. AreRuns(page, runs') /\ Stored(runs, runs', x[1], x[2], CallbackPositions(x), todo[1].ev)
    BY <1>1, <1>2, <1>3, <1>4, <1>5, ListsStored
  <1> QED
    BY <1>1, <1>6

\* FirstOf is the least member.
LEMMA FirstOfDoes ==
    ASSUME NEW S \in SUBSET Nat, S # {}
    PROVE  FirstOf(S) \in S /\ \A j \in S : FirstOf(S) <= j
  <1>1. \E i \in S : \A j \in S : i <= j
    BY SomeIsLeast
  <1> QED
    BY <1>1 DEF FirstOf

\* The operation that catches an exception: it is not the throw, and none before it
\* catches.
LEMMA CatcherDoes ==
    ASSUME TypeInv, At("throw"), NEW kind, Catchers(kind) # {}
    PROVE  LET i == FirstOf(Catchers(kind))
           IN  /\ i \in DOMAIN todo /\ i > 1 /\ i <= Len(todo) /\ i \in Nat
               /\ Catches(todo[i], kind)
               /\ \A j \in DOMAIN todo : j < i => ~ Catches(todo[j], kind)
               /\ OpOK(runs, todo[i])
  <1>1. IsSeq(todo) /\ Len(todo) \in Nat /\ DOMAIN todo = 1..Len(todo)
    BY IsSeqDom DEF TypeInv, OpsOK
  <1>2. Catchers(kind) \in SUBSET Nat
    BY <1>1 DEF Catchers
  <1> DEFINE i == FirstOf(Catchers(kind))
  <1>3. i \in Catchers(kind) /\ \A j \in Catchers(kind) : i <= j
    BY <1>2, FirstOfDoes
  <1> HIDE DEF i
  <1>4. i \in DOMAIN todo /\ Catches(todo[i], kind)
    BY <1>3 DEF Catchers
  <1>5. i # 1
    BY <1>4 DEF Catches, At
  <1>6. i > 1 /\ i <= Len(todo) /\ i \in Nat
    BY <1>1, <1>4, <1>5
  <1>7. \A j \in DOMAIN todo : j < i => ~ Catches(todo[j], kind)
    <2>1. \A j \in Catchers(kind) : ~ (j < i)
      BY <1>2, <1>3, <1>6
    <2> QED
      BY <2>1 DEF Catchers
  <1>8. OpOK(runs, todo[i])
    BY <1>4 DEF TypeInv, OpsOK
  <1> QED
    BY <1>4, <1>6, <1>7, <1>8 DEF i

\* A Break before the action stores the event in the executables on break.
LEMMA BreakBeforeDoes ==
    ASSUME TypeInv, BreakBefore, NEW i, i = FirstOf(Catchers(todo[1].kind)), NEW c, c = todo[i]
    PROVE  /\ c.e \in Element /\ c.r \in DOMAIN runs[c.e]
           /\ Lists(c.e, c.r, BreakesPositions(c.e, c.r, c.ev.type), BreakesOf(c.e, c.r, c.ev.type))
           /\ AreRuns(page, runs')
           /\ Stored(runs, runs', c.e, c.r, BreakesPositions(c.e, c.r, c.ev.type), c.ev)
  <1>0. OpOK(runs, c) /\ c.op = "catch"
    <2>1. At("throw") /\ Catchers(todo[1].kind) # {} /\ c.op = "catch"
      BY DEF BreakBefore
    <2> QED
      BY <2>1, CatcherDoes
  <1>1. c.e \in Element /\ c.r \in DOMAIN runs[c.e] /\ page \in Page /\ AreRuns(page, runs)
    BY <1>0 DEF OpOK, TypeInv
  <1>2. Lists(c.e, c.r, BreakesPositions(c.e, c.r, c.ev.type), BreakesOf(c.e, c.r, c.ev.type))
    BY <1>1, BreakesLists DEF BreakesPositions
  <1>3. StoreEvent(BreakesOf(c.e, c.r, c.ev.type), c.ev)
    BY DEF BreakBefore
  <1>4. BreakesPositions(c.e, c.r, c.ev.type) \subseteq DOMAIN MetasOf(c.e, c.r)
    BY DEF BreakesPositions
  <1> QED
    BY <1>1, <1>2, <1>3, <1>4, ListsStored

\* No step drops or renames a runner: an executable stays one.
LEMMA RunsStep ==
    ASSUME TypeInv, Next
    PROVE  page' = page /\ AreRuns(page, runs') /\ Grown(runs, runs')
  <1>1. Frame
    BY Frames
  <1>2. AreRuns(page, runs) /\ page \in Page /\ DomOK
    BY DEF TypeInv
  <1>3. CASE UNCHANGED runs
    BY <1>1, <1>2, <1>3, GrownRefl DEF Frame
  <1>4. CASE Invoke
    <2>1. CASE Present(todo[1].site) /\ runner[todo[1].site[1]] # 0
      BY <1>1, <1>4, <2>1, InvokeDoes DEF Frame, Stored
    <2>2. CASE ~ (Present(todo[1].site) /\ runner[todo[1].site[1]] # 0)
      <3>1. UNCHANGED runs
        BY <1>4, <2>2 DEF Invoke
      <3> QED
        BY <3>1, <1>3
    <2> QED
      BY <2>1, <2>2
  <1>5. CASE Actions
    BY <1>1, <1>5, ActionsDoes DEF Frame, Stored
  <1>6. CASE Action
    BY <1>1, <1>6, ActionDoes DEF Frame, Stored
  <1>7. CASE BreakBefore
    BY <1>1, <1>7, BreakBeforeDoes DEF Frame, Stored
  <1>8. CASE Callback
    <2>h. todo # <<>> /\ todo[1].op = "callback"
      BY <1>8 DEF Callback, At
    <2>1. OpOK(runs, todo[1])
      BY <2>h, AtHead
    <2>2. Executable(runs, todo[1].x)
      BY <2>h, <2>1 DEF OpOK
    <2> QED
      BY <1>1, <1>2, <1>8, <2>2, CallbackDoes DEF Frame, ResultSet
  <1>9. CASE ParseContext
    BY <1>1, <1>2, <1>9, ParseRuns DEF Frame
  <1> QED
    BY <1>1, <1>3, <1>4, <1>5, <1>6, <1>7, <1>8, <1>9, Zenon DEF Frame

-------------------------------------------------------------------------------
(* What the running task has still to do *)

\* An operation keeps referring to what exists.
LEMMA OpKept ==
    ASSUME NEW rs, NEW rs2, Grown(rs, rs2), NEW o, OpOK(rs, o)
    PROVE  OpOK(rs2, o)
  <1>1. ASSUME NEW x, Executable(rs, x)
        PROVE  Executable(rs2, x)
    BY <1>1 DEF Executable, Grown
  <1>2. ASSUME NEW e \in Element, NEW r \in DOMAIN rs[e]
        PROVE  r \in DOMAIN rs2[e]
    BY DEF Grown
  <1> QED
    BY <1>1, <1>2 DEF OpOK

\* What is kept of the operations that are still to be done.
OpsInv(rs, ops) == OpsOK(rs, ops) /\ LoopsEnd(ops)

\* What is pushed before what is left.
LEMMA Joined ==
    ASSUME NEW rs, NEW ops, OpsOK(rs, ops), NEW after, OpsInv(rs, after),
           \A i \in DOMAIN ops : InLoop(ops[i]) => \/ \E k \in DOMAIN ops : k > i /\ ops[k].op = "breakes"
                                                   \/ \E k \in DOMAIN after : after[k].op = "breakes"
    PROVE  OpsInv(rs, ops \o after)
  <1> DEFINE all == ops \o after
             n == Len(ops)
  <1>1. IsSeq(ops) /\ IsSeq(after)
    BY DEF OpsOK, OpsInv
  <1>2. /\ IsSeq(all)
        /\ DOMAIN all = 1..(n + Len(after))
        /\ \A i \in 1..n : all[i] = ops[i]
        /\ \A i \in 1..Len(after) : all[n + i] = after[i]
    BY <1>1, IsSeqConcat
  <1>3. n \in Nat /\ Len(after) \in Nat /\ DOMAIN ops = 1..n /\ DOMAIN after = 1..Len(after)
    BY <1>1, IsSeqDom
  <1> HIDE DEF all, n
  <1>4. ASSUME NEW i \in DOMAIN all, i \notin 1..n
        PROVE  i - n \in DOMAIN after /\ all[i] = after[i - n]
    <2>1. i - n \in 1..Len(after) /\ i = n + (i - n)
      BY <1>2, <1>3, <1>4
    <2> QED
      BY <2>1, <1>2, <1>3
  <1>5. ASSUME NEW k \in DOMAIN after
        PROVE  n + k \in DOMAIN all /\ all[n + k] = after[k] /\ n + k > n
    BY <1>2, <1>3
  <1>6. ASSUME NEW k \in DOMAIN ops
        PROVE  k \in DOMAIN all /\ all[k] = ops[k] /\ k <= n
    BY <1>2, <1>3
  <1>7. OpsOK(rs, all)
    <2>1. ASSUME NEW i \in DOMAIN all PROVE OpOK(rs, all[i])
      <3>1. CASE i \in 1..n
        BY <3>1, <1>2, <1>3 DEF OpsOK
      <3>2. CASE i \notin 1..n
        BY <3>2, <1>4 DEF OpsOK, OpsInv
      <3> QED
        BY <3>1, <3>2
    <2> QED
      BY <2>1, <1>2 DEF OpsOK
  <1>8. ASSUME NEW i \in DOMAIN all, InLoop(all[i])
        PROVE  \E k \in DOMAIN all : k > i /\ all[k].op = "breakes"
    <2>1. CASE i \in 1..n
      <3>1. InLoop(ops[i]) /\ i \in DOMAIN ops
        BY <2>1, <1>2, <1>3, <1>8
      <3>2. CASE \E k \in DOMAIN ops : k > i /\ ops[k].op = "breakes"
        BY <3>2, <1>6
      <3>3. CASE \E k \in DOMAIN after : after[k].op = "breakes"
        <4>1. PICK k \in DOMAIN after : after[k].op = "breakes"
          BY <3>3
        <4>2. n + k \in DOMAIN all /\ all[n + k].op = "breakes" /\ n + k > n
          BY <4>1, <1>5
        <4>3. n + k > i
          BY <2>1, <1>3, <4>1
        <4> QED
          BY <4>2, <4>3
      <3> QED
        BY <3>1, <3>2, <3>3
    <2>2. CASE i \notin 1..n
      <3>1. i - n \in DOMAIN after /\ all[i] = after[i - n]
        BY <2>2, <1>4
      <3>2. PICK k \in DOMAIN after : k > i - n /\ after[k].op = "breakes"
        BY <3>1, <1>8 DEF OpsInv, LoopsEnd
      <3>3. n + k \in DOMAIN all /\ all[n + k].op = "breakes"
        BY <3>2, <1>5
      <3>4. n + k > i
        BY <3>2, <1>2, <1>3
      <3> QED
        BY <3>3, <3>4
    <2> QED
      BY <2>1, <2>2
  <1> QED
    BY <1>7, <1>8 DEF OpsInv, LoopsEnd, all

\* What is left after the first k operations.
LEMMA Suffix ==
    ASSUME NEW rs, NEW ops, OpsInv(rs, ops), NEW k \in 0..Len(ops)
    PROVE  LET after == SubSeq(ops, k + 1, Len(ops))
           IN  /\ OpsInv(rs, after)
               /\ Len(after) = Len(ops) - k
               /\ DOMAIN after = 1..(Len(ops) - k)
               /\ \A i \in DOMAIN after : after[i] = ops[k + i] /\ k + i \in DOMAIN ops
  <1> DEFINE after == SubSeq(ops, k + 1, Len(ops))
             n == Len(ops)
  <1>1. IsSeq(ops)
    BY DEF OpsOK, OpsInv
  <1>2. n \in Nat /\ DOMAIN ops = 1..n /\ k \in Nat /\ k <= n
    BY <1>1, IsSeqDom
  <1>3. IsSeq(after) /\ Len(after) = n - k /\ \A i \in 1..(n - k) : after[i] = ops[k + i]
    BY <1>1, IsSeqSub
  <1>4. DOMAIN after = 1..(n - k)
    BY <1>3, IsSeqDom
  <1> HIDE DEF after, n
  <1>5. \A i \in DOMAIN after : after[i] = ops[k + i] /\ k + i \in DOMAIN ops
    BY <1>2, <1>3, <1>4
  <1>6. OpsOK(rs, after)
    BY <1>3, <1>5 DEF OpsOK, OpsInv
  <1>7. ASSUME NEW i \in DOMAIN after, InLoop(after[i])
        PROVE  \E j \in DOMAIN after : j > i /\ after[j].op = "breakes"
    <2>1. PICK j \in DOMAIN ops : j > k + i /\ ops[j].op = "breakes"
      BY <1>5, <1>7 DEF OpsInv, LoopsEnd
    <2>2. j - k \in DOMAIN after /\ j - k > i /\ k + (j - k) = j
      BY <2>1, <1>2, <1>4
    <2>3. after[j - k] = ops[j]
      BY <2>2, <1>5
    <2> QED
      BY <2>1, <2>2, <2>3
  <1> QED
    BY <1>3, <1>4, <1>5, <1>6, <1>7 DEF OpsInv, LoopsEnd, after, n

\* What has still to be done keeps referring to what exists.
LEMMA OpsKept ==
    ASSUME NEW rs, NEW rs2, Grown(rs, rs2), NEW ops, OpsInv(rs, ops)
    PROVE  OpsInv(rs2, ops)
  <1>1. \A i \in DOMAIN ops : OpOK(rs2, ops[i])
    BY OpKept DEF OpsInv, OpsOK
  <1> QED
    BY <1>1 DEF OpsInv, OpsOK

\* What follows the operation at the head.
LEMMA TailInv ==
    ASSUME NEW rs, NEW ops, OpsInv(rs, ops), ops # <<>>
    PROVE  /\ OpsInv(rs, Tail(ops))
           /\ InLoop(ops[1]) => \E k \in DOMAIN Tail(ops) : Tail(ops)[k].op = "breakes"
  <1>1. IsSeq(ops)
    BY DEF OpsOK, OpsInv
  <1>2. Len(ops) \in Nat /\ DOMAIN ops = 1..Len(ops) /\ Len(ops) > 0
    BY <1>1, IsSeqDom, IsSeqTail
  <1> DEFINE tail == Tail(ops)
  <1>3. IsSeq(tail) /\ Len(tail) = Len(ops) - 1 /\ \A i \in 1..(Len(ops) - 1) : tail[i] = ops[i + 1]
    BY <1>1, IsSeqTail
  <1>4. DOMAIN tail = 1..(Len(ops) - 1)
    BY <1>3, IsSeqDom
  <1> HIDE DEF tail
  <1>5. ASSUME NEW k \in DOMAIN ops, k > 1
        PROVE  k - 1 \in DOMAIN tail /\ tail[k - 1] = ops[k]
    <2>1. k - 1 \in 1..(Len(ops) - 1) /\ (k - 1) + 1 = k
      BY <1>2, <1>5
    <2> QED
      BY <2>1, <1>3, <1>4
  <1>6. \A i \in DOMAIN tail : i + 1 \in DOMAIN ops /\ tail[i] = ops[i + 1]
    BY <1>2, <1>3, <1>4
  <1>7. OpsOK(rs, tail)
    BY <1>3, <1>6 DEF OpsOK, OpsInv
  <1>8. ASSUME NEW i \in DOMAIN tail, InLoop(tail[i])
        PROVE  \E j \in DOMAIN tail : j > i /\ tail[j].op = "breakes"
    <2>1. PICK j \in DOMAIN ops : j > i + 1 /\ ops[j].op = "breakes"
      BY <1>6, <1>8 DEF OpsInv, LoopsEnd
    <2>2. j > 1 /\ j - 1 > i
      BY <2>1, <1>2, <1>4
    <2> QED
      BY <2>1, <2>2, <1>5
  <1>9. InLoop(ops[1]) => \E k \in DOMAIN tail : tail[k].op = "breakes"
    <2>1. 1 \in DOMAIN ops
      BY <1>2
    <2> QED
      BY <2>1, <1>5 DEF OpsInv, LoopsEnd
  <1> QED
    BY <1>7, <1>8, <1>9 DEF OpsInv, LoopsEnd, tail

\* A call replaced by the operations of its body.
LEMMA Pushed ==
    ASSUME TypeInv, Next, todo # <<>>, NEW ops, OpsOK(runs', ops), Do(ops),
           \A i \in DOMAIN ops : InLoop(ops[i]) => \/ \E k \in DOMAIN ops : k > i /\ ops[k].op = "breakes"
                                                   \/ InLoop(todo[1])
    PROVE  OpsInv(runs', todo')
  <1>1. Grown(runs, runs')
    BY RunsStep
  <1>2. OpsInv(runs', todo)
    <2>1. OpsInv(runs, todo)
      BY DEF TypeInv, OpsInv
    <2> QED
      BY <1>1, <2>1, OpsKept
  <1>3. /\ OpsInv(runs', Tail(todo))
        /\ InLoop(todo[1]) => \E k \in DOMAIN Tail(todo) : Tail(todo)[k].op = "breakes"
    BY <1>2, TailInv
  <1>4. OpsInv(runs', ops \o Tail(todo))
    BY <1>3, Joined
  <1> QED
    BY <1>4 DEF Do

\* Lists of one and two operations.
LEMMA Ops ==
    ASSUME NEW rs
    PROVE  /\ OpsOK(rs, <<>>)
           /\ \A o : OpOK(rs, o) => OpsOK(rs, <<o>>)
           /\ \A o, p : OpOK(rs, o) /\ OpOK(rs, p) => OpsOK(rs, <<o, p>>)
  BY IsSeqEmpty, IsSeqTuples DEF OpsOK

\* Operations that no condition is on.
Free(o) == o.op \in {"fire", "throw", "parse", "invoke", "store"}

\* Operations that refer to no executable.
LEMMA FreeOK ==
    ASSUME NEW rs, NEW o, Free(o)
    PROVE  OpOK(rs, o) /\ ~ InLoop(o)
  BY DEF Free, OpOK, InLoop

\* Operations made for each element of a sequence.
LEMMA MappedOps ==
    ASSUME NEW rs, NEW xs, IsSeq(xs), NEW ops, ops = [i \in DOMAIN xs |-> ops[i]],
           \A i \in DOMAIN xs : OpOK(rs, ops[i])
    PROVE  OpsOK(rs, ops)
  <1>1. IsSeq(ops) /\ DOMAIN ops = DOMAIN xs
    BY Mapped
  <1> QED
    BY <1>1 DEF OpsOK

\* The executable of the operation at the head exists before and after the step.
LEMMA AtHeadExecutable ==
    ASSUME TypeInv, Next, todo # <<>>,
           todo[1].op \in {"execute", "run", "action", "callback", "caught", "complete", "send"}
    PROVE  Executable(runs, todo[1].x) /\ Executable(runs', todo[1].x)
  <1>1. OpOK(runs, todo[1])
    BY AtHead
  <1>2. Executable(runs, todo[1].x)
    BY <1>1 DEF OpOK
  <1>3. Grown(runs, runs')
    BY RunsStep
  <1> QED
    BY <1>2, <1>3 DEF Executable, Grown

\* The operation at the head ends.
LEMMA Pushed0 ==
    ASSUME TypeInv, Next, todo # <<>>, Do(<<>>)
    PROVE  OpsInv(runs', todo')
  BY Pushed, Ops, IsSeqEmpty

\* The operation at the head is replaced by one.
LEMMA Pushed1 ==
    ASSUME TypeInv, Next, todo # <<>>, NEW o, OpOK(runs', o), ~ InLoop(o), Do(<<o>>)
    PROVE  OpsInv(runs', todo')
  <1>1. OpsOK(runs', <<o>>) /\ \A i \in DOMAIN <<o>> : ~ InLoop(<<o>>[i])
    BY Ops
  <1> QED
    BY <1>1, Pushed

\* The operation at the head is replaced by two; a callback by what catches for it.
LEMMA Pushed2 ==
    ASSUME TypeInv, Next, todo # <<>>, NEW o, OpOK(runs', o), ~ InLoop(o),
           NEW p, OpOK(runs', p), InLoop(p) => InLoop(todo[1]), Do(<<o, p>>)
    PROVE  OpsInv(runs', todo')
  <1>1. OpsOK(runs', <<o, p>>)
    BY Ops
  <1>2. \A i \in DOMAIN <<o, p>> : <<o, p>>[i] = o \/ <<o, p>>[i] = p
    OBVIOUS
  <1>3. \A i \in DOMAIN <<o, p>> : InLoop(<<o, p>>[i]) => InLoop(todo[1])
    BY <1>2
  <1> HIDE DEF Do
  <1> QED
    BY <1>1, <1>3, Pushed

\* Each kind of operation, where it refers to an executable that exists.
LEMMA OpKinds ==
    ASSUME NEW rs
    PROVE  /\ \A type, site, data : Free(FireOp(type, site, data))
           /\ \A kind : Free(ThrowOp(kind))
           /\ \A e : Free(ParseOp(e))
           /\ \A site, ev : Free(InvokeOp(site, ev))
           /\ \A k, v : Free([op |-> "store", key |-> k, value |-> v])
           /\ \A x, ev : Executable(rs, x) => OpOK(rs, ExecuteOp(x, ev)) /\ ~ InLoop(ExecuteOp(x, ev))
           /\ \A x, ev : Executable(rs, x) => OpOK(rs, RunOp(x, ev)) /\ ~ InLoop(RunOp(x, ev))
           /\ \A x, ev, res : Executable(rs, x) =>
                 OpOK(rs, CompleteOp(x, ev, res)) /\ ~ InLoop(CompleteOp(x, ev, res))
  BY DEF Free, FireOp, ThrowOp, ParseOp, InvokeOp, ExecuteOp, RunOp, CompleteOp, OpOK, InLoop

\* The operation at the head is replaced by one that refers to no executable.
LEMMA PushedFree1 ==
    ASSUME TypeInv, Next, todo # <<>>, NEW o, Free(o), Do(<<o>>)
    PROVE  OpsInv(runs', todo')
  <1>1. OpOK(runs', o) /\ ~ InLoop(o)
    BY FreeOK
  <1> QED
    BY <1>1, Pushed1

\* RedirectTo triggers an event or nothing.
LEMMA RedirectOps ==
    ASSUME TypeInv, Next, todo # <<>>, NEW r, RedirectTo(r, <<>>)
    PROVE  OpsInv(runs', todo')
  <1>1. CASE Do(<<>>)
    BY <1>1, Pushed0
  <1>2. CASE Do(<<FireOp(ChangeUrl, Doc, NoData)>> \o <<>>)
    <2>1. \A o : <<o>> \o <<>> = <<o>>
      OBVIOUS
    <2>2. Do(<<FireOp(ChangeUrl, Doc, NoData)>>)
      BY <1>2, <2>1
    <2>3. Free(FireOp(ChangeUrl, Doc, NoData))
      BY OpKinds
    <2> QED
      BY <2>2, <2>3, PushedFree1
  <1> QED
    BY <1>1, <1>2 DEF RedirectTo

\* The operations of a concatenation, by position.
LEMMA OpsConcat ==
    ASSUME NEW rs, NEW a, OpsOK(rs, a), NEW b, OpsOK(rs, b), NEW all, all = a \o b
    PROVE  /\ OpsOK(rs, all)
           /\ DOMAIN all = 1..(Len(a) + Len(b))
           /\ Len(a) \in Nat /\ Len(b) \in Nat
           /\ \A i \in DOMAIN all : \/ i \in DOMAIN a /\ i <= Len(a) /\ all[i] = a[i]
                                    \/ i - Len(a) \in DOMAIN b /\ all[i] = b[i - Len(a)]
           /\ \A i \in DOMAIN b : Len(a) + i \in DOMAIN all /\ all[Len(a) + i] = b[i]
  <1>1. IsSeq(a) /\ IsSeq(b)
    BY DEF OpsOK
  <1>2. /\ IsSeq(a \o b)
        /\ DOMAIN (a \o b) = 1..(Len(a) + Len(b))
        /\ \A i \in 1..Len(a) : (a \o b)[i] = a[i]
        /\ \A i \in 1..Len(b) : (a \o b)[Len(a) + i] = b[i]
    BY <1>1, IsSeqConcat
  <1>3. Len(a) \in Nat /\ Len(b) \in Nat /\ DOMAIN a = 1..Len(a) /\ DOMAIN b = 1..Len(b)
    BY <1>1, IsSeqDom
  <1>4. ASSUME NEW i \in DOMAIN all
        PROVE  \/ i \in DOMAIN a /\ i <= Len(a) /\ all[i] = a[i]
               \/ i - Len(a) \in DOMAIN b /\ all[i] = b[i - Len(a)]
    <2>0. i \in 1..(Len(a) + Len(b))
      BY <1>2
    <2>1. CASE i \in 1..Len(a)
      BY <2>1, <1>2, <1>3
    <2>2. CASE i \notin 1..Len(a)
      <3>1. i - Len(a) \in 1..Len(b) /\ i = Len(a) + (i - Len(a))
        BY <2>0, <2>2, <1>3
      <3>2. all[Len(a) + (i - Len(a))] = b[i - Len(a)]
        BY <3>1, <1>2
      <3> QED
        BY <3>1, <3>2, <1>3
    <2> QED
      BY <2>1, <2>2
  <1>5. \A i \in DOMAIN b : Len(a) + i \in DOMAIN all /\ all[Len(a) + i] = b[i]
    BY <1>2, <1>3
  <1>6. OpsOK(rs, all)
    BY <1>2, <1>4 DEF OpsOK
  <1> QED
    BY <1>2, <1>3, <1>4, <1>5, <1>6

-------------------------------------------------------------------------------
(* The operations each action leaves *)

\* The handlers of a site are a sequence.
LEMMA HandlersSeq ==
    ASSUME BindsOK, NEW site, NEW type
    PROVE  IsSeq(Handlers(site, type))
  <1>1. CASE site = Doc
    <2> DEFINE S == {i \in DOMAIN docBinds : docBinds[i].type = type}
    <2>1. Handlers(site, type) = [k \in DOMAIN InOrder(S) |-> docBinds[InOrder(S)[k]]]
      BY <1>1 DEF Handlers, Those
    <2>2. IsSeq(docBinds) /\ S \subseteq DOMAIN docBinds
      BY DEF BindsOK
    <2> HIDE DEF S
    <2> QED
      BY <2>1, <2>2, ThoseSeq
  <1>2. CASE site # Doc /\ Present(site)
    <2> DEFINE bs == binds[site[1]]
               S == {i \in DOMAIN bs : type \in bs[i].events}
    <2>1. Handlers(site, type) = [k \in DOMAIN InOrder(S) |-> bs[InOrder(S)[k]]]
      BY <1>2 DEF Handlers, Those
    <2>2. IsSeq(bs) /\ S \subseteq DOMAIN bs
      BY <1>2 DEF BindsOK, Present
    <2> HIDE DEF S, bs
    <2> QED
      BY <2>1, <2>2, ThoseSeq
  <1>3. CASE site # Doc /\ ~ Present(site)
    <2>1. Handlers(site, type) = <<>>
      BY <1>3 DEF Handlers
    <2> QED
      BY <2>1, IsSeqEmpty
  <1> QED
    BY <1>1, <1>2, <1>3

\* Fire leaves operations that are well formed.
LEMMA FireOps ==
    ASSUME TypeInv, Next, Fire
    PROVE  OpsInv(runs', todo')
  <1>1. PICK path, ev : todo # <<>> /\ Do(<<[op |-> "dispatch", path |-> path, ev |-> ev]>>)
    BY DEF Fire, At
  <1>2. OpOK(runs', [op |-> "dispatch", path |-> path, ev |-> ev])
        /\ ~ InLoop([op |-> "dispatch", path |-> path, ev |-> ev])
    BY DEF OpOK, InLoop
  <1> QED
    BY <1>1, <1>2, Pushed1

\* Operations that are no callbacks, one list after the other.
LEMMA QuietConcat ==
    ASSUME NEW rs, NEW a, OpsOK(rs, a), \A i \in DOMAIN a : ~ InLoop(a[i]),
           NEW b, OpsOK(rs, b), \A i \in DOMAIN b : ~ InLoop(b[i]), NEW all, all = a \o b
    PROVE  OpsOK(rs, all) /\ \A i \in DOMAIN all : ~ InLoop(all[i])
  <1>1. OpsOK(rs, all)
    BY OpsConcat
  <1>2. ASSUME NEW i \in DOMAIN all
        PROVE  \/ i \in DOMAIN a /\ all[i] = a[i]
               \/ i - Len(a) \in DOMAIN b /\ all[i] = b[i - Len(a)]
    BY OpsConcat
  <1>3. \A i \in DOMAIN all : ~ InLoop(all[i])
    BY <1>2
  <1> QED
    BY <1>1, <1>3

\* A dispatch with another path.
WithPath(o, path) == [o EXCEPT !.path = path]

\* A dispatch goes on with another path.
LEMMA WithPathDoes ==
    ASSUME NEW o, NEW old, NEW ev, o = [op |-> "dispatch", path |-> old, ev |-> ev], NEW path
    PROVE  WithPath(o, path) = [op |-> "dispatch", path |-> path, ev |-> ev]
  BY DEF WithPath

\* Dispatch leaves operations that are well formed.
LEMMA DispatchOps ==
    ASSUME TypeInv, Next, Dispatch
    PROVE  OpsInv(runs', todo')
  <1>1. todo # <<>> /\ todo[1].op = "dispatch"
    BY DEF Dispatch, At
  <1>2. CASE Do(<<>>)
    BY <1>1, <1>2, Pushed0
  <1>3. CASE ~ Do(<<>>)
    <2> DEFINE d == todo[1]
               site == d.path[1]
               hs == Handlers(site, d.ev.type)
               calls == [i \in DOMAIN hs |-> InvokeOp(IF site = Doc THEN hs[i].site ELSE site, d.ev)]
               d2 == [op |-> "dispatch", path |-> Tail(d.path), ev |-> d.ev]
    <2>1. d = [op |-> "dispatch", path |-> d.path, ev |-> d.ev]
      <3>1. OpOK(runs, d)
        BY <1>1, AtHead
      <3> QED
        BY <1>1, <3>1 DEF OpOK
    <2>2. [d EXCEPT !.path = Tail(d.path)] = d2
      <3>1. WithPath(d, Tail(d.path)) = d2
        <4> HIDE DEF d
        <4>1. \A p : WithPath(d, p) = [op |-> "dispatch", path |-> p, ev |-> d.ev]
          BY <2>1, WithPathDoes
        <4> QED
          BY <4>1
      <3> QED
        BY <3>1 DEF WithPath
    <2>3. Do(calls \o <<>>) \/ Do(calls \o <<d2>>)
      <3>1. Do(calls \o <<>>) \/ Do(calls \o <<[d EXCEPT !.path = Tail(d.path)]>>)
        BY <1>3 DEF Dispatch
      <3> QED
        BY <2>2, <3>1
    <2>4. OpOK(runs', d2) /\ ~ InLoop(d2)
      BY DEF OpOK, InLoop
    <2>5. IsSeq(hs)
      BY HandlersSeq DEF TypeInv
    <2>6. \A i \in DOMAIN hs : OpOK(runs', calls[i]) /\ ~ InLoop(calls[i])
      BY OpKinds, FreeOK
    <2>7. calls = [i \in DOMAIN hs |-> calls[i]]
      OBVIOUS
    <2> HIDE DEF calls, hs, d2
    <2>8. OpsOK(runs', calls)
      BY <2>5, <2>6, <2>7, MappedOps
    <2>9. DOMAIN calls = DOMAIN hs
      BY <2>7
    <2>10. ASSUME NEW ops, OpsOK(runs', ops), \A i \in DOMAIN ops : ~ InLoop(ops[i]), Do(calls \o ops)
           PROVE  OpsInv(runs', todo')
      <3>1. \A i \in DOMAIN calls : ~ InLoop(calls[i])
        BY <2>6, <2>9
      <3>2. OpsOK(runs', calls \o ops) /\ \A i \in DOMAIN (calls \o ops) : ~ InLoop((calls \o ops)[i])
        BY <2>8, <2>10, <3>1, QuietConcat
      <3> QED
        BY <1>1, <2>10, <3>1, <3>2, Pushed
    <2>11. /\ OpsOK(runs', <<>>) /\ \A i \in DOMAIN <<>> : ~ InLoop(<<>>[i])
           /\ OpsOK(runs', <<d2>>) /\ \A i \in DOMAIN <<d2>> : ~ InLoop(<<d2>>[i])
      BY <2>4, Ops, IsSeqEmpty
    <2> QED
      BY <2>3, <2>10, <2>11
  <1> QED
    BY <1>2, <1>3

\* What a list of executables is pushed as.
LEMMA ListedOps ==
    ASSUME NEW rs, NEW e, NEW r, NEW S, NEW xs, Lists(e, r, S, xs), e \in Element, r \in DOMAIN rs[e],
           S \subseteq DOMAIN rs[e][r].event
    PROVE  \A i \in DOMAIN xs : Executable(rs, xs[i])
  <1> SUFFICES ASSUME NEW i \in DOMAIN xs PROVE Executable(rs, xs[i])
    OBVIOUS
  <1>1. xs[i][3] \in S /\ xs[i] = <<e, r, xs[i][3]>>
    BY DEF Lists
  <1>2. xs[i][1] = e /\ xs[i][2] = r
    BY <1>1
  <1> QED
    BY <1>1, <1>2 DEF Executable

\* Executables pushed as operations of one kind.
LEMMA EachQuiet ==
    ASSUME NEW rs, NEW xs, IsSeq(xs), NEW ops, ops = [i \in DOMAIN xs |-> ops[i]],
           \A i \in DOMAIN xs : OpOK(rs, ops[i]) /\ ~ InLoop(ops[i])
    PROVE  OpsOK(rs, ops) /\ \A i \in DOMAIN ops : ~ InLoop(ops[i])
  <1>1. OpsOK(rs, ops)
    BY MappedOps
  <1>2. DOMAIN ops = DOMAIN xs
    OBVIOUS
  <1> QED
    BY <1>1, <1>2

\* The positions of a runner exist in it and after a step.
LEMMA PositionsKept ==
    ASSUME TypeInv, Next, NEW e \in Element, NEW r \in DOMAIN runs[e]
    PROVE  /\ r \in DOMAIN runs'[e]
           /\ DOMAIN MetasOf(e, r) \subseteq DOMAIN runs'[e][r].event
           /\ DOMAIN MetasOf(e, r) = DOMAIN runs[e][r].event
  <1>1. Grown(runs, runs')
    BY RunsStep
  <1>2. DOMAIN runs[e][r].event = DOMAIN MetasOf(e, r)
    BY RunFacts DEF TypeInv
  <1> QED
    BY <1>1, <1>2 DEF Grown

\* A list of executables after a step.
LEMMA ListedLater ==
    ASSUME TypeInv, Next, NEW e \in Element, NEW r \in DOMAIN runs[e],
           NEW S, S \subseteq DOMAIN MetasOf(e, r), NEW xs, Lists(e, r, S, xs)
    PROVE  IsSeq(xs) /\ \A i \in DOMAIN xs : Executable(runs', xs[i]) /\ Executable(runs, xs[i])
  <1>1. /\ r \in DOMAIN runs'[e]
        /\ S \subseteq DOMAIN runs'[e][r].event
        /\ S \subseteq DOMAIN runs[e][r].event
    BY PositionsKept
  <1>2. \A i \in DOMAIN xs : Executable(runs', xs[i])
    BY <1>1, ListedOps
  <1>3. \A i \in DOMAIN xs : Executable(runs, xs[i])
    BY <1>1, ListedOps
  <1> QED
    BY <1>2, <1>3 DEF Lists

\* Invoke leaves operations that are well formed.
LEMMA InvokeOps ==
    ASSUME TypeInv, Next, Invoke
    PROVE  OpsInv(runs', todo')
  <1>1. todo # <<>> /\ todo[1].op = "invoke"
    BY DEF Invoke, At
  <1> DEFINE e == todo[1].site[1]
             r == runner[e]
             ev == todo[1].ev
  <1>2. CASE ~ (Present(todo[1].site) /\ r # 0)
    <2>1. Do(<<>>)
      BY <1>2 DEF Invoke
    <2> QED
      BY <1>1, <2>1, Pushed0
  <1>3. CASE Present(todo[1].site) /\ r # 0
    <2> DEFINE xs == BeforeOf(e, r, ev.type)
               ops == [i \in DOMAIN xs |-> ExecuteOp(xs[i], ev)]
               c == [op |-> "catch", e |-> e, r |-> r, ev |-> ev]
               a == [op |-> "actions", e |-> e, r |-> r, ev |-> ev]
    <2>1. Do(ops \o <<c, a>>)
      BY <1>3 DEF Invoke, Each
    <2>2. e \in Element /\ r \in DOMAIN runs[e] /\ Lists(e, r, BeforePositions(e, r, ev.type), xs)
      BY <1>3, InvokeDoes
    <2>3. BeforePositions(e, r, ev.type) \subseteq DOMAIN MetasOf(e, r)
      BY DEF BeforePositions
    <2>4. r \in DOMAIN runs'[e]
      BY <2>2, PositionsKept
    <2>5. OpOK(runs', c) /\ OpOK(runs', a) /\ ~ InLoop(c) /\ ~ InLoop(a)
      BY <2>2, <2>4 DEF OpOK, InLoop
    <2>6. ops = [i \in DOMAIN xs |-> ops[i]] /\ \A i \in DOMAIN xs : ops[i] = ExecuteOp(xs[i], ev)
      OBVIOUS
    <2> HIDE DEF ops, xs, e, r, ev, c, a
    <2>7. IsSeq(xs) /\ \A i \in DOMAIN xs : Executable(runs', xs[i])
      BY <2>2, <2>3, ListedLater
    <2>8. \A i \in DOMAIN xs : OpOK(runs', ops[i]) /\ ~ InLoop(ops[i])
      BY <2>6, <2>7, OpKinds
    <2>9. OpsOK(runs', ops) /\ \A i \in DOMAIN ops : ~ InLoop(ops[i])
      BY <2>6, <2>7, <2>8, EachQuiet
    <2>10. OpsOK(runs', <<c, a>>) /\ \A i \in DOMAIN <<c, a>> : ~ InLoop(<<c, a>>[i])
      <3>1. OpsOK(runs', <<c, a>>)
        BY <2>5, Ops
      <3>2. \A i \in DOMAIN <<c, a>> : <<c, a>>[i] = c \/ <<c, a>>[i] = a
        OBVIOUS
      <3> QED
        BY <2>5, <3>1, <3>2
    <2>11. PICK all : all = ops \o <<c, a>>
      OBVIOUS
    <2>12. OpsOK(runs', all) /\ \A i \in DOMAIN all : ~ InLoop(all[i])
      BY <2>9, <2>10, <2>11, QuietConcat
    <2> QED
      BY <1>1, <2>1, <2>11, <2>12, Pushed
  <1> QED
    BY <1>2, <1>3

\* Actions leaves operations that are well formed.
LEMMA ActionsOps ==
    ASSUME TypeInv, Next, Actions
    PROVE  OpsInv(runs', todo')
  <1>1. todo # <<>> /\ todo[1].op = "actions"
    BY DEF Actions, At
  <1> DEFINE e == todo[1].e
             r == todo[1].r
             ev == todo[1].ev
             xs == ActionsOf(e, r, ev.type)
             ops == [i \in DOMAIN xs |-> [op |-> "action", x |-> xs[i], ev |-> ev]]
  <1>2. Do(ops)
    BY DEF Actions, Each
  <1>3. e \in Element /\ r \in DOMAIN runs[e] /\ Lists(e, r, ActionPositions(e, r, ev.type), xs)
    BY ActionsDoes
  <1>4. ActionPositions(e, r, ev.type) \subseteq DOMAIN MetasOf(e, r)
    BY DEF ActionPositions
  <1>5. ops = [i \in DOMAIN xs |-> ops[i]] /\ \A i \in DOMAIN xs : ops[i] = [op |-> "action", x |-> xs[i], ev |-> ev]
    OBVIOUS
  <1> HIDE DEF ops, xs, e, r, ev
  <1>6. IsSeq(xs) /\ \A i \in DOMAIN xs : Executable(runs', xs[i])
    BY <1>3, <1>4, ListedLater
  <1>7. \A i \in DOMAIN xs : OpOK(runs', ops[i]) /\ ~ InLoop(ops[i])
    BY <1>5, <1>6 DEF OpOK, InLoop
  <1>8. OpsOK(runs', ops) /\ \A i \in DOMAIN ops : ~ InLoop(ops[i])
    BY <1>5, <1>6, <1>7, EachQuiet
  <1> QED
    BY <1>1, <1>2, <1>8, Pushed

\* Action leaves operations that are well formed.
LEMMA ActionOps ==
    ASSUME TypeInv, Next, Action
    PROVE  OpsInv(runs', todo')
  <1>1. todo # <<>> /\ todo[1].op = "action" /\ Do(<<ExecuteOp(todo[1].x, todo[1].ev)>>)
    BY DEF Action, At
  <1>2. Executable(runs', todo[1].x)
    BY <1>1, AtHeadExecutable
  <1>3. OpOK(runs', ExecuteOp(todo[1].x, todo[1].ev)) /\ ~ InLoop(ExecuteOp(todo[1].x, todo[1].ev))
    BY <1>2, OpKinds
  <1> QED
    BY <1>1, <1>3, Pushed1

\* Execute leaves operations that are well formed.
LEMMA ExecuteOps ==
    ASSUME TypeInv, Next, Execute
    PROVE  OpsInv(runs', todo')
  <1>1. todo # <<>> /\ todo[1].op = "execute"
    BY DEF Execute, At
  <1>2. Do(<<>>) \/ Do(<<RunOp(todo[1].x, todo[1].ev)>>)
    BY DEF Execute
  <1>3. Executable(runs', todo[1].x)
    BY <1>1, AtHeadExecutable
  <1>4. OpOK(runs', RunOp(todo[1].x, todo[1].ev)) /\ ~ InLoop(RunOp(todo[1].x, todo[1].ev))
    BY <1>3, OpKinds
  <1> QED
    BY <1>1, <1>2, <1>4, Pushed0, Pushed1

\* An executable that completes at once.
LEMMA RunCompletes ==
    ASSUME TypeInv, Next, todo # <<>>, todo[1].op = "run", NEW res, Do(<<CompleteOp(todo[1].x, todo[1].ev, res)>>)
    PROVE  OpsInv(runs', todo')
  <1>1. Executable(runs', todo[1].x)
    BY AtHeadExecutable
  <1>2. OpOK(runs', CompleteOp(todo[1].x, todo[1].ev, res)) /\ ~ InLoop(CompleteOp(todo[1].x, todo[1].ev, res))
    BY <1>1, OpKinds
  <1> QED
    BY <1>2, Pushed1

\* A request: an event, then the answer of the cache or what is sent.
LEMMA RunSends ==
    ASSUME TypeInv, Next, todo # <<>>, todo[1].op = "run", NEW type, NEW site, NEW data, NEW p,
           p.op \in {"complete", "send"}, p.x = todo[1].x,
           Do(<<FireOp(type, site, NoData), p>>)
    PROVE  OpsInv(runs', todo')
  <1>1. Executable(runs', todo[1].x)
    BY AtHeadExecutable
  <1>2. OpOK(runs', p) /\ ~ InLoop(p)
    BY <1>1 DEF OpOK, InLoop
  <1>3. PICK o : o = FireOp(type, site, NoData)
    OBVIOUS
  <1>4. OpOK(runs', o) /\ ~ InLoop(o)
    BY <1>3, OpKinds, FreeOK
  <1> QED
    BY <1>2, <1>3, <1>4, Pushed2

\* Actions that run leave operations that are well formed.
LEMMA RunActionOps ==
    ASSUME TypeInv, Next, Direct \/ Event \/ Ajax \/ Submit
    PROVE  OpsInv(runs', todo')
  <1>1. todo # <<>> /\ todo[1].op = "run"
    BY DEF Direct, Event, Ajax, Submit, AtRun, At
  <1> DEFINE x == todo[1].x
             ev == todo[1].ev
  <1>2. CASE Direct
    BY <1>1, <1>2, RunCompletes DEF Direct
  <1>3. CASE Event
    BY <1>1, <1>3, RunCompletes DEF Event
  <1>4. CASE Ajax
    <2>1. \/ \E s : Do(<<FireOp("incajaxsuccess", Self(x), NoData), CompleteOp(x, ev, s.value)>>)
          \/ \E data : Do(<<FireOp("incajaxbefore", Self(x), NoData),
                            [op |-> "send", x |-> x, ev |-> ev, data |-> data]>>)
      BY <1>4 DEF Ajax
    <2>2. CASE \E s : Do(<<FireOp("incajaxsuccess", Self(x), NoData), CompleteOp(x, ev, s.value)>>)
      <3>1. PICK p : p.op = "complete" /\ p.x = x /\ Do(<<FireOp("incajaxsuccess", Self(x), NoData), p>>)
        BY <2>2 DEF CompleteOp
      <3> QED
        BY <1>1, <3>1, RunSends
    <2>3. CASE \E data : Do(<<FireOp("incajaxbefore", Self(x), NoData),
                              [op |-> "send", x |-> x, ev |-> ev, data |-> data]>>)
      <3>1. PICK p : p.op = "send" /\ p.x = x /\ Do(<<FireOp("incajaxbefore", Self(x), NoData), p>>)
        BY <2>3
      <3> QED
        BY <1>1, <3>1, RunSends
    <2> QED
      BY <2>1, <2>2, <2>3
  <1>5. CASE Submit
    <2>1. \/ Do(<<>>)
          \/ \E data : Do(<<FireOp("incajaxbefore", Doc, NoData),
                            [op |-> "send", x |-> x, ev |-> ev, data |-> data]>>)
      BY <1>5 DEF Submit
    <2>2. CASE Do(<<>>)
      BY <1>1, <2>2, Pushed0
    <2>3. CASE \E data : Do(<<FireOp("incajaxbefore", Doc, NoData),
                              [op |-> "send", x |-> x, ev |-> ev, data |-> data]>>)
      <3>1. PICK p : p.op = "send" /\ p.x = x /\ Do(<<FireOp("incajaxbefore", Doc, NoData), p>>)
        BY <2>3
      <3> QED
        BY <1>1, <3>1, RunSends
    <2> QED
      BY <2>1, <2>2, <2>3
  <1> QED
    BY <1>2, <1>3, <1>4, <1>5

\* Executables that are no actions leave operations that are well formed.
LEMMA RunOtherOps ==
    ASSUME TypeInv, Next, Insert \/ Trigger \/ Break \/ Eval \/ HashStore \/ Attach \/ Detach
    PROVE  OpsInv(runs', todo')
  <1>1. todo # <<>>
    BY DEF Insert, Trigger, Break, Eval, HashStore, Attach, Detach, AtRun, At
  <1>2. CASE Insert
    <2>1. \/ \E kind : Do(<<ThrowOp(kind)>>)
          \/ Do(<<FireOp("incinsert", <<"window", 0>>, NoData)>>)
          \/ \E e : Do(<<ParseOp(e), FireOp("incinsert", <<"window", 0>>, NoData)>>)
      BY <1>2 DEF Insert
    <2>2. CASE \E kind : Do(<<ThrowOp(kind)>>)
      BY <1>1, <2>2, OpKinds, PushedFree1
    <2>3. CASE Do(<<FireOp("incinsert", <<"window", 0>>, NoData)>>)
      BY <1>1, <2>3, OpKinds, PushedFree1
    <2>4. CASE \E e : Do(<<ParseOp(e), FireOp("incinsert", <<"window", 0>>, NoData)>>)
      <3>1. PICK o, p : Free(o) /\ Free(p) /\ Do(<<o, p>>)
        BY <2>4, OpKinds
      <3>2. OpOK(runs', o) /\ ~ InLoop(o) /\ OpOK(runs', p) /\ ~ InLoop(p)
        BY <3>1, FreeOK
      <3> QED
        BY <1>1, <3>1, <3>2, Pushed2
    <2> QED
      BY <2>1, <2>2, <2>3, <2>4
  <1>3. CASE Trigger
    <2>1. \E type, site, data : Do(<<FireOp(type, site, data)>>)
      BY <1>3 DEF Trigger
    <2> QED
      BY <1>1, <2>1, OpKinds, PushedFree1
  <1>4. CASE Break
    <2>1. Do(<<ThrowOp("break")>>)
      BY <1>4 DEF Break
    <2> QED
      BY <1>1, <2>1, OpKinds, PushedFree1
  <1>5. CASE Eval
    <2>1. Do(<<ThrowOp("error")>>) \/ Do(<<>>)
      BY <1>5 DEF Eval
    <2> QED
      BY <1>1, <2>1, OpKinds, PushedFree1, Pushed0
  <1>6. CASE HashStore
    <2>1. \E r : RedirectTo(r, <<>>)
      BY <1>6 DEF HashStore
    <2> QED
      BY <1>1, <2>1, RedirectOps
  <1>7. CASE Attach
    <2>1. Do(<<>>) \/ \E e : Do(<<ParseOp(e)>>)
      BY <1>7 DEF Attach
    <2> QED
      BY <1>1, <2>1, OpKinds, PushedFree1, Pushed0
  <1>8. CASE Detach
    <2>1. Do(<<>>)
      BY <1>8 DEF Detach
    <2> QED
      BY <1>1, <2>1, Pushed0
  <1> QED
    BY <1>2, <1>3, <1>4, <1>5, <1>6, <1>7, <1>8

\* A completion pushes its callbacks and, behind them, the executables on break.
LEMMA CompletedOps ==
    ASSUME TypeInv, Next, Completed
    PROVE  OpsInv(runs', todo')
  <1>1. todo # <<>> /\ todo[1].op = "complete"
    BY DEF Completed, At
  <1> DEFINE x == todo[1].x
             ev == todo[1].ev
             data == todo[1].result.data
             Call(last, y) == [op |-> "callback", x |-> y, ev |-> ev, data |-> data, last |-> last]
             status == IF todo[1].result.success THEN Success ELSE Error
             xs == CallbacksOf(x, status) \o CallbacksOf(x, Complete)
             ys == CallbacksOf(x, Breakes)
             ops == [i \in DOMAIN xs |-> Call(FALSE, xs[i])]
             last == [i \in DOMAIN ys |-> Call(TRUE, ys[i])]
             b == [op |-> "breakes", hasBreak |-> FALSE, callbacks |-> last]
  <1>2. Executable(runs, x)
    BY <1>1, AtHeadExecutable
  <1>3. x[1] \in Element /\ x[2] \in DOMAIN runs[x[1]] /\ page \in Page /\ AreRuns(page, runs)
    BY <1>2 DEF Executable, TypeInv
  <1> DEFINE P(s) == {i \in DOMAIN MetasOf(x[1], x[2]) :
                         /\ ListOf(MetasOf(x[1], x[2])[i], s)
                         /\ MetasOf(x[1], x[2])[i].onBind = Meta(x).onBind}
  <1>4. \A s : P(s) \subseteq DOMAIN MetasOf(x[1], x[2])
    OBVIOUS
  <1>5. \A s : Lists(x[1], x[2], P(s), CallbacksOf(x, s))
    BY <1>2, <1>3, CallbacksLists
  <1> HIDE DEF P
  <1>6. P(status) \cup P(Complete) \subseteq DOMAIN MetasOf(x[1], x[2])
    BY <1>4
  <1>7. CASE todo[1].result.redirect # NoRedirect
    <2>1. RedirectTo(todo[1].result.redirect, <<>>)
      BY <1>7 DEF Completed
    <2> QED
      BY <1>1, <2>1, RedirectOps
  <1>8. CASE todo[1].result.redirect = NoRedirect
    <2>1. Do(ops \o <<b>>)
      BY <1>8 DEF Completed, Each
    <2>2. ops = [i \in DOMAIN xs |-> ops[i]] /\ \A i \in DOMAIN xs : ops[i] = Call(FALSE, xs[i])
      OBVIOUS
    <2>3. last = [i \in DOMAIN ys |-> last[i]] /\ \A i \in DOMAIN ys : last[i] = Call(TRUE, ys[i])
      OBVIOUS
    <2>4. Lists(x[1], x[2], P(status) \cup P(Complete), xs) /\ Lists(x[1], x[2], P(Breakes), ys)
      <3>1. Lists(x[1], x[2], P(status), CallbacksOf(x, status)) /\ Lists(x[1], x[2], P(Complete), CallbacksOf(x, Complete))
        BY <1>5
      <3> QED
        BY <1>5, <3>1, ListsConcat
    <2> HIDE DEF ops, last, xs, ys, x, ev, data, status
    <2>5. IsSeq(xs) /\ \A i \in DOMAIN xs : Executable(runs', xs[i])
      BY <1>3, <1>6, <2>4, ListedLater
    <2>6. IsSeq(ys) /\ \A i \in DOMAIN ys : Executable(runs', ys[i])
      BY <1>3, <1>4, <2>4, ListedLater
    <2>7. OpsOK(runs', ops)
      <3>1. \A i \in DOMAIN xs : OpOK(runs', ops[i])
        BY <2>2, <2>5 DEF OpOK
      <3> QED
        BY <2>2, <2>5, <3>1, MappedOps
    <2>8. OpOK(runs', b)
      <3>1. IsSeq(last) /\ DOMAIN last = DOMAIN ys
        BY <2>3, <2>6, Mapped
      <3>2. \A i \in DOMAIN last : last[i].op = "callback" /\ last[i].last /\ Executable(runs', last[i].x)
        BY <2>3, <2>6, <3>1
      <3> QED
        BY <3>1, <3>2 DEF OpOK
    <2>9. b.op = "breakes"
      OBVIOUS
    <2> HIDE DEF b
    <2>10. OpsOK(runs', <<b>>) /\ 1 \in DOMAIN <<b>> /\ <<b>>[1] = b
      BY <2>8, Ops
    <2>11. PICK all : all = ops \o <<b>>
      OBVIOUS
    <2>12. OpsOK(runs', all)
      BY <2>7, <2>10, <2>11, OpsConcat
    <2>13. ASSUME NEW i \in DOMAIN all, InLoop(all[i])
           PROVE  \E k \in DOMAIN all : k > i /\ all[k].op = "breakes"
      <3>1. Len(ops) + 1 \in DOMAIN all /\ all[Len(ops) + 1] = b
        <4>1. \A k \in DOMAIN <<b>> : Len(ops) + k \in DOMAIN all /\ all[Len(ops) + k] = <<b>>[k]
          BY <2>7, <2>10, <2>11, OpsConcat
        <4> QED
          BY <2>10, <4>1
      <3>2. \/ i \in DOMAIN ops /\ i <= Len(ops) /\ all[i] = ops[i]
            \/ i - Len(ops) \in DOMAIN <<b>> /\ all[i] = <<b>>[i - Len(ops)]
        BY <2>7, <2>10, <2>11, OpsConcat
      <3>3. \A k \in DOMAIN <<b>> : ~ InLoop(<<b>>[k])
        BY <2>9 DEF InLoop
      <3>4. i \in DOMAIN ops /\ i <= Len(ops)
        BY <2>13, <3>2, <3>3
      <3>5. Len(ops) \in Nat /\ DOMAIN ops = 1..Len(ops)
        BY <2>7, IsSeqDom DEF OpsOK
      <3>6. Len(ops) + 1 > i
        BY <3>4, <3>5
      <3> QED
        BY <2>9, <3>1, <3>6
    <2> QED
      BY <1>1, <2>1, <2>11, <2>12, <2>13, Pushed
  <1> QED
    BY <1>7, <1>8

\* Callback leaves operations that are well formed.
LEMMA CallbackOps ==
    ASSUME TypeInv, Next, Callback
    PROVE  OpsInv(runs', todo')
  <1> DEFINE x == todo[1].x
             o == ExecuteOp(x, todo[1].ev)
             p == [op |-> "caught", x |-> x, last |-> todo[1].last]
  <1>1. todo # <<>> /\ todo[1].op = "callback" /\ Do(<<o, p>>)
    BY DEF Callback, At
  <1>2. Executable(runs', x)
    BY <1>1, AtHeadExecutable
  <1>3. OpOK(runs', o) /\ ~ InLoop(o)
    BY <1>2, OpKinds
  <1>4. OpOK(runs', p) /\ (InLoop(p) => InLoop(todo[1]))
    BY <1>1, <1>2 DEF OpOK, InLoop
  <1> HIDE DEF o, p
  <1> QED
    BY <1>1, <1>3, <1>4, Pushed2

\* BreakCallbacks leaves operations that are well formed.
LEMMA BreakCallbacksOps ==
    ASSUME TypeInv, Next, BreakCallbacks
    PROVE  OpsInv(runs', todo')
  <1>1. todo # <<>> /\ todo[1].op = "breakes" /\ (Do(<<>>) \/ Do(todo[1].callbacks))
    BY DEF BreakCallbacks, At
  <1> DEFINE cs == todo[1].callbacks
  <1>2. IsSeq(cs) /\ \A i \in DOMAIN cs : cs[i].op = "callback" /\ cs[i].last /\ Executable(runs, cs[i].x)
    <2>1. OpOK(runs, todo[1])
      BY <1>1, AtHead
    <2> QED
      BY <1>1, <2>1 DEF OpOK
  <1>3. Grown(runs, runs')
    BY RunsStep
  <1> HIDE DEF cs
  <1>4. \A i \in DOMAIN cs : Executable(runs', cs[i].x)
    BY <1>2, <1>3 DEF Executable, Grown
  <1>5. OpsOK(runs', cs)
    BY <1>2, <1>4 DEF OpsOK, OpOK
  <1>6. \A i \in DOMAIN cs : ~ InLoop(cs[i])
    BY <1>2 DEF InLoop
  <1> QED
    BY <1>1, <1>5, <1>6, Pushed, Pushed0 DEF cs

\* What is left after the first k operations, when the step ends.
LEMMA AfterKept ==
    ASSUME TypeInv, Next, NEW k \in 0..Len(todo)
    PROVE  OpsInv(runs', After(k))
  <1>1. OpsInv(runs, todo) /\ Grown(runs, runs')
    BY RunsStep DEF TypeInv, OpsInv
  <1>2. OpsInv(runs', todo)
    BY <1>1, OpsKept
  <1> QED
    BY <1>2, Suffix DEF After

\* Operations that are no callbacks, before what follows a catcher.
LEMMA QuietJoined ==
    ASSUME NEW rs, NEW ops, OpsOK(rs, ops), \A i \in DOMAIN ops : ~ InLoop(ops[i]), NEW after, OpsInv(rs, after)
    PROVE  OpsInv(rs, ops \o after)
  BY Joined

\* Nothing is left of a task that throws.
LEMMA UncaughtOps ==
    ASSUME TypeInv, Next, Uncaught
    PROVE  OpsInv(runs', todo')
  <1>1. todo' = <<>>
    BY DEF Uncaught
  <1> QED
    BY <1>1, Ops, IsSeqEmpty DEF OpsInv, LoopsEnd

\* The try around the executables before the action is followed by the actions.
LEMMA BreakBeforeOps ==
    ASSUME TypeInv, Next, BreakBefore
    PROVE  OpsInv(runs', todo')
  <1> DEFINE i == FirstOf(Catchers(todo[1].kind))
             c == todo[i]
             xs == BreakesOf(c.e, c.r, c.ev.type)
             ops == [k \in DOMAIN xs |-> ExecuteOp(xs[k], c.ev)]
  <1>1. At("throw") /\ Catchers(todo[1].kind) # {} /\ todo' = ops \o After(i + 1) /\ c.op = "catch"
    BY DEF BreakBefore, Each
  <1>2. i \in DOMAIN todo /\ i > 1 /\ i <= Len(todo) /\ i \in Nat
    BY <1>1, CatcherDoes
  <1>3. c.e \in Element /\ c.r \in DOMAIN runs[c.e] /\ Lists(c.e, c.r, BreakesPositions(c.e, c.r, c.ev.type), xs)
    BY BreakBeforeDoes
  <1>4. BreakesPositions(c.e, c.r, c.ev.type) \subseteq DOMAIN MetasOf(c.e, c.r)
    BY DEF BreakesPositions
  <1>5. ops = [k \in DOMAIN xs |-> ops[k]] /\ \A k \in DOMAIN xs : ops[k] = ExecuteOp(xs[k], c.ev)
    OBVIOUS
  <1> HIDE DEF ops, xs, c, i
  <1>6. IsSeq(xs) /\ \A k \in DOMAIN xs : Executable(runs', xs[k])
    BY <1>3, <1>4, ListedLater
  <1>7. \A k \in DOMAIN xs : OpOK(runs', ops[k]) /\ ~ InLoop(ops[k])
    BY <1>5, <1>6, OpKinds
  <1>8. OpsOK(runs', ops) /\ \A k \in DOMAIN ops : ~ InLoop(ops[k])
    BY <1>5, <1>6, <1>7, EachQuiet
  <1>9. OpsInv(runs', After(i + 1))
    <2>1. Len(todo) \in Nat
      BY IsSeqDom DEF TypeInv, OpsOK
    <2>2. CASE i + 1 <= Len(todo)
      <3>1. i + 1 \in 0..Len(todo)
        BY <1>2, <2>1, <2>2
      <3> QED
        BY <3>1, AfterKept
    <2>3. CASE ~ (i + 1 <= Len(todo))
      <3>1. PICK n \in Nat : n = Len(todo) /\ i = n
        BY <1>2, <2>1, <2>3
      <3>2. After(i + 1) = SubSeq(todo, n + 2, n)
        <4>1. i + 1 + 1 = n + 2
          BY <3>1
        <4> QED
          BY <3>1, <4>1 DEF After
      <3>3. SubSeq(todo, n + 2, n) = <<>>
        BY <3>1
      <3> QED
        BY <3>2, <3>3, Ops, IsSeqEmpty DEF OpsInv, LoopsEnd
    <2> QED
      BY <2>2, <2>3
  <1>10. OpsInv(runs', ops \o After(i + 1))
    BY <1>8, <1>9, QuietJoined
  <1> QED
    BY <1>1, <1>10 DEF i

\* RethrowCallback leaves operations that are well formed.
LEMMA RethrowOps ==
    ASSUME TypeInv, Next, RethrowCallback
    PROVE  OpsInv(runs', todo')
  <1> DEFINE i == FirstOf(Catchers("error"))
  <1>1. PICK o, p : Free(o) /\ Free(p) /\ todo' = <<o, p>> \o After(i)
    BY OpKinds DEF RethrowCallback
  <1>2. i \in DOMAIN todo /\ i > 1 /\ i <= Len(todo) /\ i \in Nat /\ Len(todo) \in Nat
    <2>1. At("throw") /\ Catchers("error") # {} /\ IsSeq(todo)
      BY DEF RethrowCallback, TypeInv, OpsOK
    <2> QED
      BY <2>1, CatcherDoes, IsSeqDom
  <1> HIDE DEF i
  <1>3. OpsInv(runs', After(i))
    <2>1. i \in 0..Len(todo)
      BY <1>2
    <2> QED
      BY <2>1, AfterKept
  <1>4. OpsOK(runs', <<o, p>>) /\ \A k \in DOMAIN <<o, p>> : ~ InLoop(<<o, p>>[k])
    <2>1. OpOK(runs', o) /\ ~ InLoop(o) /\ OpOK(runs', p) /\ ~ InLoop(p)
      BY <1>1, FreeOK
    <2>2. \A k \in DOMAIN <<o, p>> : <<o, p>>[k] = o \/ <<o, p>>[k] = p
      OBVIOUS
    <2> QED
      BY <2>1, <2>2, Ops
  <1>5. OpsInv(runs', <<o, p>> \o After(i))
    BY <1>3, <1>4, QuietJoined
  <1> QED
    BY <1>1, <1>5

\* A Break is noted for the executables on break.
SetBreak(ops, j) == [ops EXCEPT ![j].hasBreak = TRUE]
WithBreak(o, value) == [o EXCEPT !.hasBreak = value]

\* Noting a Break changes one field.
LEMMA WithBreakDoes ==
    ASSUME NEW o, NEW h, NEW cs, o = [op |-> "breakes", hasBreak |-> h, callbacks |-> cs], NEW v
    PROVE  WithBreak(o, v) = [op |-> "breakes", hasBreak |-> v, callbacks |-> cs]
  BY DEF WithBreak

\* Noting a Break changes one operation.
LEMMA SetBreakDoes ==
    ASSUME NEW rs, NEW ops, OpsInv(rs, ops), NEW j \in DOMAIN ops, ops[j].op = "breakes"
    PROVE  /\ OpsInv(rs, SetBreak(ops, j))
           /\ DOMAIN SetBreak(ops, j) = DOMAIN ops
           /\ \A k \in DOMAIN ops : k # j => SetBreak(ops, j)[k] = ops[k]
           /\ SetBreak(ops, j)[j] = [op |-> "breakes", hasBreak |-> TRUE, callbacks |-> ops[j].callbacks]
  <1> DEFINE b == [op |-> "breakes", hasBreak |-> TRUE, callbacks |-> ops[j].callbacks]
             all == SetBreak(ops, j)
  <1>1. OpOK(rs, ops[j])
    BY DEF OpsInv, OpsOK
  <1>2. ops[j] = [op |-> "breakes", hasBreak |-> ops[j].hasBreak, callbacks |-> ops[j].callbacks]
    BY <1>1 DEF OpOK
  <1>3. WithBreak(ops[j], TRUE) = b
    BY <1>2, WithBreakDoes
  <1>4. all = [ops EXCEPT ![j] = WithBreak(ops[j], TRUE)]
    BY DEF SetBreak, WithBreak
  <1>5. all = [ops EXCEPT ![j] = b]
    BY <1>3, <1>4
  <1>6. b.op = "breakes" /\ OpOK(rs, b)
    BY <1>1, <1>2 DEF OpOK
  <1> HIDE DEF b, all
  <1>7. all = [k \in DOMAIN ops |-> all[k]] /\ all[j] = b /\ \A k \in DOMAIN ops : k # j => all[k] = ops[k]
    BY <1>5
  <1>8. IsSeq(all) /\ DOMAIN all = DOMAIN ops
    BY <1>7, Mapped DEF OpsInv, OpsOK
  <1>9. OpsOK(rs, all)
    BY <1>6, <1>7, <1>8 DEF OpsInv, OpsOK
  <1>10. LoopsEnd(all)
    <2> SUFFICES ASSUME NEW k \in DOMAIN all, InLoop(all[k])
                 PROVE  \E l \in DOMAIN all : l > k /\ all[l].op = "breakes"
      BY DEF LoopsEnd
    <2>1. k # j
      BY <1>6, <1>7 DEF InLoop
    <2>2. PICK l \in DOMAIN ops : l > k /\ ops[l].op = "breakes"
      BY <2>1, <1>7, <1>8 DEF OpsInv, LoopsEnd
    <2>3. all[l].op = "breakes"
      BY <2>2, <1>6, <1>7
    <2> QED
      BY <2>2, <2>3, <1>8
  <1> QED
    BY <1>7, <1>8, <1>9, <1>10 DEF OpsInv, b, all

\* The executables on break follow the one that broke.
LEMMA BreakesFollow ==
    ASSUME TypeInv, NEW i \in DOMAIN todo, todo[i].op = "caught", ~ todo[i].last
    PROVE  LET js == {k \in DOMAIN After(i) : After(i)[k].op = "breakes"}
           IN  FirstOf(js) \in js /\ \A j \in js : FirstOf(js) <= j
  <1> DEFINE js == {k \in DOMAIN After(i) : After(i)[k].op = "breakes"}
  <1>1. OpsInv(runs, todo) /\ Len(todo) \in Nat /\ DOMAIN todo = 1..Len(todo)
    BY IsSeqDom DEF TypeInv, OpsInv, OpsOK
  <1>2. /\ DOMAIN After(i) = 1..(Len(todo) - i)
        /\ \A k \in DOMAIN After(i) : After(i)[k] = todo[i + k] /\ i + k \in DOMAIN todo
    <2>1. i \in 0..Len(todo)
      BY <1>1
    <2> QED
      BY <1>1, <2>1, Suffix DEF After
  <1>3. PICK l \in DOMAIN todo : l > i /\ todo[l].op = "breakes"
    BY <1>1 DEF InLoop, TypeInv, LoopsEnd
  <1>4. l - i \in DOMAIN After(i) /\ i + (l - i) = l
    BY <1>1, <1>2, <1>3
  <1>5. l - i \in js
    BY <1>2, <1>3, <1>4
  <1>6. js \in SUBSET Nat
    BY <1>1, <1>2
  <1> HIDE DEF js
  <1>7. FirstOf(js) \in js /\ \A j \in js : FirstOf(js) <= j
    BY <1>5, <1>6, FirstOfDoes
  <1> QED
    BY <1>7 DEF js

\* The Break of a callback finds the executables on break it is noted for.
LEMMA BreakCallbackOps ==
    ASSUME TypeInv, Next, BreakCallback
    PROVE  OpsInv(runs', todo')
  <1> DEFINE i == FirstOf(Catchers("break"))
             after == After(i)
             j == FirstOf({k \in DOMAIN after : after[k].op = "breakes"})
  <1>1. /\ At("throw") /\ Catchers("break") # {} /\ todo[i].op = "caught"
        /\ todo' = IF todo[i].last THEN after ELSE SetBreak(after, j)
    BY DEF BreakCallback, SetBreak
  <1>2. i \in DOMAIN todo /\ i > 1 /\ i <= Len(todo) /\ i \in Nat /\ Len(todo) \in Nat
    <2>1. IsSeq(todo)
      BY DEF TypeInv, OpsOK
    <2> QED
      BY <1>1, <2>1, CatcherDoes, IsSeqDom
  <1>3. OpsInv(runs', after)
    <2> HIDE DEF i
    <2>1. i \in 0..Len(todo)
      BY <1>2
    <2> QED
      BY <2>1, AfterKept
  <1>4. CASE todo[i].last
    BY <1>1, <1>3, <1>4
  <1>5. CASE ~ todo[i].last
    <2> HIDE DEF i
    <2>1. j \in DOMAIN after /\ after[j].op = "breakes"
      BY <1>1, <1>2, <1>5, BreakesFollow
    <2> HIDE DEF j, after
    <2>2. OpsInv(runs', SetBreak(after, j))
      BY <1>3, <2>1, SetBreakDoes
    <2> QED
      BY <1>1, <1>5, <2>2
  <1> QED
    BY <1>4, <1>5

\* What one parse initialises.
LEMMA ParseDoes ==
    ASSUME TypeInv, ParseContext
    PROVE  \E ds : /\ IsSeq(ds)
                   /\ \A k \in DOMAIN ds : /\ ds[k] \in ToSet(Unparsed(todo[1].context))
                                           /\ ds[k] \in Element /\ attr[ds[k]] # ""
                                           /\ HasInit(page.metas[attr[ds[k]]])
                   /\ clock' = clock + Len(ds)
                   /\ Do([i \in DOMAIN ds |->
                            InvokeOp(<<ds[i], node[ds[i]]>>,
                                     [type |-> InitIncoding, n |-> clock + i, data |-> NoData])])
  <1> DEFINE es == Unparsed(todo[1].context)
             T == {i \in DOMAIN es : HasInit(page.metas[attr[es[i]]])}
             ds == [k \in DOMAIN InOrder(T) |-> es[InOrder(T)[k]]]
  <1>1. IsSeq(es) /\ \A k \in DOMAIN es : es[k] \in Element /\ attr[es[k]] # ""
    BY UnparsedSeq DEF TypeInv
  <1>2. /\ clock' = clock + Len(ds)
        /\ Do([i \in DOMAIN ds |->
                 InvokeOp(<<ds[i], node[ds[i]]>>,
                          [type |-> InitIncoding, n |-> clock + i, data |-> NoData])])
    BY DEF ParseContext, Those
  <1>3. \A i \in T : i \in DOMAIN es /\ HasInit(page.metas[attr[es[i]]])
    OBVIOUS
  <1>4. ds = [k \in DOMAIN InOrder(T) |-> es[InOrder(T)[k]]]
    OBVIOUS
  <1>5. T \subseteq DOMAIN es
    OBVIOUS
  <1>6. \A k \in DOMAIN es : es[k] \in ToSet(es)
    BY DEF ToSet
  <1> HIDE DEF T, es, ds
  <1>7. IsSeq(ds) /\ \A k \in DOMAIN ds : \E i \in T : ds[k] = es[i]
    <2>1. IsSeq(es)
      BY <1>1
    <2> QED
      BY <2>1, <1>4, <1>5, ThoseSeq
  <1>8. \A k \in DOMAIN ds : /\ ds[k] \in ToSet(es) /\ ds[k] \in Element /\ attr[ds[k]] # ""
                             /\ HasInit(page.metas[attr[ds[k]]])
    BY <1>1, <1>3, <1>6, <1>7
  <1> QED
    BY <1>2, <1>7, <1>8 DEF es

\* parse pushes the initialisation of the elements it has deferred.
LEMMA ParseOps ==
    ASSUME TypeInv, Next, ParseContext
    PROVE  OpsInv(runs', todo')
  <1>1. todo # <<>>
    BY DEF ParseContext, At
  <1>2. PICK ds : /\ IsSeq(ds)
                  /\ Do([i \in DOMAIN ds |->
                           InvokeOp(<<ds[i], node[ds[i]]>>,
                                    [type |-> InitIncoding, n |-> clock + i, data |-> NoData])])
    BY ParseDoes
  <1> DEFINE ops == [i \in DOMAIN ds |->
                        InvokeOp(<<ds[i], node[ds[i]]>>,
                                 [type |-> InitIncoding, n |-> clock + i, data |-> NoData])]
  <1>3. \A i \in DOMAIN ds : OpOK(runs', ops[i]) /\ ~ InLoop(ops[i])
    BY OpKinds, FreeOK
  <1>4. ops = [i \in DOMAIN ds |-> ops[i]] /\ Do(ops)
    BY <1>2
  <1> HIDE DEF ops
  <1>5. OpsOK(runs', ops) /\ \A i \in DOMAIN ops : ~ InLoop(ops[i])
    BY <1>2, <1>3, <1>4, EachQuiet
  <1> QED
    BY <1>1, <1>4, <1>5, Pushed

-------------------------------------------------------------------------------
(* Handlers *)

\* The events of document are finitely many.
LEMMA DocumentBindsFinite == IsFiniteSet(DocumentBinds)
  <1>1. \A T, a : IsFiniteSet(T) => IsFiniteSet(T \cup {a})
    BY FS_AddElement
  <1>2. IsFiniteSet({})
    BY FS_EmptySet
  <1> DEFINE s1 == {} \cup {ChangeUrl}
             s2 == s1 \cup {"incajaxbefore"}
             s3 == s2 \cup {"incajaxerror"}
             s4 == s3 \cup {"incajaxcomplete"}
             s5 == s4 \cup {"incajaxsuccess"}
             s6 == s5 \cup {"incglobalerror"}
             s7 == s6 \cup {"incinsert"}
  <1>3. DocumentBinds = s7
    BY DEF DocumentBinds
  <1>4. IsFiniteSet(s1)
    BY <1>1, <1>2
  <1> HIDE DEF s1
  <1>5. IsFiniteSet(s2)
    BY <1>1, <1>4
  <1> HIDE DEF s2
  <1>6. IsFiniteSet(s3)
    BY <1>1, <1>5
  <1> HIDE DEF s3
  <1>7. IsFiniteSet(s4)
    BY <1>1, <1>6
  <1> HIDE DEF s4
  <1>8. IsFiniteSet(s5)
    BY <1>1, <1>7
  <1> HIDE DEF s5
  <1>9. IsFiniteSet(s6)
    BY <1>1, <1>8
  <1> HIDE DEF s6
  <1>10. IsFiniteSet(s7)
    BY <1>1, <1>9
  <1> QED
    BY <1>3, <1>10

\* SetToSeq of a finite set is a sequence.
LEMMA SetToSeqSeq ==
    ASSUME NEW S, IsFiniteSet(S)
    PROVE  IsSeq(SetToSeq(S)) /\ \A i \in DOMAIN SetToSeq(S) : SetToSeq(S)[i] \in S
  <1> DEFINE n == Cardinality(S)
  <1>1. n \in Nat /\ \E f : ExistsBijection(1..n, S)
    BY FS_CardinalityType
  <1>2. PICK f \in [1..n -> S] : IsInjective(f)
    BY <1>1 DEF ExistsBijection, Bijection, Injection, IsInjective
  <1>3. SetToSeq(S) \in [1..n -> S]
    BY <1>2 DEF SetToSeq
  <1>4. SetToSeq(S) = [i \in 1..n |-> SetToSeq(S)[i]] /\ \A i \in DOMAIN SetToSeq(S) : SetToSeq(S)[i] \in S
    BY <1>3
  <1> QED
    BY <1>1, <1>4, IsSeqMake

\* FirstBinds lists positions of the attribute.
LEMMA FirstBindsSeq ==
    ASSUME NEW metas, IsSeq(metas)
    PROVE  IsSeq(FirstBinds(metas)) /\ \A k \in DOMAIN FirstBinds(metas) : FirstBinds(metas)[k] \in DOMAIN metas
  <1> DEFINE S == {i \in DOMAIN metas : \A j \in 1..(i - 1) : metas[j].onBind # metas[i].onBind}
  <1>1. FirstBinds(metas) = InOrder(S) /\ S \subseteq DOMAIN metas
    BY DEF FirstBinds
  <1> HIDE DEF S
  <1>2. IsSeq(InOrder(S)) /\ \A k \in DOMAIN InOrder(S) : InOrder(S)[k] \in S
    BY <1>1, InOrderSeq
  <1> QED
    BY <1>1, <1>2

\* What bind attaches to an element is a sequence.
LEMMA ElementBindsSeq ==
    ASSUME NEW metas, IsSeq(metas)
    PROVE  IsSeq(ElementBinds(metas))
  <1> DEFINE Handler(i) == [events |-> metas[i].onBind \
                                          ({InitIncoding} \cup IF metas[i].onEventStatus = CancelAll
                                                                  THEN {} ELSE DocumentBinds),
                            status |-> metas[i].onEventStatus]
             first == FirstBinds(metas)
             hs == [k \in DOMAIN first |-> Handler(first[k])]
             S == {k \in DOMAIN hs : hs[k].events # {}}
             those == [k \in DOMAIN InOrder(S) |-> hs[InOrder(S)[k]]]
             init == IF HasInit(metas) THEN <<[events |-> {InitIncoding}, status |-> CancelAll]>> ELSE <<>>
  <1>1. ElementBinds(metas) = those \o init
    BY DEF ElementBinds, Those, Each
  <1>2. hs = [k \in DOMAIN first |-> hs[k]] /\ S \subseteq DOMAIN hs
        /\ those = [k \in DOMAIN InOrder(S) |-> hs[InOrder(S)[k]]]
    OBVIOUS
  <1>3. IsSeq(first)
    BY FirstBindsSeq
  <1>4. IsSeq(init)
    BY IsSeqEmpty, IsSeqTuples
  <1> HIDE DEF hs, S, those, init, first
  <1>5. IsSeq(hs)
    BY <1>2, <1>3, Mapped
  <1>6. IsSeq(those)
    BY <1>2, <1>5, ThoseSeq
  <1> QED
    BY <1>1, <1>4, <1>6, IsSeqConcat

\* What bind attaches to document is a sequence.
LEMMA DocumentBindsOfSeq ==
    ASSUME NEW metas, IsSeq(metas), NEW site
    PROVE  IsSeq(DocumentBindsOf(metas, site))
  <1> DEFINE Of(i) == IF metas[i].onEventStatus = CancelAll THEN {} ELSE metas[i].onBind \cap DocumentBinds
             Types(i) == SetToSeq(Of(i))
             Handlers1(i) == [k \in DOMAIN Types(i) |-> [type |-> Types(i)[k], site |-> site]]
             first == FirstBinds(metas)
             ss == [k \in DOMAIN first |-> Handlers1(first[k])]
  <1>1. DocumentBindsOf(metas, site) = FlattenSeq(ss)
    BY DEF DocumentBindsOf, Each
  <1>2. ASSUME NEW i PROVE IsSeq(Handlers1(i))
    <2>1. Of(i) \subseteq DocumentBinds
      OBVIOUS
    <2>2. IsFiniteSet(Of(i))
      BY <2>1, DocumentBindsFinite, FS_Subset
    <2>3. Handlers1(i) = [k \in DOMAIN Types(i) |-> Handlers1(i)[k]]
      OBVIOUS
    <2>4. IsSeq(Types(i))
      BY <2>2, SetToSeqSeq
    <2> HIDE DEF Handlers1, Types
    <2> QED
      BY <2>3, <2>4, Mapped
  <1>3. ss = [k \in DOMAIN first |-> ss[k]] /\ \A k \in DOMAIN ss : ss[k] = Handlers1(first[k])
    OBVIOUS
  <1>4. IsSeq(first)
    BY FirstBindsSeq
  <1> HIDE DEF ss, first, Handlers1
  <1>5. IsSeq(ss)
    BY <1>3, <1>4, Mapped
  <1>6. \A k \in DOMAIN ss : IsSeq(ss[k])
    BY <1>2, <1>3
  <1>7. IsSeq(FlattenSeq(ss))
    BY <1>5, <1>6, IsSeqFlatten
  <1> QED
    BY <1>1, <1>7

\* parse keeps the handlers sequences.
LEMMA ParseBinds ==
    ASSUME TypeInv, ParseContext
    PROVE  BindsOK'
  <1> DEFINE es == Unparsed(todo[1].context)
             S == ToSet(es)
             MetasNamed(e) == page.metas[attr[e]]
             added == [k \in DOMAIN es |-> DocumentBindsOf(MetasNamed(es[k]), <<es[k], node[es[k]]>>)]
  <1>1. IsSeq(es) /\ \A k \in DOMAIN es : es[k] \in Element /\ attr[es[k]] # ""
    BY UnparsedSeq DEF TypeInv
  <1>2. binds' = [e \in Element |-> IF e \in S THEN binds[e] \o ElementBinds(MetasNamed(e)) ELSE binds[e]]
    BY DEF ParseContext
  <1>3. docBinds' = docBinds \o FlattenSeq(added)
    BY DEF ParseContext, Each
  <1>4. \A e \in S : e \in Element /\ attr[e] # ""
    BY <1>1 DEF ToSet
  <1>5. \A e \in Element : attr[e] # "" => IsSeq(MetasNamed(e))
    BY PageFacts DEF TypeInv, DomOK
  <1>6. added = [k \in DOMAIN es |-> added[k]]
        /\ \A k \in DOMAIN es : added[k] = DocumentBindsOf(MetasNamed(es[k]), <<es[k], node[es[k]]>>)
    OBVIOUS
  <1> HIDE DEF MetasNamed, added, S, es
  <1>7. IsSeq(added)
    <2>1. IsSeq(es)
      BY <1>1
    <2> QED
      BY <1>6, <2>1, Mapped
  <1>8. \A k \in DOMAIN added : IsSeq(added[k])
    <2>1. ASSUME NEW k \in DOMAIN es PROVE IsSeq(added[k])
      BY <1>1, <1>5, <1>6, DocumentBindsOfSeq
    <2>2. DOMAIN added = DOMAIN es
      BY <1>6
    <2> QED
      BY <2>1, <2>2
  <1>9. IsSeq(docBinds')
    <2>1. IsSeq(FlattenSeq(added)) /\ IsSeq(docBinds)
      BY <1>7, <1>8, IsSeqFlatten DEF TypeInv, BindsOK
    <2> QED
      BY <1>3, <2>1, IsSeqConcat
  <1>10. ASSUME NEW e \in Element PROVE IsSeq(binds'[e])
    <2>1. IsSeq(binds[e])
      BY DEF TypeInv, BindsOK
    <2>2. CASE e \in S
      <3>1. IsSeq(ElementBinds(MetasNamed(e)))
        BY <1>4, <1>5, <2>2, ElementBindsSeq
      <3>2. IsSeq(binds[e] \o ElementBinds(MetasNamed(e)))
        BY <2>1, <3>1, IsSeqConcat
      <3> QED
        BY <1>2, <2>2, <3>2
    <2>3. CASE e \notin S
      BY <1>2, <2>1, <2>3
    <2> QED
      BY <2>2, <2>3
  <1>11. binds' = [e \in Element |-> binds'[e]]
    BY <1>2
  <1> QED
    BY <1>9, <1>10, <1>11 DEF BindsOK

\* Detach keeps the handlers sequences.
LEMMA DetachBinds ==
    ASSUME TypeInv, Detach
    PROVE  BindsOK'
  <1> DEFINE m == Meta(todo[1].x)
             t == m.target
             Left(b) == [b EXCEPT !.events = IF m.arg = "" THEN {} ELSE @ \ {m.arg}]
             bs == [k \in DOMAIN binds[t] |-> Left(binds[t][k])]
             S == {k \in DOMAIN bs : bs[k].events # {}}
             those == [k \in DOMAIN InOrder(S) |-> bs[InOrder(S)[k]]]
  <1>1. binds' = [binds EXCEPT ![t] = those] /\ docBinds' = docBinds
    BY DEF Detach, Those, Each
  <1>2. bs = [k \in DOMAIN binds[t] |-> bs[k]] /\ S \subseteq DOMAIN bs
        /\ those = [k \in DOMAIN InOrder(S) |-> bs[InOrder(S)[k]]]
    OBVIOUS
  <1> HIDE DEF those, S, bs, t
  <1>3. ASSUME t \in Element PROVE IsSeq(those)
    <2>1. IsSeq(binds[t])
      BY <1>3 DEF TypeInv, BindsOK
    <2>2. IsSeq(bs)
      BY <1>2, <2>1, Mapped
    <2> QED
      BY <1>2, <2>2, ThoseSeq
  <1>4. binds = [e \in Element |-> binds[e]] /\ IsSeq(docBinds) /\ \A e \in Element : IsSeq(binds[e])
    BY DEF TypeInv, BindsOK
  <1>5. binds' = [e \in Element |-> binds'[e]]
    BY <1>1, <1>4
  <1>6. \A e \in Element : binds'[e] = IF e = t THEN those ELSE binds[e]
    BY <1>1, <1>4
  <1>7. \A e \in Element : IsSeq(binds'[e])
    BY <1>3, <1>4, <1>6
  <1> QED
    BY <1>1, <1>4, <1>5, <1>7 DEF BindsOK

\* Every step keeps the handlers sequences.
LEMMA BindsStep ==
    ASSUME TypeInv, Next
    PROVE  BindsOK'
  <1>1. Frame
    BY Frames
  <1>2. BindsOK
    BY DEF TypeInv
  <1>3. CASE UNCHANGED <<node, attr, runner, binds, docBinds>>
    BY <1>2, <1>3 DEF BindsOK
  <1>4. CASE ParseContext
    BY <1>4, ParseBinds
  <1>5. CASE Detach
    BY <1>5, DetachBinds
  <1>6. CASE Attach
    BY <1>2, <1>6 DEF Attach, BindsOK
  <1>7. CASE Insert
    <2>1. CASE UNCHANGED binds /\ UNCHANGED docBinds
      BY <1>2, <2>1 DEF BindsOK
    <2>2. CASE ~ UNCHANGED <<binds, docBinds>>
      <3>1. PICK old : binds' = [e \in Element |-> IF e \in old THEN <<>> ELSE binds[e]] /\ docBinds' = docBinds
        BY <1>7, <2>2 DEF Insert, dom, Cleaned
      <3> QED
        BY <1>2, <3>1, IsSeqEmpty DEF BindsOK
    <2> QED
      BY <2>1, <2>2
  <1> QED
    BY <1>1, <1>3, <1>4, <1>5, <1>6, <1>7, Zenon DEF Frame

-------------------------------------------------------------------------------
(* The elements, what waits, the counters and the tasks *)

\* What an executable names exists.
LEMMA MetaFacts ==
    ASSUME page \in Page, AreRuns(page, runs), NEW x, Executable(runs, x)
    PROVE  /\ Meta(x).type = "Attach" => Meta(x).arg \in DOMAIN page.metas
           /\ Meta(x).delay = "interval" => Meta(x).intervalId \in Id
           /\ Meta(x) = MetasOf(x[1], x[2])[x[3]]
           /\ x[3] \in DOMAIN MetasOf(x[1], x[2])
           /\ x[1] \in Element /\ x[2] \in DOMAIN runs[x[1]]
  <1>1. x[1] \in Element /\ x[2] \in DOMAIN runs[x[1]] /\ x[3] \in DOMAIN runs[x[1]][x[2]].event
    BY DEF Executable
  <1>2. /\ runs[x[1]][x[2]].name \in DOMAIN page.metas
        /\ DOMAIN runs[x[1]][x[2]].event = DOMAIN MetasOf(x[1], x[2])
    BY <1>1, RunFacts
  <1>3. Meta(x) = MetasOf(x[1], x[2])[x[3]]
    BY DEF Meta, RunOf, MetasOf
  <1>4. LET m == MetasOf(x[1], x[2])[x[3]]
        IN  /\ m.type = "Attach" => m.arg \in DOMAIN page.metas
            /\ m.delay = "interval" => m.intervalId \in Id
    BY <1>1, <1>2, PageFacts DEF MetasOf
  <1> QED
    BY <1>1, <1>2, <1>3, <1>4

\* Every step keeps the runner of an element one of its present incarnation.
LEMMA DomStep ==
    ASSUME TypeInv, Next
    PROVE  DomOK'
  <1>1. Frame /\ Grown(runs, runs') /\ page' = page
    BY Frames, RunsStep
  <1>2. /\ node \in [Element -> Nat]
        /\ attr \in [Element -> DOMAIN page.metas \cup {""}]
        /\ runner \in [Element -> Nat]
        /\ \A e \in Element : runner[e] # 0 => /\ runner[e] \in DOMAIN runs[e]
                                               /\ runs[e][runner[e]].incarnation = node[e]
    BY DEF TypeInv, DomOK
  <1>3. \A e \in Element : runner[e] # 0 => /\ runner[e] \in DOMAIN runs'[e]
                                            /\ runs'[e][runner[e]].incarnation = node[e]
    BY <1>1, <1>2 DEF Grown
  <1>4. CASE UNCHANGED <<node, attr, runner, binds, docBinds>>
    <2>1. node' = node /\ attr' = attr /\ runner' = runner
      BY <1>4
    <2> QED
      BY <1>1, <1>2, <1>3, <2>1 DEF DomOK
  <1>5. CASE Detach
    <2>1. node' = node /\ attr' = attr /\ runner' = runner
      BY <1>5 DEF Detach
    <2> QED
      BY <1>1, <1>2, <1>3, <2>1 DEF DomOK
  <1>6. CASE Attach
    <2> DEFINE m == Meta(todo[1].x)
    <2>1. todo # <<>> /\ todo[1].op = "run" /\ m.type = "Attach"
      BY <1>6 DEF Attach, AtRun, At
    <2>2. m.arg \in DOMAIN page.metas
      <3>1. Executable(runs, todo[1].x) /\ page \in Page /\ AreRuns(page, runs)
        BY <2>1, AtHeadExecutable DEF TypeInv
      <3> QED
        BY <2>1, <3>1, MetaFacts
    <2>3. CASE node[m.target] = 0
      <3>1. node' = node /\ attr' = attr /\ runner' = runner
        BY <1>6, <2>3 DEF Attach
      <3> QED
        BY <1>1, <1>2, <1>3, <3>1 DEF DomOK
    <2>4. CASE node[m.target] # 0
      <3>1. /\ node' = node
            /\ attr' = [attr EXCEPT ![m.target] = m.arg]
            /\ runner' = [runner EXCEPT ![m.target] = 0]
        BY <1>6, <2>4 DEF Attach
      <3> HIDE DEF m
      <3>2. attr' \in [Element -> DOMAIN page.metas \cup {""}]
        BY <1>2, <2>2, <3>1
      <3>3. runner' \in [Element -> Nat]
        BY <1>2, <3>1
      <3>4. \A e \in Element : runner'[e] = 0 \/ runner'[e] = runner[e]
        BY <1>2, <3>1
      <3> QED
        BY <1>1, <1>2, <1>3, <3>1, <3>2, <3>3, <3>4 DEF DomOK
    <2> QED
      BY <2>3, <2>4
  <1>7. CASE Insert
    <2>1. CASE UNCHANGED node /\ UNCHANGED attr /\ UNCHANGED runner
      BY <1>1, <1>2, <1>3, <2>1 DEF DomOK
    <2>2. CASE ~ (UNCHANGED node /\ UNCHANGED attr /\ UNCHANGED runner)
      <3> DEFINE old == Inside(Meta(todo[1].x).target)
      <3>1. PICK new \in SUBSET old :
               /\ node' = [e \in Element |-> IF e \in new THEN clock + 1
                                             ELSE IF e \in old THEN 0 ELSE node[e]]
               /\ attr' = [e \in Element |-> IF e \in new THEN e ELSE IF e \in old THEN "" ELSE attr[e]]
               /\ runner' = [e \in Element |-> IF e \in old THEN 0 ELSE runner[e]]
        <4> DEFINE new == IF ResultOf(todo[1].x) = NoData THEN {} ELSE old
        <4>1. new \in SUBSET old
          OBVIOUS
        <4>2. /\ node' = [e \in Element |-> IF e \in new THEN clock + 1
                                             ELSE IF e \in old THEN 0 ELSE node[e]]
              /\ attr' = [e \in Element |-> IF e \in new THEN e ELSE IF e \in old THEN "" ELSE attr[e]]
              /\ runner' = [e \in Element |-> IF e \in old THEN 0 ELSE runner[e]]
          BY <1>7, <2>2 DEF Insert, dom, Cleaned
        <4> HIDE DEF new, old
        <4> QED
          BY <4>1, <4>2
      <3> HIDE DEF old
      <3>2. clock + 1 \in Nat
        BY DEF TypeInv, CountersOK
      <3>3. node' \in [Element -> Nat]
        BY <1>2, <3>1, <3>2
      <3>4. attr' \in [Element -> DOMAIN page.metas \cup {""}]
        <4>1. Element \subseteq DOMAIN page.metas
          BY PageFacts DEF TypeInv
        <4> QED
          BY <1>2, <3>1, <4>1
      <3>5. runner' \in [Element -> Nat]
        BY <1>2, <3>1
      <3>6. \A e \in Element : runner'[e] # 0 => runner'[e] = runner[e] /\ node'[e] = node[e]
        BY <1>2, <3>1
      <3> QED
        BY <1>1, <1>2, <1>3, <3>3, <3>4, <3>5, <3>6 DEF DomOK
    <2> QED
      BY <2>1, <2>2
  <1>8. CASE ParseContext
    <2> DEFINE S == ToSet(Unparsed(todo[1].context))
    <2>1. /\ node' = node
          /\ attr' = [e \in Element |-> IF e \in S THEN "" ELSE attr[e]]
          /\ runner' = [e \in Element |-> IF e \in S THEN Len(runs[e]) + 1 ELSE runner[e]]
      BY <1>8 DEF ParseContext
    <2>2. Parsed(runs, runs', S)
      BY <1>8, ParseRuns DEF TypeInv
    <2> HIDE DEF S
    <2>3. \A e \in Element : Len(runs[e]) + 1 \in Nat
      BY IsSeqDom DEF TypeInv, AreRuns
    <2>4. attr' \in [Element -> DOMAIN page.metas \cup {""}] /\ runner' \in [Element -> Nat]
      BY <1>2, <2>1, <2>3
    <2>5. ASSUME NEW e \in Element, runner'[e] # 0
          PROVE  runner'[e] \in DOMAIN runs'[e] /\ runs'[e][runner'[e]].incarnation = node[e]
      <3>1. CASE e \in S
        <4>1. runner'[e] = Len(runs[e]) + 1
          BY <2>1, <3>1
        <4>2. Len(runs[e]) + 1 \in DOMAIN runs'[e] /\ runs'[e][Len(runs[e]) + 1].incarnation = node[e]
          BY <2>2, <3>1 DEF Parsed
        <4> QED
          BY <4>1, <4>2
      <3>2. CASE e \notin S
        <4>1. runner'[e] = runner[e]
          BY <2>1, <3>2
        <4> QED
          BY <1>3, <2>5, <4>1
      <3> QED
        BY <3>1, <3>2
    <2> QED
      BY <1>1, <1>2, <2>1, <2>4, <2>5 DEF DomOK
  <1> QED
    BY <1>1, <1>4, <1>5, <1>6, <1>7, <1>8, Zenon DEF Frame

\* What waits is either what waited before or the executable at the head.
LEMMA WaitingStep ==
    ASSUME TypeInv, Next
    PROVE  WaitingOK'
  <1>1. Frame /\ Grown(runs, runs')
    BY Frames, RunsStep
  <1>2. \A w \in requests \cup timers \cup intervals : Executable(runs', w.x)
    BY <1>1 DEF TypeInv, WaitingOK, Executable, Grown
  <1>3. CASE UNCHANGED <<requests, timers, intervals>>
    BY <1>2, <1>3 DEF WaitingOK
  <1>4. CASE Send
    <2>1. todo # <<>> /\ todo[1].op = "send"
      BY <1>4 DEF Send, At
    <2>2. Executable(runs', todo[1].x)
      BY <2>1, AtHeadExecutable
    <2>3. /\ requests' = requests \cup {[x |-> todo[1].x, ev |-> todo[1].ev, data |-> todo[1].data]}
          /\ timers' = timers /\ intervals' = intervals
      BY <1>4 DEF Send, timing
    <2> QED
      BY <1>2, <2>2, <2>3 DEF WaitingOK
  <1>5. CASE Execute
    <2>1. todo # <<>> /\ todo[1].op = "execute"
      BY <1>5 DEF Execute, At
    <2>2. Executable(runs', todo[1].x)
      BY <2>1, AtHeadExecutable
    <2> DEFINE waiting == [x |-> todo[1].x, ev |-> todo[1].ev, n |-> clock + 1]
    <2>3. requests' = requests
      BY <1>5 DEF Execute
    <2>4. /\ timers' = timers \/ timers' = timers \cup {waiting}
          /\ intervals' = intervals \/ intervals' = intervals \cup {waiting}
      BY <1>5 DEF Execute, timing
    <2>5. waiting.x = todo[1].x
      OBVIOUS
    <2> HIDE DEF waiting
    <2>6. \A w \in requests' \cup timers' \cup intervals' : w \in requests \cup timers \cup intervals \/ w = waiting
      BY <2>3, <2>4
    <2> QED
      BY <1>2, <2>2, <2>5, <2>6 DEF WaitingOK
  <1>6. CASE Eval
    <2>1. requests' = requests /\ timers' = timers /\ intervals' \subseteq intervals
      BY <1>6 DEF Eval
    <2> QED
      BY <1>2, <2>1 DEF WaitingOK
  <1>7. CASE Respond
    <2>1. requests' \subseteq requests /\ timers' = timers /\ intervals' = intervals
      BY <1>7 DEF Respond, Answer, Fail, timing
    <2> QED
      BY <1>2, <2>1 DEF WaitingOK
  <1>8. CASE TimeOut
    <2>1. requests' = requests /\ timers' \subseteq timers /\ intervals' = intervals
      BY <1>8 DEF TimeOut
    <2> QED
      BY <1>2, <2>1 DEF WaitingOK
  <1> QED
    BY <1>1, <1>3, <1>4, <1>5, <1>6, <1>7, <1>8, Zenon DEF Frame

\* Every name of an interval leads to a number.
LEMMA IntervalIdsStep ==
    ASSUME TypeInv, Next
    PROVE  intervalIds' \in [Id -> Nat]
  <1>1. Frame /\ intervalIds \in [Id -> Nat] /\ clock + 1 \in Nat
    BY Frames DEF TypeInv, CountersOK
  <1>2. CASE Execute
    <2>1. intervalIds' = intervalIds \/ \E m : intervalIds' = [intervalIds EXCEPT ![m.intervalId] = clock + 1]
      BY <1>2 DEF Execute, timing, NameInterval
    <2> QED
      BY <1>1, <2>1
  <1> QED
    BY <1>1, <1>2 DEF Frame

\* The events and the ticks are counted against their bounds.
LEMMA CountedStep ==
    ASSUME TypeInv, Next
    PROVE  events' \in 0..page.events /\ ticks' \in 0..MaxTicks
  <1>1. events \in 0..page.events /\ ticks \in 0..MaxTicks /\ page.events \in Nat /\ MaxTicks \in Nat
    BY PageFacts, TicksAssumption DEF TypeInv, CountersOK
  <1>2. CASE User \/ Navigate
    <2>1. events' = events + 1 /\ ticks' = ticks /\ events < page.events
      BY <1>2 DEF User, Navigate
    <2> QED
      BY <1>1, <2>1
  <1>3. CASE Tick
    <2>1. events' = events /\ ticks' = ticks + 1 /\ ticks < MaxTicks
      BY <1>3 DEF Tick
    <2> QED
      BY <1>1, <2>1
  <1>4. CASE Announce \/ Respond \/ TimeOut
    BY <1>1, <1>4 DEF Announce, Respond, Answer, Fail, TimeOut, rest
  <1>5. CASE Step
    <2>1. events' = events /\ ticks' = ticks
      <3>1. CASE Fire \/ Dispatch \/ Invoke \/ CatchNothing \/ Actions \/ Action \/ Execute
        BY <3>1 DEF Fire, Dispatch, Invoke, CatchNothing, Actions, Action, Execute, rest
      <3>2. CASE Direct \/ Event \/ Ajax \/ Submit \/ Send \/ Store
        BY <3>2 DEF Direct, Event, Ajax, Submit, Send, Store, rest
      <3>3. CASE Completed \/ Callback \/ CaughtNothing \/ BreakCallbacks
        BY <3>3 DEF Completed, Callback, CaughtNothing, BreakCallbacks, rest
      <3>4. CASE Uncaught \/ BreakBefore \/ BreakCallback \/ RethrowCallback \/ ParseContext
        BY <3>4 DEF Uncaught, BreakBefore, BreakCallback, RethrowCallback, ParseContext, rest
      <3>5. CASE Insert \/ Trigger \/ Break \/ Eval \/ HashStore \/ Attach \/ Detach
        BY <3>5 DEF Insert, Trigger, Break, Eval, HashStore, Attach, Detach, rest
      <3> QED
        BY <1>5, <3>1, <3>2, <3>3, <3>4, <3>5 DEF Step
    <2> QED
      BY <1>1, <2>1
  <1> QED
    BY <1>2, <1>3, <1>4, <1>5 DEF Next

\* The clock never goes back.
LEMMA ClockStep ==
    ASSUME TypeInv, Next
    PROVE  clock' \in Nat /\ clock' >= clock
  <1>1. clock \in Nat
    BY DEF TypeInv, CountersOK
  <1>2. CASE clock' = clock \/ clock' = clock + 1
    BY <1>1, <1>2
  <1>3. CASE ParseContext
    <2>1. PICK ds : IsSeq(ds) /\ clock' = clock + Len(ds)
      BY <1>3, ParseDoes
    <2>2. Len(ds) \in Nat
      BY <2>1, IsSeqDom
    <2> QED
      BY <1>1, <2>1, <2>2
  <1>4. CASE User \/ Navigate \/ Announce \/ Respond \/ TimeOut \/ Tick
    <2>1. clock' = clock
      BY <1>4 DEF User, Navigate, Announce, Respond, Answer, Fail, TimeOut, Tick
    <2> QED
      BY <1>2, <2>1
  <1>5. CASE Step /\ ~ ParseContext
    <2>1. CASE Fire \/ Dispatch \/ Invoke \/ CatchNothing \/ Actions \/ Action \/ Execute
      <3>1. clock' = clock \/ clock' = clock + 1
        BY <2>1 DEF Fire, Dispatch, Invoke, CatchNothing, Actions, Action, Execute
      <3> QED
        BY <1>2, <3>1
    <2>2. CASE Direct \/ Event \/ Ajax \/ Submit \/ Send \/ Store
      <3>1. clock' = clock \/ clock' = clock + 1
        BY <2>2 DEF Direct, Event, Ajax, Submit, Send, Store
      <3> QED
        BY <1>2, <3>1
    <2>3. CASE Completed \/ Callback \/ CaughtNothing \/ BreakCallbacks
      <3>1. clock' = clock
        BY <2>3 DEF Completed, Callback, CaughtNothing, BreakCallbacks
      <3> QED
        BY <1>2, <3>1
    <2>4. CASE Uncaught \/ BreakBefore \/ BreakCallback \/ RethrowCallback
      <3>1. clock' = clock
        BY <2>4 DEF Uncaught, BreakBefore, BreakCallback, RethrowCallback
      <3> QED
        BY <1>2, <3>1
    <2>5. CASE Insert \/ Trigger \/ Break \/ Eval \/ HashStore \/ Attach \/ Detach
      <3>1. clock' = clock \/ clock' = clock + 1
        BY <2>5 DEF Insert, Trigger, Break, Eval, HashStore, Attach, Detach
      <3> QED
        BY <1>2, <3>1
    <2> QED
      BY <1>5, <2>1, <2>2, <2>3, <2>4, <2>5 DEF Step
  <1> QED
    BY <1>3, <1>4, <1>5 DEF Next

\* Whether the page is left is a Boolean.
LEMMA LeavingStep ==
    ASSUME TypeInv, Next
    PROVE  leaving' \in BOOLEAN
  <1>1. leaving \in BOOLEAN
    BY DEF TypeInv, CountersOK
  <1>2. CASE UNCHANGED leaving
    BY <1>1, <1>2
  <1>3. CASE leaving' = TRUE
    BY <1>3
  <1>4. CASE Completed \/ HashStore
    <2>1. \/ \E r, after : RedirectTo(r, after)
          \/ UNCHANGED navigation
      BY <1>4 DEF Completed, HashStore
    <2>2. UNCHANGED leaving \/ leaving' = TRUE
      BY <2>1 DEF RedirectTo, navigation
    <2> QED
      BY <1>2, <1>3, <2>2
  <1>5. CASE User \/ Navigate \/ Announce \/ Respond \/ TimeOut \/ Tick
    <2>1. UNCHANGED leaving
      BY <1>5 DEF User, Navigate, Announce, Respond, Answer, Fail, TimeOut, Tick, navigation
    <2> QED
      BY <1>2, <2>1
  <1>6. CASE Fire \/ Dispatch \/ Invoke \/ CatchNothing \/ Actions \/ Action \/ Execute
    <2>1. UNCHANGED leaving
      BY <1>6 DEF Fire, Dispatch, Invoke, CatchNothing, Actions, Action, Execute, navigation
    <2> QED
      BY <1>2, <2>1
  <1>7. CASE Direct \/ Event \/ Ajax \/ Submit \/ Send \/ Store \/ Callback \/ CaughtNothing \/ BreakCallbacks
    <2>1. UNCHANGED leaving
      BY <1>7 DEF Direct, Event, Ajax, Submit, Send, Store, Callback, CaughtNothing, BreakCallbacks, navigation
    <2> QED
      BY <1>2, <2>1
  <1>8. CASE Uncaught \/ BreakBefore \/ BreakCallback \/ RethrowCallback \/ ParseContext
    <2>1. UNCHANGED leaving
      BY <1>8 DEF Uncaught, BreakBefore, BreakCallback, RethrowCallback, ParseContext, navigation
    <2> QED
      BY <1>2, <2>1
  <1>9. CASE Insert \/ Trigger \/ Break \/ Eval \/ Attach \/ Detach
    <2>1. UNCHANGED leaving
      BY <1>9 DEF Insert, Trigger, Break, Eval, Attach, Detach, navigation
    <2> QED
      BY <1>2, <2>1
  <1> QED
    BY <1>4, <1>5, <1>6, <1>7, <1>8, <1>9 DEF Next, Step

\* What a task begins with.
LEMMA Fresh ==
    ASSUME NEW rs, NEW ops, OpsOK(rs, ops), \A i \in DOMAIN ops : ~ InLoop(ops[i])
    PROVE  OpsInv(rs, ops)
  BY DEF OpsInv, LoopsEnd

\* A task that begins with one operation.
LEMMA Fresh1 ==
    ASSUME NEW rs, NEW o, OpOK(rs, o), ~ InLoop(o)
    PROVE  OpsInv(rs, <<o>>)
  <1>1. OpsOK(rs, <<o>>) /\ \A i \in DOMAIN <<o>> : ~ InLoop(<<o>>[i])
    BY Ops
  <1> QED
    BY <1>1, Fresh

\* An answer begins a task that is well formed.
LEMMA AnswerOps ==
    ASSUME TypeInv, Next, NEW r \in requests, Answer(r)
    PROVE  OpsInv(runs', todo')
  <1>1. Executable(runs', r.x)
    <2>1. Executable(runs, r.x) /\ Grown(runs, runs')
      BY RunsStep DEF TypeInv, WaitingOK
    <2> QED
      BY <2>1 DEF Executable, Grown
  <1>2. PICK success, redirect :
           LET result == Result(success, r.data, redirect)
               site == IF IsSubmit(r) THEN Doc ELSE Self(r.x)
               d == FireOp("incajaxcomplete", site, r.data)
               c == CompleteOp(r.x, r.ev, result)
               kept == IF Meta(r.x).localCache
                          THEN <<[op |-> "store", key |-> <<Meta(r.x).arg, r.data.asked>>,
                                    value |-> result]>> ELSE <<>>
           IN  todo' = <<FireOp("incajaxsuccess", site, r.data)>>
                          \o IF IsSubmit(r) THEN <<d, c>> ELSE kept \o <<c, d>>
    BY DEF Answer
  <1> DEFINE result == Result(success, r.data, redirect)
             site == IF IsSubmit(r) THEN Doc ELSE Self(r.x)
             o == FireOp("incajaxsuccess", site, r.data)
             d == FireOp("incajaxcomplete", site, r.data)
             c == CompleteOp(r.x, r.ev, result)
             s == [op |-> "store", key |-> <<Meta(r.x).arg, r.data.asked>>, value |-> result]
             kept == IF Meta(r.x).localCache THEN <<s>> ELSE <<>>
  <1>3. OpOK(runs', o) /\ ~ InLoop(o) /\ OpOK(runs', d) /\ ~ InLoop(d) /\ OpOK(runs', s) /\ ~ InLoop(s)
    BY OpKinds, FreeOK
  <1>4. OpOK(runs', c) /\ ~ InLoop(c)
    BY <1>1, OpKinds
  <1>5. todo' = <<o>> \o IF IsSubmit(r) THEN <<d, c>> ELSE kept \o <<c, d>>
    BY <1>2
  <1>6. kept = <<s>> \/ kept = <<>>
    OBVIOUS
  <1> HIDE DEF o, d, c, s, kept
  <1>7. /\ OpsOK(runs', <<o>>) /\ \A i \in DOMAIN <<o>> : ~ InLoop(<<o>>[i])
        /\ OpsOK(runs', <<s>>) /\ \A i \in DOMAIN <<s>> : ~ InLoop(<<s>>[i])
        /\ OpsOK(runs', <<>>) /\ \A i \in DOMAIN <<>> : ~ InLoop(<<>>[i])
    BY <1>3, Ops, IsSeqEmpty
  <1>8. OpsOK(runs', <<d, c>>) /\ OpsOK(runs', <<c, d>>)
    BY <1>3, <1>4, Ops
  <1>9. /\ \A i \in DOMAIN <<d, c>> : ~ InLoop(<<d, c>>[i])
        /\ \A i \in DOMAIN <<c, d>> : ~ InLoop(<<c, d>>[i])
    BY <1>3, <1>4
  <1>10. OpsOK(runs', kept) /\ \A i \in DOMAIN kept : ~ InLoop(kept[i])
    BY <1>6, <1>7
  <1>11. PICK more : more = kept \o <<c, d>>
    OBVIOUS
  <1>12. OpsOK(runs', more) /\ \A i \in DOMAIN more : ~ InLoop(more[i])
    BY <1>8, <1>9, <1>10, <1>11, QuietConcat
  <1>13. PICK last : last = IF IsSubmit(r) THEN <<d, c>> ELSE more
    OBVIOUS
  <1>14. OpsOK(runs', last) /\ \A i \in DOMAIN last : ~ InLoop(last[i])
    BY <1>8, <1>9, <1>12, <1>13
  <1>15. todo' = <<o>> \o last
    BY <1>5, <1>11, <1>13
  <1>16. PICK all : all = <<o>> \o last
    OBVIOUS
  <1>17. OpsOK(runs', all) /\ \A i \in DOMAIN all : ~ InLoop(all[i])
    BY <1>7, <1>14, <1>16, QuietConcat
  <1> QED
    BY <1>15, <1>16, <1>17, Fresh

\* The tasks of the user, the browser and the server.
LEMMA TaskOps ==
    ASSUME TypeInv, Next, User \/ Navigate \/ Announce \/ Respond \/ TimeOut \/ Tick
    PROVE  OpsInv(runs', todo')
  <1>1. CASE User
    <2>1. PICK o : Free(o) /\ todo' = <<o>>
      BY <1>1, OpKinds DEF User
    <2> QED
      BY <2>1, FreeOK, Fresh1
  <1>2. CASE Navigate
    <2>1. todo' = todo /\ OpsInv(runs, todo) /\ Grown(runs, runs')
      BY <1>2, RunsStep DEF Navigate, TypeInv, OpsInv
    <2> QED
      BY <2>1, OpsKept
  <1>3. CASE Announce
    <2>1. PICK o : Free(o) /\ todo' = <<o>>
      BY <1>3, OpKinds DEF Announce
    <2> QED
      BY <2>1, FreeOK, Fresh1
  <1>4. CASE Respond
    <2>1. PICK r \in requests : Answer(r) \/ Fail(r)
      BY <1>4 DEF Respond
    <2>2. CASE Answer(r)
      BY <2>2, AnswerOps
    <2>3. CASE Fail(r)
      <3>1. PICK o, p : Free(o) /\ Free(p) /\ todo' = <<o, p>>
        BY <2>3, OpKinds DEF Fail
      <3>2. OpOK(runs', o) /\ ~ InLoop(o) /\ OpOK(runs', p) /\ ~ InLoop(p)
        BY <3>1, FreeOK
      <3>3. OpsOK(runs', <<o, p>>)
        BY <3>2, Ops
      <3>4. \A i \in DOMAIN <<o, p>> : <<o, p>>[i] = o \/ <<o, p>>[i] = p
        OBVIOUS
      <3> QED
        BY <3>1, <3>2, <3>3, <3>4, Fresh
    <2> QED
      BY <2>1, <2>2, <2>3
  <1>5. CASE TimeOut \/ Tick
    <2>1. PICK w \in timers \cup intervals : todo' = <<RunOp(w.x, w.ev)>>
      BY <1>5 DEF TimeOut, Tick
    <2>2. Executable(runs, w.x) /\ Grown(runs, runs')
      BY RunsStep DEF TypeInv, WaitingOK
    <2>3. Executable(runs', w.x)
      BY <2>2 DEF Executable, Grown
    <2>4. OpOK(runs', RunOp(w.x, w.ev)) /\ ~ InLoop(RunOp(w.x, w.ev))
      BY <2>3, OpKinds
    <2> QED
      BY <2>1, <2>4, Fresh1
  <1> QED
    BY <1>1, <1>2, <1>3, <1>4, <1>5

\* Every step leaves operations that are well formed.
LEMMA OpsStep ==
    ASSUME TypeInv, Next
    PROVE  OpsInv(runs', todo')
  <1>1. CASE Fire
    BY <1>1, FireOps
  <1>2. CASE Dispatch
    BY <1>2, DispatchOps
  <1>3. CASE Invoke
    BY <1>3, InvokeOps
  <1>4. CASE CatchNothing \/ CaughtNothing \/ Send \/ Store
    <2>1. todo # <<>> /\ Do(<<>>)
      BY <1>4 DEF CatchNothing, CaughtNothing, Send, Store, At
    <2> QED
      BY <2>1, Pushed0
  <1>5. CASE Actions
    BY <1>5, ActionsOps
  <1>6. CASE Action
    BY <1>6, ActionOps
  <1>7. CASE Execute
    BY <1>7, ExecuteOps
  <1>8. CASE Direct \/ Event \/ Ajax \/ Submit
    BY <1>8, RunActionOps
  <1>9. CASE Completed
    BY <1>9, CompletedOps
  <1>10. CASE Callback
    BY <1>10, CallbackOps
  <1>11. CASE BreakCallbacks
    BY <1>11, BreakCallbacksOps
  <1>12. CASE Uncaught
    BY <1>12, UncaughtOps
  <1>13. CASE BreakBefore
    BY <1>13, BreakBeforeOps
  <1>14. CASE BreakCallback
    BY <1>14, BreakCallbackOps
  <1>15. CASE RethrowCallback
    BY <1>15, RethrowOps
  <1>16. CASE ParseContext
    BY <1>16, ParseOps
  <1>17. CASE Insert \/ Trigger \/ Break \/ Eval \/ HashStore \/ Attach \/ Detach
    BY <1>17, RunOtherOps
  <1>18. CASE User \/ Navigate \/ Announce \/ Respond \/ TimeOut \/ Tick
    BY <1>18, TaskOps
  <1> QED
    BY <1>1, <1>2, <1>3, <1>4, <1>5, <1>6, <1>7, <1>8, <1>9, <1>10, <1>11, <1>12, <1>13, <1>14, <1>15, <1>16, <1>17, <1>18 DEF Next, Step

\* The inductive invariant holds when the page is loaded.
LEMMA TypeInit ==
    ASSUME Init
    PROVE  TypeInv
  <1>1. page \in Page /\ Element \subseteq DOMAIN page.metas /\ page.events \in Nat
    BY PageFacts DEF Init
  <1>2. AreRuns(page, runs)
    BY IsSeqEmpty DEF Init, AreRuns
  <1>3. DomOK
    BY <1>1 DEF Init, DomOK
  <1>4. BindsOK
    BY IsSeqEmpty DEF Init, BindsOK
  <1>5. OpsOK(runs, todo) /\ LoopsEnd(todo)
    <2>1. PICK o : Free(o) /\ todo = <<o>>
      BY OpKinds DEF Init
    <2>2. OpsInv(runs, <<o>>)
      BY <2>1, FreeOK, Fresh1
    <2> QED
      BY <2>1, <2>2 DEF OpsInv
  <1>6. WaitingOK
    BY DEF Init, WaitingOK
  <1>7. CountersOK
    <2>1. intervalIds \in [Id -> Nat] /\ clock \in Nat /\ leaving \in BOOLEAN
      BY DEF Init
    <2>2. events = 0 /\ ticks = 0
      BY DEF Init
    <2>3. events \in 0..page.events /\ ticks \in 0..MaxTicks
      BY <1>1, <2>2, TicksAssumption
    <2> QED
      BY <2>1, <2>3 DEF CountersOK
  <1> QED
    BY <1>1, <1>2, <1>3, <1>4, <1>5, <1>6, <1>7 DEF TypeInv

\* Every step keeps the inductive invariant.
LEMMA TypeStep ==
    ASSUME TypeInv, Next
    PROVE  TypeInv'
  <1>1. page' = page /\ AreRuns(page, runs')
    BY RunsStep
  <1>2. page' \in Page /\ AreRuns(page', runs')
    BY <1>1 DEF TypeInv
  <1>3. DomOK' /\ BindsOK' /\ WaitingOK'
    BY DomStep, BindsStep, WaitingStep
  <1>4. OpsOK(runs', todo') /\ LoopsEnd(todo')
    BY OpsStep DEF OpsInv
  <1>5. CountersOK'
    BY <1>1, IntervalIdsStep, CountedStep, ClockStep, LeavingStep DEF CountersOK
  <1> QED
    BY <1>2, <1>3, <1>4, <1>5 DEF TypeInv

\* Stuttering keeps the inductive invariant.
LEMMA TypeStutter ==
    ASSUME TypeInv, UNCHANGED vars
    PROVE  TypeInv'
  BY DEF TypeInv, AreRuns, DomOK, BindsOK, WaitingOK, CountersOK, vars

\* The inductive invariant holds in every state.
THEOREM TypeInvariant == Spec => []TypeInv
  <1>1. Init => TypeInv
    BY TypeInit
  <1>2. TypeInv /\ [Next]_vars => TypeInv'
    BY TypeStep, TypeStutter
  <1> QED
    BY <1>1, <1>2, PTL DEF Spec

\* The inductive invariant implies the type invariant of the model.
LEMMA TypeImplies ==
    ASSUME TypeInv
    PROVE  TypeOK
  <1>1. \A x : Executable(runs, x) => IsExecutable(x)
    BY DEF Executable, IsExecutable, RunOf
  <1>2. \A i \in DOMAIN todo : todo[i].op \in {"execute", "run", "action", "callback", "caught",
                                             "complete", "send"} => IsExecutable(todo[i].x)
    BY <1>1 DEF TypeInv, OpsOK, OpOK
  <1>3. \A w \in requests \cup timers \cup intervals : IsExecutable(w.x)
    BY <1>1 DEF TypeInv, WaitingOK
  <1>4. /\ node \in [Element -> Nat]
        /\ \A e \in Element : \/ runner[e] = 0
                              \/ /\ runner[e] \in DOMAIN runs[e]
                                 /\ runs[e][runner[e]].incarnation = node[e]
    BY DEF TypeInv, DomOK
  <1> QED
    BY <1>2, <1>3, <1>4 DEF TypeInv, TypeOK, CountersOK

\* Operations, requests and timers refer to executables that exist, and the runner of an
\* element is one that was made for its present incarnation, whatever the page.
THEOREM TypeCorrect == Spec => []TypeOK
  BY TypeInvariant, TypeImplies, PTL

-------------------------------------------------------------------------------
(* What is recalled *)

\* The parts of the past the proofs below speak of.
Recalled == {"restarted", "mixed", "acted", "broken"}
HistoryOK == Recalled \subseteq DOMAIN history

\* What an executable that runs adds.
MixedBy(x, ev) == IF EventOf(x).n = ev.n \/ RunsLate(x) THEN history.mixed
                  ELSE history.mixed \cup {<<ev.n, EventOf(x).n>>}

\* Which action changes which part of what is recalled.
HistoryFrame ==
    /\ DOMAIN history' = DOMAIN history
    /\ Execute \/ history'.restarted = history.restarted
    /\ Actions \/ history'.acted = history.acted
    /\ Break \/ history'.broken = history.broken
    /\ \/ history'.mixed = history.mixed
       \/ At("run") /\ history'.mixed = MixedBy(todo[1].x, todo[1].ev)

\* What an executable that runs changes of the past that is recalled.
LEMMA SeenDoes ==
    ASSUME HistoryOK, NEW x, NEW ev
    PROVE  /\ DOMAIN Seen(x, ev) = DOMAIN history
           /\ Seen(x, ev).restarted = history.restarted
           /\ Seen(x, ev).acted = history.acted
           /\ Seen(x, ev).broken = history.broken
           /\ Seen(x, ev).mixed = MixedBy(x, ev)
  <1> DEFINE v == MixedBy(x, ev)
  <1>1. Seen(x, ev) = [history EXCEPT !.mixed = v]
    BY DEF Seen, MixedBy
  <1> HIDE DEF v
  <1>2. Recalled \subseteq DOMAIN history
    BY DEF HistoryOK
  <1> QED
    BY <1>1, <1>2 DEF v, Recalled

\* Every action leaves alone what HistoryFrame says it leaves alone.
LEMMA HistoryFrames ==
    ASSUME HistoryOK, Next
    PROVE  HistoryFrame
  <1>0. "restarted" \in DOMAIN history /\ "mixed" \in DOMAIN history /\ "acted" \in DOMAIN history /\ "broken" \in DOMAIN history
    BY DEF HistoryOK, Recalled
  <1>1. CASE UNCHANGED history
    BY <1>1 DEF HistoryFrame
  <1>2. CASE At("run") /\ history' = Seen(todo[1].x, todo[1].ev)
    BY <1>2, SeenDoes DEF HistoryFrame
  <1>3. CASE Fire
    <2>1. PICK v : history' = [history EXCEPT !.unheard = v]
      BY <1>3 DEF Fire
    <2> QED
      BY <1>0, <2>1 DEF HistoryFrame
  <1>4. CASE Dispatch
    <2>1. history' = history \/ history' = [history EXCEPT !.busy = @ + 1] \/ history' = [history EXCEPT !.busy = @ - 1]
      BY <1>4 DEF Dispatch
    <2> QED
      BY <1>0, <2>1 DEF HistoryFrame
  <1>5. CASE Invoke
    <2> DEFINE site == todo[1].site
               ev == todo[1].ev
               e == site[1]
               r == runner[e]
               handled == history.handled \cup {<<e, r, ev.n>>}
               twice == IF \/ \E q \in DOMAIN runs[e] : <<e, q, ev.n>> \in history.handled
                           \/ (ev.type = InitIncoding /\ <<e, r>> \in history.started)
                           THEN history.twice \cup {<<e, ev.type>>} ELSE history.twice
               started == IF ev.type = InitIncoding THEN history.started \cup {<<e, r>>} ELSE history.started
    <2>1. history' = history \/ history' = [history EXCEPT !.handled = handled, !.twice = twice, !.started = started]
      BY <1>5, Zenon DEF Invoke
    <2> HIDE DEF handled, twice, started
    <2> QED
      BY <1>0, <2>1 DEF HistoryFrame
  <1>6. CASE Actions
    <2>1. PICK v : history' = [history EXCEPT !.acted = v]
      BY <1>6 DEF Actions
    <2> QED
      BY <1>0, <1>6, <2>1 DEF HistoryFrame
  <1>7. CASE Execute
    <2>1. history' = history \/ \E v : history' = [history EXCEPT !.restarted = v]
      BY <1>7 DEF Execute
    <2> QED
      BY <1>0, <1>7, <2>1 DEF HistoryFrame
  <1>8. CASE Direct \/ Event \/ Submit \/ Insert \/ Trigger \/ Eval \/ HashStore \/ Attach \/ Detach
    <2>1. At("run") /\ history' = Seen(todo[1].x, todo[1].ev)
      BY <1>8 DEF Direct, Event, Submit, Insert, Trigger, Eval, HashStore, Attach, Detach, AtRun
    <2> QED
      BY <2>1, <1>2
  <1>9. CASE Ajax
    <2> DEFINE seen == Seen(todo[1].x, todo[1].ev)
    <2>1. PICK noted : /\ noted = seen \/ \E a, b : noted = [seen EXCEPT !.asks = a, !.newest = b]
                       /\ history' = noted \/ \E c : history' = [noted EXCEPT !.answered = c]
      BY <1>9 DEF Ajax
    <2>2. /\ DOMAIN seen = DOMAIN history
          /\ seen.restarted = history.restarted
          /\ seen.acted = history.acted
          /\ seen.broken = history.broken
          /\ seen.mixed = MixedBy(todo[1].x, todo[1].ev)
      BY SeenDoes
    <2>3. At("run")
      BY <1>9 DEF Ajax, AtRun
    <2> HIDE DEF seen
    <2>4. /\ DOMAIN noted = DOMAIN seen
          /\ noted.restarted = seen.restarted /\ noted.acted = seen.acted
          /\ noted.broken = seen.broken /\ noted.mixed = seen.mixed
      BY <1>0, <2>1, <2>2
    <2>5. /\ DOMAIN history' = DOMAIN noted
          /\ history'.restarted = noted.restarted /\ history'.acted = noted.acted
          /\ history'.broken = noted.broken /\ history'.mixed = noted.mixed
      BY <1>0, <2>1, <2>2, <2>4
    <2> QED
      BY <2>2, <2>3, <2>4, <2>5 DEF HistoryFrame
  <1>10. CASE Break
    <2> DEFINE seen == Seen(todo[1].x, todo[1].ev)
    <2>1. PICK v : history' = [seen EXCEPT !.broken = v]
      BY <1>10 DEF Break
    <2>2. /\ DOMAIN seen = DOMAIN history
          /\ seen.restarted = history.restarted
          /\ seen.acted = history.acted
          /\ seen.mixed = MixedBy(todo[1].x, todo[1].ev)
      BY SeenDoes
    <2>3. At("run")
      BY <1>10 DEF Break, AtRun
    <2> HIDE DEF seen
    <2> QED
      BY <1>0, <1>10, <2>1, <2>2, <2>3 DEF HistoryFrame
  <1>11. CASE Uncaught \/ BreakBefore \/ BreakCallback \/ RethrowCallback
    <2>1. PICK v : history' = [history EXCEPT !.dropped = v]
      BY <1>11 DEF Uncaught, BreakBefore, BreakCallback, RethrowCallback
    <2> QED
      BY <1>0, <2>1 DEF HistoryFrame
  <1>12. CASE Respond
    <2>1. history' = history \/ \E v : history' = [history EXCEPT !.answered = v]
      BY <1>12 DEF Respond, Answer, Fail
    <2> QED
      BY <1>0, <2>1 DEF HistoryFrame
  <1>13. CASE User \/ Navigate \/ Announce \/ TimeOut \/ Tick
    <2>1. UNCHANGED history
      BY <1>13 DEF User, Navigate, Announce, TimeOut, Tick
    <2> QED
      BY <1>1, <2>1
  <1>14. CASE CatchNothing \/ Action \/ Send \/ Store \/ Completed \/ Callback \/ CaughtNothing
                 \/ BreakCallbacks \/ ParseContext
    <2>1. UNCHANGED history
      BY <1>14 DEF CatchNothing, Action, Send, Store, Completed, Callback, CaughtNothing, BreakCallbacks, ParseContext
    <2> QED
      BY <1>1, <2>1
  <1> QED
    BY <1>3, <1>4, <1>5, <1>6, <1>7, <1>8, <1>9, <1>10, <1>11, <1>12, <1>13, <1>14 DEF Next, Step

-------------------------------------------------------------------------------
(* Intervals *)

\* An interval has the name its executable gives it, and the name leads to it unless it was
\* given again.
IntervalsNamed ==
    \A w \in intervals :
        LET id == Meta(w.x).intervalId
        IN  id \in Id /\ (w.n = intervalIds[id] \/ id \in history.restarted)

\* What an executable is does not change.
LEMMA MetaKept ==
    ASSUME TypeInv, Next, NEW x, Executable(runs, x)
    PROVE  Meta(x)' = Meta(x)
  <1>1. Grown(runs, runs') /\ page' = page
    BY RunsStep
  <1>2. runs'[x[1]][x[2]].name = runs[x[1]][x[2]].name
    BY <1>1 DEF Grown, Executable
  <1> QED
    BY <1>1, <1>2 DEF Meta, RunOf

\* Every step keeps the names of intervals leading to them.
LEMMA IntervalsStep ==
    ASSUME TypeInv, HistoryOK, IntervalsNamed, Next
    PROVE  IntervalsNamed'
  <1>1. Frame /\ HistoryFrame
    BY Frames, HistoryFrames
  <1>2. \A w \in intervals : Executable(runs, w.x) /\ Meta(w.x)' = Meta(w.x)
    BY MetaKept DEF TypeInv, WaitingOK
  <1>3. intervalIds \in [Id -> Nat]
    BY DEF TypeInv, CountersOK
  <1>4. CASE intervals' \subseteq intervals /\ ~ Execute
    <2>1. intervalIds' = intervalIds /\ history'.restarted = history.restarted
      BY <1>1, <1>4 DEF Frame, HistoryFrame
    <2> SUFFICES ASSUME NEW w \in intervals'
                 PROVE  Meta(w.x)'.intervalId \in Id /\
                        (w.n = intervalIds'[Meta(w.x)'.intervalId] \/ Meta(w.x)'.intervalId \in history'.restarted)
      BY DEF IntervalsNamed
    <2>2. w \in intervals /\ Meta(w.x)' = Meta(w.x)
      BY <1>2, <1>4
    <2> QED
      BY <2>1, <2>2 DEF IntervalsNamed
  <1>5. CASE Execute
    <2>0. todo # <<>> /\ todo[1].op = "execute"
      BY <1>5 DEF Execute, At
    <2>1. PICK x : x = todo[1].x
      OBVIOUS
    <2>a. Executable(runs, x)
      BY <2>0, <2>1, AtHeadExecutable
    <2>2. Meta(x)' = Meta(x)
      BY <2>a, MetaKept
    <2> DEFINE id == Meta(x).intervalId
    <2>9. PICK waiting : waiting = [x |-> x, ev |-> todo[1].ev, n |-> clock + 1]
      OBVIOUS
    <2>3. CASE UNCHANGED <<intervals, intervalIds>> /\ UNCHANGED history
      <3> SUFFICES ASSUME NEW w \in intervals'
                   PROVE  Meta(w.x)'.intervalId \in Id /\
                          (w.n = intervalIds'[Meta(w.x)'.intervalId] \/ Meta(w.x)'.intervalId \in history'.restarted)
        BY DEF IntervalsNamed
      <3>1. w \in intervals /\ Meta(w.x)' = Meta(w.x) /\ intervalIds' = intervalIds /\ history' = history
        BY <1>2, <2>3
      <3> QED
        BY <3>1 DEF IntervalsNamed
    <2>4. CASE ~ (UNCHANGED <<intervals, intervalIds>> /\ UNCHANGED history)
      <3>1. /\ Meta(x).delay = "interval"
            /\ intervals' = intervals \cup {waiting}
            /\ intervalIds' = [intervalIds EXCEPT ![id] = clock + 1]
            /\ history' = [history EXCEPT !.restarted =
                              IF \E w \in intervals : Meta(w.x).intervalId = id
                                 THEN @ \cup {id} ELSE @]
        BY <1>5, <2>1, <2>4, <2>9 DEF Execute, timing, NameInterval
      <3>2. id \in Id
        <4>1. page \in Page /\ AreRuns(page, runs)
          BY DEF TypeInv
        <4> QED
          BY <2>a, <3>1, <4>1, MetaFacts
      <3>3. "restarted" \in DOMAIN history
        BY DEF HistoryOK, Recalled
      <3>4. /\ history.restarted \subseteq history'.restarted
            /\ (\E w \in intervals : Meta(w.x).intervalId = id) => id \in history'.restarted
        BY <3>1, <3>3
      <3>5. intervalIds'[id] = clock + 1 /\ \A i \in Id : i # id => intervalIds'[i] = intervalIds[i]
        BY <1>3, <3>1, <3>2
      <3>6. waiting.x = x /\ waiting.n = clock + 1
        BY <2>9
      <3> SUFFICES ASSUME NEW w \in intervals'
                   PROVE  Meta(w.x)'.intervalId \in Id /\
                          (w.n = intervalIds'[Meta(w.x)'.intervalId] \/ Meta(w.x)'.intervalId \in history'.restarted)
        BY DEF IntervalsNamed
      <3>7. CASE w = waiting
        <4>1. Meta(w.x)'.intervalId = id
          BY <2>2, <3>6, <3>7
        <4> QED
          BY <3>2, <3>5, <3>6, <3>7, <4>1
      <3>8. CASE w \in intervals
        <4>1. Meta(w.x)' = Meta(w.x)
          BY <1>2, <3>8
        <4>2. CASE Meta(w.x).intervalId = id
          BY <3>2, <3>4, <3>8, <4>1, <4>2
        <4>3. CASE Meta(w.x).intervalId # id
          BY <3>4, <3>5, <3>8, <4>1, <4>3 DEF IntervalsNamed
        <4> QED
          BY <4>2, <4>3
      <3> QED
        BY <3>1, <3>7, <3>8
    <2> QED
      BY <2>3, <2>4
  <1>6. CASE Eval \/ Send \/ Respond \/ TimeOut
    <2>1. intervals' \subseteq intervals
      BY <1>6 DEF Eval, Send, Respond, Answer, Fail, TimeOut, timing
    <2>2. CASE ~ Execute
      BY <1>4, <2>1, <2>2
    <2> QED
      BY <1>5, <2>2
  <1>7. CASE UNCHANGED <<requests, timers, intervals>>
    BY <1>4, <1>5, <1>7
  <1> QED
    BY <1>1, <1>5, <1>6, <1>7, Zenon DEF Frame

\* The inductive invariant about intervals.
IntervalInv == TypeInv /\ HistoryOK /\ IntervalsNamed

\* The inductive invariant about intervals holds in every state.
THEOREM IntervalInvariant == Spec => []IntervalInv
  <1>1. Init => IntervalInv
    <2> SUFFICES ASSUME Init PROVE IntervalInv
      OBVIOUS
    <2>1. TypeInv
      BY TypeInit
    <2>2. HistoryOK
      BY DEF Init, HistoryOK, Recalled
    <2>3. IntervalsNamed
      BY DEF Init, IntervalsNamed
    <2> QED
      BY <2>1, <2>2, <2>3 DEF IntervalInv
  <1>2. IntervalInv /\ [Next]_vars => IntervalInv'
    <2>1. ASSUME IntervalInv, Next PROVE IntervalInv'
      <3>1. TypeInv /\ HistoryOK /\ IntervalsNamed
        BY <2>1 DEF IntervalInv
      <3>2. TypeInv' /\ IntervalsNamed'
        BY <2>1, <3>1, TypeStep, IntervalsStep
      <3>3. HistoryOK'
        BY <2>1, <3>1, HistoryFrames DEF HistoryFrame, HistoryOK
      <3> QED
        BY <3>2, <3>3 DEF IntervalInv
    <2>2. ASSUME IntervalInv, UNCHANGED vars PROVE IntervalInv'
      <3>1. TypeInv'
        BY <2>2, TypeStutter DEF IntervalInv
      <3> QED
        BY <2>2, <3>1 DEF IntervalInv, HistoryOK, IntervalsNamed, Meta, RunOf, vars
    <2> QED
      BY <2>1, <2>2
  <1> QED
    BY <1>1, <1>2, PTL DEF Spec

\* Clearing an interval by its name stops it unless it was started again while it ran.
THEOREM ClearedIntervalStopsAlways == Spec => []ClearedIntervalStops
  <1>1. IntervalInv => ClearedIntervalStops
    BY DEF IntervalInv, IntervalsNamed, ClearedIntervalStops
  <1> QED
    BY <1>1, IntervalInvariant, PTL
===============================================================================
