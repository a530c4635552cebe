--------------------------- MODULE SequenceLemmas ---------------------------
(***************************************************************************)
(* Facts about sequences and counting that the proofs share.               *)
(***************************************************************************)
EXTENDS Integers, Sequences, SequencesExt, FiniteSetTheorems, TLAPS

-----------------------------------------------------------------------------
(* Induction.                                                               *)

\* A set of naturals that has 0 and every successor has them all.  Stated of a
\* set rather than of a predicate: a missing n would leave a finite set that
\* the predecessor maps into itself without n.
LEMMA SetInduction ==
  ASSUME NEW S, 0 \in S, \A n \in Nat : n \in S => n + 1 \in S
  PROVE  Nat \subseteq S
<1> SUFFICES ASSUME NEW n \in Nat, n \notin S
             PROVE  FALSE
  OBVIOUS
<1> DEFINE missing == {m \in 0..n : m \notin S}
           before == [m \in missing |-> m - 1]
<1>1. n \in missing /\ 0 \notin missing
  OBVIOUS
<1>2. ASSUME NEW m \in missing
      PROVE  m - 1 \in missing \ {n}
  <2>1. m \in 1..n /\ m \notin S
    OBVIOUS
  <2>2. m - 1 \in 0..n /\ m - 1 # n /\ (m - 1) + 1 = m /\ m - 1 \in Nat
    BY <2>1
  <2> QED
    BY <2>1, <2>2
<1>3. before \in Injection(missing, missing \ {n})
  <2>1. before \in [missing -> missing \ {n}]
    BY <1>2
  <2>2. \A a, b \in missing : before[a] = before[b] => a = b
    OBVIOUS
  <2> QED
    BY <2>1, <2>2 DEF Injection, IsInjective
<1>4. IsFiniteSet(0..n) /\ missing \in SUBSET (0..n)
  BY FS_Interval
<1>5. IsFiniteSet(missing)
  BY <1>4, FS_Subset
<1>6. /\ IsFiniteSet(missing \ {n})
      /\ Cardinality(missing \ {n}) = Cardinality(missing) - 1
  BY <1>1, <1>5, FS_RemoveElement
<1>7. Cardinality(missing) <= Cardinality(missing \ {n})
  BY <1>3, <1>6, FS_Injection
<1>8. Cardinality(missing) \in Nat
  BY <1>5, FS_CardinalityType
<1> QED
  BY <1>6, <1>7, <1>8

\* A set of naturals that is not empty has a least element.
LEMMA LeastNatural ==
  ASSUME NEW T, T \subseteq Nat, T # {}
  PROVE  \E n \in T : \A m \in T : n <= m
<1> SUFFICES ASSUME \A n \in T : \E m \in T : ~(n <= m)
             PROVE  FALSE
  OBVIOUS
<1> DEFINE S == {n \in Nat : \A m \in 0..n : m \notin T}
<1>1. 0 \in S
  OBVIOUS
<1>2. ASSUME NEW n \in Nat, n \in S
      PROVE  n + 1 \in S
  <2>1. n + 1 \notin T
    <3> SUFFICES ASSUME n + 1 \in T PROVE FALSE
      OBVIOUS
    <3>1. PICK m \in T : ~(n + 1 <= m)
      OBVIOUS
    <3>2. m \in 0..n
      BY <3>1
    <3> QED
      BY <1>2, <3>2
  <2> QED
    BY <1>2, <2>1
<1> HIDE DEF S
<1>3. Nat \subseteq S
  BY <1>1, <1>2, SetInduction
<1>4. PICK n : n \in T
  OBVIOUS
<1> QED
  BY <1>3, <1>4 DEF S

\* A set of naturals below a bound has a greatest element.
LEMMA GreatestNatural ==
  ASSUME NEW n \in Nat, NEW T \in SUBSET (1..n), T # {}
  PROVE  Max(T) \in T /\ \A m \in T : m <= Max(T)
<1> DEFINE U == {n - m : m \in T}
<1>1. U \subseteq Nat /\ U # {}
  <2>1. \A m \in T : n - m \in Nat
    OBVIOUS
  <2> QED
    BY <2>1
<1> HIDE DEF U
<1>2. PICK u \in U : \A v \in U : u <= v
  BY <1>1, LeastNatural
<1>3. PICK k \in T : u = n - k
  BY DEF U
<1>4. ASSUME NEW m \in T
      PROVE  k >= m
  <2>1. n - m \in U
    BY DEF U
  <2>2. n - k <= n - m
    BY <1>2, <1>3, <2>1
  <2> QED
    BY <2>2
<1>5. Max(T) \in T /\ \A m \in T : Max(T) >= m
  BY <1>4 DEF Max
<1> QED
  BY <1>5

-----------------------------------------------------------------------------
(* One element more, one element less.                                      *)

LEMMA EmptyInSeq ==
  ASSUME NEW S
  PROVE  <<>> \in Seq(S)
OBVIOUS

\* What a concatenation holds.
LEMMA Concat ==
  ASSUME NEW S, NEW p \in Seq(S), NEW q \in Seq(S)
  PROVE  /\ p \o q \in Seq(S)
         /\ Len(p \o q) = Len(p) + Len(q)
         /\ \A j \in 1..Len(p) : (p \o q)[j] = p[j]
         /\ \A j \in 1..Len(q) : (p \o q)[Len(p) + j] = q[j]
OBVIOUS

LEMMA ConcatAssociates ==
  ASSUME NEW S, NEW a \in Seq(S), NEW b \in Seq(S), NEW c \in Seq(S)
  PROVE  (a \o b) \o c = a \o (b \o c)
BY Concat

\* q is Q without its i-th element.
OneLess(Q, i, q) ==
  /\ i \in 1..Len(Q)
  /\ Len(q) = Len(Q) - 1
  /\ \A j \in 1..Len(q) : q[j] = IF j < i THEN Q[j] ELSE Q[j + 1]

LEMMA RemoveAtIsWithout ==
  ASSUME NEW S, NEW Q \in Seq(S), NEW i \in DOMAIN Q
  PROVE  /\ RemoveAt(Q, i) \in Seq(S)
         /\ OneLess(Q, i, RemoveAt(Q, i))
<1> DEFINE front == SubSeq(Q, 1, i - 1)
           back  == SubSeq(Q, i + 1, Len(Q))
<1>1. Len(Q) \in Nat /\ i \in 1..Len(Q)
  OBVIOUS
<1>2. /\ front \in Seq(S)
      /\ Len(front) = i - 1
      /\ \A j \in 1..(i - 1) : front[j] = Q[j]
  BY <1>1
<1>3. /\ back \in Seq(S)
      /\ Len(back) = Len(Q) - i
      /\ \A j \in 1..(Len(Q) - i) : back[j] = Q[i + j]
  BY <1>1
<1> HIDE DEF front, back
<1>4. /\ front \o back \in Seq(S)
      /\ Len(front \o back) = Len(Q) - 1
      /\ \A j \in 1..(i - 1) : (front \o back)[j] = front[j]
      /\ \A j \in 1..(Len(Q) - i) : (front \o back)[i - 1 + j] = back[j]
  <2>1. /\ front \o back \in Seq(S)
        /\ Len(front \o back) = Len(front) + Len(back)
        /\ \A j \in 1..Len(front) : (front \o back)[j] = front[j]
        /\ \A j \in 1..Len(back) : (front \o back)[Len(front) + j] = back[j]
    <3>1. front \in Seq(S) /\ back \in Seq(S)
      BY <1>2, <1>3
    <3> QED
      BY ONLY <3>1, Concat
  <2>2. Len(front) + Len(back) = Len(Q) - 1
    BY <1>1, <1>2, <1>3
  <2> QED
    BY ONLY <1>2, <1>3, <2>1, <2>2
<1>5. ASSUME NEW j \in 1..(Len(Q) - 1)
      PROVE  (front \o back)[j] = IF j < i THEN Q[j] ELSE Q[j + 1]
  <2> DEFINE c == front \o back
             k == j - (i - 1)
  <2>1. CASE j < i
    <3>1. j \in 1..(i - 1)
      BY <1>1, <2>1
    <3> QED
      BY <1>2, <1>4, <2>1, <3>1
  <2>2. CASE ~(j < i)
    <3>1. k \in 1..(Len(Q) - i) /\ i - 1 + k = j /\ i + k = j + 1
      BY <1>1, <2>2
    <3> HIDE DEF k
    <3>2. (front \o back)[i - 1 + k] = back[k] /\ back[k] = Q[i + k]
      BY <1>3, <1>4, <3>1
    <3> QED
      BY <2>2, <3>1, <3>2
  <2> QED
    BY <2>1, <2>2
<1> QED
  BY <1>1, <1>4, <1>5 DEF OneLess, RemoveAt, front, back

\* An insertion is the opposite.
LEMMA InsertAtIsWithout ==
  ASSUME NEW S, NEW Q \in Seq(S), NEW i \in DOMAIN Q, NEW x \in S
  PROVE  /\ InsertAt(Q, i, x) \in Seq(S)
         /\ InsertAt(Q, i, x)[i] = x
         /\ OneLess(InsertAt(Q, i, x), i, Q)
<1> DEFINE front == SubSeq(Q, 1, i - 1)
           back  == SubSeq(Q, i, Len(Q))
           head  == front \o <<x>>
           all   == head \o back
<1>1. Len(Q) \in Nat /\ i \in 1..Len(Q)
  OBVIOUS
<1>2. /\ front \in Seq(S)
      /\ Len(front) = i - 1
      /\ \A j \in 1..(i - 1) : front[j] = Q[j]
  BY <1>1
<1>3. /\ back \in Seq(S)
      /\ Len(back) = Len(Q) - i + 1
      /\ \A j \in 1..(Len(Q) - i + 1) : back[j] = Q[i - 1 + j]
  BY <1>1
<1>0. InsertAt(Q, i, x) = all
  BY DEF InsertAt
<1> HIDE DEF front, back
<1>4. /\ head \in Seq(S)
      /\ Len(head) = i
      /\ \A j \in 1..(i - 1) : head[j] = front[j]
      /\ head[i] = x
  BY <1>1, <1>2
<1> HIDE DEF head
<1>5. /\ all \in Seq(S)
      /\ Len(all) = Len(Q) + 1
      /\ \A j \in 1..i : all[j] = head[j]
      /\ \A j \in 1..(Len(Q) - i + 1) : all[i + j] = back[j]
  <2>0. Len(head) = i /\ Len(back) = Len(Q) - i + 1 /\ i + (Len(Q) - i + 1) = Len(Q) + 1
    BY <1>1, <1>3, <1>4
  <2>1. /\ all \in Seq(S)
        /\ Len(all) = Len(head) + Len(back)
        /\ \A j \in 1..Len(head) : all[j] = head[j]
        /\ \A j \in 1..Len(back) : all[Len(head) + j] = back[j]
    <3>1. head \in Seq(S) /\ back \in Seq(S)
      BY <1>3, <1>4
    <3> QED
      BY ONLY <3>1, Concat DEF all
  <2> HIDE DEF all
  <2> QED
    BY ONLY <2>0, <2>1
<1> HIDE DEF all
<1>6. ASSUME NEW j \in 1..Len(Q)
      PROVE  Q[j] = IF j < i THEN all[j] ELSE all[j + 1]
  <2> DEFINE k == j - (i - 1)
  <2>1. CASE j < i
    <3>1. j \in 1..(i - 1) /\ j \in 1..i
      BY <1>1, <2>1
    <3> QED
      BY <1>2, <1>4, <1>5, <2>1, <3>1
  <2>2. CASE ~(j < i)
    <3>1. k \in 1..(Len(Q) - i + 1) /\ i - 1 + k = j /\ i + k = j + 1
      BY <1>1, <2>2
    <3> HIDE DEF k
    <3>2. all[i + k] = back[k] /\ back[k] = Q[i - 1 + k]
      BY <1>3, <1>5, <3>1
    <3> QED
      BY <2>2, <3>1, <3>2
  <2> QED
    BY <2>1, <2>2
<1>7. i \in 1..i /\ all[i] = x
  BY <1>1, <1>4, <1>5
<1> QED
  BY <1>0, <1>1, <1>5, <1>6, <1>7 DEF OneLess

\* Where an element of Q is in q, and the other way round.
LEMMA WithoutElements ==
  ASSUME NEW S, NEW Q \in Seq(S), NEW q \in Seq(S), NEW i, OneLess(Q, i, q)
  PROVE  \A j \in 1..Len(q) : \E k \in 1..Len(Q) : q[j] = Q[k]
BY DEF OneLess

-----------------------------------------------------------------------------
(* Flattening.                                                              *)

\* f is the recursion that FlattenSeq(q) is computed by.
Flattens(q, f) == f = [i \in 1..Len(q) |-> IF i = 1 THEN q[i] ELSE f[i - 1] \o q[i]]

LEMMA FlattensOnce ==
  ASSUME NEW S, NEW q \in Seq(S), NEW f, NEW g, Flattens(q, f), Flattens(q, g)
  PROVE  f = g
<1> DEFINE N == {n \in Nat : n \in 1..Len(q) => f[n] = g[n]}
<1>0. Len(q) \in Nat
  OBVIOUS
<1>1. 0 \in N
  BY <1>0
<1>2. /\ \A i \in 1..Len(q) : f[i] = IF i = 1 THEN q[i] ELSE f[i - 1] \o q[i]
      /\ \A i \in 1..Len(q) : g[i] = IF i = 1 THEN q[i] ELSE g[i - 1] \o q[i]
      /\ f = [i \in 1..Len(q) |-> f[i]] /\ g = [i \in 1..Len(q) |-> g[i]]
  BY DEF Flattens
<1>3. ASSUME NEW n \in Nat, n \in N
      PROVE  n + 1 \in N
  <2> SUFFICES ASSUME n + 1 \in 1..Len(q)
               PROVE  f[n + 1] = g[n + 1]
    OBVIOUS
  <2>1. CASE n = 0
    <3>1. 1 \in 1..Len(q)
      BY <2>1
    <3>2. f[1] = q[1] /\ g[1] = q[1]
      BY <1>2, <3>1
    <3> QED
      BY <2>1, <3>2
  <2>2. CASE n # 0
    <3>1. n \in 1..Len(q) /\ n + 1 # 1 /\ (n + 1) - 1 = n
      BY <1>0, <2>2
    <3>2. f[n + 1] = f[n] \o q[n + 1] /\ g[n + 1] = g[n] \o q[n + 1]
      BY <1>2, <3>1
    <3> QED
      BY <1>3, <3>1, <3>2
  <2> QED
    BY <2>1, <2>2
<1> HIDE DEF N
<1>4. Nat \subseteq N
  BY <1>1, <1>3, SetInduction
<1>5. \A i \in 1..Len(q) : f[i] = g[i]
  BY <1>0, <1>4 DEF N
<1>6. [i \in 1..Len(q) |-> f[i]] = [i \in 1..Len(q) |-> g[i]]
  BY <1>5
<1> QED
  BY <1>2, <1>6

\* FlattenSeq chooses that recursion's solution; any solution will do.
LEMMA FlattenBy ==
  ASSUME NEW S, NEW q \in Seq(S), q # <<>>, NEW f, Flattens(q, f)
  PROVE  FlattenSeq(q) = f[Len(q)]
<1> DEFINE c == CHOOSE g : Flattens(q, g)
<1>1. Flattens(q, c)
  OBVIOUS
<1>2. FlattenSeq(q) = c[Len(q)]
  BY DEF FlattenSeq, Flattens
<1> HIDE DEF c
<1> QED
  BY <1>1, <1>2, FlattensOnce

\* The recursion has a solution.
LEMMA FlattensExists ==
  ASSUME NEW S, NEW q \in Seq(Seq(S))
  PROVE  \E f \in [1..Len(q) -> Seq(S)] : Flattens(q, f)
<1> DEFINE next(f, i) == IF i = 1 THEN q[i] ELSE f[i - 1] \o q[i]
           Upto(n) == {f \in [1..n -> Seq(S)] : \A i \in 1..n : f[i] = next(f, i)}
           N == {n \in Nat : n <= Len(q) => Upto(n) # {}}
<1>0. Len(q) \in Nat /\ \A i \in 1..Len(q) : q[i] \in Seq(S)
  OBVIOUS
<1>1. 0 \in N
  <2>1. [i \in 1..0 |-> <<>>] \in Upto(0)
    OBVIOUS
  <2> QED
    BY <2>1
<1>2. ASSUME NEW n \in Nat, n \in N
      PROVE  n + 1 \in N
  <2> SUFFICES ASSUME n + 1 <= Len(q)
               PROVE  Upto(n + 1) # {}
    <3> HIDE DEF Upto
    <3> QED
      BY DEF N
  <2>0. Upto(n) # {}
    <3> HIDE DEF Upto
    <3> QED
      BY <1>0, <1>2 DEF N
  <2>1. PICK f \in [1..n -> Seq(S)] : \A i \in 1..n : f[i] = next(f, i)
    <3> HIDE DEF next
    <3> QED
      BY <2>0
  <2> DEFINE g == [i \in 1..(n + 1) |-> IF i = n + 1 THEN next(f, i) ELSE f[i]]
  <2>2. next(f, n + 1) \in Seq(S)
    <3>1. q[n + 1] \in Seq(S)
      BY <1>0
    <3>2. CASE n = 0
      BY <3>1, <3>2
    <3>3. CASE n # 0
      <4>1. f[n] \in Seq(S) /\ (n + 1) - 1 = n /\ n + 1 # 1
        BY <2>1, <3>3
      <4>2. f[n] \o q[n + 1] \in Seq(S)
        BY <3>1, <4>1
      <4> QED
        BY <4>1, <4>2
    <3> QED
      BY <3>2, <3>3
  <2>3. g \in [1..(n + 1) -> Seq(S)]
    <3> HIDE DEF next
    <3> QED
      BY <2>1, <2>2
  <2>4. \A i \in 1..n : g[i] = f[i]
    <3> HIDE DEF next
    <3>1. \A i \in 1..n : i \in 1..(n + 1) /\ i # n + 1
      OBVIOUS
    <3> QED
      BY <3>1
  <2>5. ASSUME NEW i \in 1..(n + 1)
        PROVE  g[i] = next(g, i)
    <3>1. i # 1 => i - 1 \in 1..n /\ g[i - 1] = f[i - 1]
      BY <2>4
    <3>2. next(g, i) = next(f, i)
      <4> HIDE DEF g
      <4> QED
        BY <3>1
    <3>3. g[i] = next(f, i)
      <4> HIDE DEF next
      <4> QED
        BY <2>1, <2>4
    <3> QED
      BY <3>2, <3>3
  <2> QED
    <3> HIDE DEF next, g
    <3>1. g \in Upto(n + 1)
      BY <2>3, <2>5
    <3> QED
      BY <3>1
<1>3. Nat \subseteq N
  <2> HIDE DEF N
  <2> QED
    BY <1>1, <1>2, SetInduction
<1>4. PICK f \in [1..Len(q) -> Seq(S)] : \A i \in 1..Len(q) : f[i] = next(f, i)
  <2>1. Upto(Len(q)) # {}
    <3> HIDE DEF Upto
    <3> QED
      BY <1>0, <1>3
  <2> HIDE DEF next
  <2> QED
    BY <2>1
<1>5. Flattens(q, f)
  <2>1. f = [i \in 1..Len(q) |-> f[i]]
    OBVIOUS
  <2>2. [i \in 1..Len(q) |-> f[i]] = [i \in 1..Len(q) |-> next(f, i)]
    BY <1>4
  <2> QED
    BY <2>1, <2>2 DEF Flattens
<1> QED
  BY <1>4, <1>5

\* The first sequence comes first.
LEMMA FlattenHead ==
  ASSUME NEW S, NEW q \in Seq(Seq(S)), NEW r \in Seq(Seq(S)), Len(q) = Len(r) + 1,
         \A i \in 1..Len(r) : q[i + 1] = r[i]
  PROVE  FlattenSeq(q) = q[1] \o FlattenSeq(r)
<1>0. /\ Len(q) \in Nat /\ Len(r) \in Nat /\ \A i \in 1..Len(q) : q[i] \in Seq(S)
      /\ \A i \in 1..Len(r) : r[i] \in Seq(S)
      /\ q # <<>> /\ 1 \in 1..Len(q)
  OBVIOUS
<1>1. PICK f \in [1..Len(q) -> Seq(S)] : Flattens(q, f)
  BY FlattensExists
<1>2. PICK g \in [1..Len(r) -> Seq(S)] : Flattens(r, g)
  BY FlattensExists
<1>3. FlattenSeq(q) = f[Len(q)]
  BY <1>0, <1>1, FlattenBy
<1>4. /\ \A i \in 1..Len(q) : f[i] = IF i = 1 THEN q[i] ELSE f[i - 1] \o q[i]
      /\ \A i \in 1..Len(r) : g[i] = IF i = 1 THEN r[i] ELSE g[i - 1] \o r[i]
  BY <1>1, <1>2 DEF Flattens
<1>5. CASE r = <<>>
  <2>1. FlattenSeq(r) = <<>> /\ Len(q) = 1
    BY <1>5 DEF FlattenSeq
  <2>2. f[1] = q[1] /\ q[1] \in Seq(S)
    BY <1>0, <1>4
  <2> QED
    BY <1>3, <2>1, <2>2
<1>6. CASE r # <<>>
  <2>1. FlattenSeq(r) = g[Len(r)] /\ Len(r) \in Nat \ {0}
    BY <1>0, <1>2, <1>6, FlattenBy
  <2> DEFINE h == [n \in 1..Len(r) |-> q[1] \o g[n]]
           N == {n \in Nat : n \in 1..Len(r) => f[n + 1] = h[n]}
  <2>2. 0 \in N
    OBVIOUS
  <2>3. ASSUME NEW n \in Nat, n \in N
        PROVE  n + 1 \in N
    <3>0. PICK m : m = n + 1
      OBVIOUS
    <3>1. ASSUME m \in 1..Len(r)
          PROVE  f[m + 1] = h[m]
      <4>1. PICK k : k = m + 1
        OBVIOUS
      <4>2. k \in 1..Len(q) /\ k # 1 /\ k - 1 = m /\ q[k] = r[m] /\ r[m] \in Seq(S)
        BY <1>0, <3>0, <3>1, <4>1
      <4>3. f[k] = f[m] \o r[m] /\ h[m] = q[1] \o g[m]
        BY <1>4, <3>1, <4>2
      <4>4. CASE n = 0
        <5>1. m = 1 /\ f[1] = q[1] /\ g[1] = r[1]
          <6>1. m = 1
            BY <3>0, <4>4
          <6>2. 1 \in 1..Len(q) /\ 1 \in 1..Len(r)
            BY <1>0, <3>1, <6>1
          <6> QED
            BY ONLY <1>4, <6>1, <6>2
        <5> QED
          BY ONLY <4>1, <4>3, <5>1
      <4>5. CASE n # 0
        <5>1. n \in 1..Len(r) /\ m # 1 /\ m - 1 = n
          BY <1>0, <3>0, <3>1, <4>5
        <5>2. f[m] = q[1] \o g[n]
          BY <2>3, <3>0, <5>1
        <5>3. g[m] = g[n] \o r[m]
          BY <1>4, <3>1, <5>1
        <5>4. PICK a, b, c : a = q[1] /\ b = g[n] /\ c = r[m]
          OBVIOUS
        <5>5. a \in Seq(S) /\ b \in Seq(S) /\ c \in Seq(S)
          BY <1>0, <1>2, <4>2, <5>1, <5>4
        <5>6. (a \o b) \o c = a \o (b \o c)
          BY ONLY <5>5, ConcatAssociates
        <5> QED
          BY ONLY <4>1, <4>3, <5>2, <5>3, <5>4, <5>6
      <4> QED
        BY <4>4, <4>5
    <3> HIDE DEF h
    <3> QED
      BY <3>0, <3>1
  <2>4. Nat \subseteq N
    <3> HIDE DEF N
    <3> QED
      BY <2>2, <2>3, SetInduction
  <2>5. f[Len(r) + 1] = h[Len(r)] /\ Len(r) \in 1..Len(r)
    <3>1. Len(r) \in 1..Len(r) /\ Len(r) \in Nat
      BY <1>0, <2>1
    <3>2. Len(r) \in N
      BY <2>4, <3>1
    <3> HIDE DEF h
    <3> QED
      BY <3>1, <3>2
  <2> QED
    BY <1>3, <2>1, <2>5
<1> QED
  BY <1>5, <1>6

LEMMA FlattenType ==
  ASSUME NEW S, NEW q \in Seq(Seq(S))
  PROVE  FlattenSeq(q) \in Seq(S) /\ (q = <<>> => FlattenSeq(q) = <<>>)
<1>1. CASE q = <<>>
  BY <1>1 DEF FlattenSeq
<1>2. CASE q # <<>>
  <2>1. PICK f \in [1..Len(q) -> Seq(S)] : Flattens(q, f)
    BY FlattensExists
  <2>2. FlattenSeq(q) = f[Len(q)]
    BY <1>2, <2>1, FlattenBy
  <2>3. Len(q) \in 1..Len(q)
    BY <1>2
  <2> QED
    BY <1>2, <2>1, <2>2, <2>3
<1> QED
  BY <1>1, <1>2

-----------------------------------------------------------------------------
(* Ranks.                                                                   *)

\* R puts the elements of L in a row.
InRow(R, L) ==
  /\ \A a \in L : <<a, a>> \notin R
  /\ \A a, b, c \in L : <<a, b>> \in R /\ <<b, c>> \in R => <<a, c>> \in R
  /\ \A a, b \in L : a = b \/ <<a, b>> \in R \/ <<b, a>> \in R

Preceding(R, L, a) == {b \in L : <<b, a>> \in R}

\* Each number of predecessors below the number of elements occurs, and only once.
LEMMA Ranks ==
  ASSUME NEW L, IsFiniteSet(L), NEW R, InRow(R, L)
  PROVE  /\ \A a \in L : /\ Cardinality(Preceding(R, L, a)) \in Nat
                         /\ Cardinality(Preceding(R, L, a)) < Cardinality(L)
         /\ \A a, b \in L : Cardinality(Preceding(R, L, a)) = Cardinality(Preceding(R, L, b))
                              => a = b
         /\ \A n \in 1..Cardinality(L) :
              \E a \in L : Cardinality(Preceding(R, L, a)) = n - 1
<1> DEFINE N == Cardinality(L)
           rank(a) == Cardinality(Preceding(R, L, a))
           f == [a \in L |-> rank(a) + 1]
<1>1. N \in Nat
  BY FS_CardinalityType
<1>2. ASSUME NEW a \in L
      PROVE  /\ rank(a) \in Nat /\ rank(a) < N /\ IsFiniteSet(Preceding(R, L, a))
  <2>1. Preceding(R, L, a) \in SUBSET L /\ a \notin Preceding(R, L, a)
    BY DEF Preceding, InRow
  <2> QED
    BY <1>1, <2>1, FS_Subset, FS_CardinalityType
<1>3. ASSUME NEW a \in L, NEW b \in L, <<a, b>> \in R
      PROVE  rank(a) < rank(b)
  <2>1. /\ Preceding(R, L, a) \in SUBSET Preceding(R, L, b)
        /\ a \in Preceding(R, L, b) /\ a \notin Preceding(R, L, a)
    BY <1>3 DEF Preceding, InRow
  <2>2. rank(a) \in Nat /\ rank(b) \in Nat /\ IsFiniteSet(Preceding(R, L, b))
    BY <1>2
  <2> QED
    BY <2>1, <2>2, FS_Subset
<1>4. \A a, b \in L : rank(a) = rank(b) => a = b
  <2>1. \A a, b \in L : a = b \/ rank(a) < rank(b) \/ rank(b) < rank(a)
    BY <1>3 DEF InRow
  <2> HIDE DEF rank
  <2> QED
    BY <1>2, <2>1
<1>5. f \in Injection(L, 1..N)
  <2> HIDE DEF rank, N
  <2>1. f \in [L -> 1..N]
    BY <1>1, <1>2
  <2>2. \A a, b \in L : f[a] = f[b] => a = b
    BY <1>2, <1>4
  <2> QED
    BY <2>1, <2>2 DEF Injection, IsInjective
<1>6. f \in Surjection(L, 1..N)
  <2>1. IsFiniteSet(1..N) /\ Cardinality(1..N) = N
    BY <1>1, FS_Interval
  <2> HIDE DEF f
  <2> QED
    BY <1>5, <2>1, FS_Injection
<1>7. ASSUME NEW n \in 1..N
      PROVE  \E a \in L : rank(a) = n - 1
  <2>1. PICK a \in L : f[a] = n
    BY <1>6 DEF Surjection
  <2> HIDE DEF rank
  <2>2. rank(a) + 1 = n /\ rank(a) \in Nat
    BY <1>2, <2>1
  <2> QED
    BY <2>2
<1> QED
  BY <1>2, <1>4, <1>7

\* A renaming keeps the number of elements.
LEMMA RenamedCardinality ==
  ASSUME NEW S, IsFiniteSet(S), NEW T, NEW b \in Bijection(S, T)
  PROVE  IsFiniteSet(T) /\ Cardinality(T) = Cardinality(S)
BY FS_Bijection DEF ExistsBijection
-----------------------------------------------------------------------------
(* Sums.                                                                    *)

\* iter is the recursion that a fold over the weights w is computed by: it
\* takes the elements in the order CHOOSE has them.
Weighs(w, iter) ==
  iter = [s \in SUBSET DOMAIN w |->
            IF s = {} THEN 0
            ELSE w[CHOOSE x \in s : TRUE] + iter[s \ {CHOOSE x \in s : TRUE}]]

TotalWeight(w) == (CHOOSE iter : Weighs(w, iter))[DOMAIN w]

\* The elements may be taken in any order.
Additive(w, h) ==
  /\ h[{}] = 0
  /\ \A s \in SUBSET DOMAIN w : \A x \in s : h[s] = w[x] + h[s \ {x}]

\* The recursion has a solution: one for the subsets up to each size.
LEMMA WeighsExists ==
  ASSUME NEW D, IsFiniteSet(D), NEW w \in [D -> Nat]
  PROVE  \E iter \in [SUBSET D -> Nat] : Weighs(w, iter)
<1> DEFINE pick(s) == CHOOSE x \in s : TRUE
           Small(n) == {s \in SUBSET D : Cardinality(s) <= n}
           step(s, g) == IF s = {} THEN 0 ELSE w[pick(s)] + g[s \ {pick(s)}]
           N == {n \in Nat : \E g \in [Small(n) -> Nat] : \A s \in Small(n) : g[s] = step(s, g)}
<1>1. \A s \in SUBSET D : IsFiniteSet(s) /\ Cardinality(s) \in Nat
  BY FS_Subset, FS_CardinalityType
<1>2. \A s \in SUBSET D : s # {} => /\ pick(s) \in s
                                   /\ s \ {pick(s)} \in SUBSET D
                                   /\ Cardinality(s \ {pick(s)}) = Cardinality(s) - 1
  BY <1>1, FS_RemoveElement
<1>3. 0 \in N
  <2> DEFINE g == [s \in Small(0) |-> 0]
  <2>1. \A s \in Small(0) : s = {}
    BY <1>1, FS_EmptySet
  <2>2. g \in [Small(0) -> Nat] /\ \A s \in Small(0) : g[s] = step(s, g)
    BY <2>1
  <2> QED
    BY <2>2
<1>4. ASSUME NEW n \in Nat, n \in N
      PROVE  n + 1 \in N
  <2>1. PICK g \in [Small(n) -> Nat] : \A s \in Small(n) : g[s] = step(s, g)
    BY <1>4
  <2> DEFINE h == [s \in Small(n + 1) |-> step(s, g)]
  <2>2. \A s \in Small(n + 1) : s # {} => pick(s) \in D /\ s \ {pick(s)} \in Small(n)
    <3> HIDE DEF pick
    <3> QED
      BY <1>1, <1>2
  <2>3. \A s \in Small(n + 1) : step(s, g) \in Nat
    <3> HIDE DEF pick, Small
    <3> QED
      BY <2>2
  <2>4. Small(n) \subseteq Small(n + 1)
    BY <1>1
  <2>5. \A t \in Small(n) : h[t] = g[t]
    <3> HIDE DEF pick, Small, step
    <3> QED
      BY <2>1, <2>4
  <2>6. \A s \in Small(n + 1) : h[s] = step(s, h)
    <3> HIDE DEF pick, Small
    <3> QED
      BY <2>2, <2>5
  <2>7. h \in [Small(n + 1) -> Nat]
    <3> HIDE DEF pick, Small, step
    <3> QED
      BY <2>3
  <2> HIDE DEF h
  <2>8. \E f \in [Small(n + 1) -> Nat] : \A s \in Small(n + 1) : f[s] = step(s, f)
    <3> HIDE DEF Small, step
    <3> QED
      BY <2>6, <2>7
  <2> HIDE DEF Small, step
  <2> QED
    BY <2>8
<1> HIDE DEF N
<1>5. Cardinality(D) \in N
  BY <1>1, <1>3, <1>4, SetInduction, FS_CardinalityType
<1>6. Small(Cardinality(D)) = SUBSET D
  BY FS_Subset
<1>7. PICK g \in [SUBSET D -> Nat] : \A s \in SUBSET D : g[s] = step(s, g)
  <2> HIDE DEF pick, Small, step
  <2> QED
    BY <1>5, <1>6 DEF N
<1>8. g = [s \in SUBSET D |-> g[s]]
  OBVIOUS
<1>9. g = [s \in SUBSET D |-> step(s, g)]
  <2> HIDE DEF step
  <2> QED
    BY <1>7, <1>8
<1>10. DOMAIN w = D
  OBVIOUS
<1> QED
  BY <1>9, <1>10 DEF Weighs

LEMMA WeighsType ==
  ASSUME NEW D, IsFiniteSet(D), NEW w \in [D -> Nat], NEW c, Weighs(w, c)
  PROVE  c \in [SUBSET D -> Nat]
<1>1. \A s \in SUBSET D : c[s] \in Nat
  <2> DEFINE N == {n \in Nat : \A s \in SUBSET D : Cardinality(s) <= n => c[s] \in Nat}
             pick(s) == CHOOSE x \in s : TRUE
  <2>1. \A s \in SUBSET D : IsFiniteSet(s) /\ Cardinality(s) \in Nat
    BY FS_Subset, FS_CardinalityType
  <2>2. \A s \in SUBSET D : c[s] = IF s = {} THEN 0 ELSE w[pick(s)] + c[s \ {pick(s)}]
    BY DEF Weighs
  <2>3. \A s \in SUBSET D : s # {} => pick(s) \in s
    OBVIOUS
  <2> HIDE DEF pick
  <2>0. c[{}] = 0
    BY <2>2
  <2>4. 0 \in N
    <3>1. \A s \in SUBSET D : Cardinality(s) <= 0 => s = {}
      BY <2>1, FS_EmptySet
    <3> QED
      BY <2>0, <3>1
  <2>5. ASSUME NEW n \in Nat, n \in N
        PROVE  n + 1 \in N
    <3> SUFFICES ASSUME NEW s \in SUBSET D, Cardinality(s) <= n + 1
                 PROVE  c[s] \in Nat
      OBVIOUS
    <3>1. CASE s = {}
      BY <2>0, <3>1
    <3>2. CASE s # {}
      <4>1. pick(s) \in s /\ c[s] = w[pick(s)] + c[s \ {pick(s)}]
        BY <2>2, <2>3, <3>2
      <4>2. s \ {pick(s)} \in SUBSET D /\ Cardinality(s \ {pick(s)}) <= n
        BY <2>1, <4>1, FS_RemoveElement
      <4>3. c[s \ {pick(s)}] \in Nat /\ w[pick(s)] \in Nat
        BY <2>5, <4>1, <4>2
      <4> QED
        BY <4>1, <4>3
    <3> QED
      BY <3>1, <3>2
  <2> HIDE DEF N
  <2>6. Nat \subseteq N
    BY <2>4, <2>5, SetInduction
  <2> QED
    BY <2>1, <2>6 DEF N
<1>2. c \in [SUBSET D -> Nat]
  <2>1. c = [s \in SUBSET D |-> c[s]]
    BY DEF Weighs
  <2> QED
    BY <1>1, <2>1
<1> QED
  BY <1>2

\* Any order gives the same.
LEMMA WeighsAdditive ==
  ASSUME NEW D, IsFiniteSet(D), NEW w \in [D -> Nat], NEW iter \in [SUBSET D -> Nat],
         Weighs(w, iter)
  PROVE  Additive(w, iter)
<1> DEFINE pick(s) == CHOOSE x \in s : TRUE
           N == {n \in Nat : \A s \in SUBSET D : Cardinality(s) <= n =>
                               \A x \in s : iter[s] = w[x] + iter[s \ {x}]}
<1>1. \A s \in SUBSET D : IsFiniteSet(s) /\ Cardinality(s) \in Nat
  BY FS_Subset, FS_CardinalityType
<1>2. \A s \in SUBSET D : \A x \in s : s \ {x} \in SUBSET D /\ Cardinality(s \ {x}) = Cardinality(s) - 1
  BY <1>1, FS_RemoveElement
<1>3. /\ iter[{}] = 0
      /\ \A s \in SUBSET D : s # {} => pick(s) \in s /\ iter[s] = w[pick(s)] + iter[s \ {pick(s)}]
  <2>1. \A s \in SUBSET D : iter[s] = IF s = {} THEN 0 ELSE w[pick(s)] + iter[s \ {pick(s)}]
    BY DEF Weighs
  <2>2. \A s \in SUBSET D : s # {} => pick(s) \in s
    OBVIOUS
  <2> HIDE DEF pick
  <2> QED
    BY <2>1, <2>2
<1> HIDE DEF pick
<1>4. 0 \in N
  <2> SUFFICES ASSUME NEW s \in SUBSET D, Cardinality(s) <= 0, NEW x \in s
               PROVE  FALSE
    OBVIOUS
  <2> QED
    BY <1>1, FS_EmptySet
<1>5. ASSUME NEW n \in Nat, n \in N
      PROVE  n + 1 \in N
  <2> SUFFICES ASSUME NEW s \in SUBSET D, Cardinality(s) <= n + 1, NEW x \in s
               PROVE  iter[s] = w[x] + iter[s \ {x}]
    OBVIOUS
  <2> DEFINE c == pick(s)
  <2>1. c \in s /\ iter[s] = w[c] + iter[s \ {c}]
    BY <1>3
  <2>2. CASE c = x
    BY <2>1, <2>2
  <2>3. CASE c # x
    <3>1. /\ s \ {c} \in SUBSET D /\ Cardinality(s \ {c}) <= n /\ x \in s \ {c}
          /\ s \ {x} \in SUBSET D /\ Cardinality(s \ {x}) <= n /\ c \in s \ {x}
      BY <1>1, <1>2, <2>1, <2>3
    <3>2. /\ iter[s \ {c}] = w[x] + iter[(s \ {c}) \ {x}]
          /\ iter[s \ {x}] = w[c] + iter[(s \ {x}) \ {c}]
      BY <1>5, <3>1
    <3>3. (s \ {c}) \ {x} = (s \ {x}) \ {c} /\ (s \ {c}) \ {x} \in SUBSET D
      OBVIOUS
    <3>4. w[x] \in Nat /\ w[c] \in Nat /\ iter[(s \ {c}) \ {x}] \in Nat
      BY <2>1, <3>3
    <3> DEFINE r == iter[(s \ {c}) \ {x}]
    <3>5. iter[s \ {c}] = w[x] + r /\ iter[s \ {x}] = w[c] + r
      BY <3>2, <3>3
    <3>6. w[c] + (w[x] + r) = w[x] + (w[c] + r)
      BY <3>4
    <3> HIDE DEF r
    <3> QED
      BY <2>1, <3>5, <3>6
  <2> QED
    BY <2>2, <2>3
<1> HIDE DEF N
<1>6. Nat \subseteq N
  BY <1>4, <1>5, SetInduction
<1>7. \A s \in SUBSET D : \A x \in s : iter[s] = w[x] + iter[s \ {x}]
  <2>1. ASSUME NEW s \in SUBSET D
        PROVE  \A x \in s : iter[s] = w[x] + iter[s \ {x}]
    <3>1. Cardinality(s) \in N /\ Cardinality(s) <= Cardinality(s)
      BY <1>1, <1>6
    <3> QED
      BY <3>1 DEF N
  <2> QED
    BY <2>1
<1> QED
  BY <1>3, <1>7 DEF Additive

\* There is only one such function.
LEMMA AdditiveOnce ==
  ASSUME NEW D, IsFiniteSet(D), NEW w \in [D -> Nat], NEW g, NEW h,
         Additive(w, g), Additive(w, h)
  PROVE  \A s \in SUBSET D : g[s] = h[s]
<1> DEFINE N == {n \in Nat : \A s \in SUBSET D : Cardinality(s) <= n => g[s] = h[s]}
<1>1. \A s \in SUBSET D : IsFiniteSet(s) /\ Cardinality(s) \in Nat
  BY FS_Subset, FS_CardinalityType
<1>2. 0 \in N
  <2> SUFFICES ASSUME NEW s \in SUBSET D, Cardinality(s) <= 0
               PROVE  g[s] = h[s]
    OBVIOUS
  <2>1. s = {}
    BY <1>1, FS_EmptySet
  <2> QED
    BY <2>1 DEF Additive
<1>3. ASSUME NEW n \in Nat, n \in N
      PROVE  n + 1 \in N
  <2> SUFFICES ASSUME NEW s \in SUBSET D, Cardinality(s) <= n + 1
               PROVE  g[s] = h[s]
    OBVIOUS
  <2>1. CASE s = {}
    BY <2>1 DEF Additive
  <2>2. CASE s # {}
    <3>1. PICK x \in s : TRUE
      BY <2>2
    <3>2. s \ {x} \in SUBSET D /\ Cardinality(s \ {x}) <= n
      BY <1>1, <3>1, FS_RemoveElement
    <3>3. g[s \ {x}] = h[s \ {x}]
      BY <1>3, <3>2
    <3> QED
      BY <3>1, <3>3 DEF Additive
  <2> QED
    BY <2>1, <2>2
<1> HIDE DEF N
<1>4. Nat \subseteq N
  BY <1>2, <1>3, SetInduction
<1> QED
  BY <1>1, <1>4 DEF N

\* A total is what an additive function says of the whole.
LEMMA TotalAdditive ==
  ASSUME NEW D, IsFiniteSet(D), NEW w \in [D -> Nat]
  PROVE  \E h \in [SUBSET D -> Nat] : Additive(w, h) /\ TotalWeight(w) = h[D]
<1> DEFINE c == CHOOSE iter : Weighs(w, iter)
<1>1. PICK iter \in [SUBSET D -> Nat] : Weighs(w, iter)
  BY WeighsExists
<1>2. Weighs(w, c)
  BY <1>1
<1>3. TotalWeight(w) = c[D]
  BY DEF TotalWeight
<1> HIDE DEF c
<1>5. c \in [SUBSET D -> Nat]
  BY <1>2, WeighsType
<1>6. Additive(w, c)
  BY <1>2, <1>5, WeighsAdditive
<1> QED
  BY <1>3, <1>5, <1>6

\* Whoever computes the recursion gets the total.
LEMMA TotalBy ==
  ASSUME NEW D, IsFiniteSet(D), NEW w \in [D -> Nat], NEW c, Weighs(w, c)
  PROVE  TotalWeight(w) = c[D]
<1>1. PICK h \in [SUBSET D -> Nat] : Additive(w, h) /\ TotalWeight(w) = h[D]
  BY TotalAdditive
<1>2. Additive(w, c)
  BY WeighsType, WeighsAdditive
<1>3. h[D] = c[D]
  BY <1>1, <1>2, AdditiveOnce
<1> QED
  BY <1>1, <1>3

LEMMA TotalType ==
  ASSUME NEW D, IsFiniteSet(D), NEW w \in [D -> Nat]
  PROVE  TotalWeight(w) \in Nat
<1>1. PICK h \in [SUBSET D -> Nat] : TotalWeight(w) = h[D]
  BY TotalAdditive
<1> QED
  BY <1>1

LEMMA TotalEmpty ==
  ASSUME NEW w \in [{} -> Nat]
  PROVE  TotalWeight(w) = 0
BY TotalAdditive, FS_EmptySet DEF Additive

\* The weight of one element and the total of the others.
LEMMA TotalOneOut ==
  ASSUME NEW D, IsFiniteSet(D), NEW w \in [D -> Nat], NEW x \in D
  PROVE  TotalWeight(w) = w[x] + TotalWeight([y \in D \ {x} |-> w[y]])
<1> DEFINE E == D \ {x}
           v == [y \in E |-> w[y]]
<1>0. v \in [E -> Nat] /\ \A y \in E : v[y] = w[y]
  OBVIOUS
<1> HIDE DEF v
<1>1. PICK h \in [SUBSET D -> Nat] : Additive(w, h) /\ TotalWeight(w) = h[D]
  BY TotalAdditive
<1>2. IsFiniteSet(E)
  BY FS_RemoveElement
<1>3. PICK g \in [SUBSET E -> Nat] : Additive(v, g) /\ TotalWeight(v) = g[E]
  BY <1>0, <1>2, TotalAdditive
<1>4. Additive(v, h)
  <2>1. DOMAIN v = E /\ DOMAIN w = D
    BY <1>0
  <2>2. h[{}] = 0 /\ \A s \in SUBSET D : \A y \in s : h[s] = w[y] + h[s \ {y}]
    BY <1>1, <2>1 DEF Additive
  <2>3. \A s \in SUBSET E : s \in SUBSET D /\ \A y \in s : v[y] = w[y]
    BY <1>0
  <2> HIDE DEF E
  <2> QED
    BY ONLY <2>1, <2>2, <2>3 DEF Additive
<1>5. g[E] = h[E]
  <2>1. Additive(v, g)
    BY <1>3
  <2> HIDE DEF E
  <2>2. \A s \in SUBSET E : g[s] = h[s]
    BY ONLY <1>0, <1>2, <1>4, <2>1, AdditiveOnce
  <2> QED
    BY <2>2
<1>6. h[D] = w[x] + h[E]
  BY <1>1 DEF Additive
<1> QED
  BY <1>1, <1>3, <1>5, <1>6 DEF v

LEMMA TotalSingle ==
  ASSUME NEW x, NEW w \in [{x} -> Nat]
  PROVE  TotalWeight(w) = w[x]
<1> DEFINE v == [y \in {x} \ {x} |-> w[y]]
<1>1. v \in [{} -> Nat]
  OBVIOUS
<1>2. IsFiniteSet({x}) /\ x \in {x}
  BY FS_Singleton
<1>3. TotalWeight(w) = w[x] + TotalWeight(v)
  BY ONLY <1>2, w \in [{x} -> Nat], TotalOneOut DEF v
<1> HIDE DEF v
<1>4. TotalWeight(v) = 0
  BY <1>1, TotalEmpty
<1> QED
  BY <1>3, <1>4

\* One weight raised.
LEMMA TotalRaised ==
  ASSUME NEW D, IsFiniteSet(D), NEW w \in [D -> Nat], NEW x \in D, NEW n \in Nat,
         NEW u \in [D -> Nat], u[x] = w[x] + n, \A y \in D \ {x} : u[y] = w[y]
  PROVE  TotalWeight(u) = TotalWeight(w) + n
<1> DEFINE E == D \ {x}
<1>1. [y \in E |-> u[y]] = [y \in E |-> w[y]]
  OBVIOUS
<1>2. [y \in E |-> w[y]] \in [E -> Nat] /\ IsFiniteSet(E)
  BY FS_RemoveElement
<1>3. /\ TotalWeight(w) = w[x] + TotalWeight([y \in E |-> w[y]])
      /\ TotalWeight(u) = u[x] + TotalWeight([y \in E |-> u[y]])
  BY TotalOneOut
<1> HIDE DEF E
<1>4. TotalWeight([y \in E |-> w[y]]) \in Nat
  BY ONLY <1>2, TotalType
<1>5. w[x] \in Nat /\ u[x] = w[x] + n
  OBVIOUS
<1> QED
  BY ONLY <1>1, <1>3, <1>4, <1>5, n \in Nat

\* The same weights under other names.
LEMMA TotalRenamed ==
  ASSUME NEW D, IsFiniteSet(D), NEW E, IsFiniteSet(E), NEW b \in Bijection(E, D),
         NEW w \in [D -> Nat], NEW v \in [E -> Nat], \A e \in E : v[e] = w[b[e]]
  PROVE  TotalWeight(v) = TotalWeight(w)
<1> DEFINE im(s) == {b[e] : e \in s}
<1>1. PICK h \in [SUBSET D -> Nat] : Additive(w, h) /\ TotalWeight(w) = h[D]
  BY TotalAdditive
<1>2. PICK k \in [SUBSET E -> Nat] : Additive(v, k) /\ TotalWeight(v) = k[E]
  BY TotalAdditive
<1>3. /\ \A e \in E : b[e] \in D
      /\ \A e, f \in E : b[e] = b[f] => e = f
      /\ \A d \in D : \E e \in E : b[e] = d
  BY DEF Bijection, Injection, Surjection, IsInjective
<1> DEFINE m == [s \in SUBSET E |-> h[im(s)]]
<1>4. Additive(v, m)
  <2>1. m[{}] = 0
    BY <1>1 DEF Additive
  <2>2. ASSUME NEW s \in SUBSET E, NEW e \in s
        PROVE  m[s] = v[e] + m[s \ {e}]
    <3>1. im(s) \in SUBSET D /\ b[e] \in im(s)
      BY <1>3
    <3>2. im(s \ {e}) = im(s) \ {b[e]}
      BY <1>3
    <3>3. h[im(s)] = w[b[e]] + h[im(s) \ {b[e]}]
      <4>1. DOMAIN w = D
        OBVIOUS
      <4> HIDE DEF im
      <4> QED
        BY <1>1, <3>1, <4>1 DEF Additive
    <3> HIDE DEF im
    <3> QED
      BY <3>2, <3>3
  <2>3. DOMAIN v = E
    OBVIOUS
  <2> HIDE DEF m
  <2> QED
    BY <2>1, <2>2, <2>3 DEF Additive
<1>5. m[E] = h[D]
  <2>1. im(E) = D
    BY <1>3
  <2> HIDE DEF im
  <2> QED
    BY <2>1
<1> HIDE DEF m
<1>6. k[E] = m[E]
  BY <1>2, <1>4, AdditiveOnce
<1> QED
  BY <1>1, <1>2, <1>5, <1>6

LEMMA TotalZero ==
  ASSUME NEW D, IsFiniteSet(D), NEW w \in [D -> Nat], \A x \in D : w[x] = 0
  PROVE  TotalWeight(w) = 0
<1> DEFINE h == [s \in SUBSET D |-> 0]
<1>1. PICK g \in [SUBSET D -> Nat] : Additive(w, g) /\ TotalWeight(w) = g[D]
  BY TotalAdditive
<1>2. Additive(w, h)
  BY DEF Additive
<1>3. h[D] = 0
  OBVIOUS
<1> HIDE DEF h
<1>4. g[D] = h[D]
  BY <1>1, <1>2, AdditiveOnce
<1> QED
  BY <1>1, <1>3, <1>4

\* A fold over a function is the total of its weights.
LEMMA FoldIsWeight ==
  ASSUME NEW w
  PROVE  FoldFunction(+, 0, w) = TotalWeight(w)
BY DEF FoldFunction, FoldFunctionOnSet, MapThenFoldSet, TotalWeight, Weighs

-----------------------------------------------------------------------------
(* Folds from the left.                                                     *)

\* The recursion a fold from the left over n places is computed by: it takes
\* the places from the last one on.
FoldsLeft(X, base, n, F, h) ==
  /\ h \in [SUBSET (1..n) -> X]
  /\ \A s \in SUBSET (1..n) :
       h[s] = IF s = {} THEN base ELSE F[<<Max(s), h[s \ {Max(s)}]>>]

\* It has a solution.
LEMMA LeftFoldExists ==
  ASSUME NEW X, NEW base \in X, NEW n \in Nat, NEW F \in [(1..n) \X X -> X]
  PROVE  \E h : FoldsLeft(X, base, n, F, h)
<1> DEFINE D == 1..n
           Small(k) == {s \in SUBSET D : Cardinality(s) <= k}
           step(s, g) == IF s = {} THEN base ELSE F[<<Max(s), g[s \ {Max(s)}]>>]
           N == {k \in Nat : \E g \in [Small(k) -> X] : \A s \in Small(k) : g[s] = step(s, g)}
<1>0. IsFiniteSet(D) /\ Cardinality(D) \in Nat
  <2>1. 1 \in Int /\ n \in Int
    OBVIOUS
  <2>2. IsFiniteSet(D)
    BY <2>1, FS_Interval
  <2> QED
    BY <2>2, FS_CardinalityType
<1>1. \A s \in SUBSET D : IsFiniteSet(s) /\ Cardinality(s) \in Nat
  BY <1>0, FS_Subset, FS_CardinalityType
<1>2. \A s \in SUBSET D : s # {} => /\ Max(s) \in s
                                   /\ s \ {Max(s)} \in SUBSET D
                                   /\ Cardinality(s \ {Max(s)}) = Cardinality(s) - 1
  <2> SUFFICES ASSUME NEW s \in SUBSET D, s # {}
               PROVE  /\ Max(s) \in s /\ s \ {Max(s)} \in SUBSET D
                      /\ Cardinality(s \ {Max(s)}) = Cardinality(s) - 1
    OBVIOUS
  <2>1. Max(s) \in s
    BY GreatestNatural
  <2> HIDE DEF D
  <2> QED
    BY <1>1, <2>1, FS_RemoveElement
<1>3. 0 \in N
  <2> DEFINE g == [s \in Small(0) |-> base]
  <2>1. \A s \in Small(0) : s = {}
    BY <1>1, FS_EmptySet
  <2>2. g \in [Small(0) -> X] /\ \A s \in Small(0) : g[s] = step(s, g)
    BY <2>1
  <2> QED
    BY <2>2
<1>4. ASSUME NEW k \in Nat, k \in N
      PROVE  k + 1 \in N
  <2>1. PICK g \in [Small(k) -> X] : \A s \in Small(k) : g[s] = step(s, g)
    BY <1>4
  <2> DEFINE h == [s \in Small(k + 1) |-> step(s, g)]
  <2>2. \A s \in Small(k + 1) : s # {} => Max(s) \in D /\ s \ {Max(s)} \in Small(k)
    <3> HIDE DEF D
    <3>1. \A s \in SUBSET D : Cardinality(s) <= k + 1 => Cardinality(s) - 1 <= k
      BY <1>1
    <3> QED
      BY <1>1, <1>2, <3>1
  <2>3. \A s \in Small(k + 1) : step(s, g) \in X
    <3> HIDE DEF Small
    <3> QED
      BY <2>2
  <2>4. Small(k) \subseteq Small(k + 1)
    BY <1>1
  <2>5. \A t \in Small(k) : h[t] = g[t]
    <3> HIDE DEF Small, step
    <3> QED
      BY <2>1, <2>4
  <2>6. \A s \in Small(k + 1) : h[s] = step(s, h)
    <3> HIDE DEF Small, D
    <3> QED
      BY <2>2, <2>5
  <2>7. h \in [Small(k + 1) -> X]
    <3> HIDE DEF Small, step
    <3> QED
      BY <2>3
  <2> HIDE DEF h
  <2>8. \E f \in [Small(k + 1) -> X] : \A s \in Small(k + 1) : f[s] = step(s, f)
    <3> HIDE DEF Small, step
    <3> QED
      BY <2>6, <2>7
  <2> HIDE DEF Small, step
  <2> QED
    BY <2>8
<1> HIDE DEF N
<1>5. Cardinality(D) \in N
  BY <1>0, <1>3, <1>4, SetInduction
<1>6. Small(Cardinality(D)) = SUBSET D
  BY <1>0, <1>1, FS_Subset
<1>7. PICK g \in [SUBSET D -> X] : \A s \in SUBSET D : g[s] = step(s, g)
  <2> HIDE DEF Small, step
  <2> QED
    BY <1>5, <1>6 DEF N
<1> QED
  BY <1>7 DEF FoldsLeft

\* The places up to k, without the last.
LEMMA PlacesUpTo ==
  ASSUME NEW n \in Nat, NEW k \in 1..n
  PROVE  /\ 1..k \in SUBSET (1..n) /\ 1..k # {}
         /\ Max(1..k) = k
         /\ (1..k) \ {k} = 1..(k - 1)
<1>1. 1..k \in SUBSET (1..n) /\ k \in 1..k
  OBVIOUS
<1>2. Max(1..k) \in 1..k /\ \A m \in 1..k : m <= Max(1..k)
  BY <1>1, GreatestNatural
<1>3. Max(1..k) = k
  <2>1. PICK m : m = Max(1..k)
    OBVIOUS
  <2>2. m \in 1..k /\ k <= m
    BY <1>1, <1>2, <2>1
  <2> QED
    BY <2>1, <2>2
<1>4. (1..k) \ {k} = 1..(k - 1)
  OBVIOUS
<1>5. 1..k # {}
  BY <1>1
<1> QED
  BY <1>1, <1>3, <1>4, <1>5
=============================================================================
