----------------------------- MODULE Induction ------------------------------
(***************************************************************************)
(* Induction and recursion over the natural numbers, stated with sets and  *)
(* functions in place of predicates and operators, so that a proof can     *)
(* cite them with any backend, and what they give for the recursive        *)
(* operators on sequences that the models use.                             *)
(***************************************************************************)
EXTENDS Integers, SequencesExt, SequenceTheorems, FiniteSetTheorems,
        WellFoundedInduction, TLAPS

\* Every nonempty set of naturals has a least element.
LEMMA LeastElement ==
    ASSUME NEW T \in SUBSET Nat, T # {}
    PROVE  \E m \in T : \A k \in T : m <= k
<1> DEFINE R == OpToRel(<, Nat)
<1>1. IsWellFoundedOn(R, Nat)
  BY NatLessThanWellFounded, Zenon
<1>2. \A i, j \in Nat : i < j => <<i, j>> \in R
  BY DEF OpToRel
<1> HIDE DEF R
<1>3. PICK m \in T : \A k \in T : ~ (<<k, m>> \in R)
  BY <1>1, WFMin, Zenon
<1>4. ASSUME NEW k \in T PROVE m <= k
  <2>1. m \in Nat /\ k \in Nat /\ ~ (<<k, m>> \in R)
    BY <1>3
  <2> QED BY <2>1, <1>2
<1> QED BY <1>4

\* A set that has 0, and with a natural the next one, has them all.
LEMMA SetInduction ==
    ASSUME NEW T, 0 \in T, \A n \in Nat : n \in T => n + 1 \in T
    PROVE  \A n \in Nat : n \in T
<1> SUFFICES ASSUME Nat \ T # {} PROVE FALSE
  OBVIOUS
<1>1. PICK m \in Nat \ T : \A k \in Nat \ T : m <= k
  BY LeastElement
<1>2. m # 0 /\ m - 1 \in Nat
  BY <1>1
<1>3. m - 1 \in T
  BY <1>1, <1>2
<1> QED BY <1>1, <1>2, <1>3

\* The same with all smaller naturals to build on.
LEMMA StrongSetInduction ==
    ASSUME NEW T, \A n \in Nat : (\A k \in 0..(n - 1) : k \in T) => n \in T
    PROVE  \A n \in Nat : n \in T
<1> SUFFICES ASSUME Nat \ T # {} PROVE FALSE
  OBVIOUS
<1>1. PICK m \in Nat \ T : \A k \in Nat \ T : m <= k
  BY LeastElement
<1> QED BY <1>1

\* f is defined by recursion: its step is a function of the position and the
\* value before.
Recursive(f, S, base, step) ==
    /\ f \in [Nat -> S]
    /\ f[0] = base
    /\ \A n \in Nat \ {0} : f[n] = step[<<n, f[n - 1]>>]

\* There is such a function.
LEMMA PrimitiveRecursion ==
    ASSUME NEW S, NEW base \in S, NEW next \in [Nat \X S -> S]
    PROVE  \E f : Recursive(f, S, base, next)
<1> DEFINE step == [p \in Nat \X S |-> next[<<p[1] + 1, p[2]>>]]
<1>s. step \in [Nat \X S -> S] /\ \A n \in Nat, v \in S : step[<<n, v>>] = next[<<n + 1, v>>]
  OBVIOUS
<1> HIDE DEF step
<1> DEFINE Solves(g, n) == g[0] = base /\ \A i \in 0..(n - 1) : g[i + 1] = step[<<i, g[i]>>]
           T == {n \in Nat : \E g \in [Nat -> S] : Solves(g, n)}
<1>1. 0 \in T
  <2>1. Solves([i \in Nat |-> base], 0)
    OBVIOUS
  <2> QED BY <2>1
<1>2. ASSUME NEW n \in Nat, n \in T PROVE n + 1 \in T
  <2>1. PICK g \in [Nat -> S] : Solves(g, n)
    BY <1>2
  <2> DEFINE h == [g EXCEPT ![n + 1] = step[<<n, g[n]>>]]
  <2>2. h \in [Nat -> S]
    <3>1. step[<<n, g[n]>>] \in S
      BY <1>s
    <3> QED BY <3>1
  <2>3. \A i \in 0..n : h[i] = g[i]
    OBVIOUS
  <2>4. h[n + 1] = step[<<n, g[n]>>]
    OBVIOUS
  <2> HIDE DEF h
  <2>5. Solves(h, n + 1)
    <3>1. h[0] = base
      BY <2>1, <2>3
    <3>2. ASSUME NEW i \in 0..n PROVE h[i + 1] = step[<<i, h[i]>>]
      <4>1. CASE i = n
        BY <4>1, <2>3, <2>4
      <4>2. CASE i \in 0..(n - 1)
        BY <4>2, <2>1, <2>3
      <4> QED BY <4>1, <4>2
    <3> QED BY <3>1, <3>2
  <2> QED BY <2>2, <2>5
<1>3. \A n \in Nat : n \in T
  <2> HIDE DEF T
  <2> QED BY <1>1, <1>2, SetInduction
<1>4. ASSUME NEW m \in Nat, NEW n \in Nat, m <= n,
             NEW g \in [Nat -> S], NEW h \in [Nat -> S], Solves(g, m), Solves(h, n)
      PROVE  \A i \in 0..m : g[i] = h[i]
  <2> DEFINE U == {i \in Nat : i <= m => g[i] = h[i]}
  <2>1. 0 \in U
    BY <1>4
  <2>2. ASSUME NEW i \in Nat, i \in U PROVE i + 1 \in U
    <3> SUFFICES ASSUME i + 1 <= m PROVE g[i + 1] = h[i + 1]
      OBVIOUS
    <3>1. g[i] = h[i]
      BY <2>2
    <3>2. i \in 0..(m - 1) /\ i \in 0..(n - 1)
      BY <1>4
    <3>3. g[i + 1] = step[<<i, g[i]>>]
      BY <3>2, <1>4
    <3>4. h[i + 1] = step[<<i, h[i]>>]
      BY <3>2, <1>4
    <3> QED BY <3>1, <3>3, <3>4
  <2>3. \A i \in Nat : i \in U
    <3> HIDE DEF U
    <3> QED BY <2>1, <2>2, SetInduction
  <2> QED BY <2>3
<1> DEFINE sol == [n \in Nat |-> CHOOSE g \in [Nat -> S] : Solves(g, n)]
           f == [n \in Nat |-> sol[n][n]]
<1>5. \A n \in Nat : sol[n] \in [Nat -> S] /\ Solves(sol[n], n)
  <2> SUFFICES ASSUME NEW n \in Nat
               PROVE  sol[n] \in [Nat -> S] /\ Solves(sol[n], n)
    OBVIOUS
  <2>1. \E g \in [Nat -> S] : Solves(g, n)
    BY <1>3
  <2> HIDE DEF Solves
  <2>2. sol[n] = CHOOSE g \in [Nat -> S] : Solves(g, n)
    OBVIOUS
  <2> QED BY <2>1, <2>2, Zenon
<1> HIDE DEF sol
<1>6. f \in [Nat -> S]
  BY <1>5
<1>7. f[0] = base
  BY <1>5
<1>8. ASSUME NEW n \in Nat PROVE f[n + 1] = step[<<n, f[n]>>]
  <2>1. sol[n + 1][n + 1] = step[<<n, sol[n + 1][n]>>]
    BY <1>5
  <2>2. sol[n][n] = sol[n + 1][n]
    <3> HIDE DEF Solves
    <3>1. \A i \in 0..n : sol[n][i] = sol[n + 1][i]
      BY <1>4, <1>5
    <3> QED BY <3>1
  <2> QED BY <2>1, <2>2
<1>9. ASSUME NEW n \in Nat \ {0} PROVE f[n] = next[<<n, f[n - 1]>>]
  <2> DEFINE m == n - 1
  <2>1. m \in Nat /\ m + 1 = n
    OBVIOUS
  <2> HIDE DEF m, f
  <2>2. f[n] = next[<<n, f[m]>>]
    BY <1>s, <1>6, <1>8, <2>1
  <2> QED BY <2>2 DEF m
<1> HIDE DEF f
<1> QED BY <1>6, <1>7, <1>9 DEF Recursive

-----------------------------------------------------------------------------
(* FlattenSeq                                                              *)

\* Any g that adds one sequence after the other ends as FlattenSeq does.
LEMMA FlattenUnfolds ==
    ASSUME NEW S, NEW seqs \in Seq(Seq(S)), NEW g \in [Nat -> Seq(S)], g[0] = <<>>,
           \A i \in 1..Len(seqs) : g[i] = g[i - 1] \o seqs[i]
    PROVE  FlattenSeq(seqs) = g[Len(seqs)]
<1> DEFINE L == Len(seqs)
<1>0. L \in Nat
  OBVIOUS
<1>1. CASE L = 0
  BY <1>1 DEF FlattenSeq
<1>2. \A i \in 1..L : g[i] = g[i - 1] \o seqs[i] /\ seqs[i] \in Seq(S)
  <2>1. \A i \in 1..L : g[i] = g[i - 1] \o seqs[i]
    OBVIOUS
  <2>2. \A i \in 1..L : seqs[i] \in Seq(S)
    OBVIOUS
  <2> QED BY <2>1, <2>2
<1>3. 1 \in 1..L => g[1] = seqs[1]
  <2> SUFFICES ASSUME 1 \in 1..L PROVE g[1] = seqs[1]
    OBVIOUS
  <2>1. g[1] = g[1 - 1] \o seqs[1] /\ seqs[1] \in Seq(S)
    BY <1>2
  <2>2. g[1 - 1] = <<>>
    OBVIOUS
  <2> QED BY <2>1, <2>2, ConcatEmptySeq
<1>4. CASE L # 0
  <2> DEFINE Eq(f) == f = [i \in 1..L |-> IF i = 1 THEN seqs[i] ELSE f[i - 1] \o seqs[i]]
             flatten == CHOOSE f : Eq(f)
             h == [i \in 1..L |-> g[i]]
  <2>1. FlattenSeq(seqs) = flatten[L]
    BY <1>4 DEF FlattenSeq
  <2>2. Eq(h)
    <3> SUFFICES ASSUME NEW i \in 1..L
                 PROVE  g[i] = IF i = 1 THEN seqs[i] ELSE h[i - 1] \o seqs[i]
      BY Zenon
    <3>1. CASE i = 1
      BY <1>3, <3>1
    <3>2. CASE i # 1
      <4>1. i - 1 \in 1..L
        BY <3>2
      <4>2. h[i - 1] = g[i - 1]
        BY <4>1
      <4>3. g[i] = g[i - 1] \o seqs[i]
        BY <1>2
      <4> QED BY <3>2, <4>2, <4>3
    <3> QED BY <3>1, <3>2
  <2>3. Eq(flatten)
    <3> HIDE DEF Eq, h
    <3> QED BY <2>2, Zenon
  <2>4. \A i \in 1..L : flatten[i] = IF i = 1 THEN seqs[i] ELSE flatten[i - 1] \o seqs[i]
    BY <2>3, Zenon
  <2> HIDE DEF flatten, h, Eq
  <2> DEFINE T == {n \in Nat : n \in 1..L => flatten[n] = g[n]}
  <2>5. 0 \in T
    OBVIOUS
  <2>6. ASSUME NEW n \in Nat, n \in T PROVE n + 1 \in T
    <3>1. ASSUME n + 1 \in 1..L PROVE flatten[n + 1] = g[n + 1]
      <4> DEFINE i == n + 1
      <4>1. CASE n = 0
        <5>1. i = 1
          BY <4>1
        <5> HIDE DEF i
        <5>2. i \in 1..L
          BY <5>1, <1>4
        <5>3. flatten[i] = g[i]
          BY <1>3, <2>4, <5>1, <5>2
        <5> QED BY <5>3 DEF i
      <4>2. CASE n # 0
        <5>1. i \in 1..L /\ i # 1 /\ i - 1 = n /\ n \in 1..L
          BY <3>1, <4>2
        <5> HIDE DEF i
        <5>2. flatten[i] = flatten[n] \o seqs[i]
          BY <2>4, <5>1
        <5>3. g[i] = g[n] \o seqs[i]
          BY <1>2, <5>1
        <5>4. flatten[n] = g[n]
          BY <2>6, <5>1
        <5> QED BY <5>2, <5>3, <5>4 DEF i
      <4> QED BY <4>1, <4>2
    <3> QED BY ONLY n \in Nat, <3>1 DEF T
  <2>7. \A n \in Nat : n \in T
    <3> HIDE DEF T
    <3> QED BY <2>5, <2>6, SetInduction
  <2>8. L \in T
    BY <1>0, <2>7
  <2>9. L \in 1..L
    BY <1>0, <1>4
  <2> QED BY <2>1, <2>8, <2>9
<1> QED BY <1>1, <1>4

\* There is such a g.
LEMMA FlattenSteps ==
    ASSUME NEW S, NEW seqs \in Seq(Seq(S))
    PROVE  \E g \in [Nat -> Seq(S)] :
             g[0] = <<>> /\ \A i \in 1..Len(seqs) : g[i] = g[i - 1] \o seqs[i]
<1> DEFINE step == [p \in Nat \X Seq(S) |->
                       IF p[1] \in 1..Len(seqs) THEN p[2] \o seqs[p[1]] ELSE p[2]]
<1>1. step \in [Nat \X Seq(S) -> Seq(S)]
  OBVIOUS
<1>2. <<>> \in Seq(S)
  OBVIOUS
<1>3. \A i \in 1..Len(seqs), v \in Seq(S) : step[<<i, v>>] = v \o seqs[i]
  <2> SUFFICES ASSUME NEW i \in 1..Len(seqs), NEW v \in Seq(S)
               PROVE  step[<<i, v>>] = v \o seqs[i]
    OBVIOUS
  <2>1. <<i, v>> \in Nat \X Seq(S)
    OBVIOUS
  <2> QED BY <2>1
<1> HIDE DEF step
<1>4. PICK g : Recursive(g, Seq(S), <<>>, step)
  BY <1>1, <1>2, PrimitiveRecursion
<1>5. g \in [Nat -> Seq(S)] /\ g[0] = <<>>
  BY <1>4 DEF Recursive
<1>6. ASSUME NEW i \in 1..Len(seqs) PROVE g[i] = g[i - 1] \o seqs[i]
  <2>1. i \in Nat \ {0} /\ g[i - 1] \in Seq(S)
    BY <1>5
  <2> QED BY <1>3, <1>4, <2>1 DEF Recursive
<1> QED BY <1>5, <1>6

\* What is in the sequences is in the result, and one more sequence goes to
\* its end.
LEMMA FlattenAppend ==
    ASSUME NEW S, NEW seqs \in Seq(Seq(S)), NEW last \in Seq(S)
    PROVE  /\ FlattenSeq(seqs) \in Seq(S)
           /\ FlattenSeq(Append(seqs, last)) = FlattenSeq(seqs) \o last
<1> DEFINE longer == Append(seqs, last)
           L == Len(seqs)
<1>1. longer \in Seq(Seq(S)) /\ Len(longer) = L + 1 /\ L \in Nat
  OBVIOUS
<1>2. longer[L + 1] = last /\ \A i \in 1..L : longer[i] = seqs[i]
  OBVIOUS
<1> HIDE DEF longer
<1>3. PICK g \in [Nat -> Seq(S)] :
             g[0] = <<>> /\ \A i \in 1..Len(longer) : g[i] = g[i - 1] \o longer[i]
  BY <1>1, FlattenSteps
<1>4. FlattenSeq(longer) = g[Len(longer)]
  BY <1>1, <1>3, FlattenUnfolds
<1>5. FlattenSeq(seqs) = g[L]
  <2>1. ASSUME NEW i \in 1..L PROVE g[i] = g[i - 1] \o seqs[i]
    <3>1. i \in 1..Len(longer) /\ longer[i] = seqs[i]
      BY <1>1, <1>2
    <3> QED BY <1>3, <3>1
  <2> QED BY <1>3, <2>1, FlattenUnfolds
<1>6. g[L + 1] = g[L] \o last
  <2> HIDE DEF L
  <2>1. L + 1 \in 1..Len(longer) /\ (L + 1) - 1 = L
    BY <1>1
  <2> QED BY <1>2, <1>3, <2>1
<1>7. g[L] \in Seq(S)
  OBVIOUS
<1> QED BY <1>1, <1>4, <1>5, <1>6, <1>7 DEF longer

LEMMA FlattenEmpty == FlattenSeq(<<>>) = <<>>
BY DEF FlattenSeq

\* An element more at the end of the second is one more at the end of both.
LEMMA ConcatAppend ==
    ASSUME NEW S, NEW s \in Seq(S), NEW t \in Seq(S), NEW e \in S
    PROVE  s \o Append(t, e) = Append(s \o t, e) /\ s \o t \in Seq(S)
OBVIOUS

LEMMA ConcatInSteps ==
    ASSUME NEW S, NEW a \in Seq(S), NEW b \in Seq(S), NEW c \in Seq(S),
           NEW p, NEW q, NEW r, p = a \o b, q = p \o c, r = b \o c
    PROVE  q = a \o r
BY ConcatAssociative

\* A sequence with the elements of one and then those of another.
LEMMA IsConcat ==
    ASSUME NEW S, NEW p \in Seq(S), NEW q \in Seq(S), NEW r \in Seq(S),
           Len(r) = Len(p) + Len(q),
           \A i \in 1..Len(p) : r[i] = p[i],
           \A i \in 1..Len(q) : r[Len(p) + i] = q[i]
    PROVE  r = p \o q
<1>1. Len(p \o q) = Len(r) /\ p \o q \in Seq(S) /\ Len(p) \in Nat /\ Len(q) \in Nat
  OBVIOUS
<1>2. ASSUME NEW i \in 1..Len(r) PROVE r[i] = (p \o q)[i]
  <2>1. CASE i \in 1..Len(p)
    BY <2>1
  <2>2. CASE i \notin 1..Len(p)
    <3> DEFINE k == i - Len(p)
    <3>1. k \in 1..Len(q) /\ i = Len(p) + k
      BY <1>1, <2>2
    <3>2. (p \o q)[i] = q[k]
      BY <2>2
    <3> HIDE DEF k
    <3> QED BY <3>1, <3>2
  <2> QED BY <2>1, <2>2
<1> QED BY <1>1, <1>2, SeqEqual

\* Flattening in two parts.
LEMMA FlattenConcat ==
    ASSUME NEW S, NEW s \in Seq(Seq(S)), NEW t \in Seq(Seq(S))
    PROVE  FlattenSeq(s \o t) = FlattenSeq(s) \o FlattenSeq(t)
<1> DEFINE front(n) == SubSeq(t, 1, n)
           T == {n \in Nat : n <= Len(t) =>
                     FlattenSeq(s \o front(n)) = FlattenSeq(s) \o FlattenSeq(front(n))}
<1>0. FlattenSeq(s) \in Seq(S)
  <2>1. <<>> \in Seq(S)
    OBVIOUS
  <2> QED BY <2>1, FlattenAppend
<1>1. 0 \in T
  <2>1. front(0) = <<>>
    BY SubSeqEmpty
  <2>2. s \o front(0) = s
    BY <2>1, ConcatEmptySeq
  <2>3. FlattenSeq(s) \o FlattenSeq(front(0)) = FlattenSeq(s)
    BY <1>0, <2>1, FlattenEmpty, ConcatEmptySeq
  <2> QED BY <2>2, <2>3
<1>2. ASSUME NEW n \in Nat, n \in T PROVE n + 1 \in T
  <2> SUFFICES ASSUME n + 1 <= Len(t)
               PROVE  FlattenSeq(s \o front(n + 1)) = FlattenSeq(s) \o FlattenSeq(front(n + 1))
    OBVIOUS
  <2>1. front(n) \in Seq(Seq(S)) /\ t[n + 1] \in Seq(S)
    OBVIOUS
  <2>2. front(n + 1) = Append(front(n), t[n + 1])
    OBVIOUS
  <2>3. FlattenSeq(s \o front(n)) = FlattenSeq(s) \o FlattenSeq(front(n))
    BY <1>2
  <2> HIDE DEF front
  <2>4. s \o front(n + 1) = Append(s \o front(n), t[n + 1]) /\ s \o front(n) \in Seq(Seq(S))
    <3> DEFINE Q == Seq(S)
               e == t[n + 1]
               u == front(n)
    <3>1. s \in Seq(Q) /\ u \in Seq(Q) /\ e \in Q /\ front(n + 1) = Append(u, e)
      BY <2>1, <2>2
    <3> HIDE DEF Q, e, u
    <3>2. s \o Append(u, e) = Append(s \o u, e) /\ s \o u \in Seq(Q)
      BY <3>1, ConcatAppend
    <3> QED BY <3>1, <3>2 DEF Q, e, u
  <2>5. FlattenSeq(s \o front(n + 1)) = FlattenSeq(s \o front(n)) \o t[n + 1]
    BY <2>1, <2>4, FlattenAppend
  <2>6. FlattenSeq(front(n + 1)) = FlattenSeq(front(n)) \o t[n + 1] /\ FlattenSeq(front(n)) \in Seq(S)
    BY <2>1, <2>2, FlattenAppend
  <2> DEFINE a == FlattenSeq(s)
             b == FlattenSeq(front(n))
             c == t[n + 1]
             p == FlattenSeq(s \o front(n))
             q == FlattenSeq(s \o front(n + 1))
             r == FlattenSeq(front(n + 1))
  <2>7. /\ a \in Seq(S) /\ b \in Seq(S) /\ c \in Seq(S)
        /\ p = a \o b /\ q = p \o c /\ r = b \o c
    BY <1>0, <2>1, <2>3, <2>5, <2>6
  <2> HIDE DEF a, b, c, p, q, r
  <2>8. q = a \o r
    BY ONLY <2>7, ConcatInSteps
  <2> QED BY <2>8 DEF a, q, r
<1>3. \A n \in Nat : n \in T
  <2> HIDE DEF T
  <2> QED BY <1>1, <1>2, SetInduction
<1>4. FlattenSeq(s \o front(Len(t))) = FlattenSeq(s) \o FlattenSeq(front(Len(t)))
  BY <1>3
<1>5. front(Len(t)) = t
  BY SubSeqFull
<1> HIDE DEF front
<1> QED BY <1>4, <1>5
=============================================================================
