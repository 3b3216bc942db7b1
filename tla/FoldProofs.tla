----------------------------- MODULE FoldProofs -----------------------------
(***************************************************************************)
(* Lemmas about folds and sequences: a least counterexample takes the      *)
(* place of induction, and the functions that the definitions of folds     *)
(* choose exist.                                                           *)
(***************************************************************************)
EXTENDS Integers, SequencesExt, SequenceTheorems, WellFoundedInduction, TLAPS

\* What holds of 0, and with a number below n of the next one, holds up to n:
\* otherwise there is a least number it does not hold of.
LEMMA UpToLast ==
    ASSUME NEW n \in Nat, NEW T, 0 \in T, \A k \in 0 .. n - 1 : k \in T => k + 1 \in T
    PROVE  \A k \in 0 .. n : k \in T
<1> DEFINE bad == {k \in 0 .. n : k \notin T}
           R == OpToRel(<, Nat)
<1> SUFFICES ASSUME bad # {}
             PROVE  FALSE
  OBVIOUS
<1>1. IsWellFoundedOn(R, Nat)
  BY NatLessThanWellFounded
<1>2. bad \subseteq Nat
  OBVIOUS
<1> HIDE DEF R
<1>3. \E x \in bad : \A y \in bad : ~ (<<y, x>> \in R)
  BY <1>1, <1>2, WFMin
<1>4. PICK x \in bad : \A y \in bad : ~ (<<y, x>> \in R)
  BY <1>3
<1>5. x \in 1 .. n /\ x - 1 \in 0 .. n - 1 /\ x - 1 + 1 = x
  OBVIOUS
<1>6. x - 1 \in bad
  BY <1>5
<1>7. <<x - 1, x>> \in R
  BY <1>5 DEF R, OpToRel
<1> QED
  BY <1>4, <1>6, <1>7

\* The last number of a set is the one a fold takes first.
LEMMA LastIsMax ==
    ASSUME NEW k \in Nat, NEW S \in SUBSET (1 .. k + 1), k + 1 \in S
    PROVE  Max(S) = k + 1
<1>1. k + 1 \in S /\ \A y \in S : k + 1 >= y
  OBVIOUS
<1>2. Max(S) \in S /\ \A y \in S : Max(S) >= y
  BY <1>1, Zenon DEF Max
<1>3. Max(S) \in 1 .. k + 1
  BY <1>2
<1> QED
  BY <1>2, <1>3

\* A fold takes a number of its set.
LEMMA MaxIsMember ==
    ASSUME NEW n \in Nat, NEW S \in SUBSET (1 .. n), S # {}
    PROVE  Max(S) \in S
<1> DEFINE T == {k \in 0 .. n : \A S1 \in SUBSET (1 .. k) : S1 # {} => Max(S1) \in S1}
<1>1. 0 \in T
  <2>1. \A S1 \in SUBSET (1 .. 0) : S1 = {}
    OBVIOUS
  <2>2. 0 \in 0 .. n
    OBVIOUS
  <2>3. \A S1 \in SUBSET (1 .. 0) : S1 # {} => Max(S1) \in S1
    BY <2>1, Zenon
  <2> QED
    BY <2>2, <2>3
<1>2. ASSUME NEW k \in 0 .. n - 1, k \in T
      PROVE  k + 1 \in T
  <2> SUFFICES ASSUME NEW S1 \in SUBSET (1 .. k + 1), S1 # {}
               PROVE  Max(S1) \in S1
    OBVIOUS
  <2>1. CASE k + 1 \in S1
    BY <2>1, LastIsMax
  <2>2. CASE k + 1 \notin S1
    <3>1. S1 \in SUBSET (1 .. k)
      BY <2>2
    <3> QED
      BY <1>2, <3>1
  <2> QED
    BY <2>1, <2>2
<1> HIDE DEF T
<1>3. n \in T
  BY <1>1, <1>2, UpToLast
<1> QED
  BY <1>3 DEF T

\* The functions that fold a step G over the numbers of a set.
Iterations(n, A, base, G) ==
    {f \in [SUBSET (1 .. n) -> A] : \A S \in SUBSET (1 .. n) :
         f[S] = IF S = {} THEN base ELSE G[<<f[S \ {Max(S)}], Max(S)>>]}

\* There is one: from one on the sets of the first k numbers it is extended to
\* those with the next.
LEMMA IterationExists ==
    ASSUME NEW n \in Nat, NEW A, NEW base \in A, NEW G \in [A \X (1 .. n) -> A]
    PROVE  Iterations(n, A, base, G) # {}
<1> DEFINE Iterates(f, k) == \A S \in SUBSET (1 .. k) :
               f[S] = IF S = {} THEN base ELSE G[<<f[S \ {Max(S)}], Max(S)>>]
           T == {k \in 0 .. n : \E f \in [SUBSET (1 .. k) -> A] : Iterates(f, k)}
<1>1. 0 \in T
  <2> DEFINE f == [S \in SUBSET (1 .. 0) |-> base]
  <2>1. f \in [SUBSET (1 .. 0) -> A]
    OBVIOUS
  <2>2. \A S \in SUBSET (1 .. 0) : S = {}
    OBVIOUS
  <2>3. Iterates(f, 0)
    BY <2>2
  <2> HIDE DEF f, Iterates
  <2>4. 0 \in 0 .. n /\ \E h \in [SUBSET (1 .. 0) -> A] : Iterates(h, 0)
    BY <2>1, <2>3
  <2> QED
    BY <2>4
<1>2. ASSUME NEW k \in 0 .. n - 1, k \in T
      PROVE  k + 1 \in T
  <2>1. PICK f \in [SUBSET (1 .. k) -> A] : Iterates(f, k)
    BY <1>2
  <2> DEFINE g == [S \in SUBSET (1 .. k + 1) |->
                       IF k + 1 \in S THEN G[<<f[S \ {k + 1}], k + 1>>] ELSE f[S]]
  <2>2. \A S \in SUBSET (1 .. k + 1) : /\ S \ {k + 1} \in SUBSET (1 .. k)
                                        /\ k + 1 \notin S => S \in SUBSET (1 .. k)
    OBVIOUS
  <2>3. g \in [SUBSET (1 .. k + 1) -> A]
    BY <2>1, <2>2
  <2>4. ASSUME NEW S \in SUBSET (1 .. k + 1)
        PROVE  g[S] = IF S = {} THEN base ELSE G[<<g[S \ {Max(S)}], Max(S)>>]
    <3>1. CASE k + 1 \in S
      <4>1. Max(S) = k + 1
        BY <3>1, LastIsMax
      <4>2. g[S \ {k + 1}] = f[S \ {k + 1}]
        OBVIOUS
      <4> QED
        BY <3>1, <4>1, <4>2
    <3>2. CASE k + 1 \notin S
      <4>0. S \in SUBSET (1 .. k)
        BY <2>2, <3>2
      <4>1. S \ {Max(S)} \in SUBSET (1 .. k)
        BY <4>0
      <4>2. k + 1 \notin S \ {Max(S)} /\ S \ {Max(S)} \in SUBSET (1 .. k + 1)
        BY <3>2
      <4>3. g[S] = f[S] /\ g[S \ {Max(S)}] = f[S \ {Max(S)}]
        BY <3>2, <4>2
      <4> QED
        BY <2>1, <4>0, <4>1, <4>3
    <3> QED
      BY <3>1, <3>2
  <2>5. Iterates(g, k + 1)
    BY <2>4
  <2> HIDE DEF g, Iterates
  <2> QED
    BY <2>3, <2>5
<1> HIDE DEF T
<1>3. n \in T
  BY <1>1, <1>2, UpToLast
<1> QED
  BY <1>3 DEF T, Iterations

\* A set of numbers up to n that is not empty has a least and a greatest member.
LEMMA EndsExist ==
    ASSUME NEW n \in Nat, NEW S \in SUBSET (1 .. n), S # {}
    PROVE  /\ \E i \in S : \A j \in S : i <= j
           /\ \E i \in S : \A j \in S : i >= j
<1>1. \E i \in S : \A j \in S : i <= j
  <2> SUFFICES ASSUME \A i \in S : \E j \in S : ~ (i <= j)
               PROVE  FALSE
    OBVIOUS
  <2> DEFINE T == {k \in 0 .. n : \A i \in 1 .. k : i \notin S}
  <2>1. 0 \in T
    OBVIOUS
  <2>2. ASSUME NEW k \in 0 .. n - 1, k \in T
        PROVE  k + 1 \in T
    <3>1. k + 1 \notin S
      <4>1. SUFFICES ASSUME k + 1 \in S
                     PROVE  FALSE
        OBVIOUS
      <4>2. PICK j \in S : ~ (k + 1 <= j)
        BY <4>1
      <4>3. j \in 1 .. k
        BY <4>2
      <4> QED
        BY <2>2, <4>3
    <3>2. \A i \in 1 .. k + 1 : i \in 1 .. k \/ i = k + 1
      OBVIOUS
    <3> QED
      BY <2>2, <3>1, <3>2
  <2>3. n \in 0 .. n
    OBVIOUS
  <2> HIDE DEF T
  <2>4. n \in T
    BY <2>1, <2>2, <2>3, UpToLast
  <2> QED
    BY <2>4 DEF T
<1>2. \E i \in S : \A j \in S : i >= j
  <2>1. Max(S) \in S
    BY MaxIsMember
  <2> SUFFICES ASSUME \A i \in S : \E j \in S : ~ (i >= j)
               PROVE  FALSE
    OBVIOUS
  <2> DEFINE T == {k \in 0 .. n : \A i \in 1 .. k : n + 1 - i \notin S}
  <2>2. 0 \in T
    OBVIOUS
  <2>3. ASSUME NEW k \in 0 .. n - 1, k \in T
        PROVE  k + 1 \in T
    <3>1. n - k \notin S
      <4>1. SUFFICES ASSUME n - k \in S
                     PROVE  FALSE
        OBVIOUS
      <4>2. PICK j \in S : ~ (n - k >= j)
        BY <4>1
      <4>3. n + 1 - j \in 1 .. k /\ n + 1 - (n + 1 - j) = j
        BY <4>2
      <4> QED
        BY <2>3, <4>3
    <3>2. \A i \in 1 .. k + 1 : i \in 1 .. k \/ (i = k + 1 /\ n + 1 - i = n - k)
      OBVIOUS
    <3> QED
      BY <2>3, <3>1, <3>2
  <2>4. n \in 0 .. n
    OBVIOUS
  <2> HIDE DEF T
  <2>5. n \in T
    BY <2>2, <2>3, <2>4, UpToLast
  <2>6. PICK x \in S : TRUE
    OBVIOUS
  <2>7. n + 1 - x \in 1 .. n /\ n + 1 - (n + 1 - x) = x
    BY <2>6
  <2> QED
    BY <2>5, <2>6, <2>7 DEF T
<1> QED
  BY <1>1, <1>2

\* What a sequence carries on item by item, a concatenation carries to its end.
LEMMA ConcatWalk ==
    ASSUME NEW X, NEW t \in Seq(X), NEW u \in Seq(X), NEW Q, t \in Q[0],
           \A k \in 0 .. Len(u) - 1 : \A v \in Seq(X) :
               v \in Q[k] => Append(v, u[k + 1]) \in Q[k + 1]
    PROVE  t \o u \in Q[Len(u)]
<1> DEFINE n == Len(u)
           T == {k \in 0 .. n : t \o SubSeq(u, 1, k) \in Q[k]}
<1>1. n \in Nat /\ n \in 0 .. n
  BY LenProperties
<1>2. \A k \in 0 .. n : SubSeq(u, 1, k) \in Seq(X)
  <2> TAKE k \in 0 .. n
  <2>1. \A i \in 1 .. k : u[i] \in X
    BY <1>1
  <2> QED
    BY <1>1, <2>1, SubSeqProperties
<1>3. 0 \in T
  <2>1. SubSeq(u, 1, 0) = <<>>
    BY SubSeqEmpty
  <2>2. t \o SubSeq(u, 1, 0) = t
    BY <2>1, ConcatEmptySeq
  <2>3. 0 \in 0 .. n
    BY <1>1
  <2> QED
    BY <2>2, <2>3
<1>4. ASSUME NEW k \in 0 .. n - 1, k \in T
      PROVE  k + 1 \in T
  <2> DEFINE s == SubSeq(u, 1, k)
             x == u[k + 1]
  <2>1. k + 1 \in 1 .. n /\ k + 1 \in 0 .. n /\ k \in 0 .. n /\ 1 \in 1 .. n /\ k + 1 - 1 = k
        /\ k + 1 \in 1 .. Len(u)
    BY <1>1
  <2>2. x \in X /\ s \in Seq(X)
    BY <1>2, <2>1
  <2>3. SubSeq(u, 1, k + 1) = s \o <<x>>
    BY <2>1, SubSeqRecursiveSecond
  <2>4. t \o (s \o <<x>>) = (t \o s) \o <<x>>
    <3>1. <<x>> \in Seq(X)
      BY <2>2
    <3> HIDE DEF s, x
    <3> QED
      BY <2>2, <3>1, ConcatAssociative
  <2> HIDE DEF s, x
  <2>5. t \o s \in Seq(X)
    BY <2>2, ConcatProperties
  <2>6. (t \o s) \o <<x>> = Append(t \o s, x)
    BY <2>2, <2>5, AppendIsConcat
  <2>7. t \o s \in Q[k]
    BY <1>4 DEF s
  <2>8. Append(t \o s, x) \in Q[k + 1]
    BY <2>5, <2>7 DEF x, n
  <2> QED
    BY <2>1, <2>3, <2>4, <2>6, <2>8
<1> HIDE DEF T
<1>5. n \in T
  BY <1>1, <1>3, <1>4, UpToLast
<1>6. SubSeq(u, 1, n) = u
  BY SubSeqFull
<1> QED
  BY <1>5, <1>6 DEF T

\* To flatten sequences is to walk over them and add one after the other.
LEMMA FlattenWalk ==
    ASSUME NEW S, NEW n \in Nat, NEW seqs \in [1 .. n -> Seq(S)]
    PROVE  \E w \in [0 .. n -> Seq(S)] :
               /\ w[0] = <<>>
               /\ \A k \in 0 .. n - 1 : w[k + 1] = w[k] \o seqs[k + 1]
               /\ FlattenSeq(seqs) = w[n]
<1> DEFINE Joins(f, k) == \A i \in 1 .. k :
               f[i] = IF i = 1 THEN seqs[i] ELSE f[i - 1] \o seqs[i]
           T == {k \in 0 .. n : \E f \in [1 .. k -> Seq(S)] : Joins(f, k)}
<1>1. Len(seqs) = n
  <2>1. seqs \in Seq(Seq(S)) /\ DOMAIN seqs = 1 .. n
    OBVIOUS
  <2> QED
    BY <2>1, LenProperties
<1>2. 0 \in T
  <2>1. [i \in 1 .. 0 |-> <<>>] \in [1 .. 0 -> Seq(S)] /\ Joins([i \in 1 .. 0 |-> <<>>], 0)
    OBVIOUS
  <2>2. 0 \in 0 .. n
    OBVIOUS
  <2> HIDE DEF Joins
  <2> QED
    BY <2>1, <2>2
<1>3. ASSUME NEW k \in 0 .. n - 1, k \in T
      PROVE  k + 1 \in T
  <2>1. PICK f \in [1 .. k -> Seq(S)] : Joins(f, k)
    BY <1>3
  <2> DEFINE g == [i \in 1 .. k + 1 |-> IF i \in 1 .. k THEN f[i]
                      ELSE IF i = 1 THEN seqs[i] ELSE f[i - 1] \o seqs[i]]
  <2>2. ASSUME NEW i \in 1 .. k + 1
        PROVE  /\ g[i] \in Seq(S)
               /\ g[i] = IF i = 1 THEN seqs[i] ELSE g[i - 1] \o seqs[i]
    <3>1. seqs[i] \in Seq(S)
      OBVIOUS
    <3>2. i # 1 => i - 1 \in 1 .. k /\ f[i - 1] \in Seq(S) /\ g[i - 1] = f[i - 1]
      BY <2>1
    <3>3. i # 1 => f[i - 1] \o seqs[i] \in Seq(S)
      BY <3>1, <3>2, ConcatProperties
    <3>4. i \in 1 .. k => f[i] \in Seq(S) /\ f[i] = IF i = 1 THEN seqs[i] ELSE f[i - 1] \o seqs[i]
      BY <2>1
    <3> QED
      BY <3>1, <3>2, <3>3, <3>4
  <2>3. g \in [1 .. k + 1 -> Seq(S)] /\ Joins(g, k + 1)
    BY <2>2
  <2> HIDE DEF g, Joins
  <2> QED
    BY <2>3
<1>4. n \in 0 .. n
  OBVIOUS
<1> HIDE DEF T
<1>5. n \in T
  BY <1>2, <1>3, <1>4, UpToLast
<1>6. PICK f \in [1 .. n -> Seq(S)] : Joins(f, n)
  BY <1>5 DEF T
<1> DEFINE F == CHOOSE h : h = [i \in 1 .. Len(seqs) |-> IF i = 1 THEN seqs[i]
                                                         ELSE h[i - 1] \o seqs[i]]
           w == [k \in 0 .. n |-> IF k = 0 THEN <<>> ELSE F[k]]
<1>7. F = [i \in 1 .. n |-> IF i = 1 THEN seqs[i] ELSE F[i - 1] \o seqs[i]]
  <2>1. f = [i \in 1 .. n |-> IF i = 1 THEN seqs[i] ELSE f[i - 1] \o seqs[i]]
    BY <1>6
  <2>2. f = [i \in 1 .. Len(seqs) |-> IF i = 1 THEN seqs[i] ELSE f[i - 1] \o seqs[i]]
    BY <1>1, <2>1
  <2>3. F = [i \in 1 .. Len(seqs) |-> IF i = 1 THEN seqs[i] ELSE F[i - 1] \o seqs[i]]
    BY <2>2, Zenon
  <2> HIDE DEF F
  <2> QED
    BY <1>1, <2>3
<1>8. n # 0 => FlattenSeq(seqs) = F[n]
  <2>1. n # 0 => FlattenSeq(seqs) = F[Len(seqs)]
    BY <1>1, Zenon DEF FlattenSeq
  <2> HIDE DEF F
  <2> QED
    BY <1>1, <2>1
<1>9. n = 0 => FlattenSeq(seqs) = <<>>
  BY <1>1 DEF FlattenSeq
<1> HIDE DEF F
<1>10. w[0] = <<>> /\ FlattenSeq(seqs) = w[n]
  BY <1>8, <1>9
<1>11. ASSUME NEW k \in 0 .. n - 1, w[k] \in Seq(S)
       PROVE  w[k + 1] = w[k] \o seqs[k + 1] /\ w[k + 1] \in Seq(S)
  <2>1. k + 1 \in 1 .. n /\ k + 1 \in 0 .. n /\ k \in 0 .. n /\ k + 1 # 0 /\ k + 1 - 1 = k
        /\ seqs[k + 1] \in Seq(S)
    OBVIOUS
  <2>2. CASE k = 0
    <3>1. w[k + 1] = seqs[k + 1]
      BY <1>7, <2>1, <2>2
    <3>2. <<>> \o seqs[k + 1] = seqs[k + 1]
      BY <2>1, ConcatEmptySeq
    <3> QED
      BY <2>1, <2>2, <3>1, <3>2
  <2>3. CASE k # 0
    <3>0. F[k + 1] = F[k] \o seqs[k + 1]
      <4> DEFINE i == k + 1
      <4>1. i \in 1 .. n /\ i # 1 /\ i - 1 = k
        BY <2>1, <2>3
      <4> HIDE DEF i
      <4>2. F[i] = F[k] \o seqs[i]
        BY <1>7, <4>1
      <4> QED
        BY <4>2 DEF i
    <3>1. w[k + 1] = F[k] \o seqs[k + 1] /\ w[k] = F[k]
      BY <2>1, <2>3, <3>0
    <3> HIDE DEF w
    <3> QED
      BY <1>11, <2>1, <3>1, ConcatProperties
  <2> QED
    BY <2>2, <2>3
<1> DEFINE U == {k \in 0 .. n : w[k] \in Seq(S)}
<1> HIDE DEF w
<1>12. 0 \in U
  <2>1. 0 \in 0 .. n
    OBVIOUS
  <2> QED
    BY <1>10, <2>1, EmptySeq
<1>13. ASSUME NEW k \in 0 .. n - 1, k \in U
       PROVE  k + 1 \in U
  <2>1. k + 1 \in 0 .. n
    OBVIOUS
  <2> QED
    BY <1>11, <1>13, <2>1
<1> HIDE DEF U
<1>14. \A k \in 0 .. n : k \in U
  BY <1>12, <1>13, UpToLast
<1>15. w \in [0 .. n -> Seq(S)] /\ \A k \in 0 .. n - 1 : w[k + 1] = w[k] \o seqs[k + 1]
  <2>1. \A k \in 0 .. n : w[k] \in Seq(S)
    BY <1>14 DEF U
  <2>2. ASSUME NEW k \in 0 .. n - 1
        PROVE  w[k + 1] = w[k] \o seqs[k + 1]
    <3>1. k \in 0 .. n
      OBVIOUS
    <3> QED
      BY <1>11, <2>1, <3>1
  <2> QED
    BY <2>1, <2>2 DEF w
<1> QED
  BY <1>10, <1>15
=============================================================================
