--------------------------- MODULE DataInduction ---------------------------
(***************************************************************************)
(* Induction over data, for the proofs about what SpanContent computes.    *)
(* The inductive statement is a set, of the numbers or the sequences it    *)
(* holds for, so that the theorems have no operator among their            *)
(* parameters.  From them: recursive functions exist, and how FlattenSeq   *)
(* treats the last of the sequences it is given.                           *)
(***************************************************************************)
EXTENDS Integers, Sequences, SequencesExt, SequenceTheorems, WellFoundedInduction, TLAPS

(***************************************************************************)
(* Induction                                                               *)
(***************************************************************************)

\* The natural numbers are well-founded: among some of them one is the least.
THEOREM LeastElement ==
  ASSUME NEW T, T \subseteq Nat, T # {}
  PROVE  \E x \in T : \A y \in T : x <= y
<1> DEFINE R == {ss \in Nat \X Nat : ss[1] < ss[2]}
<1>1. IsWellFoundedOn(R, Nat)
  BY NatLessThanWellFounded, Zenon DEF OpToRel
<1>2. PICK x \in T : \A y \in T : <<y, x>> \notin R
  <2> HIDE DEF R
  <2> QED
    BY <1>1, WFMin, Zenon
<1>3. ASSUME NEW y \in T PROVE x <= y
  <2>1. x \in Nat /\ y \in Nat
    OBVIOUS
  <2>2. y < x => <<y, x>> \in R
    BY <2>1
  <2> HIDE DEF R
  <2> QED
    BY <1>2, <2>1, <2>2
<1> QED
  BY <1>3

\* Among some that do not exceed a bound one is the greatest.
THEOREM GreatestElement ==
  ASSUME NEW n \in Nat, NEW T, T \subseteq 0 .. n, T # {}
  PROVE  \E x \in T : \A y \in T : x >= y
<1> DEFINE S == {k \in Nat : k <= n /\ n - k \in T}
<1>1. S \subseteq Nat /\ \A x \in T : n - x \in S
  <2>1. \A x \in T : n - x \in Nat /\ n - x <= n /\ n - (n - x) = x
    OBVIOUS
  <2> QED
    BY <2>1
<1>2. PICK k \in S : \A l \in S : k <= l
  <2> HIDE DEF S
  <2> QED
    BY <1>1, LeastElement
<1>3. ASSUME NEW y \in T PROVE n - k >= y
  BY <1>1, <1>2
<1> QED
  BY <1>2, <1>3

\* A set that holds 0 and with n also n + 1 holds every natural number: among those it does
\* not hold there would be a least one.
THEOREM SetInduction ==
  ASSUME NEW S, 0 \in S, \A n \in Nat : n \in S => n + 1 \in S
  PROVE  Nat \subseteq S
<1> DEFINE T == Nat \ S
<1>1. SUFFICES ASSUME T # {} PROVE FALSE
  OBVIOUS
<1>2. PICK x \in T : \A y \in T : x <= y
  <2>1. T \subseteq Nat
    OBVIOUS
  <2> HIDE DEF T
  <2> QED
    BY <1>1, <2>1, LeastElement
<1>3. x # 0
  OBVIOUS
<1>4. x - 1 \in Nat /\ x - 1 + 1 = x
  BY <1>3
<1>5. x - 1 \notin S
  BY <1>4
<1> QED
  BY <1>2, <1>4, <1>5

\* The same for sequences, which grow at their end.
THEOREM SequenceInduction ==
  ASSUME NEW X, NEW T, <<>> \in T, \A s \in Seq(X), e \in X : s \in T => Append(s, e) \in T
  PROVE  Seq(X) \subseteq T
<1> DEFINE N == {n \in Nat : \A s \in Seq(X) : Len(s) = n => s \in T}
<1>1. 0 \in N
  OBVIOUS
<1>2. \A n \in Nat : n \in N => n + 1 \in N
  <2> SUFFICES ASSUME NEW n \in Nat, n \in N, NEW s \in Seq(X), Len(s) = n + 1
               PROVE  s \in T
    OBVIOUS
  <2>1. s # <<>>
    OBVIOUS
  <2>2. PICK t \in Seq(X), e \in X : s = Append(t, e)
    BY <2>1, SequenceEmptyOrAppend
  <2>3. Len(t) = n
    BY <2>2
  <2>4. t \in T
    BY <2>3
  <2> QED
    BY <2>2, <2>4
<1>3. Nat \subseteq N
  <2> HIDE DEF N
  <2> QED
    BY <1>1, <1>2, SetInduction
<1> QED
  BY <1>3

(***************************************************************************)
(* Recursion                                                               *)
(***************************************************************************)

IsRecursion(f, a, G) == f[0] = a /\ \A n \in Nat : f[n + 1] = G[<<n, f[n]>>]

\* There is a function on the naturals with a given first value and a given step.
THEOREM PrimitiveRecursion ==
  ASSUME NEW S, NEW a \in S, NEW G \in [Nat \X S -> S]
  PROVE  \E f \in [Nat -> S] : IsRecursion(f, a, G)
<1> DEFINE Good(n, g) == g[0] = a /\ \A i \in 0 .. n - 1 : g[i + 1] = G[<<i, g[i]>>]
           T == {n \in Nat : \E g \in [0 .. n -> S] : Good(n, g)}
<1>1. 0 \in T
  <2> DEFINE z == [i \in 0 .. 0 |-> a]
  <2>1. z \in [0 .. 0 -> S] /\ Good(0, z)
    OBVIOUS
  <2> QED
    BY <2>1
<1>2. \A n \in Nat : n \in T => n + 1 \in T
  <2> SUFFICES ASSUME NEW n \in Nat, NEW g \in [0 .. n -> S], Good(n, g)
               PROVE  \E h \in [0 .. n + 1 -> S] : Good(n + 1, h)
    OBVIOUS
  <2> DEFINE h == [i \in 0 .. n + 1 |-> IF i = n + 1 THEN G[<<n, g[n]>>] ELSE g[i]]
  <2>1. h \in [0 .. n + 1 -> S]
    OBVIOUS
  <2>2. h[0] = a
    OBVIOUS
  <2>3. ASSUME NEW i \in 0 .. n PROVE h[i + 1] = G[<<i, h[i]>>]
    <3>1. CASE i = n
      <4>1. h[n + 1] = G[<<n, g[n]>>] /\ h[n] = g[n]
        OBVIOUS
      <4> QED
        BY <3>1, <4>1
    <3>2. CASE i \in 0 .. n - 1
      <4>1. g[i + 1] = G[<<i, g[i]>>]
        BY <3>2
      <4>2. h[i + 1] = g[i + 1] /\ h[i] = g[i]
        BY <3>2
      <4> QED
        BY <4>1, <4>2
    <3> QED
      BY <3>1, <3>2
  <2>4. Good(n + 1, h)
    <3> HIDE DEF h
    <3> QED
      BY <2>2, <2>3
  <2> HIDE DEF h
  <2> QED
    BY <2>1, <2>4
<1>3. Nat \subseteq T
  <2> HIDE DEF T
  <2> QED
    BY <1>1, <1>2, SetInduction
<1> DEFINE P(n) == CHOOSE g \in [0 .. n -> S] : Good(n, g)
<1>4. ASSUME NEW n \in Nat PROVE P(n) \in [0 .. n -> S] /\ Good(n, P(n))
  <2>1. \E g \in [0 .. n -> S] : Good(n, g)
    BY <1>3
  <2> HIDE DEF Good
  <2> QED
    BY <2>1
<1> HIDE DEF P
<1>5. ASSUME NEW m \in Nat, NEW n \in Nat, m <= n
      PROVE \A i \in 0 .. m : P(m)[i] = P(n)[i]
  <2> DEFINE U == {i \in Nat : i <= m => P(m)[i] = P(n)[i]}
  <2>1. 0 \in U
    BY <1>4
  <2>2. \A i \in Nat : i \in U => i + 1 \in U
    <3> SUFFICES ASSUME NEW i \in Nat, i + 1 <= m, P(m)[i] = P(n)[i]
                 PROVE P(m)[i + 1] = P(n)[i + 1]
      OBVIOUS
    <3>1. i \in 0 .. m - 1 /\ i \in 0 .. n - 1
      BY <1>5
    <3> QED
      BY <3>1, <1>4
  <2>3. Nat \subseteq U
    <3> HIDE DEF U
    <3> QED
      BY <2>1, <2>2, SetInduction
  <2> QED
    BY <2>3
<1> DEFINE f == [n \in Nat |-> P(n)[n]]
<1>6. f \in [Nat -> S]
  BY <1>4
<1>7. f[0] = a
  BY <1>4
<1>8. ASSUME NEW n \in Nat PROVE f[n + 1] = G[<<n, f[n]>>]
  <2>1. P(n + 1)[n] = P(n)[n]
    BY <1>5
  <2>2. P(n + 1)[n + 1] = G[<<n, P(n + 1)[n]>>]
    <3>1. n + 1 \in Nat /\ n \in 0 .. (n + 1) - 1
      OBVIOUS
    <3> QED
      BY <3>1, <1>4
  <2> QED
    BY <2>1, <2>2
<1> HIDE DEF f
<1> QED
  BY <1>6, <1>7, <1>8 DEF IsRecursion

\* The steps a function has gone through when it has read n elements of a sequence.
IsFold(f, n, a, G, s) == f[0] = a /\ \A i \in 1 .. n : f[i] = G[<<f[i - 1], s[i]>>]

\* Reading a sequence from a given start with a given step is such a function.
LEMMA FoldExists ==
  ASSUME NEW S, NEW X, NEW a \in S, NEW G \in [S \X X -> S], NEW s \in Seq(X)
  PROVE  \E f \in [0 .. Len(s) -> S] : IsFold(f, Len(s), a, G, s)
<1> DEFINE H == [p \in Nat \X S |-> IF p[1] < Len(s) THEN G[<<p[2], s[p[1] + 1]>>] ELSE p[2]]
<1>1. H \in [Nat \X S -> S]
  OBVIOUS
<1>2. PICK g \in [Nat -> S] : IsRecursion(g, a, H)
  <2> HIDE DEF H
  <2> QED
    BY <1>1, PrimitiveRecursion, Zenon
<1> DEFINE f == [i \in 0 .. Len(s) |-> g[i]]
<1>3. f \in [0 .. Len(s) -> S]
  OBVIOUS
<1>4. f[0] = a
  BY <1>2 DEF IsRecursion
<1>5. ASSUME NEW i \in 1 .. Len(s) PROVE f[i] = G[<<f[i - 1], s[i]>>]
  <2>1. i - 1 \in Nat /\ i - 1 < Len(s) /\ i - 1 + 1 = i
    OBVIOUS
  <2>2. g[i] = H[<<i - 1, g[i - 1]>>]
    <3>1. g[(i - 1) + 1] = H[<<i - 1, g[i - 1]>>]
      <4> HIDE DEF H
      <4> QED
        BY <1>2, <2>1, Zenon DEF IsRecursion
    <3> QED
      BY <2>1, <3>1
  <2>3. H[<<i - 1, g[i - 1]>>] = G[<<g[i - 1], s[i]>>]
    BY <2>1
  <2> QED
    BY <2>2, <2>3
<1> HIDE DEF f
<1> QED
  BY <1>3, <1>4, <1>5 DEF IsFold

\* Such a function knows nothing of what it has not read yet.
LEMMA FoldPrefix ==
  ASSUME NEW a, NEW G, NEW s, NEW t, NEW f, NEW g, NEW m \in Nat,
         IsFold(f, m, a, G, s), IsFold(g, m, a, G, t), \A i \in 1 .. m : s[i] = t[i]
  PROVE  \A i \in 0 .. m : f[i] = g[i]
<1> DEFINE U == {i \in Nat : i <= m => f[i] = g[i]}
<1>1. 0 \in U
  BY DEF IsFold
<1>2. \A i \in Nat : i \in U => i + 1 \in U
  <2> SUFFICES ASSUME NEW i \in Nat, i + 1 <= m, f[i] = g[i] PROVE f[i + 1] = g[i + 1]
    OBVIOUS
  <2>1. i + 1 \in 1 .. m /\ (i + 1) - 1 = i
    OBVIOUS
  <2>2. f[i + 1] = G[<<f[(i + 1) - 1], s[i + 1]>>] /\ g[i + 1] = G[<<g[(i + 1) - 1], t[i + 1]>>]
    BY <2>1, Zenon DEF IsFold
  <2>3. s[i + 1] = t[i + 1]
    BY <2>1
  <2> QED
    BY <2>1, <2>2, <2>3
<1>3. Nat \subseteq U
  <2> HIDE DEF U
  <2> QED
    BY <1>1, <1>2, SetInduction
<1> QED
  BY <1>3

(***************************************************************************)
(* FlattenSeq                                                              *)
(***************************************************************************)
Concat(S) == [p \in Seq(S) \X Seq(S) |-> p[1] \o p[2]]

\* FlattenSeq reads its sequences from the first to the last.
LEMMA FlattenIsFold ==
  ASSUME NEW S, NEW ss \in Seq(Seq(S)), NEW f \in [0 .. Len(ss) -> Seq(S)],
         IsFold(f, Len(ss), <<>>, Concat(S), ss)
  PROVE  FlattenSeq(ss) = f[Len(ss)]
<1> DEFINE L == Len(ss)
           IsFlatten(g) == g = [i \in 1 .. L |-> IF i = 1 THEN ss[i] ELSE g[i - 1] \o ss[i]]
<1>0. L \in Nat
  OBVIOUS
<1>1. CASE L = 0
  BY <1>1 DEF FlattenSeq, IsFold
<1>2. CASE L # 0
  <2>1. ASSUME NEW i \in 1 .. L PROVE f[i] = f[i - 1] \o ss[i]
    <3>1. f[i] = Concat(S)[<<f[i - 1], ss[i]>>]
      BY DEF IsFold
    <3>2. f[i - 1] \in Seq(S) /\ ss[i] \in Seq(S)
      <4>1. i - 1 \in 0 .. L
        BY <1>0
      <4>2. ss[i] \in Seq(S)
        BY ElementOfSeq
      <4> QED
        BY <4>1, <4>2
    <3> QED
      BY <3>1, <3>2 DEF Concat
  <2>2. f[1] = ss[1]
    <3>1. f[1 - 1] = <<>> /\ 1 \in 1 .. L /\ ss[1] \in Seq(S)
      BY <1>2 DEF IsFold
    <3>2. f[1] = <<>> \o ss[1]
      BY <2>1, <3>1
    <3> QED
      BY <3>1, <3>2
  <2> DEFINE r == [i \in 1 .. L |-> f[i]]
  <2>3. IsFlatten(r)
    <3> SUFFICES ASSUME NEW i \in 1 .. L
                 PROVE  r[i] = IF i = 1 THEN ss[i] ELSE r[i - 1] \o ss[i]
      OBVIOUS
    <3>1. CASE i = 1
      BY <2>2, <3>1
    <3>2. CASE i # 1
      <4>1. i - 1 \in 1 .. L
        BY <1>0, <3>2
      <4>2. r[i - 1] = f[i - 1] /\ r[i] = f[i]
        BY <4>1
      <4> QED
        BY <2>1, <3>2, <4>2
    <3> QED
      BY <3>1, <3>2
  <2> DEFINE g == CHOOSE h : IsFlatten(h)
  <2>4. IsFlatten(g)
    <3> HIDE DEF IsFlatten
    <3> QED
      BY <2>3, Zenon
  <2>5. FlattenSeq(ss) = g[L]
    BY <1>2 DEF FlattenSeq
  <2> HIDE DEF g
  <2>6. \A i \in 1 .. L : g[i] = f[i]
    <3> DEFINE U == {i \in Nat : i + 1 <= L => g[i + 1] = f[i + 1]}
    <3>1. 0 \in U
      BY <1>2, <2>2, <2>4
    <3>2. \A i \in Nat : i \in U => i + 1 \in U
      <4> SUFFICES ASSUME NEW i \in Nat, (i + 1) + 1 <= L, g[i + 1] = f[i + 1]
                   PROVE  g[(i + 1) + 1] = f[(i + 1) + 1]
        OBVIOUS
      <4>1. (i + 1) + 1 \in 1 .. L /\ (i + 1) + 1 # 1 /\ ((i + 1) + 1) - 1 = i + 1
        OBVIOUS
      <4>2. g[(i + 1) + 1] = g[i + 1] \o ss[(i + 1) + 1]
        BY <2>4, <4>1
      <4>3. f[(i + 1) + 1] = f[i + 1] \o ss[(i + 1) + 1]
        BY <2>1, <4>1
      <4> QED
        BY <4>2, <4>3
    <3>3. Nat \subseteq U
      <4> HIDE DEF U
      <4> QED
        BY <3>1, <3>2, SetInduction
    <3> QED
      <4> TAKE i \in 1 .. L
      <4>1. i - 1 \in Nat /\ (i - 1) + 1 = i
        OBVIOUS
      <4>2. i - 1 \in U
        BY <3>3, <4>1
      <4> QED
        BY <4>1, <4>2
  <2> QED
    BY <1>2, <2>5, <2>6
<1> QED
  BY <1>1, <1>2

LEMMA FlattenFold ==
  ASSUME NEW S, NEW ss \in Seq(Seq(S))
  PROVE  \E f \in [0 .. Len(ss) -> Seq(S)] :
           /\ IsFold(f, Len(ss), <<>>, Concat(S), ss)
           /\ FlattenSeq(ss) = f[Len(ss)]
<1>1. Concat(S) \in [Seq(S) \X Seq(S) -> Seq(S)]
  BY DEF Concat
<1>2. <<>> \in Seq(S)
  OBVIOUS
<1>3. PICK f \in [0 .. Len(ss) -> Seq(S)] : IsFold(f, Len(ss), <<>>, Concat(S), ss)
  BY <1>1, <1>2, FoldExists, Zenon
<1> QED
  BY <1>3, FlattenIsFold, Zenon

\* What FlattenSeq makes of no sequence, and of one more.
THEOREM FlattenProperties ==
  ASSUME NEW S, NEW ss \in Seq(Seq(S))
  PROVE  /\ FlattenSeq(<<>>) = <<>>
         /\ FlattenSeq(ss) \in Seq(S)
         /\ \A t \in Seq(S) : FlattenSeq(Append(ss, t)) = FlattenSeq(ss) \o t
<1>1. FlattenSeq(<<>>) = <<>>
  BY DEF FlattenSeq
<1>2. PICK f \in [0 .. Len(ss) -> Seq(S)] :
        /\ IsFold(f, Len(ss), <<>>, Concat(S), ss)
        /\ FlattenSeq(ss) = f[Len(ss)]
  BY FlattenFold, Zenon
<1>3. ASSUME NEW t \in Seq(S)
      PROVE  FlattenSeq(Append(ss, t)) = FlattenSeq(ss) \o t
  <2> DEFINE tt == Append(ss, t)
             m == Len(ss)
  <2>1. tt \in Seq(Seq(S)) /\ Len(tt) = m + 1 /\ m \in Nat
    OBVIOUS
  <2>2. tt[m + 1] = t /\ \A i \in 1 .. m : tt[i] = ss[i]
    OBVIOUS
  <2> HIDE DEF tt
  <2>3. PICK g \in [0 .. Len(tt) -> Seq(S)] :
          /\ IsFold(g, Len(tt), <<>>, Concat(S), tt)
          /\ FlattenSeq(tt) = g[Len(tt)]
    BY <2>1, FlattenFold, Zenon
  <2>4. IsFold(g, m, <<>>, Concat(S), tt)
    BY <2>1, <2>3 DEF IsFold
  <2>5. \A i \in 0 .. m : g[i] = f[i]
    <3>1. \A i \in 1 .. m : tt[i] = ss[i]
      BY <2>2
    <3>2. m \in Nat /\ IsFold(f, m, <<>>, Concat(S), ss)
      BY <1>2, <2>1
    <3> DEFINE a == <<>>
    <3>3. IsFold(g, m, a, Concat(S), tt) /\ IsFold(f, m, a, Concat(S), ss)
      BY <2>4, <3>2
    <3> HIDE DEF m, a
    <3> QED
      BY <3>1, <3>2, <3>3, FoldPrefix
  <2>6. g[m] = f[m] /\ f[m] \in Seq(S)
    BY <2>1, <2>5
  <2>7. g[m + 1] = Concat(S)[<<g[m], t>>]
    <3>1. m + 1 \in 1 .. Len(tt) /\ (m + 1) - 1 = m
      BY <2>1
    <3>2. g[m + 1] = Concat(S)[<<g[(m + 1) - 1], tt[m + 1]>>]
      BY <2>3, <3>1, Zenon DEF IsFold
    <3> QED
      BY <2>2, <3>1, <3>2
  <2>8. g[m + 1] = g[m] \o t
    BY <2>6, <2>7 DEF Concat
  <2> QED
    BY <1>2, <2>1, <2>3, <2>6, <2>8 DEF tt
<1>4. f[Len(ss)] \in Seq(S)
  OBVIOUS
<1> QED
  BY <1>1, <1>2, <1>3, <1>4
=============================================================================
