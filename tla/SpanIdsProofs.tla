--------------------------- MODULE SpanIdsProofs ---------------------------
(***************************************************************************)
(* Trace ids and span ids do not repeat, for words of any width: two       *)
(* inputs with one id agree in their lowest bit, and when they agree in    *)
(* their k lowest bits, in one more.                                       *)
(***************************************************************************)
EXTENDS SpanIds, DataInduction

(***************************************************************************)
(* Powers of two and the exclusive or                                      *)
(***************************************************************************)
LEMMA TwoToProperties ==
  /\ TwoTo \in [Nat -> Nat \ {0}]
  /\ TwoTo[0] = 1
  /\ \A n \in Nat : TwoTo[n + 1] = 2 * TwoTo[n]
<1> DEFINE S == Nat \ {0}
           G == [p \in Nat \X S |-> 2 * p[2]]
           IsTwoTo(f) == f = [n \in Nat |-> IF n = 0 THEN 1 ELSE 2 * f[n - 1]]
<1>1. 1 \in S /\ G \in [Nat \X S -> S]
  OBVIOUS
<1>2. PICK f \in [Nat -> S] : IsRecursion(f, 1, G)
  <2> HIDE DEF S, G
  <2> QED
    BY <1>1, PrimitiveRecursion, Zenon
<1>3. ASSUME NEW n \in Nat PROVE f[n + 1] = 2 * f[n]
  <2>1. f[n + 1] = G[<<n, f[n]>>]
    BY <1>2, Zenon DEF IsRecursion
  <2> QED
    BY <2>1
<1>4. IsTwoTo(f)
  <2> SUFFICES ASSUME NEW n \in Nat PROVE f[n] = IF n = 0 THEN 1 ELSE 2 * f[n - 1]
    OBVIOUS
  <2>1. CASE n = 0
    BY <1>2, <2>1 DEF IsRecursion
  <2>2. CASE n # 0
    <3>1. n - 1 \in Nat /\ (n - 1) + 1 = n
      BY <2>2
    <3>2. f[(n - 1) + 1] = 2 * f[n - 1]
      BY <1>3, <3>1
    <3> QED
      BY <2>2, <3>1, <3>2
  <2> QED
    BY <2>1, <2>2
<1>5. IsTwoTo(TwoTo)
  <2>1. TwoTo = CHOOSE g : IsTwoTo(g)
    BY Zenon DEF TwoTo
  <2> HIDE DEF IsTwoTo
  <2> QED
    BY <1>4, <2>1, Zenon
<1>6. TwoTo[0] = 1
  BY <1>5
<1>7. ASSUME NEW n \in Nat PROVE TwoTo[n + 1] = 2 * TwoTo[n]
  <2>1. n + 1 \in Nat /\ n + 1 # 0 /\ (n + 1) - 1 = n
    OBVIOUS
  <2> QED
    BY <1>5, <2>1
<1>8. Nat \subseteq {n \in Nat : TwoTo[n] \in S}
  <2> DEFINE U == {n \in Nat : TwoTo[n] \in S}
  <2>1. 0 \in U
    BY <1>6
  <2>2. \A n \in Nat : n \in U => n + 1 \in U
    BY <1>7
  <2> HIDE DEF U
  <2>3. Nat \subseteq U
    BY <2>1, <2>2, SetInduction
  <2> QED
    BY <2>3 DEF U
<1>9. TwoTo = [n \in Nat |-> TwoTo[n]]
  BY <1>5
<1> QED
  BY <1>6, <1>7, <1>8, <1>9

\* Xor on the n lowest bits of two numbers, one bit at a time.
Bits(n, x, y) == XorBits[n][<<x, y>>]

LEMMA BitsRecursion ==
  ASSUME NEW x \in Nat, NEW y \in Nat
  PROVE  /\ Bits(0, x, y) = 0
         /\ \A n \in Nat :
              Bits(n + 1, x, y) = 2 * Bits(n, x \div 2, y \div 2) + ((x + y) % 2)
<1> DEFINE D == Nat \X Nat
           S == [D -> Nat]
           Step(g) == [p \in D |-> 2 * g[<<p[1] \div 2, p[2] \div 2>>] + ((p[1] + p[2]) % 2)]
           a == [p \in D |-> 0]
           G == [q \in Nat \X S |-> Step(q[2])]
           IsXor(f) == f = [n \in Nat |-> [p \in D |-> IF n = 0 THEN 0
                              ELSE 2 * f[n - 1][<<p[1] \div 2, p[2] \div 2>>] + ((p[1] + p[2]) % 2)]]
<1>1. ASSUME NEW g \in S PROVE Step(g) \in S
  <2> SUFFICES ASSUME NEW p \in D
               PROVE  2 * g[<<p[1] \div 2, p[2] \div 2>>] + ((p[1] + p[2]) % 2) \in Nat
    OBVIOUS
  <2>1. p[1] \div 2 \in Nat /\ p[2] \div 2 \in Nat /\ (p[1] + p[2]) % 2 \in Nat
    OBVIOUS
  <2>2. g[<<p[1] \div 2, p[2] \div 2>>] \in Nat
    BY <2>1
  <2> QED
    BY <2>1, <2>2
<1>2. a \in S /\ G \in [Nat \X S -> S]
  <2> HIDE DEF Step
  <2>1. G \in [Nat \X S -> S]
    BY <1>1
  <2> QED
    BY <2>1
<1>3. PICK f \in [Nat -> S] : IsRecursion(f, a, G)
  <2> HIDE DEF S, G, a
  <2> QED
    BY <1>2, PrimitiveRecursion, Zenon
<1>4. ASSUME NEW n \in Nat PROVE f[n + 1] = Step(f[n])
  <2>1. f[n + 1] = G[<<n, f[n]>>]
    <3> HIDE DEF G, a
    <3> QED
      BY <1>3, Zenon DEF IsRecursion
  <2>2. f[n] \in S
    OBVIOUS
  <2> HIDE DEF Step, S
  <2> QED
    BY <2>1, <2>2
<1>5. IsXor(f)
  <2> SUFFICES ASSUME NEW n \in Nat
               PROVE  f[n] = [p \in D |-> IF n = 0 THEN 0
                                ELSE 2 * f[n - 1][<<p[1] \div 2, p[2] \div 2>>] + ((p[1] + p[2]) % 2)]
    OBVIOUS
  <2>1. CASE n = 0
    BY <1>3, <2>1 DEF IsRecursion
  <2>2. CASE n # 0
    <3>1. n - 1 \in Nat /\ (n - 1) + 1 = n
      BY <2>2
    <3>2. f[n] = Step(f[n - 1])
      <4> HIDE DEF Step
      <4> QED
        BY <1>4, <3>1
    <3> QED
      BY <2>2, <3>2
  <2> QED
    BY <2>1, <2>2
<1>6. IsXor(XorBits)
  <2>1. XorBits = CHOOSE g : IsXor(g)
    BY Zenon DEF XorBits
  <2> HIDE DEF IsXor
  <2> QED
    BY <1>5, <2>1, Zenon
<1>7. Bits(0, x, y) = 0
  BY <1>6 DEF Bits
<1>8. ASSUME NEW n \in Nat
      PROVE  Bits(n + 1, x, y) = 2 * Bits(n, x \div 2, y \div 2) + ((x + y) % 2)
  <2>1. n + 1 \in Nat /\ n + 1 # 0 /\ (n + 1) - 1 = n
    OBVIOUS
  <2>2. XorBits[n + 1] = Step(XorBits[n])
    BY <1>6, <2>1
  <2> QED
    BY <2>2 DEF Bits
<1> QED
  BY <1>7, <1>8

LEMMA BitsNatural ==
  \A n \in Nat : \A x, y \in Nat : Bits(n, x, y) \in Nat
<1> DEFINE P(n) == \A x, y \in Nat : Bits(n, x, y) \in Nat
           U == {n \in Nat : P(n)}
<1>1. P(0)
  BY BitsRecursion
<1>2. ASSUME NEW n \in Nat, P(n) PROVE P(n + 1)
  <2> TAKE x \in Nat, y \in Nat
  <2>1. x \div 2 \in Nat /\ y \div 2 \in Nat /\ (x + y) % 2 \in Nat
    OBVIOUS
  <2>2. Bits(n, x \div 2, y \div 2) \in Nat
    BY <1>2, <2>1
  <2>3. Bits(n + 1, x, y) = 2 * Bits(n, x \div 2, y \div 2) + ((x + y) % 2)
    BY BitsRecursion
  <2> QED
    BY <2>1, <2>2, <2>3
<1> HIDE DEF P
<1>3. 0 \in U /\ \A n \in Nat : n \in U => n + 1 \in U
  BY <1>1, <1>2
<1> HIDE DEF U
<1>4. Nat \subseteq U
  BY <1>3, SetInduction
<1> QED
  BY <1>4 DEF U, P

LEMMA BitsBounded ==
  \A n \in Nat : \A x, y \in Nat : Bits(n, x, y) \in 0 .. TwoTo[n] - 1
<1> DEFINE P(n) == \A x, y \in Nat : Bits(n, x, y) < TwoTo[n]
           U == {n \in Nat : P(n)}
<1>1. P(0)
  BY BitsRecursion, TwoToProperties
<1>2. ASSUME NEW n \in Nat, P(n) PROVE P(n + 1)
  <2> TAKE x \in Nat, y \in Nat
  <2>1. x \div 2 \in Nat /\ y \div 2 \in Nat /\ (x + y) % 2 \in 0 .. 1
    OBVIOUS
  <2>2. Bits(n, x \div 2, y \div 2) < TwoTo[n] /\ Bits(n, x \div 2, y \div 2) \in Nat
    BY <1>2, <2>1, BitsNatural
  <2>3. Bits(n + 1, x, y) = 2 * Bits(n, x \div 2, y \div 2) + ((x + y) % 2)
    BY BitsRecursion
  <2>4. TwoTo[n + 1] = 2 * TwoTo[n] /\ TwoTo[n] \in Nat
    BY TwoToProperties
  <2> QED
    BY <2>1, <2>2, <2>3, <2>4
<1> HIDE DEF P
<1>3. 0 \in U /\ \A n \in Nat : n \in U => n + 1 \in U
  BY <1>1, <1>2
<1> HIDE DEF U
<1>4. Nat \subseteq U
  BY <1>3, SetInduction
<1>5. \A n \in Nat : TwoTo[n] \in Nat
  BY TwoToProperties
<1> QED
  <2> TAKE n \in Nat
  <2> TAKE x \in Nat, y \in Nat
  <2>1. Bits(n, x, y) < TwoTo[n]
    BY <1>4 DEF U, P
  <2> QED
    BY <1>5, <2>1, BitsNatural

LEMMA BitsCommute ==
  \A n \in Nat : \A x, y \in Nat : Bits(n, x, y) = Bits(n, y, x)
<1> DEFINE P(n) == \A x, y \in Nat : Bits(n, x, y) = Bits(n, y, x)
           U == {n \in Nat : P(n)}
<1>1. P(0)
  BY BitsRecursion
<1>2. ASSUME NEW n \in Nat, P(n) PROVE P(n + 1)
  <2> TAKE x \in Nat, y \in Nat
  <2>1. x \div 2 \in Nat /\ y \div 2 \in Nat /\ x + y = y + x
    OBVIOUS
  <2>2. Bits(n, x \div 2, y \div 2) = Bits(n, y \div 2, x \div 2)
    BY <1>2, <2>1
  <2>3. /\ Bits(n + 1, x, y) = 2 * Bits(n, x \div 2, y \div 2) + ((x + y) % 2)
        /\ Bits(n + 1, y, x) = 2 * Bits(n, y \div 2, x \div 2) + ((y + x) % 2)
    BY BitsRecursion
  <2> QED
    BY <2>1, <2>2, <2>3
<1> HIDE DEF P
<1>3. 0 \in U /\ \A n \in Nat : n \in U => n + 1 \in U
  BY <1>1, <1>2
<1> HIDE DEF U
<1>4. Nat \subseteq U
  BY <1>3, SetInduction
<1> QED
  BY <1>4 DEF U, P

(***************************************************************************)
(* Numbers with the same k lowest bits                                     *)
(***************************************************************************)
Same(k, x, y) == \E d \in Int : x - y = d * TwoTo[k]

LEMMA SameZero ==
  ASSUME NEW x \in Nat, NEW y \in Nat
  PROVE  Same(0, x, y)
<1>1. x - y \in Int /\ x - y = (x - y) * 1
  OBVIOUS
<1> QED
  BY <1>1, TwoToProperties DEF Same

LEMMA SameReflexive ==
  ASSUME NEW k \in Nat, NEW x \in Nat
  PROVE  Same(k, x, x)
<1>1. x - x = 0 * TwoTo[k]
  BY TwoToProperties
<1> QED
  BY <1>1 DEF Same

LEMMA SameSymmetric ==
  ASSUME NEW k \in Nat, NEW x \in Nat, NEW y \in Nat, Same(k, x, y)
  PROVE  Same(k, y, x)
<1>1. PICK d \in Int : x - y = d * TwoTo[k]
  BY DEF Same
<1>2. -d \in Int /\ y - x = (-d) * TwoTo[k]
  BY <1>1, TwoToProperties
<1> QED
  BY <1>2, Zenon DEF Same

LEMMA SameTransitive ==
  ASSUME NEW k \in Nat, NEW x \in Nat, NEW y \in Nat, NEW z \in Nat,
         Same(k, x, y), Same(k, y, z)
  PROVE  Same(k, x, z)
<1>1. PICK d \in Int : x - y = d * TwoTo[k]
  BY DEF Same
<1>2. PICK e \in Int : y - z = e * TwoTo[k]
  BY DEF Same
<1>3. d + e \in Int /\ x - z = (d + e) * TwoTo[k]
  BY <1>1, <1>2, TwoToProperties
<1> QED
  BY <1>3, Zenon DEF Same

LEMMA SameFewer ==
  ASSUME NEW k \in Nat, NEW x \in Nat, NEW y \in Nat, Same(k + 1, x, y)
  PROVE  Same(k, x, y)
<1>1. PICK d \in Int : x - y = d * TwoTo[k + 1]
  BY DEF Same
<1>2. 2 * d \in Int /\ x - y = (2 * d) * TwoTo[k]
  BY <1>1, TwoToProperties
<1> QED
  BY <1>2, Zenon DEF Same

\* One bit is the parity, the others are those of the halves.
LEMMA SameHalves ==
  ASSUME NEW k \in Nat, NEW x \in Nat, NEW y \in Nat
  PROVE  Same(k + 1, x, y) <=> x % 2 = y % 2 /\ Same(k, x \div 2, y \div 2)
<1> DEFINE p == TwoTo[k]
<1>1. p \in Nat /\ TwoTo[k + 1] = 2 * p
  BY TwoToProperties
<1>2. /\ x \div 2 \in Nat /\ x % 2 \in 0 .. 1 /\ x = 2 * (x \div 2) + (x % 2)
      /\ y \div 2 \in Nat /\ y % 2 \in 0 .. 1 /\ y = 2 * (y \div 2) + (y % 2)
  OBVIOUS
<1>3. ASSUME Same(k + 1, x, y)
      PROVE  x % 2 = y % 2 /\ Same(k, x \div 2, y \div 2)
  <2>1. PICK d \in Int : x - y = d * (2 * p)
    BY <1>1, <1>3 DEF Same
  <2>2. PICK q \in Int : q = d * p /\ x - y = 2 * q
    BY <1>1, <2>1
  <2>3. x % 2 = y % 2 /\ (x \div 2) - (y \div 2) = q
    BY <1>2, <2>2
  <2> QED
    BY <2>2, <2>3 DEF Same
<1>4. ASSUME x % 2 = y % 2, Same(k, x \div 2, y \div 2)
      PROVE  Same(k + 1, x, y)
  <2>1. PICK d \in Int : (x \div 2) - (y \div 2) = d * p
    BY <1>4 DEF Same
  <2>2. x - y = d * (2 * p)
    BY <1>1, <1>2, <1>4, <2>1
  <2> QED
    BY <1>1, <2>2 DEF Same
<1> QED
  BY <1>3, <1>4

\* The lowest bits of an exclusive or are determined by the operands' lowest bits, ...
LEMMA BitsSame ==
  \A k \in Nat : \A n \in Nat : \A x, y, z, w \in Nat :
    Same(k, x, z) /\ Same(k, y, w) => Same(k, Bits(n, x, y), Bits(n, z, w))
<1> DEFINE P(k) == \A n \in Nat : \A x, y, z, w \in Nat :
             Same(k, x, z) /\ Same(k, y, w) => Same(k, Bits(n, x, y), Bits(n, z, w))
           U == {k \in Nat : P(k)}
<1>1. P(0)
  BY SameZero, BitsNatural
<1>2. ASSUME NEW k \in Nat, P(k) PROVE P(k + 1)
  <2> TAKE n \in Nat
  <2> TAKE x \in Nat, y \in Nat, z \in Nat, w \in Nat
  <2> HAVE Same(k + 1, x, z) /\ Same(k + 1, y, w)
  <2>1. CASE n = 0
    BY <2>1, BitsRecursion, SameReflexive
  <2>2. CASE n # 0
    <3> DEFINE m == n - 1
               A == Bits(m, x \div 2, y \div 2)
               B == Bits(m, z \div 2, w \div 2)
               X == Bits(n, x, y)
               Z == Bits(n, z, w)
    <3>1. m \in Nat /\ m + 1 = n
      BY <2>2
    <3>2. x % 2 = z % 2 /\ y % 2 = w % 2 /\ Same(k, x \div 2, z \div 2) /\ Same(k, y \div 2, w \div 2)
      BY SameHalves
    <3>3. /\ x \div 2 \in Nat /\ y \div 2 \in Nat /\ z \div 2 \in Nat /\ w \div 2 \in Nat
          /\ (x + y) % 2 \in 0 .. 1 /\ (z + w) % 2 = (x + y) % 2
      BY <3>2
    <3>4. Same(k, A, B) /\ A \in Nat /\ B \in Nat
      BY <1>2, <3>1, <3>2, <3>3, BitsNatural
    <3>5. X = 2 * A + ((x + y) % 2) /\ Z = 2 * B + ((z + w) % 2)
      <4>1. /\ Bits(m + 1, x, y) = 2 * A + ((x + y) % 2)
            /\ Bits(m + 1, z, w) = 2 * B + ((z + w) % 2)
        BY <3>1, BitsRecursion
      <4> QED
        BY <3>1, <4>1
    <3> HIDE DEF A, B, X, Z
    <3>6. /\ X \in Nat /\ Z \in Nat /\ X % 2 = Z % 2
          /\ X \div 2 = A /\ Z \div 2 = B
      BY <3>3, <3>4, <3>5
    <3>7. Same(k + 1, X, Z)
      BY <3>4, <3>6, SameHalves
    <3> QED
      BY <3>7 DEF X, Z
  <2> QED
    BY <2>1, <2>2
<1> HIDE DEF P
<1>3. 0 \in U /\ \A k \in Nat : k \in U => k + 1 \in U
  BY <1>1, <1>2
<1> HIDE DEF U
<1>4. Nat \subseteq U
  BY <1>3, SetInduction
<1> QED
  BY <1>4 DEF U, P

\* ... and with those of one operand they determine those of the other.
LEMMA BitsCancel ==
  \A k \in Nat : \A n \in Nat : \A x, y, z, w \in Nat :
    k <= n /\ Same(k, x, z) /\ Same(k, Bits(n, x, y), Bits(n, z, w)) => Same(k, y, w)
<1> DEFINE P(k) == \A n \in Nat : \A x, y, z, w \in Nat :
             k <= n /\ Same(k, x, z) /\ Same(k, Bits(n, x, y), Bits(n, z, w)) => Same(k, y, w)
           U == {k \in Nat : P(k)}
<1>1. P(0)
  BY SameZero
<1>2. ASSUME NEW k \in Nat, P(k) PROVE P(k + 1)
  <2> TAKE n \in Nat
  <2> TAKE x \in Nat, y \in Nat, z \in Nat, w \in Nat
  <2> HAVE k + 1 <= n /\ Same(k + 1, x, z) /\ Same(k + 1, Bits(n, x, y), Bits(n, z, w))
  <2> DEFINE m == n - 1
             A == Bits(m, x \div 2, y \div 2)
             B == Bits(m, z \div 2, w \div 2)
             X == Bits(n, x, y)
             Z == Bits(n, z, w)
  <2>1. m \in Nat /\ m + 1 = n /\ k <= m
    OBVIOUS
  <2>2. x % 2 = z % 2 /\ Same(k, x \div 2, z \div 2)
    BY SameHalves
  <2>3. /\ x \div 2 \in Nat /\ y \div 2 \in Nat /\ z \div 2 \in Nat /\ w \div 2 \in Nat
        /\ (x + y) % 2 \in 0 .. 1 /\ (z + w) % 2 \in 0 .. 1
    OBVIOUS
  <2>4. A \in Nat /\ B \in Nat
    BY <2>1, <2>3, BitsNatural
  <2>5. X = 2 * A + ((x + y) % 2) /\ Z = 2 * B + ((z + w) % 2)
    <3>1. /\ Bits(m + 1, x, y) = 2 * A + ((x + y) % 2)
          /\ Bits(m + 1, z, w) = 2 * B + ((z + w) % 2)
      BY <2>1, BitsRecursion
    <3> QED
      BY <2>1, <3>1
  <2>6. Same(k + 1, X, Z)
    OBVIOUS
  <2>7. Same(k, A, B) => Same(k, y \div 2, w \div 2)
    BY <1>2, <2>1, <2>2, <2>3
  <2> HIDE DEF A, B, X, Z
  <2>8. /\ X \in Nat /\ Z \in Nat
        /\ X % 2 = (x + y) % 2 /\ Z % 2 = (z + w) % 2 /\ X \div 2 = A /\ Z \div 2 = B
    BY <2>3, <2>4, <2>5
  <2>9. (x + y) % 2 = (z + w) % 2 /\ Same(k, A, B)
    BY <2>6, <2>8, SameHalves
  <2>10. y % 2 = w % 2
    BY <2>2, <2>9
  <2> QED
    BY <2>7, <2>9, <2>10, SameHalves
<1> HIDE DEF P
<1>3. 0 \in U /\ \A k \in Nat : k \in U => k + 1 \in U
  BY <1>1, <1>2
<1> HIDE DEF U
<1>4. Nat \subseteq U
  BY <1>3, SetInduction
<1> QED
  BY <1>4 DEF U, P

LEMMA SameDown ==
  ASSUME NEW n \in Nat, NEW x \in Nat, NEW y \in Nat, Same(n, x, y), NEW k \in 0 .. n
  PROVE  Same(k, x, y)
<1> DEFINE P(j) == j <= n => Same(n - j, x, y)
           U == {j \in Nat : P(j)}
<1>1. P(0)
  OBVIOUS
<1>2. ASSUME NEW j \in Nat, P(j) PROVE P(j + 1)
  <2> HAVE j + 1 <= n
  <2>1. n - (j + 1) \in Nat /\ (n - (j + 1)) + 1 = n - j
    OBVIOUS
  <2>2. Same((n - (j + 1)) + 1, x, y)
    BY <1>2, <2>1
  <2> QED
    BY <2>1, <2>2, SameFewer
<1> HIDE DEF P
<1>3. 0 \in U /\ \A j \in Nat : j \in U => j + 1 \in U
  BY <1>1, <1>2
<1> HIDE DEF U
<1>4. Nat \subseteq U
  BY <1>3, SetInduction
<1>5. n - k \in Nat /\ n - k <= n /\ n - (n - k) = k
  OBVIOUS
<1>6. P(n - k)
  BY <1>4, <1>5 DEF U
<1> QED
  BY <1>5, <1>6 DEF P

\* Reducing a number to a word leaves its bits.
LEMMA SameModulo ==
  ASSUME NEW n \in Nat, NEW k \in 0 .. n, NEW x \in Nat
  PROVE  /\ x % TwoTo[n] \in 0 .. TwoTo[n] - 1
         /\ Same(k, x % TwoTo[n], x)
<1> DEFINE p == TwoTo[n]
<1>1. p \in Nat \ {0}
  BY TwoToProperties
<1> HIDE DEF p
<1>2. /\ x \div p \in Int /\ x % p \in 0 .. p - 1
      /\ x = p * (x \div p) + (x % p)
  BY <1>1
<1>3. -(x \div p) \in Int /\ (x % p) - x = (-(x \div p)) * p
  BY <1>1, <1>2
<1>4. Same(n, x % p, x)
  BY <1>3, Zenon DEF Same, p
<1>5. x % p \in Nat
  BY <1>1, <1>2
<1> QED
  BY <1>2, <1>4, <1>5, SameDown DEF p

\* Shifting to the left makes room for bits that are the same in any case.
LEMMA SameShift ==
  ASSUME NEW k \in Nat, NEW x \in Nat, NEW y \in Nat, NEW n \in Nat \ {0}, Same(k, x, y)
  PROVE  Same(k + 1, x * TwoTo[n], y * TwoTo[n])
<1>1. PICK d \in Int : x - y = d * TwoTo[k]
  BY DEF Same
<1> DEFINE p == TwoTo[k]
           q == TwoTo[n - 1]
<1>2. p \in Nat /\ q \in Nat /\ TwoTo[k + 1] = 2 * p /\ TwoTo[n] = 2 * q
  <2>1. n - 1 \in Nat /\ (n - 1) + 1 = n
    OBVIOUS
  <2> QED
    BY <2>1, TwoToProperties
<1> HIDE DEF p, q
<1>3. x - y = d * p
  BY <1>1 DEF p
<1>4. x * (2 * q) - y * (2 * q) = (d * q) * (2 * p)
  <2>1. x * (2 * q) - y * (2 * q) = (x - y) * (2 * q)
    BY <1>2
  <2>2. (d * p) * (2 * q) = (d * q) * (2 * p)
    BY <1>2
  <2> QED
    BY <1>3, <2>1, <2>2
<1>5. d * q \in Int /\ x * TwoTo[n] - y * TwoTo[n] = (d * q) * TwoTo[k + 1]
  BY <1>2, <1>4
<1> QED
  BY <1>5, Zenon DEF Same

\* Multiplying by an odd number loses no bit.
LEMMA SameOddMultiple ==
  ASSUME NEW k \in Nat, NEW x \in Nat, NEW y \in Nat, Same(k, x, y),
         Same(k + 1, x * Multiplier, y * Multiplier)
  PROVE  Same(k + 1, x, y)
<1> DEFINE p == TwoTo[k]
           M == Multiplier
<1>1. p \in Nat \ {0} /\ TwoTo[k + 1] = 2 * p
  BY TwoToProperties
<1>2. PICK m \in Nat : M = 2 * m + 1
  <2>1. M \div 2 \in Nat /\ M = 2 * (M \div 2) + 1
    BY IdAssumption
  <2> QED
    BY <2>1
<1>3. PICK d \in Int : x - y = d * p
  BY DEF Same
<1>4. PICK e \in Int : x * M - y * M = e * (2 * p)
  BY <1>1 DEF Same
<1>5. M \in Nat
  BY IdAssumption
<1> HIDE DEF p, M
<1>6. (d * M) * p = (2 * e) * p
  <2>1. x * M - y * M = (x - y) * M
    BY <1>5
  <2>2. (d * p) * M = (d * M) * p
    BY <1>1, <1>5
  <2>3. e * (2 * p) = (2 * e) * p
    BY <1>1
  <2> QED
    BY <1>3, <1>4, <2>1, <2>2, <2>3
<1>7. d * M = 2 * e
  <2>1. \A a, b \in Int : a * p = b * p => a = b
    BY <1>1
  <2>2. d * M \in Int /\ 2 * e \in Int
    BY <1>5
  <2> QED
    BY <1>6, <2>1, <2>2
<1>8. PICK c \in Int : d = 2 * c
  <2>1. d * M = 2 * (d * m) + d
    BY <1>2
  <2>2. d * m \in Int
    OBVIOUS
  <2>3. d = 2 * (e - d * m) /\ e - d * m \in Int
    BY <1>7, <2>1, <2>2
  <2> QED
    BY <2>3
<1>9. x - y = c * (2 * p)
  BY <1>1, <1>3, <1>8
<1> QED
  BY <1>1, <1>9 DEF Same, p

\* Two words with all their bits the same are one.
LEMMA SameWord ==
  ASSUME NEW x \in Word, NEW y \in Word, Same(Width, x, y)
  PROVE  x = y
<1> DEFINE p == TwoTo[Width]
<1>1. p \in Nat \ {0}
  BY TwoToProperties, IdAssumption
<1>2. PICK d \in Int : x - y = d * p
  BY DEF Same
<1>3. x \in 0 .. p - 1 /\ y \in 0 .. p - 1
  BY DEF Word
<1> HIDE DEF p
<1>4. \A c \in Int : c >= 1 => c * p >= p
  BY <1>1
<1>5. \A c \in Int : c <= -1 => c * p <= -p
  BY <1>1
<1>6. d = 0
  BY <1>1, <1>2, <1>3, <1>4, <1>5
<1> QED
  BY <1>1, <1>2, <1>3, <1>6

(***************************************************************************)
(* Ids                                                                     *)
(***************************************************************************)
LEMMA WordIsNatural ==
  Width \in Nat /\ Word \subseteq Nat
<1>1. Width \in Nat /\ TwoTo[Width] \in Nat
  BY IdAssumption, TwoToProperties
<1> QED
  BY <1>1 DEF Word

LEMMA HalvesAreWords ==
  ASSUME NEW ns \in Word, NEW counter \in Word
  PROVE  /\ ShiftLeft(ns, ShiftHi) \in Nat /\ ShiftLeft(counter, ShiftLo) \in Nat
         /\ (ns * Multiplier) % TwoTo[Width] \in Nat
         /\ Hi(ns, counter) = Bits(Width, ShiftLeft(ns, ShiftHi), counter)
         /\ Lo(ns, counter) = Bits(Width, (ns * Multiplier) % TwoTo[Width],
                                   ShiftLeft(counter, ShiftLo))
         /\ Hi(ns, counter) \in Word /\ Lo(ns, counter) \in Word
<1>1. ns \in Nat /\ counter \in Nat /\ Width \in Nat
  BY WordIsNatural
<1>2. Multiplier \in Nat /\ TwoTo[ShiftHi] \in Nat /\ TwoTo[ShiftLo] \in Nat
  BY IdAssumption, TwoToProperties
<1>3. ns * TwoTo[ShiftHi] \in Nat /\ counter * TwoTo[ShiftLo] \in Nat /\ ns * Multiplier \in Nat
  BY <1>1, <1>2
<1>4. /\ ShiftLeft(ns, ShiftHi) \in Nat /\ ShiftLeft(counter, ShiftLo) \in Nat
      /\ (ns * Multiplier) % TwoTo[Width] \in Nat
  <2>1. \A x \in Nat : x % TwoTo[Width] \in Nat
    BY <1>1, TwoToProperties
  <2> QED
    BY <1>3, <2>1 DEF ShiftLeft
<1>5. /\ Hi(ns, counter) = Bits(Width, ShiftLeft(ns, ShiftHi), counter)
      /\ Lo(ns, counter) = Bits(Width, (ns * Multiplier) % TwoTo[Width],
                                ShiftLeft(counter, ShiftLo))
  BY DEF Hi, Lo, Bits, ^^
<1> HIDE DEF Hi
<1>6. Hi(ns, counter) \in Word /\ Lo(ns, counter) \in Word
  BY <1>1, <1>4, <1>5, BitsBounded DEF Word
<1> QED
  BY <1>4, <1>5, <1>6

\* Ids are words, and a trace id is two of them.
THEOREM IdsAreWords ==
  ASSUME NEW ns \in Word, NEW counter \in Word
  PROVE  TraceId(ns, counter) \in Word \X Word /\ SpanId(ns, counter) \in Word
<1>1. Hi(ns, counter) \in Word /\ Lo(ns, counter) \in Word
  BY HalvesAreWords
<1>2. Hi(ns, counter) \in Nat /\ Lo(ns, counter) \in Nat /\ Width \in Nat
  BY <1>1, WordIsNatural
<1>3. SpanId(ns, counter) = Bits(Width, Hi(ns, counter), Lo(ns, counter))
  BY DEF SpanId, Bits, ^^
<1> QED
  BY <1>1, <1>2, <1>3, BitsBounded DEF TraceId, Word

LEMMA SameShiftedWord ==
  ASSUME NEW k \in Nat, k + 1 <= Width, NEW x \in Word, NEW y \in Word, NEW n \in Nat \ {0},
         Same(k, x, y)
  PROVE  Same(k + 1, ShiftLeft(x, n), ShiftLeft(y, n))
<1> DEFINE u == x * TwoTo[n]
           v == y * TwoTo[n]
<1>1. x \in Nat /\ y \in Nat /\ Width \in Nat /\ k + 1 \in 0 .. Width
  BY WordIsNatural
<1>2. u \in Nat /\ v \in Nat
  BY <1>1, TwoToProperties
<1>3. Same(k + 1, u, v)
  BY <1>1, SameShift
<1> HIDE DEF u, v
<1>4. /\ Same(k + 1, u % TwoTo[Width], u) /\ u % TwoTo[Width] \in Nat
      /\ Same(k + 1, v % TwoTo[Width], v) /\ v % TwoTo[Width] \in Nat
  <2>1. TwoTo[Width] \in Nat
    BY <1>1, TwoToProperties
  <2>2. Same(k + 1, u % TwoTo[Width], u) /\ u % TwoTo[Width] \in 0 .. TwoTo[Width] - 1
    BY <1>1, <1>2, SameModulo
  <2>3. Same(k + 1, v % TwoTo[Width], v) /\ v % TwoTo[Width] \in 0 .. TwoTo[Width] - 1
    BY <1>1, <1>2, SameModulo
  <2> QED
    BY <2>1, <2>2, <2>3
<1>5. Same(k + 1, v, v % TwoTo[Width])
  BY <1>1, <1>2, <1>4, SameSymmetric
<1>6. k + 1 \in Nat
  OBVIOUS
<1>7. Same(k + 1, u % TwoTo[Width], v)
  BY <1>2, <1>3, <1>4, <1>6, SameTransitive
<1>8. Same(k + 1, u % TwoTo[Width], v % TwoTo[Width])
  BY <1>2, <1>4, <1>5, <1>6, <1>7, SameTransitive
<1> QED
  BY <1>8 DEF ShiftLeft, u, v

\* Nor does multiplying a word by the odd number.
LEMMA SameMultipliedWord ==
  ASSUME NEW k \in Nat, k + 1 <= Width, NEW a \in Word, NEW b \in Word, Same(k, a, b),
         Same(k + 1, (a * Multiplier) % TwoTo[Width], (b * Multiplier) % TwoTo[Width])
  PROVE  Same(k + 1, a, b)
<1> DEFINE u == a * Multiplier
           v == b * Multiplier
           x == u % TwoTo[Width]
           y == v % TwoTo[Width]
<1>1. /\ a \in Nat /\ b \in Nat /\ Width \in Nat /\ k + 1 \in Nat /\ k + 1 \in 0 .. Width
      /\ TwoTo[Width] \in Nat
  BY WordIsNatural, TwoToProperties
<1>2. u \in Nat /\ v \in Nat
  BY <1>1, IdAssumption
<1> HIDE DEF u, v
<1>3. Same(k + 1, x, u) /\ Same(k + 1, y, v) /\ x \in Nat /\ y \in Nat
  <2>1. /\ x \in 0 .. TwoTo[Width] - 1 /\ Same(k + 1, x, u)
        /\ y \in 0 .. TwoTo[Width] - 1 /\ Same(k + 1, y, v)
    BY <1>1, <1>2, SameModulo
  <2> QED
    BY <1>1, <2>1
<1>4. Same(k + 1, x, y)
  BY DEF u, v
<1> HIDE DEF x, y
<1>5. Same(k + 1, u, x)
  BY <1>1, <1>2, <1>3, SameSymmetric
<1>6. Same(k + 1, u, y)
  BY <1>1, <1>2, <1>3, <1>4, <1>5, SameTransitive
<1>7. Same(k + 1, u, v)
  BY <1>1, <1>2, <1>3, <1>6, SameTransitive
<1> QED
  BY <1>1, <1>7, SameOddMultiple DEF u, v

\* A trace id is that of one reading of the clock and one value of the counter only.
THEOREM TraceIdsDiffer ==
  ASSUME NEW a \in Word, NEW c \in Word, NEW b \in Word, NEW d \in Word,
         TraceId(a, c) = TraceId(b, d)
  PROVE  a = b /\ c = d
<1> DEFINE P(k) == k <= Width => Same(k, a, b) /\ Same(k, c, d)
           U == {k \in Nat : P(k)}
           SH(x) == ShiftLeft(x, ShiftHi)
           SL(x) == ShiftLeft(x, ShiftLo)
           M(x) == (x * Multiplier) % TwoTo[Width]
<1>1. a \in Nat /\ b \in Nat /\ c \in Nat /\ d \in Nat /\ Width \in Nat
  BY WordIsNatural
<1>2. Bits(Width, SH(a), c) = Bits(Width, SH(b), d)
  BY HalvesAreWords DEF TraceId
<1>3. Bits(Width, M(a), SL(c)) = Bits(Width, M(b), SL(d))
  BY HalvesAreWords DEF TraceId
<1>4. /\ SH(a) \in Nat /\ SH(b) \in Nat /\ SL(c) \in Nat /\ SL(d) \in Nat
      /\ M(a) \in Nat /\ M(b) \in Nat
  BY HalvesAreWords
<1>5. P(0)
  BY <1>1, SameZero
<1>6. ASSUME NEW k \in Nat, P(k) PROVE P(k + 1)
  <2> HAVE k + 1 <= Width
  <2>1. Same(k, a, b) /\ Same(k, c, d) /\ k + 1 \in Nat /\ k + 1 \in 0 .. Width
    BY <1>1, <1>6
  <2>2. Same(k + 1, SH(a), SH(b)) /\ Same(k + 1, SL(c), SL(d))
    BY <2>1, SameShiftedWord, IdAssumption
  <2> HIDE DEF SH, SL
  <2>3. Same(k + 1, c, d)
    <3>1. Same(k + 1, Bits(Width, SH(a), c), Bits(Width, SH(b), d))
      BY <1>1, <1>2, <1>4, <2>1, BitsNatural, SameReflexive
    <3> QED
      BY <1>1, <1>4, <2>1, <2>2, <3>1, BitsCancel
  <2>4. Same(k + 1, M(a), M(b))
    <3> HIDE DEF M
    <3>1. Bits(Width, SL(c), M(a)) = Bits(Width, SL(d), M(b))
      BY <1>1, <1>3, <1>4, BitsCommute
    <3>2. Same(k + 1, Bits(Width, SL(c), M(a)), Bits(Width, SL(d), M(b)))
      BY <1>1, <1>4, <2>1, <3>1, BitsNatural, SameReflexive
    <3> QED
      BY <1>1, <1>4, <2>1, <2>2, <3>2, BitsCancel
  <2>5. Same(k + 1, a, b)
    BY <2>1, <2>4, SameMultipliedWord
  <2> QED
    BY <2>3, <2>5
<1> HIDE DEF P
<1>7. 0 \in U /\ \A k \in Nat : k \in U => k + 1 \in U
  BY <1>5, <1>6
<1> HIDE DEF U
<1>8. Nat \subseteq U
  BY <1>7, SetInduction
<1>9. Same(Width, a, b) /\ Same(Width, c, d)
  BY <1>1, <1>8 DEF U, P
<1> QED
  BY <1>9, SameWord

\* Within one reading of the clock a span id is that of one value of the counter only.
THEOREM SpanIdsDiffer ==
  ASSUME NEW ns \in Word, NEW c \in Word, NEW d \in Word, SpanId(ns, c) = SpanId(ns, d)
  PROVE  c = d
<1> DEFINE P(k) == k <= Width => Same(k, c, d)
           U == {k \in Nat : P(k)}
           S == ShiftLeft(ns, ShiftHi)
           SL(x) == ShiftLeft(x, ShiftLo)
           M == (ns * Multiplier) % TwoTo[Width]
           HiOf(x) == Bits(Width, S, x)
           LoOf(x) == Bits(Width, M, SL(x))
<1>1. c \in Nat /\ d \in Nat /\ Width \in Nat
  BY WordIsNatural
<1>2. Bits(Width, HiOf(c), LoOf(c)) = Bits(Width, HiOf(d), LoOf(d))
  <2>1. /\ SpanId(ns, c) = Bits(Width, Hi(ns, c), Lo(ns, c))
        /\ SpanId(ns, d) = Bits(Width, Hi(ns, d), Lo(ns, d))
    BY DEF SpanId, Bits, ^^
  <2>2. Hi(ns, c) = HiOf(c) /\ Lo(ns, c) = LoOf(c) /\ Hi(ns, d) = HiOf(d) /\ Lo(ns, d) = LoOf(d)
    BY HalvesAreWords
  <2> QED
    BY <2>1, <2>2
<1>3. S \in Nat /\ M \in Nat /\ SL(c) \in Nat /\ SL(d) \in Nat
  BY HalvesAreWords
<1>4. P(0)
  BY <1>1, SameZero
<1>5. ASSUME NEW k \in Nat, P(k) PROVE P(k + 1)
  <2> HAVE k + 1 <= Width
  <2>1. Same(k, c, d) /\ k + 1 \in Nat
    BY <1>1, <1>5
  <2>2. Same(k + 1, SL(c), SL(d))
    BY <2>1, SameShiftedWord, IdAssumption
  <2> HIDE DEF S, M, SL
  <2>3. HiOf(c) \in Nat /\ HiOf(d) \in Nat /\ LoOf(c) \in Nat /\ LoOf(d) \in Nat
    BY <1>1, <1>3, BitsNatural
  <2>4. Same(k + 1, S, S) /\ Same(k + 1, M, M)
    BY <1>3, <2>1, SameReflexive
  <2>5. Same(k + 1, LoOf(c), LoOf(d))
    BY <1>1, <1>3, <2>1, <2>2, <2>4, BitsSame
  <2>6. Same(k + 1, HiOf(c), HiOf(d))
    <3> HIDE DEF HiOf, LoOf
    <3>1. Bits(Width, LoOf(c), HiOf(c)) = Bits(Width, LoOf(d), HiOf(d))
      BY <1>1, <1>2, <2>3, BitsCommute
    <3>2. Same(k + 1, Bits(Width, LoOf(c), HiOf(c)), Bits(Width, LoOf(d), HiOf(d)))
      BY <1>1, <2>1, <2>3, <3>1, BitsNatural, SameReflexive
    <3> QED
      BY <1>1, <2>1, <2>3, <2>5, <3>2, BitsCancel
  <2> QED
    BY <1>1, <1>3, <2>1, <2>4, <2>6, BitsCancel
<1> HIDE DEF P
<1>6. 0 \in U /\ \A k \in Nat : k \in U => k + 1 \in U
  BY <1>4, <1>5
<1> HIDE DEF U
<1>7. Nat \subseteq U
  BY <1>6, SetInduction
<1>8. Same(Width, c, d)
  BY <1>1, <1>7 DEF U, P
<1> QED
  BY <1>8, SameWord

\* With one value of the counter, as in a child that inherits it from its parent, a span id is
\* that of one reading of the clock only.
THEOREM SpanIdsDifferByClock ==
  ASSUME NEW a \in Word, NEW b \in Word, NEW c \in Word, SpanId(a, c) = SpanId(b, c)
  PROVE  a = b
<1> DEFINE P(k) == k <= Width => Same(k, a, b)
           U == {k \in Nat : P(k)}
           S == ShiftLeft(c, ShiftLo)
           SH(x) == ShiftLeft(x, ShiftHi)
           M(x) == (x * Multiplier) % TwoTo[Width]
           HiOf(x) == Bits(Width, SH(x), c)
           LoOf(x) == Bits(Width, M(x), S)
<1>1. a \in Nat /\ b \in Nat /\ c \in Nat /\ Width \in Nat
  BY WordIsNatural
<1>2. Bits(Width, HiOf(a), LoOf(a)) = Bits(Width, HiOf(b), LoOf(b))
  <2>1. /\ SpanId(a, c) = Bits(Width, Hi(a, c), Lo(a, c))
        /\ SpanId(b, c) = Bits(Width, Hi(b, c), Lo(b, c))
    BY DEF SpanId, Bits, ^^
  <2>2. Hi(a, c) = HiOf(a) /\ Lo(a, c) = LoOf(a) /\ Hi(b, c) = HiOf(b) /\ Lo(b, c) = LoOf(b)
    BY HalvesAreWords
  <2> QED
    BY <2>1, <2>2
<1>3. S \in Nat /\ SH(a) \in Nat /\ SH(b) \in Nat /\ M(a) \in Nat /\ M(b) \in Nat
  BY HalvesAreWords
<1>4. P(0)
  BY <1>1, SameZero
<1>5. ASSUME NEW k \in Nat, P(k) PROVE P(k + 1)
  <2> HAVE k + 1 <= Width
  <2>1. Same(k, a, b) /\ k + 1 \in Nat
    BY <1>1, <1>5
  <2>2. Same(k + 1, SH(a), SH(b))
    BY <2>1, SameShiftedWord, IdAssumption
  <2> HIDE DEF S, SH
  <2>3. Same(k + 1, c, c) /\ Same(k + 1, S, S)
    BY <1>1, <1>3, <2>1, SameReflexive
  <2>4. Same(k + 1, M(a), M(b))
    <3> HIDE DEF M
    <3>1. HiOf(a) \in Nat /\ HiOf(b) \in Nat /\ LoOf(a) \in Nat /\ LoOf(b) \in Nat
      BY <1>1, <1>3, BitsNatural
    <3>2. Same(k + 1, HiOf(a), HiOf(b))
      BY <1>1, <1>3, <2>1, <2>2, <2>3, BitsSame
    <3>3. LoOf(a) = Bits(Width, S, M(a)) /\ LoOf(b) = Bits(Width, S, M(b))
      BY <1>1, <1>3, BitsCommute
    <3>4. Same(k + 1, LoOf(a), LoOf(b))
      <4> HIDE DEF HiOf, LoOf
      <4>1. Same(k + 1, Bits(Width, HiOf(a), LoOf(a)), Bits(Width, HiOf(b), LoOf(b)))
        BY <1>1, <1>2, <2>1, <3>1, BitsNatural, SameReflexive
      <4> QED
        BY <1>1, <2>1, <3>1, <3>2, <4>1, BitsCancel
    <3>5. Same(k + 1, Bits(Width, S, M(a)), Bits(Width, S, M(b)))
      <4> HIDE DEF LoOf
      <4> QED
        BY <3>3, <3>4
    <3> QED
      BY <1>1, <1>3, <2>1, <2>3, <3>5, BitsCancel
  <2>5. Same(k + 1, a, b)
    BY <2>1, <2>4, SameMultipliedWord
  <2> QED
    BY <2>5
<1> HIDE DEF P
<1>6. 0 \in U /\ \A k \in Nat : k \in U => k + 1 \in U
  BY <1>4, <1>5
<1> HIDE DEF U
<1>7. Nat \subseteq U
  BY <1>6, SetInduction
<1>8. Same(Width, a, b)
  BY <1>1, <1>7 DEF U, P
<1> QED
  BY <1>8, SameWord
=============================================================================
