------------------------------ MODULE Induction ------------------------------
(***************************************************************************)
(* Induction and recursion over the naturals, in the form in which the     *)
(* other proofs cite them, and what they give for the powers of two.       *)
(***************************************************************************)
EXTENDS Binary, WellFoundedInduction, TLAPS

(* A set that has 0 and with every number the next has all of them.        *)
LEMMA SetInduction ==
  ASSUME NEW S \in SUBSET Nat, 0 \in S, \A n \in S : n + 1 \in S
  PROVE  S = Nat
<1> DEFINE T == Nat \ S
           R == OpToRel(<, Nat)
<1>1. SUFFICES ASSUME T # {} PROVE FALSE
  OBVIOUS
<1>2. \A x, y \in Nat : x < y => <<x, y>> \in R
  BY DEF OpToRel
<1>3. IsWellFoundedOn(R, Nat)
  BY NatLessThanWellFounded, Zenon
<1> HIDE DEF R
<1>4. PICK x \in T : \A y \in T : ~(<<y, x>> \in R)
  <2>1. T \subseteq Nat
    OBVIOUS
  <2> QED BY <1>1, <1>3, <2>1, WFMin
<1>5. x \in Nat /\ x # 0
  OBVIOUS
<1>6. x - 1 \in Nat /\ x - 1 < x
  BY <1>5
<1>7. x - 1 \in S
  BY <1>2, <1>4, <1>5, <1>6
<1>8. (x - 1) + 1 \in S
  BY <1>7
<1> QED BY <1>4, <1>5, <1>8

(***************************************************************************)
(* Recursion.  H says what the value at d is, from the values at elements  *)
(* of lower rank: H[<<d, f>>] looks at no other value of f.  Then there is *)
(* a function that satisfies its equation.                                 *)
(***************************************************************************)
IsRecursion(H, D, V, rank) ==
  /\ rank \in [D -> Nat]
  /\ H \in [D \X [D -> V] -> V]
  /\ \A d \in D : \A f, g \in [D -> V] :
        (\A e \in D : rank[e] < rank[d] => f[e] = g[e]) => H[<<d, f>>] = H[<<d, g>>]

(* The functions that satisfy the equation below rank k.                   *)
Below(H, D, V, rank, k) ==
  {f \in [D -> V] : \A d \in D : rank[d] < k => f[d] = H[<<d, f>>]}

LEMMA RecursionUpto ==
  ASSUME NEW D, NEW V, NEW v \in V, NEW rank, NEW H, IsRecursion(H, D, V, rank),
         NEW k \in Nat
  PROVE  Below(H, D, V, rank, k) # {}
<1>0. rank \in [D -> Nat] /\ H \in [D \X [D -> V] -> V]
  BY DEF IsRecursion
<1> USE <1>0
<1> DEFINE S == {j \in Nat : Below(H, D, V, rank, j) # {}}
<1>1. 0 \in S
  <2>1. [d \in D |-> v] \in Below(H, D, V, rank, 0)
    BY DEF Below
  <2> QED BY <2>1
<1>2. ASSUME NEW j \in S PROVE j + 1 \in S
  <2>0. j \in Nat
    OBVIOUS
  <2>1. PICK f : f \in Below(H, D, V, rank, j)
    OBVIOUS
  <2>2. f \in [D -> V] /\ \A d \in D : rank[d] < j => f[d] = H[<<d, f>>]
    BY <2>1 DEF Below
  <2> DEFINE g == [d \in D |-> IF rank[d] = j THEN H[<<d, f>>] ELSE f[d]]
  <2>3. \A d \in D : H[<<d, f>>] \in V
    <3> TAKE d \in D
    <3>1. <<d, f>> \in D \X [D -> V]
      BY <2>2
    <3> QED BY <3>1
  <2>4. g \in [D -> V] /\ \A d \in D : g[d] = IF rank[d] = j THEN H[<<d, f>>] ELSE f[d]
    BY <2>2, <2>3
  <2> HIDE DEF g
  <2>5. ASSUME NEW d \in D, rank[d] < j + 1
        PROVE  g[d] = H[<<d, g>>]
    <3>1. rank[d] \in Nat
      OBVIOUS
    <3>2. ASSUME NEW e \in D, rank[e] < rank[d] PROVE f[e] = g[e]
      <4>1. rank[e] \in Nat
        OBVIOUS
      <4>2. rank[e] # j
        BY <2>0, <2>5, <3>1, <3>2, <4>1
      <4> QED BY <2>4, <4>2
    <3>3. H[<<d, g>>] = H[<<d, f>>]
      BY <2>2, <2>4, <3>2 DEF IsRecursion
    <3>4. CASE rank[d] = j
      BY <2>4, <3>3, <3>4
    <3>5. CASE rank[d] # j
      <4>1. rank[d] < j
        BY <2>0, <2>5, <3>1, <3>5
      <4> QED BY <2>2, <2>4, <3>3, <3>5, <4>1
    <3> QED BY <3>4, <3>5
  <2>6. g \in Below(H, D, V, rank, j + 1)
    BY <2>4, <2>5 DEF Below
  <2> QED BY <2>0, <2>6
<1>3. S = Nat
  <2>1. S \in SUBSET Nat
    OBVIOUS
  <2> HIDE DEF S
  <2> QED BY <1>1, <1>2, <2>1, SetInduction
<1> QED BY <1>3

LEMMA RecursionUnique ==
  ASSUME NEW D, NEW V, NEW rank, NEW H, IsRecursion(H, D, V, rank),
         NEW k \in Nat, NEW f \in Below(H, D, V, rank, k), NEW g \in Below(H, D, V, rank, k),
         NEW d \in D, rank[d] < k
  PROVE  f[d] = g[d]
<1> DEFINE S == {j \in Nat : \A e \in D : rank[e] < j /\ rank[e] < k => f[e] = g[e]}
<1>0. /\ f \in [D -> V] /\ \A e \in D : rank[e] < k => f[e] = H[<<e, f>>]
      /\ g \in [D -> V] /\ \A e \in D : rank[e] < k => g[e] = H[<<e, g>>]
      /\ rank \in [D -> Nat]
  BY DEF Below, IsRecursion
<1> USE <1>0
<1>1. 0 \in S
  OBVIOUS
<1>2. ASSUME NEW j \in S PROVE j + 1 \in S
  <2> SUFFICES ASSUME NEW e \in D, rank[e] < j + 1, rank[e] < k PROVE f[e] = g[e]
    OBVIOUS
  <2>1. j \in Nat /\ rank[e] \in Nat
    OBVIOUS
  <2>2. ASSUME NEW c \in D, rank[c] < rank[e] PROVE f[c] = g[c]
    <3>1. rank[c] \in Nat
      OBVIOUS
    <3>2. rank[c] < j /\ rank[c] < k
      BY <2>1, <2>2, <3>1
    <3> QED BY <3>2
  <2>3. H[<<e, f>>] = H[<<e, g>>]
    BY <1>0, <2>2 DEF IsRecursion
  <2> QED BY <1>0, <2>3
<1>3. S = Nat
  <2>1. S \in SUBSET Nat
    OBVIOUS
  <2> HIDE DEF S
  <2> QED BY <1>1, <1>2, <2>1, SetInduction
<1>4. k \in S
  BY <1>3
<1> QED BY <1>4

LEMMA RecursionExists ==
  ASSUME NEW D, NEW V, NEW rank, NEW H, V # {}, IsRecursion(H, D, V, rank)
  PROVE  \E f \in [D -> V] : \A d \in D : f[d] = H[<<d, f>>]
<1> DEFINE B(k) == Below(H, D, V, rank, k)
           c == [k \in Nat |-> CHOOSE f : f \in B(k)]
<1>0. rank \in [D -> Nat]
  BY DEF IsRecursion
<1> USE <1>0
<1>1. \A k \in Nat : c[k] \in B(k)
  <2> TAKE k \in Nat
  <2>1. \E f : f \in B(k)
    <3>1. B(k) # {}
      <4>1. PICK v : v \in V
        OBVIOUS
      <4> QED BY <4>1, RecursionUpto
    <3> QED BY <3>1
  <2>2. c[k] = CHOOSE f : f \in B(k)
    OBVIOUS
  <2> QED BY <2>1, <2>2, Zenon
<1>2. ASSUME NEW j \in Nat, NEW k \in Nat, j <= k PROVE B(k) \subseteq B(j)
  <2>1. \A d \in D : rank[d] < j => rank[d] < k
    BY <1>2
  <2> QED BY <2>1 DEF Below
<1> DEFINE F == [d \in D |-> c[rank[d] + 1][d]]
<1>3. \A k \in Nat : c[k] \in [D -> V] /\ \A d \in D : rank[d] < k => c[k][d] = H[<<d, c[k]>>]
  BY <1>1 DEF Below
<1> HIDE DEF c, B
<1>4. F \in [D -> V] /\ \A d \in D : F[d] = c[rank[d] + 1][d]
  <2>1. ASSUME NEW d \in D PROVE c[rank[d] + 1][d] \in V
    <3>1. rank[d] + 1 \in Nat
      OBVIOUS
    <3>2. c[rank[d] + 1] \in [D -> V]
      BY <1>3, <3>1
    <3> QED BY <3>2
  <2> QED BY <2>1
<1> HIDE DEF F
<1>5. ASSUME NEW d \in D PROVE F[d] = H[<<d, F>>]
  <2> DEFINE k == rank[d] + 1
             g == c[k]
  <2>1. k \in Nat /\ rank[d] < k /\ rank[d] \in Nat /\ k = rank[d] + 1
    OBVIOUS
  <2>2. g \in [D -> V] /\ g[d] = H[<<d, g>>] /\ F[d] = g[d] /\ g \in B(k)
    BY <1>1, <1>3, <1>4, <2>1
  <2> HIDE DEF g, k
  <2>3. ASSUME NEW e \in D, rank[e] < rank[d] PROVE F[e] = g[e]
    <3> DEFINE j == rank[e] + 1
    <3>1. j \in Nat /\ rank[e] \in Nat /\ rank[e] < j /\ j <= k
      BY <2>1, <2>3
    <3>2. F[e] = c[j][e] /\ c[j] \in B(j)
      BY <1>1, <1>4, <3>1
    <3> HIDE DEF j
    <3>3. g \in B(j)
      BY <1>2, <2>1, <2>2, <3>1
    <3>4. c[j] \in Below(H, D, V, rank, j) /\ g \in Below(H, D, V, rank, j)
      BY <3>2, <3>3 DEF B
    <3>5. c[j][e] = g[e]
      BY <3>1, <3>4, RecursionUnique
    <3> QED BY <3>2, <3>5
  <2>4. H[<<d, F>>] = H[<<d, g>>]
    BY <1>4, <2>2, <2>3 DEF IsRecursion
  <2> QED BY <2>2, <2>4
<1> QED BY <1>4, <1>5

-----------------------------------------------------------------------------
(* Powers of two                                                           *)

LEMMA Pow2Defined ==
  Pow2 = [n \in Nat |-> IF n = 0 THEN 1 ELSE 2 * Pow2[n - 1]]
<1> DEFINE Eq(f) == f = [n \in Nat |-> IF n = 0 THEN 1 ELSE 2 * f[n - 1]]
           H == [p \in Nat \X [Nat -> Nat] |-> IF p[1] = 0 THEN 1 ELSE 2 * p[2][p[1] - 1]]
           rank == [n \in Nat |-> n]
<1>1. H \in [Nat \X [Nat -> Nat] -> Nat]
  <2> SUFFICES ASSUME NEW n \in Nat, NEW f \in [Nat -> Nat]
               PROVE  (IF n = 0 THEN 1 ELSE 2 * f[n - 1]) \in Nat
    OBVIOUS
  <2>1. CASE n = 0
    BY <2>1
  <2>2. CASE n # 0
    <3>1. n - 1 \in Nat
      BY <2>2
    <3>2. f[n - 1] \in Nat
      BY <3>1
    <3> QED BY <2>2, <3>2
  <2> QED BY <2>1, <2>2
<1>2. \A n \in Nat, f \in [Nat -> Nat] :
         H[<<n, f>>] = IF n = 0 THEN 1 ELSE 2 * f[n - 1]
  OBVIOUS
<1>3. \A n \in Nat : \A f, g \in [Nat -> Nat] :
        (\A e \in Nat : rank[e] < rank[n] => f[e] = g[e]) => H[<<n, f>>] = H[<<n, g>>]
  <2> SUFFICES ASSUME NEW n \in Nat, NEW f \in [Nat -> Nat], NEW g \in [Nat -> Nat],
                      \A e \in Nat : e < n => f[e] = g[e]
               PROVE  (IF n = 0 THEN 1 ELSE 2 * f[n - 1]) = (IF n = 0 THEN 1 ELSE 2 * g[n - 1])
    BY <1>2
  <2>1. n # 0 => n - 1 \in Nat /\ n - 1 < n
    OBVIOUS
  <2> QED BY <2>1
<1>4. rank \in [Nat -> Nat] /\ 0 \in Nat
  OBVIOUS
<1> HIDE DEF H, rank
<1>5. PICK f \in [Nat -> Nat] : \A n \in Nat : f[n] = H[<<n, f>>]
  <2>1. IsRecursion(H, Nat, Nat, rank)
    BY <1>1, <1>3, <1>4, Zenon DEF IsRecursion
  <2> DEFINE N == Nat
  <2>2. N # {} /\ IsRecursion(H, N, N, rank)
    BY <2>1
  <2> HIDE DEF N
  <2>3. \E f \in [N -> N] : \A n \in N : f[n] = H[<<n, f>>]
    BY <2>2, RecursionExists
  <2> QED BY <2>3 DEF N
<1>6. Eq(f)
  BY <1>2, <1>5
<1>7. Pow2 = CHOOSE g : Eq(g)
  BY DEF Pow2
<1> HIDE DEF Eq
<1>8. Eq(Pow2)
  BY <1>6, <1>7, Zenon
<1> QED BY <1>8 DEF Eq

LEMMA Pow2Step ==
  /\ Pow2[0] = 1
  /\ \A n \in Nat : Pow2[n + 1] = 2 * Pow2[n]
<1>1. \A n \in Nat : Pow2[n] = IF n = 0 THEN 1 ELSE 2 * Pow2[n - 1]
  BY Pow2Defined
<1>2. \A n \in Nat : n + 1 \in Nat /\ n + 1 # 0 /\ (n + 1) - 1 = n
  OBVIOUS
<1> QED BY <1>1, <1>2

LEMMA Pow2Type == \A n \in Nat : Pow2[n] \in Nat \ {0}
<1> DEFINE S == {n \in Nat : Pow2[n] \in Nat \ {0}}
<1>1. 0 \in S
  BY Pow2Step
<1>2. ASSUME NEW n \in S PROVE n + 1 \in S
  <2>1. n \in Nat /\ Pow2[n] \in Nat \ {0} /\ Pow2[n + 1] = 2 * Pow2[n]
    BY Pow2Step
  <2> QED BY <2>1
<1>3. S = Nat
  <2>1. S \in SUBSET Nat
    OBVIOUS
  <2> HIDE DEF S
  <2> QED BY <1>1, <1>2, <2>1, SetInduction
<1> QED BY <1>3

LEMMA Pow2Sum == \A m, n \in Nat : Pow2[m + n] = Pow2[m] * Pow2[n]
<1> SUFFICES ASSUME NEW m \in Nat PROVE \A n \in Nat : Pow2[m + n] = Pow2[m] * Pow2[n]
  OBVIOUS
<1> DEFINE S == {n \in Nat : Pow2[m + n] = Pow2[m] * Pow2[n]}
<1>1. 0 \in S
  <2>1. Pow2[m] \in Nat /\ m + 0 = m
    BY Pow2Type
  <2> QED BY <2>1, Pow2Step
<1>2. ASSUME NEW n \in S PROVE n + 1 \in S
  <2>1. n \in Nat /\ m + n \in Nat /\ m + (n + 1) = (m + n) + 1
    OBVIOUS
  <2>2. Pow2[m] \in Nat /\ Pow2[n] \in Nat /\ Pow2[m + n] = Pow2[m] * Pow2[n]
    BY <2>1, Pow2Type
  <2>3. Pow2[m + (n + 1)] = 2 * Pow2[m + n]
    BY <2>1, Pow2Step
  <2>4. Pow2[n + 1] = 2 * Pow2[n]
    BY <2>1, Pow2Step
  <2>5. Pow2[m] * (2 * Pow2[n]) = 2 * (Pow2[m] * Pow2[n])
    BY <2>2
  <2> QED BY <2>1, <2>2, <2>3, <2>4, <2>5
<1>3. S = Nat
  <2>1. S \in SUBSET Nat
    OBVIOUS
  <2> HIDE DEF S
  <2> QED BY <1>1, <1>2, <2>1, SetInduction
<1> QED BY <1>3

LEMMA Pow2Monotone ==
  ASSUME NEW m \in Nat, NEW n \in Nat, m <= n
  PROVE  Pow2[m] <= Pow2[n]
<1>1. n - m \in Nat /\ m + (n - m) = n
  OBVIOUS
<1>2. Pow2[n] = Pow2[m] * Pow2[n - m]
  BY <1>1, Pow2Sum
<1>3. Pow2[m] \in Nat \ {0} /\ Pow2[n - m] \in Nat \ {0}
  BY <1>1, Pow2Type
<1> DEFINE p == Pow2[m]
           q == Pow2[n - m]
<1>4. p \in Nat \ {0} /\ q \in Nat \ {0}
  BY <1>3
<1> HIDE DEF p, q
<1>5. p <= p * q
  BY <1>4
<1> QED BY <1>2, <1>5 DEF p, q

-----------------------------------------------------------------------------
(* Dividing by a power                                                     *)

(* Quotient and remainder are natural numbers that make up the dividend.   *)
LEMMA QuotientRemainder ==
  ASSUME NEW x \in Nat, NEW p \in Nat \ {0}
  PROVE  /\ x \div p \in Nat /\ x % p \in Nat
         /\ x % p < p
         /\ x = p * (x \div p) + (x % p)
<1>1. x \in Int /\ p \in Int /\ p > 0
  OBVIOUS
<1>2. /\ x \div p \in Int /\ x % p \in 0..p - 1
      /\ x = p * (x \div p) + (x % p)
  BY <1>1, Z3
<1>3. x \div p \in Nat
  BY <1>1, SMT
<1> DEFINE r == x % p
<1>4. r \in 0..p - 1
  BY <1>2
<1> HIDE DEF r
<1>5. r \in Nat /\ r < p
  BY <1>4
<1> QED BY <1>2, <1>3, <1>5, Zenon DEF r

(* And they are the only ones.                                             *)
LEMMA QuotientUnique ==
  ASSUME NEW p \in Nat \ {0}, NEW q \in Nat, NEW r \in Nat, r < p
  PROVE  (p * q + r) \div p = q /\ (p * q + r) % p = r
<1> DEFINE x == p * q + r
           d == x \div p
           e == x % p
<1>1. x \in Nat
  OBVIOUS
<1>2. d \in Nat /\ e \in Nat /\ e < p /\ x = p * d + e
  BY <1>1, QuotientRemainder
<1>3. x = p * q + r
  OBVIOUS
<1> HIDE DEF x, d, e
<1>4. ASSUME NEW i \in Nat, NEW j \in Nat, i < j PROVE p * i + p <= p * j
  <2>1. (j - i) - 1 \in Nat
    BY <1>4
  <2>2. p * ((j - i) - 1) \in Nat
    BY <2>1
  <2>3. p * ((j - i) - 1) = p * j - p * i - p
    OBVIOUS
  <2>4. p * j \in Int /\ p * i \in Int
    OBVIOUS
  <2> QED BY <2>2, <2>3, <2>4
<1>5. p * d \in Int /\ p * q \in Int
  BY <1>2
<1>6. ~(d < q)
  BY <1>2, <1>3, <1>4, <1>5
<1>7. ~(q < d)
  BY <1>2, <1>3, <1>4, <1>5
<1>8. d = q
  BY <1>2, <1>6, <1>7
<1>9. e = r
  BY <1>2, <1>3, <1>5, <1>8
<1> QED BY <1>8, <1>9 DEF x, d, e

(* A number below the divisor is its own remainder.                        *)
LEMMA SmallRemainder ==
  ASSUME NEW p \in Nat \ {0}, NEW r \in Nat, r < p
  PROVE  r \div p = 0 /\ r % p = r
<1>1. p * 0 + r = r /\ 0 \in Nat
  OBVIOUS
<1> QED BY <1>1, QuotientUnique
-----------------------------------------------------------------------------
(* Low and high bits                                                       *)

(* The bits below w and those above make up the number.                    *)
LEMMA LowHigh ==
  ASSUME NEW x \in Nat, NEW w \in Nat
  PROVE  /\ Low(x, w) \in Nat /\ High(x, w) \in Nat
         /\ Low(x, w) < Pow2[w]
         /\ x = Low(x, w) + High(x, w) * Pow2[w]
<1> DEFINE p == Pow2[w]
<1>1. p \in Nat \ {0}
  BY Pow2Type
<1>2. Low(x, w) = x % p /\ High(x, w) = x \div p
  BY DEF Low, High
<1> HIDE DEF p
<1> DEFINE q == High(x, w)
           r == Low(x, w)
<1>3. q \in Nat /\ r \in Nat /\ r < p /\ x = p * q + r
  BY <1>1, <1>2, QuotientRemainder, Zenon
<1> HIDE DEF q, r
<1>4. p * q + r = r + q * p
  BY <1>1, <1>3
<1> QED BY <1>3, <1>4 DEF p, q, r

(* Bits are all there is below the power.                                  *)
LEMMA LowSmall ==
  ASSUME NEW x \in Nat, NEW w \in Nat, x < Pow2[w]
  PROVE  Low(x, w) = x /\ High(x, w) = 0
<1>1. Pow2[w] \in Nat \ {0}
  BY Pow2Type
<1> QED BY <1>1, SmallRemainder DEF Low, High

(* A number below a product is below the one factor times the other.       *)
LEMMA FactorBound ==
  ASSUME NEW p \in Nat \ {0}, NEW q \in Nat, NEW t \in Nat, t * p < q * p
  PROVE  t < q
<1> SUFFICES ASSUME q <= t PROVE FALSE
  OBVIOUS
<1>1. (t - q) * p \in Nat
  <2>1. t - q \in Nat
    OBVIOUS
  <2> QED BY <2>1
<1>2. (t - q) * p = t * p - q * p /\ t * p \in Int /\ q * p \in Int
  OBVIOUS
<1> QED BY <1>1, <1>2

(* The high bits of a number of v bits are a number of the bits that remain. *)
LEMMA HighBound ==
  ASSUME NEW x \in Nat, NEW v \in Nat, NEW w \in Nat, w <= v, x < Pow2[v]
  PROVE  High(x, w) < Pow2[v - w]
<1> DEFINE p == Pow2[w]
           q == Pow2[v - w]
           h == High(x, w)
           r == Low(x, w)
<1>1. v - w \in Nat /\ (v - w) + w = v
  OBVIOUS
<1>2. p \in Nat \ {0} /\ q \in Nat \ {0} /\ Pow2[v] = q * p
  BY <1>1, Pow2Type, Pow2Sum
<1>3. h \in Nat /\ r \in Nat /\ x = r + h * p
  BY LowHigh
<1> HIDE DEF p, q, h, r
<1>4. h * p < q * p
  BY <1>2, <1>3
<1>5. h < q
  BY <1>2, <1>3, <1>4, FactorBound
<1> QED BY <1>5 DEF h, q

(* Products of numbers of so many bits.                                    *)
LEMMA ProductBound ==
  ASSUME NEW x \in Nat, NEW y \in Nat, NEW p \in Nat, NEW q \in Nat, x < p, y < q
  PROVE  x * y \in Nat /\ x * y < p * q
<1>1. (p - x) * q \in Nat /\ x * (q - y) \in Nat /\ p - x >= 1 /\ q >= 1
  <2>1. p - x \in Nat /\ q - y \in Nat
    OBVIOUS
  <2> QED BY <2>1
<1>2. (p - x) * q >= 1
  <2>1. p - x - 1 \in Nat
    OBVIOUS
  <2>2. (p - x - 1) * q \in Nat
    BY <2>1
  <2>3. (p - x) * q = (p - x - 1) * q + q
    OBVIOUS
  <2> QED BY <2>2, <2>3, <1>1
<1>3. p * q = (p - x) * q + x * (q - y) + x * y
  OBVIOUS
<1>4. x * y \in Nat
  OBVIOUS
<1> QED BY <1>1, <1>2, <1>3, <1>4

-----------------------------------------------------------------------------
(* The bits of an integer, of a negative one in two's complement.          *)

(* Division rounds down, also of negative numbers.                         *)
LEMMA FloorRemainder ==
  ASSUME NEW x \in Int, NEW p \in Nat \ {0}
  PROVE  /\ x \div p \in Int /\ x % p \in Nat /\ x % p < p
         /\ x = p * (x \div p) + (x % p)
<1>1. x \in Int /\ p \in Int /\ p > 0
  OBVIOUS
<1>2. /\ x \div p \in Int /\ x % p \in 0..p - 1
      /\ x = p * (x \div p) + (x % p)
  BY <1>1, Z3
<1> DEFINE r == x % p
<1>3. r \in 0..p - 1
  BY <1>2
<1> HIDE DEF r
<1>4. r \in Nat /\ r < p
  BY <1>3
<1> QED BY <1>2, <1>4, Zenon DEF r

(* Quotient and remainder are determined by their sum.                     *)
LEMMA FloorUnique ==
  ASSUME NEW p \in Nat \ {0}, NEW q \in Int, NEW r \in Nat, r < p
  PROVE  (p * q + r) \div p = q /\ (p * q + r) % p = r
<1> DEFINE x == p * q + r
           d == x \div p
           e == x % p
<1>1. x \in Int
  OBVIOUS
<1>2. d \in Int /\ e \in Nat /\ e < p /\ x = p * d + e
  BY <1>1, FloorRemainder
<1>3. x = p * q + r
  OBVIOUS
<1> HIDE DEF x, d, e
<1>4. ASSUME NEW i \in Int, NEW j \in Int, i < j PROVE p * i + p <= p * j
  <2>1. (j - i) - 1 \in Nat
    BY <1>4
  <2>2. p * ((j - i) - 1) \in Nat
    BY <2>1
  <2>3. p * ((j - i) - 1) = p * j - p * i - p
    OBVIOUS
  <2>4. p * j \in Int /\ p * i \in Int
    OBVIOUS
  <2> QED BY <2>2, <2>3, <2>4
<1>5. p * d \in Int /\ p * q \in Int
  BY <1>2
<1>6. ~(d < q)
  BY <1>2, <1>3, <1>4, <1>5
<1>7. ~(q < d)
  BY <1>2, <1>3, <1>4, <1>5
<1>8. d = q
  BY <1>2, <1>6, <1>7
<1>9. e = r
  BY <1>2, <1>3, <1>5, <1>8
<1> QED BY <1>8, <1>9 DEF x, d, e

(* The special case of the last bit.                                       *)
LEMMA Parity ==
  ASSUME NEW q \in Int, NEW b \in {0, 1}
  PROVE  (2 * q + b) \div 2 = q /\ (2 * q + b) % 2 = b
<1>1. 2 \in Nat \ {0} /\ b \in Nat /\ b < 2
  OBVIOUS
<1> QED BY <1>1, FloorUnique

(* The bits from k on are bit k and those from k + 1 on.                   *)
LEMMA BitStep ==
  ASSUME NEW x \in Int, NEW k \in Nat
  PROVE  /\ High(x, 0) = x
         /\ High(x, k) \in Int /\ Bit(x, k) \in {0, 1}
         /\ High(x, k) = 2 * High(x, k + 1) + Bit(x, k)
<1> DEFINE p == Pow2[k]
           h == x \div p
           r == x % p
           q == h \div 2
           b == h % 2
<1>1. p \in Nat \ {0} /\ Pow2[k + 1] = 2 * p /\ Pow2[0] = 1
  BY Pow2Type, Pow2Step
<1>2. h \in Int /\ r \in Nat /\ r < p /\ x = p * h + r
  BY <1>1, FloorRemainder
<1>3. q \in Int /\ b \in Nat /\ b < 2 /\ h = 2 * q + b
  <2>1. 2 \in Nat \ {0}
    OBVIOUS
  <2> QED BY <1>2, <2>1, FloorRemainder
<1>4. High(x, k) = h /\ Bit(x, k) = b /\ High(x, k + 1) = x \div (2 * p)
  BY <1>1 DEF High, Bit
<1>5. High(x, 0) = x
  BY <1>1 DEF High
<1> HIDE DEF p, h, r, q, b
<1>6. b \in {0, 1}
  BY <1>3
<1>7. x \div (2 * p) = q
  <2> DEFINE m == 2 * p
             t == p * b + r
  <2>1. m \in Nat \ {0} /\ t \in Nat /\ t < m
    <3>1. CASE b = 0
      BY <1>1, <1>2, <3>1
    <3>2. CASE b = 1
      BY <1>1, <1>2, <3>2
    <3> QED BY <1>6, <3>1, <3>2
  <2>2. x = m * q + t
    <3>1. p * (2 * q + b) = (2 * p) * q + p * b
      BY <1>1, <1>3
    <3>2. p * b \in Int /\ (2 * p) * q \in Int
      BY <1>1, <1>3
    <3> QED BY <1>2, <1>3, <3>1, <3>2
  <2> HIDE DEF m, t
  <2>3. x \div m = q
    BY <1>3, <2>1, <2>2, FloorUnique
  <2> QED BY <2>3 DEF m
<1> QED BY <1>2, <1>3, <1>4, <1>5, <1>6, <1>7

(* A number has no bits above its width.                                   *)
LEMMA NoBit ==
  ASSUME NEW x \in Nat, NEW w \in Nat, x < Pow2[w], NEW k \in Nat, w <= k
  PROVE  Bit(x, k) = 0
<1>1. Pow2[w] <= Pow2[k]
  BY Pow2Monotone
<1>2. Pow2[k] \in Nat /\ Pow2[w] \in Nat
  BY Pow2Type
<1>3. x < Pow2[k]
  BY <1>1, <1>2
<1>4. High(x, k) = 0
  BY <1>3, LowSmall
<1> QED BY <1>4 DEF Bit

(* Cutting a number off leaves the bits below.                             *)
LEMMA BitOfLow ==
  ASSUME NEW x \in Int, NEW w \in Nat, NEW k \in Nat, k < w
  PROVE  Bit(x % Pow2[w], k) = Bit(x, k)
<1> DEFINE p == Pow2[k]
           m == w - k - 1
           t == Pow2[m]
           q == x \div Pow2[w]
           r == x % Pow2[w]
           h == r \div p
           l == r % p
           j == h \div 2
           b == h % 2
<1>1. m \in Nat /\ (k + 1) + m = w /\ k + 1 \in Nat
  OBVIOUS
<1>2. p \in Nat \ {0} /\ t \in Nat \ {0} /\ Pow2[w] \in Nat \ {0}
  BY <1>1, Pow2Type
<1>3. Pow2[w] = (2 * p) * t
  BY <1>1, Pow2Sum, Pow2Step
<1>4. q \in Int /\ r \in Nat /\ x = Pow2[w] * q + r
  <2> DEFINE pw == Pow2[w]
  <2>1. pw \in Nat \ {0}
    BY <1>2
  <2> HIDE DEF pw
  <2>2. /\ x \div pw \in Int /\ x % pw \in Nat
        /\ x = pw * (x \div pw) + (x % pw)
    BY <2>1, FloorRemainder
  <2> QED BY <2>2 DEF pw
<1>5. h \in Int /\ l \in Nat /\ l < p /\ r = p * h + l
  <2>1. p \in Nat \ {0} /\ r \in Int
    BY <1>2, <1>4
  <2> HIDE DEF p, r
  <2> QED BY <2>1, FloorRemainder
<1>6. j \in Int /\ b \in Nat /\ b < 2 /\ h = 2 * j + b
  <2>1. 2 \in Nat \ {0}
    OBVIOUS
  <2> QED BY <1>5, <2>1, FloorRemainder
<1>7. Bit(r, k) = b /\ Bit(x, k) = (x \div p) % 2
  BY DEF Bit, High
<1> HIDE DEF p, m, t, q, r, h, l, j, b
<1>8. x \div p = 2 * (t * q + j) + b
  <2> DEFINE g == 2 * (t * q + j) + b
             tq == t * q
  <2>1. tq \in Int /\ g = 2 * tq + h /\ g \in Int
    BY <1>2, <1>4, <1>6
  <2>2. Pow2[w] * q = (2 * p) * tq
    BY <1>2, <1>3, <1>4
  <2> HIDE DEF g, tq
  <2>3. p * g = (2 * p) * tq + p * h
    BY <1>2, <1>5, <2>1
  <2>4. p * h \in Int /\ (2 * p) * tq \in Int
    BY <1>2, <1>5, <2>1
  <2>5. x = p * g + l
    BY <1>4, <1>5, <2>2, <2>3, <2>4
  <2>6. x \div p = g
    BY <1>2, <1>5, <2>1, <2>5, FloorUnique
  <2> QED BY <2>6 DEF g
<1>9. t * q + j \in Int /\ b \in {0, 1}
  BY <1>2, <1>4, <1>6
<1> QED BY <1>7, <1>8, <1>9, Parity DEF r

(* The bits of the complement.                                             *)
LEMMA BitOfComplement ==
  ASSUME NEW z \in Int, NEW k \in Nat
  PROVE  Bit(-z - 1, k) = 1 - Bit(z, k)
<1> DEFINE p == Pow2[k]
           h == z \div p
           r == z % p
           q == h \div 2
           b == h % 2
<1>1. p \in Nat \ {0}
  BY Pow2Type
<1>2. h \in Int /\ r \in Nat /\ r < p /\ z = p * h + r
  BY <1>1, FloorRemainder
<1>3. q \in Int /\ b \in Nat /\ b < 2 /\ h = 2 * q + b
  <2>1. 2 \in Nat \ {0}
    OBVIOUS
  <2> QED BY <1>2, <2>1, FloorRemainder
<1>4. Bit(z, k) = b /\ Bit(-z - 1, k) = ((-z - 1) \div p) % 2
  BY DEF Bit, High
<1> HIDE DEF p, h, r, q, b
<1>5. (-z - 1) \div p = -h - 1
  <2> DEFINE g == -h - 1
             s == p - 1 - r
  <2>1. g \in Int /\ s \in Nat /\ s < p
    BY <1>1, <1>2
  <2>2. p * g = -(p * h) - p /\ p * h \in Int
    BY <1>1, <1>2
  <2>3. -z - 1 = p * g + s
    BY <1>1, <1>2, <2>2
  <2> HIDE DEF g, s
  <2>4. (-z - 1) \div p = g
    BY <1>1, <2>1, <2>3, FloorUnique
  <2> QED BY <2>4 DEF g
<1>6. -h - 1 = 2 * (-q - 1) + (1 - b) /\ -q - 1 \in Int /\ 1 - b \in {0, 1}
  BY <1>3
<1>7. (-h - 1) % 2 = 1 - b
  BY <1>6, Parity
<1> QED BY <1>4, <1>5, <1>7

(* The carries of a row of full adders for x and y, each the carry out of  *)
(* the adder before it.                                                    *)
IsRipple(c, x, y, n) ==
  /\ c[0] \in Int
  /\ \A k \in 0..n - 1 : c[k + 1] = (Bit(x, k) + Bit(y, k) + c[k]) \div 2

(* Such a row gives the bits of the sum, of negative numbers as well.      *)
LEMMA RippleSum ==
  ASSUME NEW x \in Int, NEW y \in Int, NEW n \in Nat, NEW c, IsRipple(c, x, y, n)
  PROVE  c[n] \in Int /\ (Bit(x, n) + Bit(y, n) + c[n]) % 2 = Bit(x + y + c[0], n)
<1> DEFINE s == x + y + c[0]
           Right(k) == c[k] \in Int /\ High(s, k) = High(x, k) + High(y, k) + c[k]
           R == {k \in Nat : k <= n => Right(k)}
<1>0. /\ c[0] \in Int
      /\ \A k \in 0..n - 1 : c[k + 1] = (Bit(x, k) + Bit(y, k) + c[k]) \div 2
  BY DEF IsRipple
<1> USE <1>0
<1>1. s \in Int
  OBVIOUS
<1>2. \A v \in Int, k \in Nat :
        /\ High(v, 0) = v /\ High(v, k) \in Int /\ Bit(v, k) \in {0, 1}
        /\ High(v, k) = 2 * High(v, k + 1) + Bit(v, k)
  BY BitStep
<1> HIDE DEF s
<1>3. Right(0)
  BY <1>1, <1>2 DEF s
<1>4. ASSUME NEW k \in Nat, Right(k)
      PROVE  (Bit(x, k) + Bit(y, k) + c[k]) % 2 = Bit(s, k)
             /\ (Bit(x, k) + Bit(y, k) + c[k]) \div 2
                  = High(s, k + 1) - High(x, k + 1) - High(y, k + 1)
  <2> DEFINE q == High(s, k + 1) - High(x, k + 1) - High(y, k + 1)
  <2>1. /\ High(s, k + 1) \in Int /\ High(x, k + 1) \in Int /\ High(y, k + 1) \in Int
        /\ Bit(s, k) \in {0, 1} /\ Bit(x, k) \in {0, 1} /\ Bit(y, k) \in {0, 1}
        /\ High(s, k) = 2 * High(s, k + 1) + Bit(s, k)
        /\ High(x, k) = 2 * High(x, k + 1) + Bit(x, k)
        /\ High(y, k) = 2 * High(y, k + 1) + Bit(y, k)
    <3>1. k + 1 \in Nat
      OBVIOUS
    <3> QED BY <1>1, <1>2, <3>1
  <2>2. q \in Int
    BY <2>1
  <2>3. Bit(x, k) + Bit(y, k) + c[k] = 2 * q + Bit(s, k)
    BY <1>4, <2>1
  <2> HIDE DEF q
  <2>4. (2 * q + Bit(s, k)) \div 2 = q /\ (2 * q + Bit(s, k)) % 2 = Bit(s, k)
    BY <2>1, <2>2, Parity
  <2> QED BY <2>3, <2>4 DEF q
<1>5. ASSUME NEW k \in Nat, k < n, Right(k) PROVE Right(k + 1)
  <2>1. c[k + 1] = High(s, k + 1) - High(x, k + 1) - High(y, k + 1)
    <3>1. k \in 0..n - 1
      BY <1>5
    <3> QED BY <1>4, <1>5, <3>1
  <2>2. High(s, k + 1) \in Int /\ High(x, k + 1) \in Int /\ High(y, k + 1) \in Int
    <3>1. k + 1 \in Nat
      OBVIOUS
    <3> QED BY <1>1, <1>2, <3>1
  <2> QED BY <2>1, <2>2
<1> HIDE DEF Right
<1>6. R = Nat
  <2>1. 0 \in R
    BY <1>3
  <2>2. ASSUME NEW k \in R PROVE k + 1 \in R
    BY <1>5
  <2> HIDE DEF R
  <2>3. R \in SUBSET Nat
    BY DEF R
  <2> QED BY <2>1, <2>2, <2>3, SetInduction
<1>7. Right(n)
  BY <1>6
<1> QED BY <1>4, <1>7 DEF Right, s

-----------------------------------------------------------------------------
(* Numbers bit by bit                                                      *)

(* Induction up to a bound.                                                *)
LEMMA InductionUpto ==
  ASSUME NEW n \in Nat, NEW S, 0 \in S, \A k \in 0..n - 1 : k \in S => k + 1 \in S
  PROVE  \A k \in 0..n : k \in S
<1> DEFINE T == {k \in Nat : k <= n => k \in S}
<1>1. 0 \in T
  OBVIOUS
<1>2. ASSUME NEW k \in T PROVE k + 1 \in T
  <2>1. k \in Nat /\ k + 1 \in Nat
    OBVIOUS
  <2>2. CASE k + 1 <= n
    <3>1. k \in 0..n - 1 /\ k <= n
      BY <2>1, <2>2
    <3> QED BY <2>1, <3>1
  <2>3. CASE ~(k + 1 <= n)
    BY <2>1, <2>3
  <2> QED BY <2>2, <2>3
<1>3. T \in SUBSET Nat
  OBVIOUS
<1>4. T = Nat
  <2> HIDE DEF T
  <2> QED BY <1>1, <1>2, <1>3, SetInduction
<1>5. ASSUME NEW k \in 0..n PROVE k \in S
  <2>1. k \in T /\ k <= n
    BY <1>4
  <2> QED BY <2>1
<1> QED BY <1>5

(* Multiples of p do not show in the remainder.                            *)
LEMMA SameRemainder ==
  ASSUME NEW p \in Nat \ {0}, NEW v \in Int, NEW k \in Int
  PROVE  (v + p * k) % p = v % p /\ (v + p * k) \div p = (v \div p) + k
<1> DEFINE q == v \div p
           r == v % p
<1>1. q \in Int /\ r \in Nat /\ r < p /\ v = p * q + r
  BY FloorRemainder
<1> HIDE DEF q, r
<1>2. p * (q + k) = p * q + p * k /\ p * q \in Int /\ p * k \in Int /\ q + k \in Int
  BY <1>1
<1>3. v + p * k = p * (q + k) + r
  BY <1>1, <1>2
<1>4. (p * (q + k) + r) \div p = q + k /\ (p * (q + k) + r) % p = r
  BY <1>1, <1>2, FloorUnique
<1> QED BY <1>3, <1>4 DEF q, r

(* What is added from bit k on is added to the bits from k on.             *)
LEMMA AddAbove ==
  ASSUME NEW v \in Nat, NEW w \in Nat, NEW k \in Nat
  PROVE  /\ Low(v + w * Pow2[k], k) = Low(v, k)
         /\ High(v + w * Pow2[k], k) = High(v, k) + w
<1> DEFINE p == Pow2[k]
<1>1. p \in Nat \ {0}
  BY Pow2Type
<1>2. Low(v + w * Pow2[k], k) = (v + w * p) % p /\ High(v + w * Pow2[k], k) = (v + w * p) \div p
      /\ Low(v, k) = v % p /\ High(v, k) = v \div p
  BY DEF Low, High
<1> HIDE DEF p
<1>3. v + w * p = v + p * w
  BY <1>1
<1>4. v \in Int /\ w \in Int
  OBVIOUS
<1>5. (v + p * w) % p = v % p /\ (v + p * w) \div p = (v \div p) + w
  BY <1>1, <1>4, SameRemainder
<1> QED BY <1>2, <1>3, <1>5

(* One more bit.                                                           *)
LEMMA LowStep ==
  ASSUME NEW y \in Nat, NEW k \in Nat
  PROVE  /\ Low(y, 0) = 0
         /\ Low(y, k + 1) = Low(y, k) + Bit(y, k) * Pow2[k]
<1> DEFINE p == Pow2[k]
           h == High(y, k + 1)
           b == Bit(y, k)
<1>1. p \in Nat \ {0} /\ Pow2[k + 1] = 2 * p /\ Pow2[0] = 1 /\ k + 1 \in Nat
  BY Pow2Type, Pow2Step
<1>2. Low(y, 0) = 0
  <2>1. Low(y, 0) \in Nat /\ Low(y, 0) < Pow2[0]
    BY LowHigh
  <2> QED BY <1>1, <2>1
<1>3. /\ Low(y, k) \in Nat /\ y = Low(y, k) + High(y, k) * p
      /\ Low(y, k + 1) \in Nat /\ y = Low(y, k + 1) + h * (2 * p) /\ h \in Nat
  BY <1>1, LowHigh
<1>4. High(y, k) = 2 * h + b /\ b \in {0, 1}
  <2>1. y \in Int
    OBVIOUS
  <2> QED BY <2>1, BitStep
<1> HIDE DEF p, h, b
<1>5. (2 * h + b) * p = h * (2 * p) + b * p
  BY <1>1, <1>3, <1>4
<1>6. h * (2 * p) \in Int /\ b * p \in Int
  BY <1>1, <1>3, <1>4
<1>7. Low(y, k + 1) = Low(y, k) + b * p
  <2>1. y = Low(y, k) + (h * (2 * p) + b * p)
    BY <1>3, <1>4, <1>5
  <2> DEFINE l == Low(y, k)
             m == Low(y, k + 1)
             s == h * (2 * p)
             t == b * p
  <2>2. y = l + (s + t) /\ y = m + s /\ s \in Int /\ t \in Int /\ l \in Int /\ m \in Int
    BY <1>3, <1>6, <2>1
  <2> HIDE DEF l, m, s, t
  <2>3. m = l + t
    BY <2>2
  <2> QED BY <2>3 DEF l, m, t
<1> QED BY <1>2, <1>7 DEF b, p

(* The lowest m + n bits are the lowest m and the lowest n of the others.  *)
LEMMA LowJoin ==
  ASSUME NEW y \in Nat, NEW m \in Nat, NEW n \in Nat
  PROVE  /\ Low(y, m + n) = Low(y, m) + Low(High(y, m), n) * Pow2[m]
         /\ High(y, m + n) = High(High(y, m), n)
<1> DEFINE p == Pow2[m]
           q == Pow2[n]
           l == Low(y, m)
           h == High(y, m)
           l2 == Low(h, n)
           h2 == High(h, n)
<1>1. p \in Nat \ {0} /\ q \in Nat \ {0} /\ Pow2[m + n] = p * q
  BY Pow2Type, Pow2Sum
<1>2. l \in Nat /\ h \in Nat /\ l < p /\ y = l + h * p
  BY LowHigh
<1>3. l2 \in Nat /\ h2 \in Nat /\ l2 < q /\ h = l2 + h2 * q
  <2> HIDE DEF h
  <2>1. h \in Nat
    BY <1>2
  <2> QED BY <2>1, LowHigh
<1>4. Low(y, m + n) = y % Pow2[m + n] /\ High(y, m + n) = y \div Pow2[m + n]
  BY DEF Low, High
<1> DEFINE r == l + l2 * p
           t == p * q
<1>5. r \in Nat /\ t \in Nat \ {0} /\ r < t
  <2> HIDE DEF p, q, l, l2
  <2>1. p * q - l2 * p = p * (q - l2) /\ q - l2 \in Nat \ {0}
    BY <1>1, <1>2, <1>3
  <2>2. p * (q - l2) >= p
    <3>1. q - l2 - 1 \in Nat
      BY <2>1
    <3>2. p * (q - l2 - 1) \in Nat
      BY <1>1, <3>1
    <3>3. p * (q - l2 - 1) = p * (q - l2) - p
      BY <1>1, <1>3
    <3>4. p * (q - l2) \in Int
      BY <1>1, <2>1
    <3> QED BY <1>1, <3>2, <3>3, <3>4
  <2>3. l2 * p \in Nat /\ p * q \in Nat \ {0} /\ p * (q - l2) \in Nat
    BY <1>1, <1>3, <2>1
  <2> QED BY <1>1, <1>2, <2>1, <2>2, <2>3
<1>6. y = t * h2 + r
  <2> HIDE DEF p, q, l, l2, h2, h
  <2>1. (l2 + h2 * q) * p = l2 * p + (p * q) * h2
    BY <1>1, <1>3
  <2>2. l2 * p \in Int /\ (p * q) * h2 \in Int
    BY <1>1, <1>3
  <2> QED BY <1>2, <1>3, <2>1, <2>2
<1>7. y \div t = h2 /\ y % t = r
  <2> HIDE DEF t, r, h2
  <2> QED BY <1>3, <1>5, <1>6, QuotientUnique
<1> QED BY <1>1, <1>4, <1>7

(* Half of the bits from k on are those from k + 1 on, and so are theirs.  *)
LEMMA HighHalf ==
  ASSUME NEW v \in Nat, NEW k \in Nat
  PROVE  /\ High(v, k) \div 2 = High(v, k + 1)
         /\ \A j \in Nat : Bit(High(v, k), j) = Bit(v, k + j)
<1>1. High(v, k) = 2 * High(v, k + 1) + Bit(v, k) /\ Bit(v, k) \in {0, 1}
  <2>1. v \in Int
    OBVIOUS
  <2> QED BY <2>1, BitStep
<1>2. High(v, k + 1) \in Int
  <2>1. k + 1 \in Nat
    OBVIOUS
  <2> QED BY <2>1, LowHigh
<1>3. High(v, k) \div 2 = High(v, k + 1)
  BY <1>1, <1>2, Parity
<1>4. ASSUME NEW j \in Nat PROVE Bit(High(v, k), j) = Bit(v, k + j)
  <2>1. High(v, k + j) = High(High(v, k), j)
    BY LowJoin
  <2> QED BY <2>1 DEF Bit
<1> QED BY <1>3, <1>4

(* A number that is not zero has a highest one.                            *)
LEMMA HighestOne ==
  ASSUME NEW w \in Nat, NEW v \in Nat \ {0}, v < Pow2[w]
  PROVE  \E n \in 1..w : Pow2[n - 1] <= v /\ v < Pow2[n]
<1> DEFINE S == {k \in Nat : v < Pow2[k] => \E n \in 1..k : Pow2[n - 1] <= v /\ v < Pow2[n]}
<1>1. 0 \in S
  BY Pow2Step
<1>2. ASSUME NEW k \in S PROVE k + 1 \in S
  <2>1. k \in Nat /\ k + 1 \in Nat /\ Pow2[k] \in Nat
    BY Pow2Type
  <2>2. CASE v < Pow2[k]
    <3>1. PICK n \in 1..k : Pow2[n - 1] <= v /\ v < Pow2[n]
      BY <2>2
    <3>2. n \in 1..k + 1
      BY <2>1
    <3> QED BY <2>1, <3>1, <3>2
  <2>3. CASE ~(v < Pow2[k])
    <3>1. k + 1 \in 1..k + 1 /\ (k + 1) - 1 = k /\ Pow2[k] <= v
      BY <2>1, <2>3
    <3> QED BY <2>1, <3>1
  <2> QED BY <2>2, <2>3
<1>3. S \in SUBSET Nat
  OBVIOUS
<1> HIDE DEF S
<1>4. S = Nat
  BY <1>1, <1>2, <1>3, SetInduction
<1> QED BY <1>4 DEF S
=============================================================================
