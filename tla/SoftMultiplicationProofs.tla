------------------------ MODULE SoftMultiplicationProofs ------------------------
(***************************************************************************)
(* For every width of the ports and the output, every operand and every    *)
(* architecture: the three soft multiplications are exact at every step,   *)
(* and whichever the pass takes, the outputs carry the product.            *)
(*                                                                         *)
(* The invariant says of each of the three what it has computed so far:    *)
(* a row of the tree is x times a chunk of y's bits, the last adder of the *)
(* rows has the upper bits of x times the lowest bits of y, and a stage of *)
(* the cascade has the product with the lowest bits of the constant.       *)
(***************************************************************************)
EXTENDS SoftMultiplication, Induction, FiniteSetTheorems, SequenceTheorems

(***************************************************************************)
(* The inductive invariant.                                                *)
(***************************************************************************)
Ended == {"done", "not_soft", "assertion_failed", "one_bit_error", "overrun"}

(* A node that check_multiplier_port_size widened.                         *)
PaddedWidth == Larger(job.out, job.a + job.b)

(* Which multiplications are in which phase, and how many outputs they     *)
(* have there.                                                             *)
PhaseInv ==
  /\ job \in Jobs /\ x \in 0..Pow2[job.a] - 1 /\ y \in 0..Pow2[job.b] - 1
  /\ phase \in {"resolve", "iterate", "map", "tree", "remap", "rows", "prune", "stages"} \cup Ended
  /\ phase \notin Ended => out = Undriven
  /\ phase = "resolve" => width = job.out
  /\ phase \in {"prune", "stages"} => MadeConstant /\ width = job.out
  /\ phase = "iterate" => job.hard_multipliers /\ width = PaddedWidth
  /\ phase \in {"tree", "remap"} => MadeTree /\ width = PaddedWidth
  /\ phase \in {"map", "rows"} =>
       /\ ~MadeConstant /\ ~MadeTree
       /\ width = IF job.hard_multipliers THEN PaddedWidth ELSE job.out
  /\ phase = "rows" => SoftMapped
  /\ width \in Nat

(* Row k of the tree when a row stands for m bits of y: the last one stands *)
(* for those that are left.  A row of one bit is as wide as x.             *)
ChunkOf(j, u, v, m, k) ==
  LET lo == (k - 1) * m
      n == IF m < j.b - lo THEN m ELSE j.b - lo
  IN  [shift |-> lo,
       size |-> IF n = 1 THEN j.a ELSE j.a + n,
       bits |-> u * Low(High(v, lo), n)]

Chunk(m, k) == ChunkOf(job, x, y, m, k)

(* So many rows of m bits are needed for b bits, and no fewer.             *)
Spans(all, m, b) == (all - 1) * m < b /\ b <= all * m

(* There are as many rows as the bits of y need, those of the next level   *)
(* counted twice.                                                          *)
TreeInv ==
  /\ phase \in {"resolve", "iterate", "map", "rows", "prune", "stages"} =>
       level = 0 /\ stage = <<>> /\ next = <<>>
  /\ Tree!TypeOK
  /\ phase \in {"tree", "remap"} =>
       LET m == Pow2[level]
           all == 2 * Len(next) + Len(stage)
       IN  /\ \A k \in 1..Len(next) : next[k] = Chunk(2 * m, k)
           /\ \A k \in 1..Len(stage) : stage[k] = Chunk(m, 2 * Len(next) + k)
           /\ Spans(all, m, job.b)
           /\ phase = "remap" => next = <<>> /\ job.b <= m

(* The product of x and the k + 1 lowest bits of y.                        *)
Partial(k) == x * Low(y, k + 1)

RowsInv ==
  /\ adders \in Seq(Nat) /\ Len(adders) <= job.b - 1
  /\ \A k \in 1..Len(adders) : adders[k] = High(Partial(k), k)
  /\ phase \notin {"rows"} \cup Ended => adders = <<>>

ConstInv ==
  /\ Const!TypeOK
  /\ phase \notin {"stages"} \cup Ended => i = 0 /\ internal = 0 /\ pushed = 0
  /\ phase = "prune" =>
       size = IF "b" \in job.constant THEN [variable |-> job.a, constant |-> job.b]
                                      ELSE [variable |-> job.b, constant |-> job.a]
  /\ phase = "stages" /\ Cardinality(job.constant) = 1 =>
       IF Const!Const = 0 THEN size.constant = 0
                          ELSE size.constant # 0 /\ Const!Const < Pow2[size.constant]
  /\ phase = "stages" =>
       i <= size.constant /\ (Cardinality(job.constant) # 1 => size.constant = 0)
  /\ Const!StageExact

SoftInv == PhaseInv /\ TreeInv /\ RowsInv /\ ConstInv

-----------------------------------------------------------------------------
(* The numbers of the instances are those of Binary.                       *)

(* The instances have the numbers of Binary.                               *)
LEMMA SameNumbers ==
  /\ Tree!Pow2 = Pow2 /\ Rows!Pow2 = Pow2 /\ Const!Pow2 = Pow2 /\ Product!Pow2 = Pow2
  /\ \A v, k : /\ Tree!Bit(v, k) = Bit(v, k) /\ Rows!Bit(v, k) = Bit(v, k)
               /\ Const!Bit(v, k) = Bit(v, k)
<1>1. Tree!Pow2 = Pow2 /\ Rows!Pow2 = Pow2 /\ Const!Pow2 = Pow2 /\ Product!Pow2 = Pow2
  BY DEF Pow2, Tree!Pow2, Rows!Pow2, Const!Pow2, Product!Pow2
<1> QED
  BY <1>1 DEF Bit, High, Tree!Bit, Tree!High, Rows!Bit, Rows!High, Const!Bit, Const!High

(* What is known of the operands in every phase.                           *)
Sized ==
  /\ IsJob(job) /\ x \in Nat /\ y \in Nat /\ x < Pow2[job.a] /\ y < Pow2[job.b]
  /\ job.a \in Nat \ {0} /\ job.b \in Nat \ {0} /\ job.out \in Nat \ {0}

(* The operands of a job fit their ports.                                  *)
LEMMA OperandsSized == PhaseInv => Sized
<1> SUFFICES ASSUME PhaseInv PROVE Sized
  OBVIOUS
<1>1. IsJob(job)
  BY JobsAssumption DEF PhaseInv
<1>2. job.a \in Nat \ {0} /\ job.b \in Nat \ {0} /\ job.out \in Nat \ {0}
  BY <1>1 DEF IsJob
<1>3. Pow2[job.a] \in Nat /\ Pow2[job.b] \in Nat
  BY <1>2, Pow2Type
<1>4. x \in 0..Pow2[job.a] - 1 /\ y \in 0..Pow2[job.b] - 1
  BY DEF PhaseInv
<1> QED BY <1>1, <1>2, <1>3, <1>4 DEF Sized

-----------------------------------------------------------------------------
(* Sums of rows of the tree.                                               *)

(* A row of n bits of y carries less than a + n pins can, and one of one   *)
(* bit less than a can.                                                    *)
LEMMA RowBound ==
  ASSUME NEW v \in Nat, NEW a \in Nat, v < Pow2[a], NEW z \in Nat, NEW n \in Nat
  PROVE  /\ Low(z, n) \in Nat /\ v * Low(z, n) \in Nat
         /\ v * Low(z, n) < Pow2[a + n]
         /\ n = 1 => v * Low(z, n) < Pow2[a]
<1>1. Low(z, n) \in Nat /\ Low(z, n) < Pow2[n] /\ Pow2[n] \in Nat /\ Pow2[a] \in Nat
  BY LowHigh, Pow2Type
<1>2. v * Low(z, n) \in Nat /\ v * Low(z, n) < Pow2[a] * Pow2[n]
  <2> DEFINE l == Low(z, n)
  <2>1. l \in Nat /\ l < Pow2[n] /\ Pow2[n] \in Nat /\ Pow2[a] \in Nat
    BY <1>1
  <2> HIDE DEF l
  <2>2. v * l \in Nat /\ v * l < Pow2[a] * Pow2[n]
    BY <2>1, ProductBound
  <2> QED BY <2>2 DEF l
<1>3. Pow2[a + n] = Pow2[a] * Pow2[n]
  BY Pow2Sum
<1>4. ASSUME n = 1 PROVE v * Low(z, n) < Pow2[a]
  <2>1. Pow2[1] = 2
    BY Pow2Step
  <2>2. Low(z, n) \in {0, 1}
    BY <1>1, <1>4, <2>1
  <2>3. CASE Low(z, n) = 0
    BY <2>3, <1>1
  <2>4. CASE Low(z, n) = 1
    BY <2>4, <1>1
  <2> QED BY <2>2, <2>3, <2>4
<1> QED BY <1>1, <1>2, <1>3, <1>4

(* The adder of two rows is wide enough for what the upper bits of the     *)
(* first and the second come to.                                           *)
MergesRows(v, a, m, n, s, t) ==
  ((v * s) % Pow2[m]) + ((((v * s) \div Pow2[m]) + v * t) % Pow2[a + n]) * Pow2[m]
    = v * (s + t * Pow2[m])

(* The upper bits of a first row and a second one, in the width of the     *)
(* adder, are the sum of both.                                             *)
LEMMA RowMerge ==
  ASSUME NEW v \in Nat, NEW a \in Nat, v < Pow2[a], NEW m \in Nat, NEW n \in Nat,
         NEW s \in Nat, s < Pow2[m], NEW t \in Nat, t < Pow2[n]
  PROVE  MergesRows(v, a, m, n, s, t)
<1> DEFINE p == Pow2[m]
           pa == Pow2[a]
           pn == Pow2[n]
           w == v * s
           q == w \div p
           r == w % p
           z == v * t
<1>1. p \in Nat \ {0} /\ pa \in Nat \ {0} /\ pn \in Nat \ {0} /\ Pow2[a + n] = pa * pn
  BY Pow2Type, Pow2Sum
<1>2. v < pa /\ s < p /\ t < pn
  OBVIOUS
<1> HIDE DEF p, pa, pn
<1>3. w \in Nat /\ z \in Nat
  OBVIOUS
<1>4. q \in Nat /\ r \in Nat /\ r < p /\ w = p * q + r
  <2> HIDE DEF w
  <2> QED BY <1>1, <1>3, QuotientRemainder
<1>5. q <= v
  <2> HIDE DEF q, r
  <2>1. SUFFICES ASSUME q > v PROVE FALSE
    BY <1>4
  <2>2. p * q = p * v + p * (q - v)
    BY <1>1, <1>4
  <2>3. p * (q - v) >= 0 /\ p * (q - v) \in Nat /\ p * v \in Nat
    <3>1. q - v \in Nat
      BY <1>4, <2>1
    <3>2. p * (q - v) \in Nat
      BY <1>1, <3>1
    <3> QED BY <1>1, <3>2
  <2>4. v * (p - s) = p * v - v * s
    BY <1>1
  <2>5. v * (p - s) \in Nat
    <3>1. p - s \in Nat
      BY <1>1, <1>2
    <3> QED BY <3>1
  <2>6. p * (q - v) \in Nat \ {0}
    <3>1. q - v - 1 \in Nat
      BY <1>4, <2>1
    <3>2. p * (q - v - 1) \in Nat
      BY <1>1, <3>1
    <3>3. p * (q - v) = p * (q - v - 1) + p
      BY <1>1, <1>4
    <3> QED BY <1>1, <3>2, <3>3
  <2>7. w = p * v + p * (q - v) + r
    BY <1>4, <2>2
  <2> DEFINE e == p * v
             f == p * (q - v)
             g == v * s
  <2>8. e \in Nat /\ f \in Nat \ {0} /\ g \in Nat /\ e - g \in Nat /\ g = e + f + r /\ r \in Nat
    BY <1>3, <1>4, <2>3, <2>4, <2>5, <2>6, <2>7
  <2> HIDE DEF e, f, g
  <2> QED BY <2>8
<1>6. q + z < pa * pn
  <2> HIDE DEF q
  <2>1. v * (pn - 1 - t) \in Nat
    <3>1. pn - 1 - t \in Nat
      BY <1>1, <1>2
    <3> QED BY <3>1
  <2>2. v * (pn - 1 - t) = v * pn - v - v * t
    BY <1>1
  <2>3. (pa - v - 1) * pn \in Nat
    <3>1. pa - v - 1 \in Nat
      BY <1>1, <1>2
    <3> QED BY <1>1, <3>1
  <2>4. (pa - v - 1) * pn = pa * pn - v * pn - pn
    BY <1>1
  <2>5. v * pn \in Nat /\ pa * pn \in Nat /\ v * t \in Nat
    BY <1>1
  <2> QED BY <1>1, <1>4, <1>5, <2>1, <2>2, <2>3, <2>4, <2>5
<1>7. (q + z) % (pa * pn) = q + z
  <2> DEFINE c == pa * pn
             d == q + z
  <2>1. c \in Nat \ {0} /\ d \in Nat /\ d < c
    <3>1. c \in Nat /\ d \in Nat
      BY <1>1, <1>3, <1>4
    <3> QED BY <1>6, <3>1
  <2> HIDE DEF c, d
  <2>2. d % c = d
    BY <2>1, SmallRemainder
  <2> QED BY <2>2 DEF c, d
<1>8. r + (q + z) * p = v * (s + t * p)
  <2>1. (q + z) * p = p * q + z * p
    <3> HIDE DEF q, z
    <3> QED BY <1>1, <1>3, <1>4
  <2>2. v * (s + t * p) = v * s + (v * t) * p
    BY <1>1
  <2> DEFINE g == p * q
             h == z * p
  <2>3. g \in Int /\ h \in Int
    <3> HIDE DEF q, z
    <3> QED BY <1>1, <1>3, <1>4
  <2>4. w = g + r /\ (q + z) * p = g + h /\ v * (s + t * p) = w + h
    BY <1>4, <2>1, <2>2
  <2> DEFINE e == (q + z) * p
             f == v * (s + t * p)
  <2>5. w = g + r /\ e = g + h /\ f = w + h /\ r \in Nat /\ w \in Nat
    BY <1>3, <1>4, <2>4
  <2> HIDE DEF e, f, g, h, w, q, r, z
  <2>6. r + e = f
    BY <2>3, <2>5
  <2> QED BY <2>6 DEF e, f
<1> QED BY <1>1, <1>7, <1>8 DEF p, MergesRows

-----------------------------------------------------------------------------
(* The rows of the tree.                                                   *)

Row(lo, n) ==
  [shift |-> lo, size |-> IF n = 1 THEN job.a ELSE job.a + n, bits |-> x * Low(High(y, lo), n)]

(* A row is a row of the tree and its bits fit its pins.                   *)
LEMMA RowType ==
  ASSUME Sized, NEW lo \in Nat, NEW n \in Nat
  PROVE  Row(lo, n) \in Tree!Rows /\ Row(lo, n).bits < Pow2[Row(lo, n).size]
<1>1. x \in Nat /\ job.a \in Nat /\ x < Pow2[job.a] /\ y \in Nat
  BY DEF Sized
<1>2. High(y, lo) \in Nat
  BY <1>1, LowHigh
<1>3. /\ x * Low(High(y, lo), n) \in Nat
      /\ x * Low(High(y, lo), n) < Pow2[job.a + n]
      /\ n = 1 => x * Low(High(y, lo), n) < Pow2[job.a]
  BY <1>1, <1>2, RowBound
<1>4. Row(lo, n).bits = x * Low(High(y, lo), n) /\ Row(lo, n).shift = lo
      /\ Row(lo, n).size = IF n = 1 THEN job.a ELSE job.a + n
  BY DEF Row
<1>5. Row(lo, n) \in [shift : Nat, size : Nat, bits : Nat]
  <2>1. (IF n = 1 THEN job.a ELSE job.a + n) \in Nat
    BY <1>1
  <2> QED BY <1>3, <2>1 DEF Row
<1> QED BY <1>3, <1>4, <1>5 DEF Tree!Rows

(* LowJoin, under a name.                                                  *)
JoinsBits(z, m, n) ==
  /\ Low(z, m + n) = Low(z, m) + Low(High(z, m), n) * Pow2[m]
  /\ High(z, m + n) = High(High(z, m), n)

(* LowJoin holds of all bits.                                              *)
LEMMA BitsJoined ==
  ASSUME NEW z \in Nat, NEW m \in Nat, NEW n \in Nat
  PROVE  JoinsBits(z, m, n)
BY LowJoin DEF JoinsBits

(* The row that an adder makes of two that meet.                           *)
LEMMA SumOfRows ==
  ASSUME Sized, NEW lo \in Nat, NEW l \in Nat, l = level,
         NEW m \in Nat, m = Pow2[l], NEW n \in 1..m
  PROVE  Tree!Sum(Row(lo, m), Row(lo + m, n)) = Row(lo, m + n)
<1>1. x \in Nat /\ job.a \in Nat \ {0} /\ x < Pow2[job.a] /\ y \in Nat
  BY DEF Sized
<1> DEFINE h == High(y, lo)
           s == Low(h, m)
           t == Low(High(h, m), n)
           first == Row(lo, m)
           second == Row(lo + m, n)
<1>2. h \in Nat /\ High(h, m) \in Nat /\ s \in Nat /\ s < Pow2[m]
  <2>1. h \in Nat
    BY <1>1, LowHigh
  <2> HIDE DEF h
  <2> QED BY <2>1, LowHigh
<1>3. t \in Nat /\ t < Pow2[n] /\ n \in Nat
  <2>1. n \in Nat
    OBVIOUS
  <2>2. PICK g \in Nat : g = High(h, m)
    BY <1>2
  <2> HIDE DEF h
  <2>3. Low(g, n) \in Nat /\ Low(g, n) < Pow2[n]
    BY <2>1, LowHigh
  <2> QED BY <2>1, <2>2, <2>3
<1>4. Low(h, m + n) = s + t * Pow2[m] /\ High(y, lo + m) = High(h, m)
  <2>1. High(y, lo + m) = High(High(y, lo), m)
    <3>1. JoinsBits(y, lo, m)
      BY <1>1, BitsJoined
    <3> QED BY <3>1 DEF JoinsBits
  <2> HIDE DEF h
  <2>2. Low(h, m + n) = s + t * Pow2[m]
    <3>1. h \in Nat /\ n \in Nat
      BY <1>2, <1>3
    <3>2. JoinsBits(h, m, n)
      BY <3>1, BitsJoined
    <3> QED BY <3>2 DEF JoinsBits
  <2> QED BY <2>1, <2>2 DEF h
<1>5. /\ first.shift = lo /\ second.shift = lo + m
      /\ first.size = (IF m = 1 THEN job.a ELSE job.a + m)
      /\ second.size = (IF n = 1 THEN job.a ELSE job.a + n)
      /\ first.bits = x * s /\ second.bits = x * t
  BY <1>4 DEF Row
<1>6. (level = 0) <=> (m = 1)
  <2>1. Pow2[0] = 1
    BY Pow2Step
  <2>2. CASE l = 0
    BY <2>1, <2>2
  <2>3. CASE l # 0
    <3>1. l - 1 \in Nat /\ (l - 1) + 1 = l
      BY <2>3
    <3>2. Pow2[l] = 2 * Pow2[l - 1] /\ Pow2[l - 1] \in Nat \ {0}
      BY <3>1, Pow2Step, Pow2Type
    <3> QED BY <2>3, <3>2
  <2> QED BY <2>2, <2>3
<1> HIDE DEF first, second, s, t, h
<1>7. second.shift - first.shift = m
  BY <1>5
<1>8. Tree!AdderWidth(first, second) = job.a + n
  <2>1. Tree!AdderWidth(first, second) =
          Tree!Larger(first.size - m, second.size) + (IF level = 0 THEN 1 ELSE 0)
            + (IF first.size - m = second.size THEN 1 ELSE 0)
    BY <1>7 DEF Tree!AdderWidth
  <2>2. CASE m = 1
    <3>1. first.size - m = job.a - 1 /\ second.size = job.a /\ n = 1
      BY <1>1, <1>5, <2>2
    <3> QED BY <1>1, <1>6, <2>1, <2>2, <3>1 DEF Tree!Larger
  <2>3. CASE m # 1
    <3>1. first.size - m = job.a
      BY <1>1, <1>5, <2>3
    <3>2. CASE n = 1
      BY <1>1, <1>5, <1>6, <2>1, <2>3, <3>1, <3>2 DEF Tree!Larger
    <3>3. CASE n # 1
      BY <1>1, <1>3, <1>5, <1>6, <2>1, <2>3, <3>1, <3>3 DEF Tree!Larger
    <3> QED BY <3>2, <3>3
  <2> QED BY <2>2, <2>3
<1>9. Tree!Sum(first, second) =
        [shift |-> first.shift,
         size |-> m + (job.a + n),
         bits |-> (first.bits % Pow2[m])
                    + ((first.bits \div Pow2[m] + second.bits) % Pow2[job.a + n]) * Pow2[m]]
  BY <1>7, <1>8, SameNumbers DEF Tree!Sum
<1>10. (first.bits % Pow2[m])
          + ((first.bits \div Pow2[m] + second.bits) % Pow2[job.a + n]) * Pow2[m]
         = x * (s + t * Pow2[m])
  <2>1. MergesRows(x, job.a, m, n, s, t)
    BY <1>1, <1>2, <1>3, RowMerge
  <2> QED BY <1>5, <2>1 DEF MergesRows
<1>11. Row(lo, m + n) = [shift |-> lo, size |-> job.a + (m + n), bits |-> x * Low(h, m + n)]
  <2>1. m + n # 1
    BY <1>3
  <2> QED BY <2>1 DEF Row, h
<1>12. m + (job.a + n) = job.a + (m + n)
  BY <1>1, <1>3
<1> QED BY <1>4, <1>5, <1>9, <1>10, <1>11, <1>12 DEF first, second

(* A chunk is a row.                                                       *)
IsRow(m, k, lo) ==
  \E n \in 1..m : /\ Chunk(m, k) = Row(lo, n)
                  /\ lo + n <= job.b
                  /\ n = m \/ lo + n = job.b

(* Every chunk that begins inside y is a row.                              *)
LEMMA ChunkRow ==
  ASSUME Sized, NEW m \in Nat \ {0}, NEW k \in Nat \ {0}, NEW lo, lo = (k - 1) * m, lo < job.b
  PROVE  lo \in Nat /\ IsRow(m, k, lo)
<1>1. lo \in Nat /\ job.b \in Nat
  <2>1. k - 1 \in Nat
    OBVIOUS
  <2> QED BY <2>1 DEF Sized
<1> DEFINE n == IF m < job.b - lo THEN m ELSE job.b - lo
<1>2. n \in 1..m /\ lo + n <= job.b /\ (n = m \/ lo + n = job.b)
  BY <1>1
<1>3. Chunk(m, k) = Row(lo, n)
  BY DEF Chunk, ChunkOf, Row
<1> QED BY <1>1, <1>2, <1>3 DEF IsRow

(* Two neighbours are merged into a chunk of twice the bits.               *)
LEMMA ChunksMerge ==
  ASSUME Sized, NEW l \in Nat, l = level, NEW m \in Nat \ {0}, m = Pow2[l],
         NEW j \in Nat, (2 * j + 1) * m < job.b
  PROVE  Tree!Sum(Chunk(m, 2 * j + 1), Chunk(m, 2 * j + 2)) = Chunk(2 * m, j + 1)
<1>1. PICK lo : lo = (2 * j) * m
  OBVIOUS
<1>2. lo \in Nat /\ (2 * j + 1) * m = lo + m /\ job.b \in Nat /\ lo + m < job.b
  <2>1. (2 * j + 1) * m = (2 * j) * m + m /\ (2 * j) * m \in Nat
    OBVIOUS
  <2> QED BY <1>1, <2>1 DEF Sized
<1>3. Chunk(m, 2 * j + 1) = Row(lo, m)
  <2>1. 2 * j + 1 \in Nat \ {0} /\ (2 * j + 1) - 1 = 2 * j
    OBVIOUS
  <2>2. ((2 * j + 1) - 1) * m = lo
    BY <1>1, <2>1
  <2>3. m < job.b - lo
    BY <1>2
  <2> QED BY <2>2, <2>3 DEF Chunk, ChunkOf, Row
<1>4. ((2 * j + 2) - 1) * m = lo + m
  <2>1. (2 * j + 2) - 1 = 2 * j + 1
    OBVIOUS
  <2> QED BY <1>2, <2>1
<1>5. PICK n \in 1..m : Chunk(m, 2 * j + 2) = Row(lo + m, n) /\ lo + m + n <= job.b
                        /\ (n = m \/ lo + m + n = job.b)
  <2>1. 2 * j + 2 \in Nat \ {0}
    OBVIOUS
  <2>2. PICK q : q = lo + m
    OBVIOUS
  <2>3. q = ((2 * j + 2) - 1) * m /\ q < job.b
    BY <1>2, <1>4, <2>2
  <2>4. \E n \in 1..m : Chunk(m, 2 * j + 2) = Row(q, n) /\ q + n <= job.b
                        /\ (n = m \/ q + n = job.b)
    <3>1. IsRow(m, 2 * j + 2, q)
      <4>1. PICK k \in Nat \ {0} : k = 2 * j + 2
        BY <2>1
      <4>2. q = (k - 1) * m
        BY <2>3, <4>1
      <4>3. IsRow(m, k, q)
        BY <2>3, <4>2, ChunkRow
      <4> QED BY <4>1, <4>3
    <3> QED BY <3>1 DEF IsRow
  <2> QED BY <2>2, <2>4
<1>6. Chunk(2 * m, j + 1) = Row(lo, m + n)
  <2>1. ((j + 1) - 1) * (2 * m) = lo
    <3>1. (j + 1) - 1 = j /\ j * (2 * m) = (2 * j) * m
      OBVIOUS
    <3> QED BY <1>1, <3>1
  <2>2. (IF 2 * m < job.b - lo THEN 2 * m ELSE job.b - lo) = m + n
    BY <1>2, <1>5
  <2> QED BY <2>1, <2>2 DEF Chunk, ChunkOf, Row
<1>7. Tree!Sum(Row(lo, m), Row(lo + m, n)) = Row(lo, m + n)
  BY <1>2, SumOfRows
<1> QED BY <1>3, <1>5, <1>6, <1>7

-----------------------------------------------------------------------------
(* Steps.                                                                  *)

(* The multiplication and its operands are never changed.                  *)
LEMMA OperandsKept == [Next]_vars => UNCHANGED <<job, x, y>>
<1> USE DEF Tree!operands, Rows!operands, Const!operands
<1>1. ResolveConstant \/ ResolvePorts \/ ResolveNothing \/ IterateToTree \/ IterateKept
        \/ MapToRows \/ MapNotSoft => UNCHANGED <<job, x, y>>
  BY DEF ResolveConstant, ResolvePorts, ResolveNothing, IterateToTree, IterateKept, MapToRows,
         MapNotSoft, Tree!Begin, Rows!Begin, Const!Begin
<1>2. Tree!Next => UNCHANGED <<job, x, y>>
  BY DEF Tree!Next, Tree!AddRows, Tree!NextLevel, Tree!RemapOutputs
<1>3. Rows!Next => UNCHANGED <<job, x, y>>
  BY DEF Rows!Next, Rows!HookUpAdder, Rows!HookUpOutputs
<1>4. Const!Next => UNCHANGED <<job, x, y>>
  BY DEF Const!Next, Const!PruneConstant, Const!PassStage, Const!CopyStage, Const!AddStage,
         Const!ConnectOutputs
<1>5. UNCHANGED vars => UNCHANGED <<job, x, y>>
  BY DEF vars
<1> QED BY <1>1, <1>2, <1>3, <1>4, <1>5 DEF Next

(* The steps outside the tree leave its variables alone.                   *)
LEMMA OutsideTree ==
  ASSUME [Next]_vars, ~IterateToTree, ~(Tree!Next /\ UNCHANGED <<rowsVars, constVars>>)
  PROVE  /\ UNCHANGED <<level, stage, next>>
         /\ phase' \in {"tree", "remap"} => phase' = phase
         /\ phase' \in {"resolve", "iterate", "map", "rows", "prune", "stages"} =>
              phase \in {"resolve", "iterate", "map", "rows", "prune", "stages"}
<1> USE DEF treeVars
<1>1. CASE ResolveConstant
  BY <1>1 DEF ResolveConstant, Const!Begin
<1>2. CASE ResolvePorts \/ ResolveNothing \/ IterateKept \/ MapNotSoft
  BY <1>2 DEF ResolvePorts, ResolveNothing, IterateKept, MapNotSoft
<1>3. CASE MapToRows
  BY <1>3 DEF MapToRows, Rows!Begin
<1>4. CASE Rows!Next /\ UNCHANGED <<treeVars, constVars>>
  BY <1>4 DEF Rows!Next, Rows!HookUpAdder, Rows!HookUpOutputs
<1>5. CASE Const!Next /\ UNCHANGED <<treeVars, rowsVars>>
  BY <1>5 DEF Const!Next, Const!PruneConstant, Const!PassStage, Const!CopyStage, Const!AddStage,
              Const!ConnectOutputs
<1>6. CASE UNCHANGED vars
  BY <1>6 DEF vars
<1> QED BY <1>1, <1>2, <1>3, <1>4, <1>5, <1>6 DEF Next

(* A number is smaller than its power of two.                              *)
LEMMA SmallerThanPower == \A n \in Nat : n < Pow2[n]
<1> DEFINE S == {n \in Nat : n < Pow2[n]}
<1>1. 0 \in S
  BY Pow2Step
<1>2. ASSUME NEW n \in S PROVE n + 1 \in S
  <2>1. Pow2[n + 1] = 2 * Pow2[n] /\ Pow2[n] \in Nat
    BY Pow2Step, Pow2Type
  <2> QED BY <2>1
<1>3. S \in SUBSET Nat
  OBVIOUS
<1> HIDE DEF S
<1>4. S = Nat
  BY <1>1, <1>2, <1>3, SetInduction
<1> QED BY <1>4 DEF S

(* The last level has room for all bits in one row.                        *)
LEMMA EnoughLevels ==
  ASSUME Sized, job.b > 1
  PROVE  Tree!AddLevels \in Nat /\ job.b <= Pow2[Tree!AddLevels]
<1> DEFINE Enough(l) == Pow2[l] >= job.b /\ \A k \in 0..l - 1 : Pow2[k] < job.b
<1>1. job.b - 1 \in Nat \ {0} /\ job.b \in Nat
  BY DEF Sized
<1>2. job.b - 1 < Pow2[job.b - 1]
  <2>1. job.b - 1 \in Nat
    BY <1>1
  <2> QED BY <2>1, SmallerThanPower
<1>3. PICK n \in 1..job.b - 1 : Pow2[n - 1] <= job.b - 1 /\ job.b - 1 < Pow2[n]
  <2> DEFINE w == job.b - 1
  <2>1. w \in Nat \ {0} /\ w \in Nat /\ w < Pow2[w]
    BY <1>1, <1>2
  <2> HIDE DEF w
  <2>2. \E n \in 1..w : Pow2[n - 1] <= w /\ w < Pow2[n]
    BY <2>1, HighestOne
  <2> QED BY <2>2 DEF w
<1>4. Enough(n)
  <2>1. n \in Nat /\ n - 1 \in Nat /\ Pow2[n] \in Nat /\ Pow2[n - 1] \in Nat
    <3>1. n \in Nat /\ n - 1 \in Nat
      BY <1>1
    <3> QED BY <3>1, Pow2Type
  <2>2. ASSUME NEW k \in 0..n - 1 PROVE Pow2[k] < job.b
    <3>1. k \in Nat /\ k <= n - 1
      BY <2>1
    <3>2. Pow2[k] <= Pow2[n - 1] /\ Pow2[k] \in Nat
      BY <2>1, <3>1, Pow2Monotone, Pow2Type
    <3> QED BY <1>1, <1>3, <2>1, <3>2
  <2> QED BY <1>1, <1>3, <2>1, <2>2
<1>5. Tree!AddLevels = CHOOSE l \in 0..job.b : Enough(l)
  BY SameNumbers DEF Tree!AddLevels
<1>6. n \in 0..job.b
  BY <1>1
<1> HIDE DEF Enough
<1>7. Tree!AddLevels \in 0..job.b /\ Enough(Tree!AddLevels)
  BY <1>4, <1>5, <1>6
<1>8. Pow2[Tree!AddLevels] >= job.b
  BY <1>7 DEF Enough
<1> QED BY <1>1, <1>7, <1>8

-----------------------------------------------------------------------------
(* The tree.                                                               *)

Good(r) == r \in Tree!Rows /\ r.bits < Pow2[r.size]

(* A chunk that begins inside y has its type and fits its pins.            *)
LEMMA ChunkGood ==
  ASSUME Sized, NEW m \in Nat \ {0}, NEW k \in Nat \ {0}, (k - 1) * m < job.b
  PROVE  Good(Chunk(m, k))
<1>1. PICK lo : lo = (k - 1) * m
  OBVIOUS
<1>2. lo < job.b
  BY <1>1
<1>3. lo \in Nat /\ IsRow(m, k, lo)
  BY <1>1, <1>2, ChunkRow
<1>4. PICK n \in 1..m : Chunk(m, k) = Row(lo, n)
  BY <1>3 DEF IsRow
<1>5. n \in Nat
  OBVIOUS
<1> QED BY <1>3, <1>4, <1>5, RowType DEF Good

(* At the beginning every row stands for one bit of y.                     *)
LEMMA TreeBegin ==
  ASSUME PhaseInv, PhaseInv', TreeInv, IterateToTree
  PROVE  TreeInv'
<1>1. Sized /\ phase = "iterate" /\ MadeTree
  BY OperandsSized DEF IterateToTree, MadeTree, PhaseInv
<1>2. job.b \in Nat /\ job.b > 1
  BY <1>1 DEF MadeTree, TooSmall, Sized
<1>3. /\ stage' = [k \in 1..job.b |-> Tree!PartialProduct(k - 1)] /\ phase' = "tree"
      /\ UNCHANGED <<job, x, y, level, next>>
  BY <1>2 DEF IterateToTree, Tree!Begin, Tree!operands
<1>4. level = 0 /\ next = <<>>
  BY <1>1 DEF TreeInv
<1>5. ASSUME NEW k \in 1..job.b
      PROVE  Tree!PartialProduct(k - 1) = Chunk(1, k) /\ Good(Chunk(1, k))
  <2>1. PICK lo \in Nat : lo = k - 1
    BY <1>2
  <2>2. (k - 1) * 1 = lo /\ lo < job.b
    BY <1>2, <2>1
  <2>3. (IF 1 < job.b - lo THEN 1 ELSE job.b - lo) = 1
    BY <1>2, <2>2
  <2>4. Chunk(1, k) = [shift |-> lo, size |-> job.a, bits |-> x * Low(High(y, lo), 1)]
    BY <2>2, <2>3 DEF Chunk, ChunkOf
  <2>5. Low(High(y, lo), 1) = Bit(y, lo)
    <3>1. Pow2[1] = 2
      BY Pow2Step
    <3> QED BY <3>1 DEF Low, Bit
  <2>6. Tree!PartialProduct(k - 1) = [shift |-> lo, size |-> job.a, bits |-> x * Bit(y, lo)]
    BY <2>1, SameNumbers DEF Tree!PartialProduct
  <2>7. 1 \in Nat \ {0} /\ k \in Nat \ {0} /\ (k - 1) * 1 < job.b
    BY <1>2, <2>2
  <2>8. Good(Chunk(1, k))
    BY <1>1, <2>7, ChunkGood
  <2> QED BY <2>4, <2>5, <2>6, <2>8
<1>6. /\ stage' \in Seq(Tree!Rows) /\ Len(stage') = job.b
      /\ \A k \in 1..job.b : stage'[k] = Chunk(1, k) /\ Good(stage'[k])
  <2>1. \A k \in 1..job.b : stage'[k] = Chunk(1, k) /\ Good(stage'[k])
    BY <1>3, <1>5
  <2>2. stage' \in [1..job.b -> Tree!Rows]
    BY <1>3, <1>5 DEF Good
  <2> QED BY <1>2, <2>1, <2>2
<1>7. Tree!TypeOK'
  <2>1. level' \in Nat /\ next' \in Seq(Tree!Rows)
    BY <1>3, <1>4
  <2>2. \A k \in DOMAIN stage' : stage'[k].bits < Pow2[stage'[k].size]
    BY <1>2, <1>6 DEF Good
  <2>3. \A k \in DOMAIN next' : next'[k].bits < Pow2[next'[k].size]
    BY <1>3, <1>4
  <2> QED BY <1>6, <2>1, <2>2, <2>3, SameNumbers DEF Tree!TypeOK
<1>8. Pow2[level'] = 1 /\ Len(next') = 0 /\ job' = job /\ x' = x /\ y' = y
  BY <1>3, <1>4, Pow2Step
<1>9. /\ \A k \in 1..Len(next') : next'[k] = ChunkOf(job', x', y', 2 * Pow2[level'], k)
      /\ \A k \in 1..Len(stage') :
           stage'[k] = ChunkOf(job', x', y', Pow2[level'], 2 * Len(next') + k)
      /\ Spans(2 * Len(next') + Len(stage'), Pow2[level'], job'.b)
  <2>1. \A k \in 1..Len(stage') :
          stage'[k] = ChunkOf(job', x', y', Pow2[level'], 2 * Len(next') + k)
    <3>1. \A k \in 1..job.b : stage'[k] = ChunkOf(job, x, y, 1, k)
      BY <1>6 DEF Chunk
    <3>2. \A k \in 1..job.b : 2 * 0 + k = k
      BY <1>2
    <3> QED BY <1>6, <1>8, <3>1, <3>2
  <2>2. 2 * Len(next') + Len(stage') = job.b
    BY <1>2, <1>6, <1>8
  <2>3. Spans(job.b, 1, job.b)
    BY <1>2 DEF Spans
  <2> QED BY <1>2, <1>8, <2>1, <2>2, <2>3
<1> QED BY <1>3, <1>7, <1>9 DEF TreeInv, Chunk

(* An adder of the tree leaves its rows as the invariant says.             *)
LEMMA TreeAdd ==
  ASSUME PhaseInv, TreeInv, Tree!AddRows
  PROVE  TreeInv'
<1>1. Sized /\ job.b \in Nat
  BY OperandsSized DEF Sized
<1>2. /\ phase = "tree" /\ Len(stage) >= 2
      /\ next' = Append(next, Tree!Sum(stage[1], stage[2]))
      /\ stage' = SubSeq(stage, 3, Len(stage))
      /\ UNCHANGED <<job, x, y, level, phase>>
  BY DEF Tree!AddRows, Tree!operands
<1> DEFINE m == Pow2[level]
           n == Len(next)
           s == Len(stage)
<1>3. /\ level \in Nat /\ stage \in Seq(Tree!Rows) /\ next \in Seq(Tree!Rows)
      /\ \A k \in DOMAIN stage : stage[k].bits < Pow2[stage[k].size]
      /\ \A k \in DOMAIN next : next[k].bits < Pow2[next[k].size]
  BY SameNumbers DEF TreeInv, Tree!TypeOK
<1>4. /\ \A k \in 1..n : next[k] = Chunk(2 * m, k)
      /\ \A k \in 1..s : stage[k] = Chunk(m, 2 * n + k)
      /\ Spans(2 * n + s, m, job.b)
  BY <1>2 DEF TreeInv
<1>5. m \in Nat \ {0} /\ n \in Nat /\ s \in Nat /\ s >= 2
  BY <1>2, <1>3, Pow2Type
<1> HIDE DEF m, n, s
<1>6. (2 * n + 1) * m < job.b /\ ((n + 1) - 1) * (2 * m) < job.b
  <2>1. ((2 * n + s) - 1) * m = (2 * n + 1) * m + (s - 2) * m
    BY <1>5
  <2>2. (s - 2) * m \in Nat /\ (2 * n + 1) * m \in Nat
    <3>1. s - 2 \in Nat /\ 2 * n + 1 \in Nat
      BY <1>5
    <3> QED BY <1>5, <3>1
  <2>3. (2 * n + 1) * m < job.b
    <3> DEFINE g == ((2 * n + s) - 1) * m
               h == (2 * n + 1) * m
               f == (s - 2) * m
    <3>1. g < job.b
      BY <1>4 DEF Spans
    <3>2. g = h + f /\ f \in Nat /\ h \in Nat
      BY <2>1, <2>2
    <3> HIDE DEF f, g, h
    <3>3. h < job.b
      BY <1>1, <3>1, <3>2
    <3> QED BY <3>3 DEF h
  <2>4. (n + 1) - 1 = n /\ (2 * n + 1) * m = n * (2 * m) + m /\ n * (2 * m) \in Nat
    BY <1>5
  <2> QED BY <1>1, <1>5, <2>3, <2>4
<1>7. Tree!Sum(stage[1], stage[2]) = Chunk(2 * m, n + 1)
  <2>1. stage[1] = Chunk(m, 2 * n + 1) /\ stage[2] = Chunk(m, 2 * n + 2)
    BY <1>4, <1>5
  <2>2. Tree!Sum(Chunk(m, 2 * n + 1), Chunk(m, 2 * n + 2)) = Chunk(2 * m, n + 1)
    BY <1>1, <1>3, <1>5, <1>6, ChunksMerge DEF m
  <2> QED BY <2>1, <2>2
<1>8. Good(Chunk(2 * m, n + 1))
  <2>1. 2 * m \in Nat \ {0} /\ n + 1 \in Nat \ {0}
    BY <1>5
  <2> QED BY <1>1, <1>6, <2>1, ChunkGood
<1>9. /\ next' \in Seq(Tree!Rows) /\ Len(next') = n + 1
      /\ \A k \in 1..n + 1 : next'[k] = Chunk(2 * m, k)
      /\ \A k \in 1..n + 1 : next'[k].bits < Pow2[next'[k].size]
  <2> DEFINE c == Chunk(2 * m, n + 1)
  <2>1. c \in Tree!Rows /\ c.bits < Pow2[c.size] /\ next' = Append(next, c)
    BY <1>2, <1>7, <1>8 DEF Good
  <2>2. \A k \in 1..n : next[k].bits < Pow2[next[k].size]
    BY <1>3 DEF n
  <2> HIDE DEF c
  <2>3. /\ next' \in Seq(Tree!Rows) /\ Len(next') = n + 1
        /\ next'[n + 1] = c /\ \A k \in 1..n : next'[k] = next[k]
    BY <1>3, <2>1 DEF n
  <2>4. ASSUME NEW k \in 1..n + 1
        PROVE  next'[k] = Chunk(2 * m, k) /\ next'[k].bits < Pow2[next'[k].size]
    <3>1. CASE k = n + 1
      BY <2>1, <2>3, <3>1 DEF c
    <3>2. CASE k # n + 1
      <4>1. k \in 1..n
        BY <1>5, <3>2
      <4> QED BY <1>4, <2>2, <2>3, <4>1
    <3> QED BY <3>1, <3>2
  <2> QED BY <2>3, <2>4
<1>10. /\ stage' \in Seq(Tree!Rows) /\ Len(stage') = s - 2
       /\ \A k \in 1..s - 2 : stage'[k] = stage[k + 2]
  <2>1. SubSeq(stage, 3, s) \in Seq(Tree!Rows) /\ Len(SubSeq(stage, 3, s)) = s - 2
    <3>1. \A k \in 3..s : stage[k] \in Tree!Rows
      BY <1>3, <1>5 DEF s
    <3>2. /\ SubSeq(stage, 3, s) \in Seq(Tree!Rows)
          /\ Len(SubSeq(stage, 3, s)) = IF 3 <= s THEN s - 3 + 1 ELSE 0
      BY <1>5, <3>1, SubSeqProperties
    <3> QED BY <1>5, <3>2
  <2>2. \A k \in 1..s - 2 : SubSeq(stage, 3, s)[k] = stage[k + 2]
    <3> TAKE k \in 1..s - 2
    <3>1. SubSeq(stage, 3, s)[k] = stage[3 + k - 1]
      <4>1. \A j \in 3..s : stage[j] \in Tree!Rows
        BY <1>3, <1>5 DEF s
      <4>2. k \in 1..s - 3 + 1
        BY <1>5
      <4> QED BY <1>5, <4>1, <4>2, SubSeqProperties
    <3>2. 3 + k - 1 = k + 2
      BY <1>5
    <3> QED BY <3>1, <3>2
  <2> QED BY <1>2, <2>1, <2>2 DEF s
<1>11. ASSUME NEW k \in 1..s - 2
       PROVE  stage'[k] = Chunk(m, 2 * (n + 1) + k) /\ stage'[k].bits < Pow2[stage'[k].size]
  <2>1. k + 2 \in 1..s /\ 2 * n + (k + 2) = 2 * (n + 1) + k
    BY <1>5
  <2>2. stage'[k] = stage[k + 2]
    BY <1>10
  <2>3. stage[k + 2] = Chunk(m, 2 * n + (k + 2)) /\ stage[k + 2].bits < Pow2[stage[k + 2].size]
    <3>1. k + 2 \in DOMAIN stage
      BY <1>3, <2>1 DEF s
    <3> QED BY <1>3, <1>4, <2>1, <3>1
  <2> QED BY <2>1, <2>2, <2>3
<1>12. Tree!TypeOK'
  <2>1. DOMAIN stage' = 1..s - 2 /\ DOMAIN next' = 1..n + 1
    BY <1>5, <1>9, <1>10
  <2> QED BY <1>2, <1>3, <1>9, <1>10, <1>11, <2>1, SameNumbers DEF Tree!TypeOK
<1>13. Pow2[level'] = m /\ job' = job /\ x' = x /\ y' = y
  BY <1>2 DEF m
<1>14. /\ \A k \in 1..Len(next') : next'[k] = ChunkOf(job', x', y', 2 * Pow2[level'], k)
       /\ \A k \in 1..Len(stage') :
            stage'[k] = ChunkOf(job', x', y', Pow2[level'], 2 * Len(next') + k)
       /\ Spans(2 * Len(next') + Len(stage'), Pow2[level'], job'.b)
  <2>1. 2 * Len(next') + Len(stage') = 2 * n + s
    BY <1>5, <1>9, <1>10
  <2>2. \A k \in 1..Len(next') : next'[k] = ChunkOf(job', x', y', 2 * Pow2[level'], k)
    BY <1>9, <1>13 DEF Chunk
  <2>3. \A k \in 1..Len(stage') :
          stage'[k] = ChunkOf(job', x', y', Pow2[level'], 2 * Len(next') + k)
    BY <1>9, <1>10, <1>11, <1>13 DEF Chunk
  <2> QED BY <1>4, <1>13, <2>1, <2>2, <2>3
<1> QED BY <1>2, <1>12, <1>14 DEF TreeInv, Chunk

(* A row that is left over is one of the next level.                       *)
LEMMA OddChunk ==
  ASSUME Sized, NEW m \in Nat \ {0}, NEW n \in Nat, Spans(2 * n + 1, m, job.b)
  PROVE  Chunk(m, 2 * n + 1) = Chunk(2 * m, n + 1)
<1> DEFINE lo == (2 * n) * m
<1>1. lo \in Nat /\ (2 * n + 1) * m = lo + m /\ n * (2 * m) = lo /\ job.b \in Nat
  BY DEF Sized
<1>2. (2 * n + 1) - 1 = 2 * n /\ (n + 1) - 1 = n
  OBVIOUS
<1>3. ((2 * n + 1) - 1) * m = lo /\ ((n + 1) - 1) * (2 * m) = lo
  BY <1>1, <1>2
<1>4. job.b <= lo + m
  BY <1>1 DEF Spans
<1> HIDE DEF lo
<1>5. (IF m < job.b - lo THEN m ELSE job.b - lo) = job.b - lo
      /\ (IF 2 * m < job.b - lo THEN 2 * m ELSE job.b - lo) = job.b - lo
  BY <1>1, <1>4
<1> QED BY <1>3, <1>5 DEF Chunk, ChunkOf

(* Half as many rows of twice as many bits span y as well.                 *)
LEMMA HalfAsMany ==
  ASSUME NEW n \in Nat, NEW s \in {0, 1}, NEW m \in Nat \ {0}, NEW b \in Nat,
         Spans(2 * n + s, m, b)
  PROVE  Spans(n + s, 2 * m, b)
<1> DEFINE h == (2 * n) * m
<1>1. h \in Nat /\ (2 * n + 1) * m = h + m /\ (n + 0) * (2 * m) = h
      /\ ((n + 0) - 1) * (2 * m) = h - 2 * m /\ ((n + 1) - 1) * (2 * m) = h
      /\ (n + 1) * (2 * m) = h + 2 * m /\ ((2 * n + 0) - 1) * m = h - m
      /\ ((2 * n + 1) - 1) * m = h /\ (2 * n + 0) * m = h
  OBVIOUS
<1> HIDE DEF h
<1>2. CASE s = 0
  <2>1. h - m < b /\ b <= h
    BY <1>1, <1>2 DEF Spans
  <2>2. h - 2 * m < b
    BY <1>1, <2>1
  <2> QED BY <1>1, <1>2, <2>1, <2>2 DEF Spans
<1>3. CASE s = 1
  <2>1. h < b /\ b <= h + m
    BY <1>1, <1>3 DEF Spans
  <2>2. b <= h + 2 * m
    BY <1>1, <2>1
  <2> QED BY <1>1, <1>3, <2>1, <2>2 DEF Spans
<1> QED BY <1>2, <1>3

(* So does going on to the next level, where a row stands for twice as     *)
(* many bits.                                                              *)
LEMMA TreeUp ==
  ASSUME PhaseInv, TreeInv, Tree!NextLevel
  PROVE  TreeInv'
<1>1. Sized /\ job.b \in Nat /\ job.b > 1
  <2>1. Sized /\ MadeTree
    BY OperandsSized DEF PhaseInv, Tree!NextLevel
  <2> QED BY <2>1 DEF Sized, MadeTree, TooSmall
<1>2. /\ phase = "tree" /\ Len(stage) < 2
      /\ level' = level + 1 /\ stage' = next \o stage /\ next' = <<>>
      /\ phase' = (IF level' = Tree!AddLevels THEN "remap" ELSE phase)
      /\ UNCHANGED <<job, x, y>>
  BY DEF Tree!NextLevel, Tree!operands
<1> DEFINE m == Pow2[level]
           n == Len(next)
           s == Len(stage)
<1>3. /\ level \in Nat /\ stage \in Seq(Tree!Rows) /\ next \in Seq(Tree!Rows)
      /\ \A k \in DOMAIN stage : stage[k].bits < Pow2[stage[k].size]
      /\ \A k \in DOMAIN next : next[k].bits < Pow2[next[k].size]
  BY SameNumbers DEF TreeInv, Tree!TypeOK
<1>4. /\ \A k \in 1..n : next[k] = Chunk(2 * m, k)
      /\ \A k \in 1..s : stage[k] = Chunk(m, 2 * n + k)
      /\ Spans(2 * n + s, m, job.b)
  BY <1>2 DEF TreeInv
<1>5. m \in Nat \ {0} /\ n \in Nat /\ s \in {0, 1} /\ Pow2[level + 1] = 2 * m
  <2>1. m \in Nat \ {0} /\ Pow2[level + 1] = 2 * m
    BY <1>3, Pow2Type, Pow2Step
  <2>2. n \in Nat /\ s \in Nat /\ s < 2
    BY <1>2, <1>3
  <2> HIDE DEF m, n, s
  <2> QED BY <2>1, <2>2
<1> HIDE DEF m, n, s
<1>6. /\ stage' \in Seq(Tree!Rows) /\ Len(stage') = n + s
      /\ \A k \in 1..n : stage'[k] = next[k]
      /\ s = 1 => stage'[n + 1] = stage[1]
  BY <1>2, <1>3 DEF n, s
<1>7. ASSUME NEW k \in 1..n + s
      PROVE  stage'[k] = Chunk(2 * m, k) /\ stage'[k].bits < Pow2[stage'[k].size]
  <2>1. CASE k \in 1..n
    <3>1. k \in DOMAIN next
      BY <1>3, <2>1 DEF n
    <3> QED BY <1>3, <1>4, <1>6, <2>1, <3>1
  <2>2. CASE ~(k \in 1..n)
    <3>1. s = 1 /\ k = n + 1
      BY <1>5, <2>2
    <3>2. stage[1] = Chunk(m, 2 * n + 1) /\ 1 \in DOMAIN stage
      BY <1>3, <1>4, <3>1 DEF s
    <3>3. Chunk(m, 2 * n + 1) = Chunk(2 * m, n + 1)
      BY <1>1, <1>4, <1>5, <3>1, OddChunk
    <3> QED BY <1>3, <1>6, <3>1, <3>2, <3>3
  <2> QED BY <2>1, <2>2
<1>8. Tree!TypeOK'
  <2>1. DOMAIN stage' = 1..n + s
    BY <1>5, <1>6
  <2>2. level' \in Nat /\ next' \in Seq(Tree!Rows) /\ DOMAIN next' = {}
    BY <1>2, <1>3
  <2> QED BY <1>6, <1>7, <2>1, <2>2, SameNumbers DEF Tree!TypeOK
<1>9. Pow2[level'] = 2 * m /\ Len(next') = 0 /\ job' = job /\ x' = x /\ y' = y
  BY <1>2, <1>5
<1>10. Spans(n + s, 2 * m, job.b)
  BY <1>1, <1>4, <1>5, HalfAsMany
<1>11. /\ \A k \in 1..Len(next') : next'[k] = ChunkOf(job', x', y', 2 * Pow2[level'], k)
       /\ \A k \in 1..Len(stage') :
            stage'[k] = ChunkOf(job', x', y', Pow2[level'], 2 * Len(next') + k)
       /\ Spans(2 * Len(next') + Len(stage'), Pow2[level'], job'.b)
  <2>1. \A k \in 1..n + s : stage'[k] = ChunkOf(job, x, y, 2 * m, k)
    BY <1>7 DEF Chunk
  <2>2. \A k \in 1..n + s : 2 * 0 + k = k
    BY <1>5
  <2>3. 2 * 0 + (n + s) = n + s
    BY <1>5
  <2> QED BY <1>6, <1>9, <1>10, <2>1, <2>2, <2>3
<1>12. phase' = "remap" => job'.b <= Pow2[level']
  BY <1>1, <1>2, <1>9, EnoughLevels
<1>13. phase' \in {"tree", "remap"}
  BY <1>2
<1> QED BY <1>2, <1>8, <1>11, <1>12, <1>13 DEF TreeInv, Chunk

(* No step disturbs the rows of the tree.                                  *)
LEMMA TreeNext ==
  ASSUME PhaseInv, PhaseInv', TreeInv, [Next]_vars
  PROVE  TreeInv'
<1>1. UNCHANGED <<job, x, y>>
  BY OperandsKept
<1>2. CASE IterateToTree
  BY <1>2, TreeBegin
<1>3. CASE Tree!Next /\ UNCHANGED <<rowsVars, constVars>>
  <2>1. CASE Tree!AddRows
    BY <2>1, TreeAdd
  <2>2. CASE Tree!NextLevel
    BY <2>2, TreeUp
  <2>3. CASE Tree!RemapOutputs
    <3>1. UNCHANGED <<level, stage, next>> /\ phase' \in {"done", "assertion_failed"}
      BY <2>3 DEF Tree!RemapOutputs
    <3>2. Tree!TypeOK'
      BY <3>1 DEF TreeInv, Tree!TypeOK
    <3> QED BY <3>1, <3>2 DEF TreeInv
  <2> QED BY <1>3, <2>1, <2>2, <2>3 DEF Tree!Next
<1>4. CASE ~IterateToTree /\ ~(Tree!Next /\ UNCHANGED <<rowsVars, constVars>>)
  <2>1. /\ level' = level /\ stage' = stage /\ next' = next
        /\ phase' \in {"tree", "remap"} => phase' = phase
        /\ phase' \in {"resolve", "iterate", "map", "rows", "prune", "stages"} =>
             phase \in {"resolve", "iterate", "map", "rows", "prune", "stages"}
    BY <1>4, OutsideTree
  <2>2. Tree!TypeOK'
    BY <2>1 DEF TreeInv, Tree!TypeOK
  <2>3. job' = job /\ x' = x /\ y' = y
    BY <1>1
  <2> QED BY <2>1, <2>2, <2>3 DEF TreeInv, Chunk
<1> QED BY <1>2, <1>3, <1>4

-----------------------------------------------------------------------------
(* The rows.                                                               *)

(* What the next bit of y adds to the product, and to its bits above those *)
(* that are outputs already.                                               *)
PartialFacts(k) ==
  LET p == Partial(k)
      q == Partial(k + 1)
  IN  /\ p \in Nat /\ q \in Nat
      /\ Low(p, k) \in Nat /\ High(p, k) \in Nat /\ High(p, k) < Pow2[job.a + 1]
      /\ High(q, k + 1) \in Nat /\ High(q, k + 1) < Pow2[job.a + 1]
      /\ p = Low(p, k) + High(p, k) * Pow2[k]
      /\ q = Low(q, k + 1) + High(q, k + 1) * Pow2[k + 1]
      /\ High(p, k) \div 2 = High(p, k + 1)
      /\ Low(p, k + 1) = Low(p, k) + Bit(p, k) * Pow2[k]
      /\ Bit(High(p, k), 0) = Bit(p, k)
      /\ Low(q, k + 1) = Low(p, k + 1)
      /\ High(q, k + 1) = High(p, k + 1) + x * Bit(y, k + 1)

(* The sum of the first rows is a number whose upper bits fit an adder.    *)
LEMMA PartialType ==
  ASSUME Sized, NEW k \in Nat
  PROVE  /\ Partial(k) \in Nat /\ Low(Partial(k), k) \in Nat /\ High(Partial(k), k) \in Nat
         /\ High(Partial(k), k) < Pow2[job.a + 1]
         /\ Partial(k) = Low(Partial(k), k) + High(Partial(k), k) * Pow2[k]
<1> DEFINE a == job.a
           p == Partial(k)
<1>1. x \in Nat /\ y \in Nat /\ a \in Nat /\ x < Pow2[a] /\ k + 1 \in Nat
  BY DEF Sized
<1>2. p \in Nat /\ p < Pow2[a + (k + 1)]
  <2> HIDE DEF a
  <2>1. PICK n \in Nat : n = k + 1
    OBVIOUS
  <2>2. x * Low(y, n) \in Nat /\ x * Low(y, n) < Pow2[a + n]
    BY <1>1, RowBound
  <2> QED BY <2>1, <2>2 DEF Partial
<1> HIDE DEF a, p
<1>3. Low(p, k) \in Nat /\ High(p, k) \in Nat /\ p = Low(p, k) + High(p, k) * Pow2[k]
  BY <1>2, LowHigh
<1>4. High(p, k) < Pow2[a + 1]
  <2>1. PICK v \in Nat : v = a + (k + 1)
    BY <1>1
  <2>2. k <= v /\ p < Pow2[v] /\ v - k = a + 1
    BY <1>1, <1>2, <2>1
  <2>3. High(p, k) < Pow2[v - k]
    BY <1>2, <2>2, HighBound
  <2> QED BY <2>2, <2>3
<1> QED BY <1>2, <1>3, <1>4 DEF p, a

(* What one more adder of the rows adds, and that no carry is lost.        *)
LEMMA PartialStep ==
  ASSUME Sized, NEW k \in Nat
  PROVE  PartialFacts(k)
<1>1. PICK n \in Nat : n = k + 1
  OBVIOUS
<1> DEFINE p == Partial(k)
           q == Partial(n)
           c == x * Bit(y, n)
<1>2. x \in Nat /\ y \in Nat
  BY DEF Sized
<1>3. /\ p \in Nat /\ Low(p, k) \in Nat /\ High(p, k) \in Nat /\ High(p, k) < Pow2[job.a + 1]
      /\ p = Low(p, k) + High(p, k) * Pow2[k]
  BY PartialType
<1>4. /\ q \in Nat /\ High(q, n) \in Nat /\ High(q, n) < Pow2[job.a + 1]
      /\ q = Low(q, n) + High(q, n) * Pow2[n]
  BY PartialType
<1>5. Bit(y, n) \in {0, 1} /\ Low(y, n) \in Nat /\ Pow2[n] \in Nat
  <2>1. y \in Int
    BY <1>2
  <2> QED BY <1>2, <2>1, BitStep, LowHigh, Pow2Type
<1>6. q = p + c * Pow2[n] /\ c \in Nat
  <2>1. Low(y, n + 1) = Low(y, n) + Bit(y, n) * Pow2[n]
    BY <1>2, LowStep
  <2>2. p = x * Low(y, n) /\ q = x * Low(y, n + 1)
    BY <1>1 DEF Partial
  <2> DEFINE l == Low(y, n)
             b == Bit(y, n)
             w == Pow2[n]
  <2>3. l \in Nat /\ b \in Nat /\ w \in Nat
    BY <1>5
  <2>4. q = x * (l + b * w) /\ p = x * l /\ c = x * b
    BY <2>1, <2>2
  <2> HIDE DEF l, b, w, p, q, c
  <2>5. x * (l + b * w) = x * l + (x * b) * w /\ x * b \in Nat
    BY <1>2, <2>3
  <2> QED BY <2>4, <2>5 DEF w
<1> HIDE DEF p, q, c
<1>7. Low(q, n) = Low(p, n) /\ High(q, n) = High(p, n) + c
  BY <1>3, <1>6, AddAbove
<1>8. High(p, k) \div 2 = High(p, k + 1) /\ Bit(High(p, k), 0) = Bit(p, k + 0)
  BY <1>3, HighHalf
<1>9. Low(p, k + 1) = Low(p, k) + Bit(p, k) * Pow2[k]
  BY <1>3, LowStep
<1> QED BY <1>1, <1>3, <1>4, <1>7, <1>8, <1>9 DEF p, q, c, PartialFacts

(* The lowest row is the multiplier or nothing.                            *)
LEMMA PartialFirst ==
  ASSUME Sized
  PROVE  Rows!PartialProduct(0) = Partial(0) /\ High(Partial(0), 0) = Partial(0)
<1>1. x \in Nat /\ y \in Nat /\ y \in Int
  BY DEF Sized
<1>2. Low(y, 1) = Bit(y, 0)
  <2>1. /\ Low(y, 0) = 0 /\ Low(y, 0 + 1) = Low(y, 0) + Bit(y, 0) * Pow2[0]
        /\ Pow2[0] = 1 /\ Bit(y, 0) \in {0, 1}
    BY <1>1, LowStep, Pow2Step, BitStep
  <2> QED BY <2>1
<1>3. Partial(0) \in Nat
  BY PartialType
<1>4. High(Partial(0), 0) = Partial(0)
  <2>1. Partial(0) \in Int /\ 0 \in Nat
    BY <1>3
  <2> QED BY <2>1, BitStep
<1> QED BY <1>2, <1>4, SameNumbers DEF Partial, Rows!PartialProduct

(* An adder of the rows holds the upper bits of the sum so far.            *)
LEMMA RowsAdd ==
  ASSUME PhaseInv, RowsInv, Rows!HookUpAdder
  PROVE  RowsInv'
<1>1. Sized /\ job.b \in Nat \ {0} /\ job.a \in Nat
  BY OperandsSized DEF Sized
<1> DEFINE n == Len(adders)
<1>2. /\ phase = "rows" /\ n < job.b - 1
      /\ adders' = Append(adders, (Rows!Upper + Rows!PartialProduct(n + 1)) % Pow2[job.a + 1])
      /\ phase' = phase /\ job' = job /\ x' = x /\ y' = y
  BY SameNumbers DEF Rows!HookUpAdder, Rows!operands
<1>3. /\ adders \in Seq(Nat) /\ n \in Nat
      /\ \A k \in 1..n : adders[k] = High(Partial(k), k)
  BY DEF RowsInv
<1>4. PartialFacts(n)
  BY <1>1, <1>3, PartialStep
<1>5. Rows!Upper = High(Partial(n), n + 1)
  <2>1. CASE adders = <<>>
    <3>1. n = 0 /\ Rows!Upper = Rows!PartialProduct(0) \div 2
      BY <2>1 DEF Rows!Upper
    <3>2. Rows!PartialProduct(0) = High(Partial(n), n)
      BY <1>1, <3>1, PartialFirst
    <3> QED BY <1>4, <3>1, <3>2 DEF PartialFacts
  <2>2. CASE adders # <<>>
    <3>1. n \in 1..n
      BY <1>3, <2>2
    <3>2. Rows!Upper = adders[n] \div 2
      BY <2>2 DEF Rows!Upper
    <3> QED BY <1>3, <1>4, <3>1, <3>2 DEF PartialFacts
  <2> QED BY <2>1, <2>2
<1> DEFINE h == High(Partial(n + 1), n + 1)
<1>6. Rows!Upper + Rows!PartialProduct(n + 1) = h
  BY <1>4, <1>5, SameNumbers DEF PartialFacts, Rows!PartialProduct
<1>7. h \in Nat /\ h < Pow2[job.a + 1]
  BY <1>4 DEF PartialFacts
<1> HIDE DEF h
<1>8. h % Pow2[job.a + 1] = h
  <2>1. Pow2[job.a + 1] \in Nat \ {0}
    <3>1. job.a + 1 \in Nat
      BY <1>1
    <3> QED BY <3>1, Pow2Type
  <2> QED BY <1>7, <2>1, SmallRemainder
<1>9. adders' = Append(adders, h)
  BY <1>2, <1>6, <1>8
<1>10. /\ adders' \in Seq(Nat) /\ Len(adders') = n + 1
       /\ adders'[n + 1] = h /\ \A k \in 1..n : adders'[k] = adders[k]
  BY <1>3, <1>7, <1>9
<1>11. ASSUME NEW k \in 1..n + 1 PROVE adders'[k] = High(Partial(k), k)
  <2>1. CASE k = n + 1
    BY <1>10, <2>1 DEF h
  <2>2. CASE k # n + 1
    <3>1. k \in 1..n
      BY <1>3, <2>2
    <3> QED BY <1>3, <1>10, <3>1
  <2> QED BY <2>1, <2>2
<1>12. Len(adders') <= job.b - 1
  BY <1>1, <1>2, <1>3, <1>10
<1> HIDE DEF n
<1>13. \A k \in 1..Len(adders') : adders'[k] = High(x' * Low(y', k + 1), k)
  BY <1>2, <1>10, <1>11 DEF Partial
<1> QED BY <1>2, <1>10, <1>12, <1>13 DEF RowsInv, Partial

(* No step disturbs the rows.                                              *)
LEMMA RowsNext ==
  ASSUME PhaseInv, RowsInv, [Next]_vars
  PROVE  RowsInv'
<1>1. job' = job /\ x' = x /\ y' = y
  BY OperandsKept
<1>2. CASE Rows!HookUpAdder
  BY <1>2, RowsAdd
<1>3. CASE ~Rows!HookUpAdder
  <2> USE DEF rowsVars
  <2>1. adders' = adders /\ (phase \in {"rows"} \cup Ended => phase' \in {"rows"} \cup Ended)
    <3>1. CASE ResolveConstant \/ ResolvePorts \/ ResolveNothing \/ IterateToTree
                \/ IterateKept \/ MapToRows \/ MapNotSoft
      BY <3>1 DEF ResolveConstant, ResolvePorts, ResolveNothing, IterateToTree, IterateKept,
                  MapToRows, MapNotSoft, Const!Begin, Tree!Begin, Rows!Begin, Ended
    <3>2. CASE Tree!Next /\ UNCHANGED <<rowsVars, constVars>>
      BY <3>2 DEF Tree!Next, Tree!AddRows, Tree!NextLevel, Tree!RemapOutputs, Ended
    <3>3. CASE Rows!Next
      BY <1>3, <3>3 DEF Rows!Next, Rows!HookUpOutputs, Ended
    <3>4. CASE Const!Next /\ UNCHANGED <<treeVars, rowsVars>>
      BY <3>4 DEF Const!Next, Const!PruneConstant, Const!PassStage, Const!CopyStage,
                  Const!AddStage, Const!ConnectOutputs, Ended
    <3>5. CASE UNCHANGED vars
      BY <3>5 DEF vars
    <3> QED BY <3>1, <3>2, <3>3, <3>4, <3>5 DEF Next
  <2>2. \A k \in 1..Len(adders') : adders'[k] = High(x' * Low(y', k + 1), k)
    BY <1>1, <2>1 DEF RowsInv, Partial
  <2> QED BY <1>1, <2>1, <2>2 DEF RowsInv, Partial
<1> QED BY <1>2, <1>3

-----------------------------------------------------------------------------
(* What the rows of the tree add up to.                                    *)

(* Two sums of the same terms.                                             *)
SumUp(f, g, t, n) ==
  /\ f[0] = g[0]
  /\ \A k \in 1..n : f[k] = f[k - 1] + t[k] /\ g[k] = g[k - 1] + t[k]

Agree(f, g, n) == \A k \in 0..n : f[k] = g[k]

(* Two sums of the same terms are the same.                                *)
LEMMA SumsAgree ==
  ASSUME NEW n \in Nat, NEW f, NEW g, NEW t, SumUp(f, g, t, n)
  PROVE  Agree(f, g, n)
<1> USE DEF SumUp
<1> DEFINE S == {k \in Nat : f[k] = g[k]}
<1>1. 0 \in S
  OBVIOUS
<1>2. ASSUME NEW k \in 0..n - 1, k \in S PROVE k + 1 \in S
  <2>1. k + 1 \in 1..n /\ (k + 1) - 1 = k /\ k + 1 \in Nat
    OBVIOUS
  <2>2. f[k + 1] = f[k] + t[k + 1] /\ g[k + 1] = g[k] + t[k + 1]
    BY <2>1
  <2> QED BY <1>2, <2>1, <2>2
<1> HIDE DEF S
<1>3. \A k \in 0..n : k \in S
  BY <1>1, <1>2, InductionUpto
<1> QED BY <1>3 DEF S, Agree

Weighed(r) == r.bits * Pow2[r.shift]

(* Total is the sum of the rows, whatever function sums them up.           *)
LEMMA TotalIs ==
  ASSUME NEW rows, Len(rows) \in Nat, NEW V, V \in [0..Len(rows) -> Int], V[0] = 0,
         \A k \in 1..Len(rows) : V[k] = V[k - 1] + Weighed(rows[k])
  PROVE  Tree!Total(rows) = V[Len(rows)]
<1> DEFINE n == Len(rows)
           Eq(f) == f = [j \in 0..n |->
                           IF j = 0 THEN 0
                           ELSE f[j - 1] + rows[j].bits * Tree!Pow2[rows[j].shift]]
           F == CHOOSE f : Eq(f)
           t == [k \in 1..n |-> Weighed(rows[k])]
<1>1. Tree!Total(rows) = F[n]
  BY DEF Tree!Total
<1>2. \A j : rows[j].bits * Tree!Pow2[rows[j].shift] = Weighed(rows[j])
  BY SameNumbers DEF Weighed
<1>3. Eq(V)
  <2>1. V = [j \in 0..n |-> V[j]]
    OBVIOUS
  <2>2. ASSUME NEW j \in 0..n
        PROVE  V[j] = IF j = 0 THEN 0
                      ELSE V[j - 1] + rows[j].bits * Tree!Pow2[rows[j].shift]
    <3>1. CASE j = 0
      BY <3>1
    <3>2. CASE j # 0
      <4>1. j \in 1..n
        BY <3>2
      <4>2. V[j] = V[j - 1] + Weighed(rows[j])
        BY <4>1
      <4> QED BY <1>2, <3>2, <4>2
    <3> QED BY <3>1, <3>2
  <2> QED BY <2>1, <2>2
<1>4. F = CHOOSE f : Eq(f)
  BY DEF F
<1>5. Eq(F)
  <2> HIDE DEF Eq, F
  <2> QED BY <1>3, <1>4, Zenon
<1> HIDE DEF F
<1>6. F[0] = 0 /\ \A k \in 1..n : F[k] = F[k - 1] + t[k]
  <2>1. ASSUME NEW j \in 0..n
        PROVE  F[j] = IF j = 0 THEN 0
                      ELSE F[j - 1] + rows[j].bits * Tree!Pow2[rows[j].shift]
    BY <1>5
  <2> HIDE DEF Eq
  <2>2. F[0] = 0
    <3>1. 0 \in 0..n
      OBVIOUS
    <3> QED BY <2>1, <3>1
  <2>3. ASSUME NEW k \in 1..n PROVE F[k] = F[k - 1] + t[k]
    <3>1. k \in 0..n /\ k # 0
      OBVIOUS
    <3>2. F[k] = F[k - 1] + Weighed(rows[k])
      BY <1>2, <2>1, <3>1
    <3> QED BY <3>2
  <2> QED BY <2>2, <2>3
<1>7. \A k \in 1..n : V[k] = V[k - 1] + t[k]
  OBVIOUS
<1> HIDE DEF t, Eq, n
<1>8. n \in Nat /\ V[0] = 0
  BY DEF n
<1>9. \A k \in 0..n : F[k] = V[k]
  <2>1. SumUp(F, V, t, n)
    BY <1>6, <1>7, <1>8 DEF SumUp
  <2>2. Agree(F, V, n)
    BY <1>8, <2>1, SumsAgree
  <2> QED BY <2>2 DEF Agree
<1> QED BY <1>1, <1>8, <1>9 DEF n

(* How many bits of y the first k rows of m bits stand for.                *)
Upper(m, k) == IF k * m < job.b THEN k * m ELSE job.b

Used(m, k) == x * Low(y, Upper(m, k))

(* A row in its position is what the bits it stands for add.               *)
LEMMA ChunkAdds ==
  ASSUME Sized, NEW m \in Nat \ {0}, NEW k \in Nat \ {0}, (k - 1) * m < job.b
  PROVE  Used(m, k) \in Nat /\ Used(m, k - 1) \in Nat
         /\ Used(m, k) = Used(m, k - 1) + Weighed(Chunk(m, k))
<1>1. PICK lo \in Nat : lo = (k - 1) * m
  <2>1. k - 1 \in Nat
    OBVIOUS
  <2>2. (k - 1) * m \in Nat
    BY <2>1
  <2> QED BY <2>2
<1>2. x \in Nat /\ y \in Nat /\ job.b \in Nat /\ lo < job.b
  BY <1>1 DEF Sized
<1>3. IsRow(m, k, lo)
  BY <1>1, <1>2, ChunkRow
<1>4. PICK n \in 1..m : Chunk(m, k) = Row(lo, n) /\ lo + n <= job.b /\ (n = m \/ lo + n = job.b)
  BY <1>3 DEF IsRow
<1>5. k * m = lo + m
  BY <1>1
<1>6. Upper(m, k) = lo + n
  BY <1>2, <1>4, <1>5 DEF Upper
<1>7. Upper(m, k - 1) = lo
  BY <1>1, <1>2 DEF Upper
<1> DEFINE l == Low(y, lo)
           h == Low(High(y, lo), n)
           p == Pow2[lo]
<1>8. Low(y, lo + n) = l + h * p
  <2>1. JoinsBits(y, lo, n)
    BY <1>2, BitsJoined
  <2> QED BY <2>1 DEF JoinsBits
<1>9. l \in Nat /\ h \in Nat /\ p \in Nat
  <2>1. n \in Nat /\ l \in Nat /\ High(y, lo) \in Nat /\ p \in Nat
    <3>1. n \in Nat
      OBVIOUS
    <3>2. Low(y, lo) \in Nat /\ High(y, lo) \in Nat
      BY <1>2, LowHigh
    <3>3. Pow2[lo] \in Nat
      BY Pow2Type
    <3> QED BY <3>1, <3>2, <3>3
  <2>2. Low(High(y, lo), n) \in Nat
    BY <2>1, LowHigh
  <2> QED BY <2>1, <2>2
<1>10. Weighed(Chunk(m, k)) = (x * h) * p
  BY <1>4 DEF Weighed, Row
<1> HIDE DEF l, h, p
<1>11. Used(m, k) = x * (l + h * p) /\ Used(m, k - 1) = x * l
  BY <1>6, <1>7, <1>8 DEF Used, l
<1>12. x * (l + h * p) = x * l + (x * h) * p /\ x * l \in Nat /\ (x * h) * p \in Nat
  <2>1. x * h \in Nat
    BY <1>2, <1>9
  <2> QED BY <1>2, <1>9, <2>1
<1> QED BY <1>10, <1>11, <1>12

(* Rows that follow one another come to x times the bits of y they stand   *)
(* for.                                                                    *)
LEMMA ChunksTotal ==
  ASSUME Sized, NEW m \in Nat \ {0}, NEW s \in Nat, NEW rows, NEW n \in Nat, Len(rows) = n,
         \A k \in 1..n : rows[k] = Chunk(m, s + k), n > 0 => ((s + n) - 1) * m < job.b
  PROVE  Used(m, s) \in Nat /\ Used(m, s + n) \in Nat
         /\ Tree!Total(rows) = Used(m, s + n) - Used(m, s)
<1>1. \A k \in Nat : Used(m, k) \in Nat
  <2> TAKE k \in Nat
  <2>1. x \in Nat /\ y \in Nat /\ job.b \in Nat
    BY DEF Sized
  <2>2. k * m \in Nat
    OBVIOUS
  <2>3. Upper(m, k) \in Nat
    BY <2>1, <2>2 DEF Upper
  <2>4. Low(y, Upper(m, k)) \in Nat
    BY <2>1, <2>3, LowHigh
  <2> QED BY <2>1, <2>4 DEF Used
<1> DEFINE V == [k \in 0..n |-> Used(m, s + k) - Used(m, s)]
<1>2. V \in [0..n -> Int] /\ V[0] = 0 /\ V[n] = Used(m, s + n) - Used(m, s)
  <2>1. \A k \in 0..n : s + k \in Nat
    OBVIOUS
  <2>2. s + 0 = s /\ 0 \in 0..n /\ n \in 0..n
    OBVIOUS
  <2>3. Used(m, s) \in Nat
    BY <1>1
  <2>4. Used(m, s) - Used(m, s) = 0
    BY <2>3
  <2>5. \A k \in 0..n : Used(m, s + k) - Used(m, s) \in Int
    <3> TAKE k \in 0..n
    <3>1. PICK j \in Nat : j = s + k
      BY <2>1
    <3>2. Used(m, j) \in Nat
      BY <1>1
    <3> QED BY <2>3, <3>1, <3>2
  <2> QED BY <2>2, <2>4, <2>5
<1>3. ASSUME NEW k \in 1..n PROVE V[k] = V[k - 1] + Weighed(rows[k])
  <2>1. PICK j \in Nat \ {0} : j = s + k
    OBVIOUS
  <2>2. (j - 1) * m < job.b
    <3>1. ((s + n) - 1) * m = (j - 1) * m + (n - k) * m
      BY <2>1
    <3>2. (n - k) * m \in Nat /\ (j - 1) * m \in Nat
      <4>1. n - k \in Nat /\ j - 1 \in Nat
        OBVIOUS
      <4> QED BY <4>1
    <3> DEFINE e == ((s + n) - 1) * m
               f == (j - 1) * m
               g == (n - k) * m
    <3>3. e = f + g /\ f \in Nat /\ g \in Nat /\ e < job.b /\ job.b \in Nat
      BY <3>1, <3>2 DEF Sized
    <3> HIDE DEF e, f, g
    <3>4. f < job.b
      BY <3>3
    <3> QED BY <3>4 DEF f
  <2>3. /\ Used(m, j) \in Nat /\ Used(m, j - 1) \in Nat
        /\ Used(m, j) = Used(m, j - 1) + Weighed(Chunk(m, j))
    BY <2>2, ChunkAdds
  <2>4. V[k] = Used(m, j) - Used(m, s) /\ V[k - 1] = Used(m, j - 1) - Used(m, s)
    <3>1. k \in 0..n /\ k - 1 \in 0..n /\ s + (k - 1) = j - 1
      BY <2>1
    <3> QED BY <2>1, <3>1
  <2>5. rows[k] = Chunk(m, j)
    BY <2>1
  <2>6. Used(m, s) \in Nat
    BY <1>1
  <2>7. PICK w : w = Weighed(Chunk(m, j))
    OBVIOUS
  <2>8. w \in Int
    <3>1. Good(Chunk(m, j))
      BY <2>2, ChunkGood
    <3>2. Chunk(m, j).bits \in Nat /\ Chunk(m, j).shift \in Nat
      BY <3>1 DEF Good, Tree!Rows
    <3>3. Pow2[Chunk(m, j).shift] \in Nat
      BY <3>2, Pow2Type
    <3> QED BY <2>7, <3>2, <3>3 DEF Weighed
  <2> HIDE DEF V
  <2> QED BY <2>3, <2>4, <2>5, <2>6, <2>7, <2>8
<1> HIDE DEF V
<1>4. Tree!Total(rows) = V[n]
  BY <1>2, <1>3, TotalIs
<1>5. s + n \in Nat
  OBVIOUS
<1> QED BY <1>1, <1>2, <1>4, <1>5

(* What is left to add is the product.                                     *)
LEMMA TreeExact ==
  ASSUME PhaseInv, TreeInv
  PROVE  /\ Tree!NoCarryLost
         /\ phase = "remap" => stage[1].size = job.a + job.b /\ stage[1].bits = x * y
<1>1. Sized /\ x \in Nat /\ y \in Nat /\ job.b \in Nat \ {0} /\ y < Pow2[job.b]
  BY OperandsSized DEF Sized
<1>2. Low(y, job.b) = y /\ Low(y, 0) = 0
  BY <1>1, LowSmall, LowStep
<1> DEFINE m == Pow2[level]
           n == Len(next)
           s == Len(stage)
<1>3. ASSUME phase \in {"tree", "remap"}
      PROVE  Tree!Total(stage) + Tree!Total(next) = x * y
  <2>1. /\ level \in Nat /\ stage \in Seq(Tree!Rows) /\ next \in Seq(Tree!Rows)
        /\ \A k \in 1..n : next[k] = Chunk(2 * m, k)
        /\ \A k \in 1..s : stage[k] = Chunk(m, 2 * n + k)
        /\ Spans(2 * n + s, m, job.b)
    BY <1>3 DEF TreeInv, Tree!TypeOK
  <2>2. m \in Nat \ {0} /\ n \in Nat /\ s \in Nat
    BY <2>1, Pow2Type
  <2> HIDE DEF m, n, s
  <2>3. ((2 * n + s) - 1) * m < job.b /\ job.b <= (2 * n + s) * m
    BY <2>1 DEF Spans
  <2>4. n > 0 => ((0 + n) - 1) * (2 * m) < job.b
    <3> SUFFICES ASSUME n > 0 PROVE ((0 + n) - 1) * (2 * m) < job.b
      OBVIOUS
    <3>1. ((2 * n + s) - 1) * m = ((0 + n) - 1) * (2 * m) + (s + 1) * m
      BY <2>2
    <3>2. (s + 1) * m \in Nat /\ ((0 + n) - 1) * (2 * m) \in Nat
      <4>1. s + 1 \in Nat /\ (0 + n) - 1 \in Nat /\ 2 * m \in Nat
        BY <2>2
      <4> QED BY <2>2, <4>1
    <3> DEFINE e == ((2 * n + s) - 1) * m
               f == ((0 + n) - 1) * (2 * m)
               g == (s + 1) * m
    <3>3. e = f + g /\ g \in Nat /\ f \in Nat /\ e < job.b
      BY <2>3, <3>1, <3>2
    <3> HIDE DEF e, f, g
    <3>4. f < job.b
      BY <1>1, <3>3
    <3> QED BY <3>4 DEF f
  <2>5. /\ Used(2 * m, 0) \in Nat /\ Used(2 * m, n) \in Nat
        /\ Tree!Total(next) = Used(2 * m, n) - Used(2 * m, 0)
    <3>1. \A k \in 1..n : next[k] = Chunk(2 * m, 0 + k)
      <4>1. \A k \in 1..n : 0 + k = k
        BY <2>2
      <4> QED BY <2>1, <4>1
    <3>2. PICK p \in Nat \ {0} : p = 2 * m
      BY <2>2
    <3>3. /\ Used(p, 0) \in Nat /\ Used(p, 0 + n) \in Nat
          /\ Tree!Total(next) = Used(p, 0 + n) - Used(p, 0)
      <4>1. /\ 0 \in Nat /\ Len(next) = n /\ \A k \in 1..n : next[k] = Chunk(p, 0 + k)
            /\ n > 0 => ((0 + n) - 1) * p < job.b
        BY <2>4, <3>1, <3>2 DEF n
      <4> QED BY <1>1, <2>2, <4>1, ChunksTotal
    <3>4. 0 + n = n
      BY <2>2
    <3> QED BY <3>2, <3>3, <3>4
  <2>6. /\ Used(m, 2 * n) \in Nat /\ Used(m, 2 * n + s) \in Nat
        /\ Tree!Total(stage) = Used(m, 2 * n + s) - Used(m, 2 * n)
    <3>1. PICK j \in Nat : j = 2 * n
      BY <2>2
    <3>2. /\ Used(m, j) \in Nat /\ Used(m, j + s) \in Nat
          /\ Tree!Total(stage) = Used(m, j + s) - Used(m, j)
      <4>1. /\ Len(stage) = s /\ \A k \in 1..s : stage[k] = Chunk(m, j + k)
            /\ s > 0 => ((j + s) - 1) * m < job.b
        BY <2>1, <2>3, <3>1 DEF s
      <4> QED BY <1>1, <2>2, <4>1, ChunksTotal, ZenonT(60)
    <3> QED BY <3>1, <3>2
  <2>7. Used(2 * m, n) = Used(m, 2 * n)
    <3>1. n * (2 * m) = (2 * n) * m
      BY <2>2
    <3> QED BY <3>1 DEF Used, Upper
  <2>8. Used(2 * m, 0) = 0
    <3>1. 0 * (2 * m) = 0
      BY <2>2
    <3>2. Upper(2 * m, 0) = 0
      BY <1>1, <3>1 DEF Upper
    <3> QED BY <1>1, <1>2, <3>2 DEF Used
  <2>9. Used(m, 2 * n + s) = x * y
    <3>1. ~((2 * n + s) * m < job.b)
      <4>1. (2 * n + s) * m \in Nat
        <5>1. 2 * n + s \in Nat
          BY <2>2
        <5> QED BY <2>2, <5>1
      <4> QED BY <1>1, <2>3, <4>1
    <3>2. Upper(m, 2 * n + s) = job.b
      BY <3>1 DEF Upper
    <3> QED BY <1>2, <3>2 DEF Used
  <2> QED BY <2>5, <2>6, <2>7, <2>8, <2>9
<1>4. ASSUME phase = "remap"
      PROVE  stage[1].size = job.a + job.b /\ stage[1].bits = x * y
  <2>1. /\ level \in Nat /\ stage \in Seq(Tree!Rows) /\ n = 0 /\ job.b <= m
        /\ \A k \in 1..s : stage[k] = Chunk(m, 2 * n + k)
        /\ Spans(2 * n + s, m, job.b)
    BY <1>4 DEF TreeInv, Tree!TypeOK
  <2>2. m \in Nat \ {0} /\ s \in Nat
    BY <2>1, Pow2Type
  <2> HIDE DEF m, n, s
  <2>3. (s - 1) * m < job.b /\ job.b <= s * m
    <3>1. 2 * n + s = s
      BY <2>1, <2>2
    <3> QED BY <2>1, <3>1 DEF Spans
  <2>4. s = 1
    <3>1. s # 0
      <4>1. 0 * m = 0
        BY <2>2
      <4> QED BY <1>1, <2>3, <4>1
    <3>2. ~(s >= 2)
      <4> SUFFICES ASSUME s >= 2 PROVE FALSE
        OBVIOUS
      <4>1. (s - 1) * m = (s - 2) * m + m /\ (s - 2) * m \in Nat
        <5>1. s - 2 \in Nat
          BY <2>2
        <5> QED BY <2>2, <5>1
      <4> QED BY <1>1, <2>1, <2>2, <2>3, <4>1
    <3> QED BY <2>2, <3>1, <3>2
  <2>5. stage[1] = Chunk(m, 1)
    BY <2>1, <2>4
  <2>6. (1 - 1) * m = 0 /\ job.b - 0 = job.b
        /\ (IF m < job.b - 0 THEN m ELSE job.b - 0) = job.b
    BY <1>1, <2>1, <2>2
  <2>7. High(y, 0) = y
    <3>1. y \in Int /\ 0 \in Nat
      BY <1>1
    <3> QED BY <3>1, BitStep
  <2>8. job.b # 1
    BY <1>4 DEF PhaseInv, MadeTree, TooSmall
  <2>9. /\ Chunk(m, 1).size = job.a + job.b
        /\ Chunk(m, 1).bits = x * Low(High(y, 0), job.b)
    BY <2>6, <2>8 DEF Chunk, ChunkOf
  <2> QED BY <1>2, <2>5, <2>7, <2>9
<1> HIDE DEF m, n, s
<1>5. Tree!NoCarryLost
  BY <1>3, <1>4 DEF Tree!NoCarryLost
<1> QED BY <1>4, <1>5

(* The outputs made so far and the last adder are the product so far.      *)
LEMMA RowsExact ==
  ASSUME PhaseInv, RowsInv
  PROVE  Rows!TypeOK /\ Rows!CarryPassed
<1>1. Sized /\ job.b \in Nat \ {0} /\ job.a \in Nat /\ x \in Nat /\ y \in Nat
  BY OperandsSized DEF Sized
<1>2. /\ adders \in Seq(Nat) /\ Len(adders) \in Nat /\ Len(adders) <= job.b - 1
      /\ DOMAIN adders = 1..Len(adders)
      /\ \A k \in 1..Len(adders) : adders[k] = High(Partial(k), k)
  BY DEF RowsInv
<1>3. Rows!TypeOK
  <2>1. ASSUME NEW k \in 1..Len(adders) PROVE adders[k] \in 0..Pow2[job.a + 1] - 1
    <3>1. k \in Nat
      BY <1>2
    <3>2. High(Partial(k), k) \in Nat /\ High(Partial(k), k) < Pow2[job.a + 1]
      BY <1>1, <3>1, PartialType
    <3>3. job.a + 1 \in Nat
      BY <1>1
    <3>4. Pow2[job.a + 1] \in Nat
      BY <3>3, Pow2Type
    <3>5. adders[k] = High(Partial(k), k)
      BY <1>2
    <3> QED BY <3>2, <3>4, <3>5
  <2>2. adders \in Seq(0..Pow2[job.a + 1] - 1)
    <3> DEFINE S == 0..Pow2[job.a + 1] - 1
    <3>1. \A k \in 1..Len(adders) : adders[k] \in S
      BY <2>1
    <3> HIDE DEF S
    <3>2. adders \in Seq(S)
      BY <1>2, <3>1, ElementOfSeq, SeqDef
    <3> QED BY <3>2 DEF S
  <2> QED BY <1>2, <2>2, SameNumbers DEF Rows!TypeOK
<1>4. ASSUME NEW n \in DOMAIN adders
      PROVE  LET LowBits[k \in 0..n] ==
                   IF k = 0 THEN 0
                   ELSE IF k = 1 THEN Rows!Bit(Rows!PartialProduct(0), 0)
                   ELSE LowBits[k - 1] + Rows!Bit(adders[k - 1], 0) * Rows!Pow2[k - 1]
             IN  LowBits[n] + adders[n] * Rows!Pow2[n] = x * (y % Rows!Pow2[n + 1])
  <2> DEFINE Eq(f) == f = [k \in 0..n |->
                        IF k = 0 THEN 0
                        ELSE IF k = 1 THEN Rows!Bit(Rows!PartialProduct(0), 0)
                        ELSE f[k - 1] + Rows!Bit(adders[k - 1], 0) * Rows!Pow2[k - 1]]
             F == CHOOSE f : Eq(f)
             V == [k \in 0..n |-> IF k = 0 THEN 0 ELSE Low(Partial(k - 1), k)]
  <2>1. SUFFICES F[n] + adders[n] * Rows!Pow2[n] = x * (y % Rows!Pow2[n + 1])
    OBVIOUS
  <2>2. n \in Nat \ {0} /\ n <= Len(adders)
    BY <1>2
  <2>3. Rows!Bit(Rows!PartialProduct(0), 0) = Low(Partial(0), 1)
    <3>1. Rows!PartialProduct(0) = Partial(0) /\ Partial(0) \in Nat
      BY <1>1, PartialFirst, PartialType
    <3>2. PICK p \in Nat : p = Partial(0)
      BY <3>1
    <3>3. /\ Low(p, 0) = 0 /\ Low(p, 0 + 1) = Low(p, 0) + Bit(p, 0) * Pow2[0]
          /\ Pow2[0] = 1 /\ Bit(p, 0) \in {0, 1}
      <4>1. p \in Int
        BY <3>2
      <4> QED BY <4>1, LowStep, Pow2Step, BitStep
    <3> QED BY <3>1, <3>2, <3>3, SameNumbers
  <2>4. ASSUME NEW k \in 2..n
        PROVE  Low(Partial(k - 1), k)
                 = Low(Partial(k - 2), k - 1) + Rows!Bit(adders[k - 1], 0) * Rows!Pow2[k - 1]
    <3>1. PICK j \in Nat : j = k - 2
      BY <2>2
    <3>2. k - 1 = j + 1 /\ k = (j + 1) + 1 /\ j + 1 \in 1..Len(adders) /\ j + 1 \in Nat
      BY <1>2, <2>2, <3>1
    <3>3. PartialFacts(j)
      BY <1>1, PartialStep
    <3>4. PICK i1 \in Nat : i1 = j + 1
      BY <3>2
    <3>5. PartialFacts(i1)
      BY <1>1, PartialStep
    <3>6. Low(Partial(i1), i1) = Low(Partial(j), i1)
      BY <3>3, <3>4 DEF PartialFacts
    <3>7. Low(Partial(i1), i1 + 1) = Low(Partial(i1), i1) + Bit(High(Partial(i1), i1), 0) * Pow2[i1]
      BY <3>5 DEF PartialFacts
    <3>8. adders[i1] = High(Partial(i1), i1)
      BY <1>2, <3>2, <3>4
    <3> QED BY <3>1, <3>2, <3>4, <3>6, <3>7, <3>8, SameNumbers
  <2>5. Eq(V)
    <3>1. ASSUME NEW k \in 0..n
          PROVE  V[k] = IF k = 0 THEN 0
                        ELSE IF k = 1 THEN Rows!Bit(Rows!PartialProduct(0), 0)
                        ELSE V[k - 1] + Rows!Bit(adders[k - 1], 0) * Rows!Pow2[k - 1]
      <4>1. CASE k = 0 \/ k = 1
        <5>1. k = 1 => V[k] = Low(Partial(0), 1)
          OBVIOUS
        <5> QED BY <2>3, <4>1, <5>1
      <4>2. CASE k # 0 /\ k # 1
        <5>1. k \in 2..n /\ k - 1 \in 0..n /\ k - 1 # 0 /\ (k - 1) - 1 = k - 2
          BY <2>2, <4>2
        <5>2. V[k] = Low(Partial(k - 1), k) /\ V[k - 1] = Low(Partial(k - 2), k - 1)
          BY <4>2, <5>1
        <5> QED BY <2>4, <4>2, <5>1, <5>2
      <4> QED BY <4>1, <4>2
    <3>2. V = [k \in 0..n |-> V[k]]
      OBVIOUS
    <3> QED BY <3>1, <3>2
  <2>6. F = CHOOSE f : Eq(f)
    BY DEF F
  <2>7. Eq(F)
    <3> HIDE DEF Eq, F
    <3> QED BY <2>5, <2>6, Zenon
  <2> HIDE DEF F
  <2>8. ASSUME NEW f, Eq(f)
        PROVE  /\ f[0] = 0 /\ f[1] = Low(Partial(0), 1)
               /\ \A k \in 2..n :
                    f[k] = f[k - 1] + Rows!Bit(adders[k - 1], 0) * Rows!Pow2[k - 1]
    <3>1. ASSUME NEW k \in 0..n
          PROVE  f[k] = IF k = 0 THEN 0
                        ELSE IF k = 1 THEN Rows!Bit(Rows!PartialProduct(0), 0)
                        ELSE f[k - 1] + Rows!Bit(adders[k - 1], 0) * Rows!Pow2[k - 1]
      BY <2>8
    <3> HIDE DEF Eq
    <3>2. 0 \in 0..n /\ 1 \in 0..n /\ \A k \in 2..n : k \in 0..n /\ k # 0 /\ k # 1
      BY <2>2
    <3>3. f[0] = 0
      BY <3>1, <3>2
    <3>4. f[1] = Low(Partial(0), 1)
      BY <2>3, <3>1, <3>2
    <3>5. ASSUME NEW k \in 2..n
          PROVE  f[k] = f[k - 1] + Rows!Bit(adders[k - 1], 0) * Rows!Pow2[k - 1]
      BY <3>1, <3>2
    <3> QED BY <3>3, <3>4, <3>5
  <2>9. F[n] = V[n]
    <3> DEFINE t == [k \in 1..n |-> IF k = 1 THEN Low(Partial(0), 1)
                                     ELSE Rows!Bit(adders[k - 1], 0) * Rows!Pow2[k - 1]]
    <3>1. ASSUME NEW f, Eq(f) PROVE f[0] = 0 /\ \A k \in 1..n : f[k] = f[k - 1] + t[k]
      <4>1. /\ f[0] = 0 /\ f[1] = Low(Partial(0), 1)
            /\ \A k \in 2..n :
                 f[k] = f[k - 1] + Rows!Bit(adders[k - 1], 0) * Rows!Pow2[k - 1]
        BY <2>8, <3>1
      <4>2. Low(Partial(0), 1) \in Nat
        <5>1. Partial(0) \in Nat
          BY <1>1, PartialType
        <5> QED BY <5>1, LowHigh
      <4> HIDE DEF Eq
      <4>3. ASSUME NEW k \in 1..n PROVE f[k] = f[k - 1] + t[k]
        <5>1. CASE k = 1
          BY <4>1, <4>2, <5>1
        <5>2. CASE k # 1
          <6>1. k \in 2..n
            BY <5>2
          <6> QED BY <4>1, <5>2, <6>1
        <5> QED BY <5>1, <5>2
      <4> QED BY <4>1, <4>3
    <3> HIDE DEF t, Eq, V
    <3>2. SumUp(F, V, t, n)
      BY <2>5, <2>7, <3>1 DEF SumUp
    <3>3. Agree(F, V, n)
      BY <2>2, <3>2, SumsAgree
    <3> QED BY <2>2, <3>3 DEF Agree
  <2>10. V[n] = Low(Partial(n - 1), n)
    BY <2>2
  <2>11. PICK j \in Nat : n = j + 1
    <3>1. n - 1 \in Nat /\ n = (n - 1) + 1
      BY <2>2
    <3> QED BY <3>1
  <2>12. PartialFacts(j)
    BY <1>1, PartialStep
  <2> HIDE DEF V, Eq
  <2>13. Partial(n) = Low(Partial(n - 1), n) + High(Partial(n), n) * Pow2[n]
    <3>1. n - 1 = j
      BY <2>11
    <3>2. PICK i1 \in Nat : i1 = j + 1
      BY <2>11
    <3>3. Low(Partial(i1), i1) = Low(Partial(j), i1)
          /\ Partial(i1) = Low(Partial(i1), i1) + High(Partial(i1), i1) * Pow2[i1]
      BY <2>12, <3>2 DEF PartialFacts
    <3> QED BY <2>11, <3>1, <3>2, <3>3
  <2>14. adders[n] = High(Partial(n), n)
    BY <1>2
  <2>15. x * (y % Rows!Pow2[n + 1]) = Partial(n)
    BY SameNumbers DEF Partial, Low
  <2> QED BY <2>9, <2>10, <2>13, <2>14, <2>15, SameNumbers
<1>5. Rows!CarryPassed
  BY <1>4 DEF Rows!CarryPassed
<1> QED BY <1>3, <1>5

-----------------------------------------------------------------------------
(* The cascade of a constant.                                              *)

(* Cutting off what a stage gets does not show in what it gives.           *)
SameCut(p, u, v, w) == ((u % p) + (v % p) * w) % p = (u + v * w) % p

(* It is so for all numbers.                                               *)
LEMMA CutSum ==
  ASSUME NEW p \in Nat \ {0}, NEW u \in Nat, NEW v \in Nat, NEW w \in Nat
  PROVE  SameCut(p, u, v, w)
<1> DEFINE q == u \div p
           r == u % p
           j == v \div p
           s == v % p
<1>1. q \in Nat /\ r \in Nat /\ u = p * q + r /\ j \in Nat /\ s \in Nat /\ v = p * j + s
  BY QuotientRemainder
<1> HIDE DEF q, r, j, s
<1> DEFINE z == r + s * w
           k == q + j * w
<1>2. z \in Int /\ k \in Int
  BY <1>1
<1>3. u + v * w = z + p * k
  <2>1. (p * j + s) * w = p * (j * w) + s * w /\ p * (q + j * w) = p * q + p * (j * w)
    BY <1>1
  <2>2. p * (j * w) \in Int /\ s * w \in Int /\ p * q \in Int
    BY <1>1
  <2> QED BY <1>1, <2>1, <2>2
<1> HIDE DEF z, k
<1>4. (z + p * k) % p = z % p
  BY <1>2, SameRemainder
<1>5. z = (u % p) + (v % p) * w
  BY DEF z, r, s
<1> QED BY <1>3, <1>4, <1>5 DEF SameCut

(* Which operand is constant, and its width.                               *)
LEMMA ConstSized ==
  ASSUME Sized
  PROVE  /\ Const!Const \in Nat /\ Const!Var \in Nat
         /\ Const!Const < Pow2[IF "b" \in job.constant THEN job.b ELSE job.a]
BY DEF Sized, Const!Const, Const!Var

(* The ones of the constant below bit k, but for bit 0.                    *)
OnesBelow(c, k) == {n \in 1..k - 1 : Bit(c, n) = 1}

(* One more bit of the constant: counted if it is a one, and not bit 0.    *)
LEMMA OnesBelowStep ==
  ASSUME NEW c \in Nat, NEW k \in Nat
  PROVE  /\ IsFiniteSet(OnesBelow(c, k)) /\ Cardinality(OnesBelow(c, k)) \in Nat
         /\ Cardinality(OnesBelow(c, 0)) = 0 /\ Cardinality(OnesBelow(c, 1)) = 0
         /\ Cardinality(OnesBelow(c, k + 1))
              = Cardinality(OnesBelow(c, k)) + IF k > 0 /\ Bit(c, k) = 1 THEN 1 ELSE 0
<1>1. IsFiniteSet(OnesBelow(c, k)) /\ Cardinality(OnesBelow(c, k)) \in Nat
  <2>1. 1 \in Int /\ k - 1 \in Int
    OBVIOUS
  <2>2. IsFiniteSet(1..k - 1)
    BY <2>1, FS_Interval
  <2>3. OnesBelow(c, k) \subseteq 1..k - 1
    BY DEF OnesBelow
  <2>4. IsFiniteSet(OnesBelow(c, k))
    BY <2>2, <2>3, FS_Subset
  <2> QED BY <2>4, FS_CardinalityType
<1>2. OnesBelow(c, 0) = {} /\ OnesBelow(c, 1) = {}
  BY DEF OnesBelow
<1>3. Cardinality({}) = 0
  BY FS_EmptySet
<1>4. CASE k > 0 /\ Bit(c, k) = 1
  <2>1. OnesBelow(c, k + 1) = OnesBelow(c, k) \cup {k}
    <3>1. k \in OnesBelow(c, k + 1)
      BY <1>4 DEF OnesBelow
    <3>2. ASSUME NEW n PROVE n \in OnesBelow(c, k + 1) <=> n \in OnesBelow(c, k) \/ n = k
      <4>1. n \in 1..(k + 1) - 1 <=> n \in 1..k - 1 \/ n = k
        BY <1>4
      <4> QED BY <1>4, <4>1 DEF OnesBelow
    <3> QED BY <3>1, <3>2
  <2>2. k \notin OnesBelow(c, k)
    BY DEF OnesBelow
  <2>3. Cardinality(OnesBelow(c, k) \cup {k}) = Cardinality(OnesBelow(c, k)) + 1
    BY <1>1, <2>2, FS_AddElement
  <2> QED BY <1>1, <1>2, <1>3, <1>4, <2>1, <2>3
<1>5. CASE ~(k > 0 /\ Bit(c, k) = 1)
  <2>1. OnesBelow(c, k + 1) = OnesBelow(c, k)
    <3>1. ASSUME NEW n PROVE n \in OnesBelow(c, k + 1) <=> n \in OnesBelow(c, k)
      <4>1. n \in 1..(k + 1) - 1 <=> n \in 1..k - 1 \/ (n = k /\ k > 0)
        OBVIOUS
      <4> QED BY <1>5, <4>1 DEF OnesBelow
    <3> QED BY <3>1
  <2> QED BY <1>1, <1>2, <1>3, <1>5, <2>1
<1> QED BY <1>4, <1>5

(* The instance has the cardinality of FiniteSets.                         *)
LEMMA SameCardinality == \A S : Const!Cardinality(S) = Cardinality(S)
BY DEF Cardinality, Const!Cardinality

(* What a stage has computed.                                              *)
StageIs ==
  /\ internal = (Const!Var * Low(Const!Const, i)) % Pow2[width]
  /\ pushed = Cardinality(OnesBelow(Const!Const, i))

(* StageExact in the words of this module.                                 *)
LEMMA StageExactIs ==
  Const!StageExact <=> (phase = "stages" /\ Cardinality(job.constant) = 1 => StageIs)
<1>1. Const!Const % Const!Pow2[i] = Low(Const!Const, i) /\ Const!Pow2[width] = Pow2[width]
  BY SameNumbers DEF Low
<1>2. {n \in 1..i - 1 : Const!Bit(Const!Const, n) = 1} = OnesBelow(Const!Const, i)
  <2>1. \A n : Const!Bit(Const!Const, n) = Bit(Const!Const, n)
    BY SameNumbers
  <2> QED BY <2>1 DEF OnesBelow
<1>3. (Const!Var * (Const!Const % Const!Pow2[i])) % Const!Pow2[width]
        = (Const!Var * Low(Const!Const, i)) % Pow2[width]
  BY <1>1
<1>4. (internal = (Const!Var * (Const!Const % Const!Pow2[i])) % Const!Pow2[width]
         /\ pushed = Cardinality({n \in 1..i - 1 : Const!Bit(Const!Const, n) = 1}))
        <=> StageIs
  BY <1>2, <1>3 DEF StageIs
<1>5. (phase = "stages" /\ Const!Cardinality(job.constant) = 1)
        <=> (phase = "stages" /\ Cardinality(job.constant) = 1)
  BY SameCardinality
<1>6. Const!Cardinality({n \in 1..i - 1 : Const!Bit(Const!Const, n) = 1})
        = Cardinality({n \in 1..i - 1 : Const!Bit(Const!Const, n) = 1})
  BY SameCardinality
<1> QED BY <1>4, <1>5, <1>6, Zenon DEF Const!StageExact

(* The steps outside the cascade leave its variables alone.                *)
LEMMA OutsideConst ==
  ASSUME Next, ~ResolveConstant, ~(Const!Next /\ UNCHANGED <<treeVars, rowsVars>>)
  PROVE  /\ UNCHANGED <<size, i, internal, pushed>>
         /\ phase \notin {"prune", "stages"} \cup Ended
         /\ phase' \notin {"prune", "stages"}
<1> USE DEF constVars, Ended
<1>1. CASE ResolvePorts \/ ResolveNothing \/ IterateKept \/ MapNotSoft
  BY <1>1 DEF ResolvePorts, ResolveNothing, IterateKept, MapNotSoft
<1>2. CASE IterateToTree
  BY <1>2 DEF IterateToTree, Tree!Begin
<1>3. CASE MapToRows
  BY <1>3 DEF MapToRows, Rows!Begin
<1>4. CASE Tree!Next /\ UNCHANGED <<rowsVars, constVars>>
  BY <1>4 DEF Tree!Next, Tree!AddRows, Tree!NextLevel, Tree!RemapOutputs
<1>5. CASE Rows!Next /\ UNCHANGED <<treeVars, constVars>>
  BY <1>5 DEF Rows!Next, Rows!HookUpAdder, Rows!HookUpOutputs
<1> QED BY <1>1, <1>2, <1>3, <1>4, <1>5 DEF Next

(* One constant operand is not two.                                        *)
LEMMA OneConstant ==
  ASSUME Sized
  PROVE  /\ Cardinality(job.constant) = 1 => job.constant # {"a", "b"}
         /\ job.constant # {} /\ Cardinality(job.constant) # 1 => job.constant = {"a", "b"}
<1>1. Cardinality({"a", "b"}) = 2
  <2>1. IsFiniteSet({"a"}) /\ Cardinality({"a"}) = 1
    BY FS_Singleton
  <2>2. Cardinality({"a"} \cup {"b"}) = 2
    BY <2>1, FS_AddElement
  <2>3. {"a"} \cup {"b"} = {"a", "b"}
    OBVIOUS
  <2> QED BY <2>2, <2>3
<1>3. job.constant \subseteq {"a", "b"}
  BY DEF Sized, IsJob
<1>4. job.constant # {} /\ job.constant # {"a", "b"} =>
        job.constant = {"a"} \/ job.constant = {"b"}
  BY <1>3
<1>5. Cardinality({"a"}) = 1 /\ Cardinality({"b"}) = 1
  BY FS_Singleton
<1> QED BY <1>1, <1>4, <1>5

(* Pruning a constant does not change its value.                           *)
LEMMA ConstPrune ==
  ASSUME PhaseInv, ConstInv, Const!PruneConstant
  PROVE  ConstInv'
<1>1. Sized
  BY OperandsSized
<1>2. /\ phase = "prune" /\ phase' = "stages"
      /\ size' = IF job.constant = {"a", "b"}
                   THEN [size EXCEPT !.variable = 0, !.constant = 0]
                   ELSE [size EXCEPT !.constant = Const!UsefulWidth]
      /\ i' = i /\ internal' = internal /\ pushed' = pushed
      /\ job' = job /\ x' = x /\ y' = y /\ width' = width
  BY DEF Const!PruneConstant, Const!operands
<1>3. /\ size = IF "b" \in job.constant THEN [variable |-> job.a, constant |-> job.b]
                                        ELSE [variable |-> job.b, constant |-> job.a]
      /\ i = 0 /\ internal = 0 /\ pushed = 0 /\ Const!TypeOK
  BY <1>2 DEF ConstInv, Ended
<1> DEFINE c == Const!Const
           w == size.constant
<1>4. w \in Nat /\ c \in Nat /\ c < Pow2[w] /\ w = (IF "b" \in job.constant THEN job.b ELSE job.a)
  <2>1. w = (IF "b" \in job.constant THEN job.b ELSE job.a)
    BY <1>3
  <2>2. w \in Nat
    BY <1>1, <2>1 DEF Sized
  <2> QED BY <1>1, <2>1, <2>2, ConstSized
<1>5. Const!UsefulWidth \in Nat
      /\ IF c = 0 THEN Const!UsefulWidth = 0
                  ELSE Const!UsefulWidth # 0 /\ c < Pow2[Const!UsefulWidth]
  <2>1. CASE c = 0
    BY <2>1 DEF Const!UsefulWidth
  <2>2. CASE c # 0
    <3> DEFINE Highest(n) == Pow2[n - 1] <= c /\ c < Pow2[n]
    <3>1. Const!UsefulWidth = CHOOSE n \in 1..w : Highest(n)
      BY <2>2, SameNumbers DEF Const!UsefulWidth
    <3>2. \E n \in 1..w : Highest(n)
      <4> HIDE DEF c, w
      <4> QED BY <1>4, <2>2, HighestOne
    <3> HIDE DEF Highest
    <3>3. Const!UsefulWidth \in 1..w /\ Highest(Const!UsefulWidth)
      BY <3>1, <3>2
    <3>4. c < Pow2[Const!UsefulWidth]
      BY <3>3 DEF Highest
    <3>5. Const!UsefulWidth \in Nat /\ Const!UsefulWidth # 0
      BY <1>4, <3>3
    <3> QED BY <2>2, <3>4, <3>5
  <2> QED BY <2>1, <2>2
<1>6. Const!Const' = c /\ Const!Var' = Const!Var
  BY <1>2 DEF Const!Const, Const!Var
<1>7. Const!TypeOK'
  <2>1. size \in [variable : Nat, constant : Nat]
    BY <1>3 DEF Const!TypeOK
  <2>2. size' \in [variable : Nat, constant : Nat]
    BY <1>2, <1>5, <2>1
  <2> QED BY <1>2, <1>3, <2>2 DEF Const!TypeOK
<1>8. Cardinality(job.constant) = 1 =>
        IF c = 0 THEN size'.constant = 0 ELSE size'.constant # 0 /\ c < Pow2[size'.constant]
  <2> SUFFICES ASSUME Cardinality(job.constant) = 1
               PROVE IF c = 0 THEN size'.constant = 0
                              ELSE size'.constant # 0 /\ c < Pow2[size'.constant]
    OBVIOUS
  <2>1. job.constant # {"a", "b"}
    BY <1>1, OneConstant
  <2>2. size'.constant = Const!UsefulWidth
    <3>1. size \in [variable : Nat, constant : Nat]
      BY <1>3 DEF Const!TypeOK
    <3> QED BY <1>2, <2>1, <3>1
  <2> QED BY <1>5, <2>2
<1>9. StageIs'
  <2>1. Low(c, 0) = 0 /\ Cardinality(OnesBelow(c, 0)) = 0
    BY <1>4, LowStep, OnesBelowStep
  <2>2. Const!Var * 0 = 0
    BY <1>1, ConstSized
  <2>3. 0 % Pow2[width] = 0
    <3>1. width \in Nat
      BY <1>2 DEF PhaseInv
    <3>2. Pow2[width] \in Nat \ {0}
      BY <3>1, Pow2Type
    <3> QED BY <3>2, SmallRemainder
  <2> QED BY <1>2, <1>3, <1>6, <2>1, <2>2, <2>3 DEF StageIs
<1>10. Const!StageExact'
  <2>1. (Const!StageExact <=> (phase = "stages" /\ Cardinality(job.constant) = 1 => StageIs))'
    BY StageExactIs, PTL
  <2> QED BY <1>9, <2>1
<1>11. i' <= size'.constant /\ (Cardinality(job.constant) # 1 => size'.constant = 0)
  <2>1. size' \in [variable : Nat, constant : Nat]
    BY <1>7 DEF Const!TypeOK
  <2>2. size'.constant \in Nat
    BY <2>1
  <2>3. ASSUME Cardinality(job.constant) # 1 PROVE size'.constant = 0
    <3>1. job.constant # {}
      BY <1>2 DEF PhaseInv, MadeConstant
    <3>2. job.constant = {"a", "b"}
      BY <1>1, <2>3, <3>1, OneConstant
    <3>3. size \in [variable : Nat, constant : Nat]
      BY <1>3 DEF Const!TypeOK
    <3> QED BY <1>2, <3>2, <3>3
  <2> QED BY <1>2, <1>3, <2>2, <2>3
<1> QED BY <1>2, <1>6, <1>7, <1>8, <1>10, <1>11 DEF ConstInv

(* A stage without an adder and one with.                                  *)
AddsStage(p, v, l, w) == (((v * l) % p) + (v % p) * w) % p = (v * (l + w)) % p

(* An adder of the cascade adds the next one of the constant.              *)
LEMMA StageAdds ==
  ASSUME NEW p \in Nat \ {0}, NEW v \in Nat, NEW l \in Nat, NEW w \in Nat
  PROVE  AddsStage(p, v, l, w)
<1> DEFINE u == v * l
<1>1. u \in Nat /\ v * (l + w) = u + v * w
  OBVIOUS
<1>2. SameCut(p, u, v, w)
  <2> HIDE DEF u
  <2> QED BY <1>1, CutSum
<1>3. ((u % p) + (v % p) * w) % p = (v * (l + w)) % p
  <2> HIDE DEF u
  <2> QED BY <1>1, <1>2 DEF SameCut
<1> QED BY <1>3 DEF AddsStage

(* Every stage of the cascade has the product with the bits so far.        *)
LEMMA ConstStage ==
  ASSUME PhaseInv, ConstInv, Const!PassStage \/ Const!CopyStage \/ Const!AddStage
  PROVE  ConstInv'
<1>1. Sized
  BY OperandsSized
<1>2. /\ phase = "stages" /\ phase' = "stages" /\ size' = size
      /\ i' = i + 1 /\ i # width /\ i # size.constant
      /\ job' = job /\ x' = x /\ y' = y /\ width' = width
  BY DEF Const!PassStage, Const!CopyStage, Const!AddStage, Const!LastStage, Const!operands
<1>3. /\ i \in Nat /\ internal \in Nat /\ pushed \in Nat /\ width \in Nat
      /\ i \in 0..width /\ Const!TypeOK /\ Const!StageExact
      /\ Cardinality(job.constant) = 1 =>
           IF Const!Const = 0 THEN size.constant = 0
                              ELSE size.constant # 0 /\ Const!Const < Pow2[size.constant]
      /\ i <= size.constant /\ (Cardinality(job.constant) # 1 => size.constant = 0)
  BY <1>2 DEF ConstInv, PhaseInv, Const!TypeOK
<1> DEFINE c == Const!Const
           v == Const!Var
           p == Pow2[width]
           l == Low(c, i)
           b == Bit(c, i)
           q == Pow2[i]
<1>4. c \in Nat /\ v \in Nat /\ p \in Nat \ {0} /\ l \in Nat /\ b \in {0, 1} /\ q \in Nat
  <2>1. c \in Nat /\ v \in Nat
    BY <1>1, ConstSized
  <2>2. p \in Nat \ {0} /\ q \in Nat
    BY <1>3, Pow2Type
  <2>3. l \in Nat
    BY <1>3, <2>1, LowHigh
  <2>4. b \in {0, 1}
    <3>1. c \in Int
      BY <2>1
    <3> QED BY <1>3, <3>1, BitStep
  <2> QED BY <2>1, <2>2, <2>3, <2>4
<1>5. Const!Const' = c /\ Const!Var' = v
  BY <1>2 DEF Const!Const, Const!Var
<1>6. Low(c, i + 1) = l + b * q
  BY <1>3, <1>4, LowStep
<1>7. \/ b = 0 /\ internal' = internal /\ pushed' = pushed
      \/ b = 1 /\ i = 0 /\ internal' = v % p /\ pushed' = pushed
      \/ b = 1 /\ i > 0 /\ internal' = (internal + (v % p) * q) % p /\ pushed' = pushed + 1
  <2>1. Const!Bit(c, i) = b /\ Const!Pow2 = Pow2
    BY SameNumbers
  <2>2. CASE Const!PassStage
    BY <2>1, <2>2 DEF Const!PassStage
  <2>3. CASE Const!CopyStage
    BY <2>1, <2>3 DEF Const!CopyStage
  <2>4. CASE Const!AddStage
    BY <2>1, <2>4 DEF Const!AddStage
  <2> QED BY <2>2, <2>3, <2>4
<1> DEFINE o == Cardinality(OnesBelow(c, i))
<1>8. /\ o \in Nat /\ i = 0 => o = 0
      /\ Cardinality(OnesBelow(c, i + 1)) = o + IF i > 0 /\ b = 1 THEN 1 ELSE 0
  BY <1>3, <1>4, OnesBelowStep
<1> HIDE DEF c, v, p, l, b, q, o
<1>9. internal' \in 0..p - 1 /\ pushed' \in Nat
  <2>1. \A z \in Nat : z % p \in 0..p - 1
    <3> TAKE z \in Nat
    <3>1. z % p \in Nat /\ z % p < p
      BY <1>4, QuotientRemainder
    <3> QED BY <1>4, <3>1
  <2>2. internal \in 0..p - 1
    BY <1>3, SameNumbers DEF Const!TypeOK, p
  <2>3. internal + (v % p) * q \in Nat
    <3>1. v % p \in Nat
      BY <1>4, <2>1
    <3>2. (v % p) * q \in Nat
      BY <1>4, <3>1
    <3> QED BY <1>3, <3>2
  <2> QED BY <1>3, <1>4, <1>7, <2>1, <2>2, <2>3
<1>10. Const!TypeOK'
  <2>1. i' \in 0..width
    BY <1>2, <1>3
  <2>2. size \in [variable : Nat, constant : Nat]
    BY <1>3 DEF Const!TypeOK
  <2> QED BY <1>2, <1>9, <2>1, <2>2, SameNumbers DEF Const!TypeOK, p
<1>11. ASSUME Cardinality(job.constant) = 1 PROVE StageIs'
  <2>1. internal = (v * l) % p /\ pushed = o
    BY <1>2, <1>3, <1>11, StageExactIs DEF StageIs, c, v, p, l, o
  <2>2. internal' = (v * (l + b * q)) % p
    <3>1. CASE b = 0
      <4>1. l + b * q = l
        BY <1>4, <3>1
      <4> QED BY <1>7, <2>1, <3>1, <4>1
    <3>2. CASE b = 1
      <4>1. l + b * q = l + q
        BY <1>4, <3>2
      <4>2. (internal + (v % p) * q) % p = (v * (l + q)) % p
        <5>1. AddsStage(p, v, l, q)
          BY <1>4, StageAdds
        <5> QED BY <2>1, <5>1 DEF AddsStage
      <4>3. i = 0 => v * (l + q) = v
        <5>1. i = 0 => l = 0 /\ q = 1
          BY <1>4, LowStep, Pow2Step DEF l, q
        <5> QED BY <1>4, <5>1
      <4> QED BY <1>7, <3>2, <4>1, <4>2, <4>3
    <3> QED BY <1>4, <3>1, <3>2
  <2>3. pushed' = Cardinality(OnesBelow(c, i + 1))
    BY <1>3, <1>4, <1>7, <1>8, <2>1
  <2>4. StageIs' = (/\ internal' = (Const!Var' * Low(Const!Const', i')) % Pow2[width']
                    /\ pushed' = Cardinality(OnesBelow(Const!Const', i')))
    BY DEF StageIs, OnesBelow
  <2> QED BY <1>2, <1>5, <1>6, <2>2, <2>3, <2>4 DEF c, v, p
<1>12. Const!StageExact'
  <2>1. (Const!StageExact <=> (phase = "stages" /\ Cardinality(job.constant) = 1 => StageIs))'
    BY StageExactIs, PTL
  <2> QED BY <1>2, <1>11, <2>1
<1>13. i' <= size'.constant
  <2>1. size \in [variable : Nat, constant : Nat]
    BY <1>3 DEF Const!TypeOK
  <2>2. size.constant \in Nat
    BY <2>1
  <2> QED BY <1>2, <1>3, <2>2
<1> QED BY <1>2, <1>3, <1>5, <1>10, <1>12, <1>13 DEF ConstInv, c

(* No step disturbs the cascade.                                           *)
LEMMA ConstNext ==
  ASSUME PhaseInv, PhaseInv', ConstInv, [Next]_vars
  PROVE  ConstInv'
<1>1. job' = job /\ x' = x /\ y' = y
  BY OperandsKept
<1>2. Const!Const' = Const!Const /\ Const!Var' = Const!Var
  BY <1>1 DEF Const!Const, Const!Var
<1>3. CASE Const!PruneConstant
  BY <1>3, ConstPrune
<1>4. CASE Const!PassStage \/ Const!CopyStage \/ Const!AddStage
  BY <1>4, ConstStage
<1>5. CASE Const!ConnectOutputs
  <2>1. /\ UNCHANGED <<size, i, internal, pushed, width>> /\ phase' \in {"done", "overrun"}
    BY <1>5 DEF Const!ConnectOutputs, Const!operands
  <2>2. Const!TypeOK' /\ Const!StageExact'
    BY <2>1 DEF ConstInv, Const!TypeOK, Const!StageExact
  <2> QED BY <2>1, <2>2 DEF ConstInv, Ended
<1>6. CASE ResolveConstant
  <2>1. /\ UNCHANGED <<i, internal, pushed, width>> /\ phase = "resolve" /\ phase' = "prune"
        /\ size' = IF "b" \in job.constant THEN [variable |-> job.a, constant |-> job.b]
                                            ELSE [variable |-> job.b, constant |-> job.a]
    BY <1>6 DEF ResolveConstant, Const!Begin, Const!operands
  <2>2. Sized /\ job.a \in Nat /\ job.b \in Nat
    BY OperandsSized DEF Sized
  <2>3. Const!TypeOK' /\ Const!StageExact'
    BY <2>1, <2>2 DEF ConstInv, Const!TypeOK, Const!StageExact
  <2> QED BY <1>1, <2>1, <2>3 DEF ConstInv, Ended
<1>7. CASE Next /\ ~ResolveConstant /\ ~(Const!Next /\ UNCHANGED <<treeVars, rowsVars>>)
  <2>1. /\ UNCHANGED <<size, i, internal, pushed>>
        /\ phase \notin {"prune", "stages"} \cup Ended
        /\ phase' \notin {"prune", "stages"}
    BY <1>7, OutsideConst
  <2>2. i = 0 /\ internal = 0 /\ pushed = 0 /\ size \in [variable : Nat, constant : Nat]
    BY <2>1 DEF ConstInv, Const!TypeOK
  <2>3. width' \in Nat /\ Pow2[width'] \in Nat \ {0}
    <3>1. width' \in Nat
      BY DEF PhaseInv
    <3> QED BY <3>1, Pow2Type
  <2>4. Const!TypeOK'
    <3>1. 0 \in 0..width' /\ 0 \in 0..Pow2[width'] - 1
      BY <2>3
    <3> QED BY <2>1, <2>2, <3>1, SameNumbers DEF Const!TypeOK
  <2>5. Const!StageExact'
    BY <2>1 DEF Const!StageExact
  <2> QED BY <2>1, <2>2, <2>4, <2>5 DEF ConstInv
<1>8. CASE UNCHANGED vars
  <2>1. UNCHANGED <<size, i, internal, pushed, width, phase, job, x, y>>
    BY <1>8 DEF vars, constVars
  <2>2. Const!TypeOK'
    BY <2>1 DEF ConstInv, Const!TypeOK
  <2>3. Const!StageExact'
    <3>1. (Const!StageExact <=> (phase = "stages" /\ Cardinality(job.constant) = 1 => StageIs))'
      BY StageExactIs, PTL
    <3>2. StageIs' = StageIs
      BY <2>1, <1>2 DEF StageIs, OnesBelow
    <3> QED BY <2>1, <3>1, <3>2, StageExactIs DEF ConstInv
  <2> QED BY <1>1, <1>2, <2>1, <2>2, <2>3 DEF ConstInv
<1> QED BY <1>3, <1>4, <1>5, <1>6, <1>7, <1>8 DEF Const!Next

-----------------------------------------------------------------------------
(* The phases.                                                             *)

(* Every step leads to a phase with what is known there.                   *)
LEMMA PhaseNext ==
  ASSUME PhaseInv, [Next]_vars
  PROVE  PhaseInv'
<1>1. job' = job /\ x' = x /\ y' = y
  BY OperandsKept
<1>2. Sized /\ job.a \in Nat /\ job.b \in Nat /\ job.out \in Nat
  BY OperandsSized DEF Sized
<1>3. /\ MadeConstant' = MadeConstant /\ MadeTree' = MadeTree /\ SoftMapped' = SoftMapped
      /\ PaddedWidth' = PaddedWidth
  BY <1>1 DEF MadeConstant, MadeTree, TooSmall, SoftMapped, Hardenable, PaddedWidth
<1> DEFINE Held == /\ job \in Jobs /\ x \in 0..Pow2[job.a] - 1 /\ y \in 0..Pow2[job.b] - 1
                   /\ width \in Nat
<1>4. Held
  BY DEF PhaseInv
<1>5. Held' <=> width' \in Nat
  BY <1>1, <1>4
<1> HIDE DEF Held
<1>6. CASE ResolveConstant
  <2>1. /\ phase = "resolve" /\ phase' = "prune" /\ width' = width /\ out' = out
        /\ MadeConstant
    BY <1>6 DEF ResolveConstant, Const!Begin, Const!operands, MadeConstant
  <2> QED BY <1>1, <1>3, <1>4, <1>5, <2>1 DEF PhaseInv, Ended, Held
<1>7. CASE ResolvePorts
  <2>1. /\ phase = "resolve" /\ phase' = "iterate" /\ width = job.out /\ out' = out
        /\ width' = PaddedWidth /\ job.hard_multipliers
    BY <1>7 DEF ResolvePorts, PhaseInv, PaddedWidth
  <2>2. width' \in Nat
    BY <1>2, <2>1 DEF PaddedWidth, Larger
  <2> QED BY <1>1, <1>3, <1>4, <1>5, <2>1, <2>2 DEF PhaseInv, Ended, Held
<1>8. CASE ResolveNothing
  <2>1. /\ phase = "resolve" /\ phase' = "map" /\ width' = width /\ out' = out
        /\ ~job.hard_multipliers /\ ~MadeConstant /\ ~MadeTree
    BY <1>8 DEF ResolveNothing, MadeConstant, MadeTree
  <2> QED BY <1>1, <1>3, <1>4, <1>5, <2>1 DEF PhaseInv, Ended, Held
<1>9. CASE IterateToTree
  <2>1. /\ phase = "iterate" /\ width' = width /\ out' = out
        /\ phase' \in {"tree", "assertion_failed"}
    BY <1>9 DEF IterateToTree, Tree!Begin, Tree!operands
  <2>2. MadeTree
    BY <1>9, <2>1 DEF IterateToTree, PhaseInv, MadeTree
  <2> QED BY <1>1, <1>3, <1>4, <1>5, <2>1, <2>2 DEF PhaseInv, Ended, Held
<1>10. CASE IterateKept
  <2>1. phase = "iterate" /\ width' = width /\ out' = out /\ phase' = "map"
    BY <1>10 DEF IterateKept
  <2>2. job.hard_multipliers /\ ~MadeConstant /\ ~MadeTree
    BY <1>10, <2>1 DEF IterateKept, PhaseInv, MadeTree, MadeConstant
  <2> QED BY <1>1, <1>3, <1>4, <1>5, <2>1, <2>2 DEF PhaseInv, Ended, Held
<1>11. CASE MapToRows
  <2>1. phase = "map" /\ width' = width /\ out' = out /\ phase' = "rows" /\ SoftMapped
    BY <1>11 DEF MapToRows, Rows!Begin, Rows!operands
  <2> QED BY <1>1, <1>3, <1>4, <1>5, <2>1 DEF PhaseInv, Ended, Held
<1>12. CASE MapNotSoft
  <2>1. phase' = "not_soft" /\ width' = width
    BY <1>12 DEF MapNotSoft
  <2> QED BY <1>4, <1>5, <2>1 DEF PhaseInv, Ended, Held
<1>13. CASE Tree!Next
  <2>1. /\ width' = width /\ phase \in {"tree", "remap"}
        /\ \/ phase' \in {"tree", "remap"} /\ out' = out
           \/ phase' \in {"done", "assertion_failed"}
    BY <1>13 DEF Tree!Next, Tree!AddRows, Tree!NextLevel, Tree!RemapOutputs, Tree!operands
  <2> QED BY <1>1, <1>3, <1>4, <1>5, <2>1 DEF PhaseInv, Ended, Held
<1>14. CASE Rows!Next
  <2>1. /\ width' = width /\ phase = "rows"
        /\ \/ phase' = "rows" /\ out' = out
           \/ phase' \in {"done", "one_bit_error"}
    BY <1>14 DEF Rows!Next, Rows!HookUpAdder, Rows!HookUpOutputs, Rows!operands
  <2> QED BY <1>1, <1>3, <1>4, <1>5, <2>1 DEF PhaseInv, Ended, Held
<1>15. CASE Const!Next
  <2>1. /\ width' = width /\ phase \in {"prune", "stages"}
        /\ \/ phase' = "stages" /\ out' = out
           \/ phase' \in {"done", "overrun"}
    BY <1>15 DEF Const!Next, Const!PruneConstant, Const!PassStage, Const!CopyStage,
                 Const!AddStage, Const!ConnectOutputs, Const!operands
  <2> QED BY <1>1, <1>3, <1>4, <1>5, <2>1 DEF PhaseInv, Ended, Held
<1>16. CASE UNCHANGED vars
  <2>1. width' = width /\ phase' = phase /\ out' = out
    BY <1>16 DEF vars
  <2> QED BY <1>1, <1>3, <1>4, <1>5, <2>1 DEF PhaseInv, Held
<1> QED BY <1>6, <1>7, <1>8, <1>9, <1>10, <1>11, <1>12, <1>13, <1>14, <1>15, <1>16 DEF Next

(* The invariant holds at the beginning.                                   *)
LEMMA SoftInit == Init => SoftInv
<1> SUFFICES ASSUME Init PROVE SoftInv
  OBVIOUS
<1>1. IsJob(job) /\ job \in Jobs /\ job.out \in Nat
  BY JobsAssumption DEF Init, IsJob
<1>2. PhaseInv
  BY <1>1 DEF Init, PhaseInv, Ended
<1>3. TreeInv
  <2>1. Tree!TypeOK
    BY DEF Init, Tree!TypeOK
  <2> QED BY <2>1 DEF Init, TreeInv
<1>4. RowsInv
  <2>1. adders = <<>> /\ job.b \in Nat \ {0}
    BY <1>1 DEF Init, IsJob
  <2>2. adders \in Seq(Nat) /\ Len(adders) = 0
    BY <2>1
  <2> QED BY <2>1, <2>2 DEF RowsInv
<1>5. ConstInv
  <2>1. Pow2[width] \in Nat \ {0} /\ width \in Nat
    <3>1. width \in Nat
      BY <1>1 DEF Init
    <3> QED BY <3>1, Pow2Type
  <2>2. 0 \in 0..width /\ 0 \in 0..Pow2[width] - 1
    BY <2>1
  <2>3. Const!TypeOK
    BY <2>2, SameNumbers DEF Init, Const!TypeOK
  <2>4. Const!StageExact
    BY DEF Init, Const!StageExact
  <2> QED BY <2>3, <2>4 DEF Init, ConstInv
<1> QED BY <1>2, <1>3, <1>4, <1>5 DEF SoftInv

(* Every step keeps the invariant.                                         *)
LEMMA SoftNext == SoftInv /\ [Next]_vars => SoftInv'
<1> SUFFICES ASSUME SoftInv, [Next]_vars PROVE SoftInv'
  OBVIOUS
<1>1. PhaseInv /\ TreeInv /\ RowsInv /\ ConstInv
  BY DEF SoftInv
<1>2. PhaseInv'
  BY <1>1, PhaseNext
<1> QED BY <1>1, <1>2, TreeNext, RowsNext, ConstNext DEF SoftInv

(* The phases, the rows and the stages are as the code leaves them.        *)
THEOREM SoftInvariant == Spec => []SoftInv
BY SoftInit, SoftNext, PTL DEF Spec

(* Every step of the three soft multiplications is exact and stays inside  *)
(* its arrays (multipliers.cc, lines 119, 187, 317, 1424 and 1484).        *)
THEOREM PartialResultsAreExact == Spec => []PartialResultsExact
<1>1. SoftInv => PartialResultsExact
  <2> SUFFICES ASSUME SoftInv PROVE PartialResultsExact
    OBVIOUS
  <2>1. PhaseInv /\ TreeInv /\ RowsInv /\ ConstInv
    BY DEF SoftInv
  <2>2. Tree!TypeOK /\ Tree!NoCarryLost
    BY <2>1, TreeExact DEF TreeInv
  <2>3. Rows!TypeOK /\ Rows!CarryPassed
    BY <2>1, RowsExact
  <2>4. Const!TypeOK /\ Const!StageExact
    BY <2>1 DEF ConstInv
  <2> QED BY <2>2, <2>3, <2>4 DEF PartialResultsExact
<1> QED BY <1>1, SoftInvariant, PTL

-----------------------------------------------------------------------------
(* The outputs.                                                            *)

(* Bit k of the product does not depend on the bits of y above k.          *)
LEMMA PartialBit ==
  ASSUME Sized, NEW k \in Nat
  PROVE  Bit(Partial(k), k) = Bit(x * y, k)
<1> DEFINE n == k + 1
           p == Partial(k)
           w == x * High(y, n)
           q == Pow2[n]
           l == Low(y, n)
           h == High(y, n)
<1>1. x \in Nat /\ y \in Nat /\ n \in Nat /\ k < n
  BY DEF Sized
<1>2. l \in Nat /\ h \in Nat /\ y = l + h * q /\ q \in Nat
  <2> HIDE DEF n
  <2> QED BY <1>1, LowHigh, Pow2Type
<1>3. p = x * l
  BY DEF Partial
<1>4. p \in Nat /\ w \in Nat
  BY <1>1, <1>2, <1>3
<1>5. x * y = p + w * q
  <2> HIDE DEF q, l, p
  <2>1. w = x * h
    OBVIOUS
  <2> HIDE DEF w, h
  <2>2. x * (l + h * q) = x * l + (x * h) * q
    BY <1>1, <1>2
  <2> QED BY <1>2, <1>3, <2>1, <2>2
<1> HIDE DEF n, p, w, l, h
<1>6. Low(p + w * Pow2[n], n) = Low(p, n)
  BY <1>1, <1>4, AddAbove
<1>7. (p + w * q) % q = p % q
  BY <1>6 DEF Low
<1>8. Bit(p % q, k) = Bit(p, k)
  <2>1. p \in Int
    BY <1>4
  <2> QED BY <1>1, <2>1, BitOfLow
<1>9. Bit((p + w * q) % q, k) = Bit(p + w * q, k)
  <2> DEFINE v == p + w * q
  <2>1. v \in Int
    <3>1. w * q \in Int
      BY <1>2, <1>4
    <3> QED BY <1>4, <3>1
  <2> HIDE DEF v
  <2>2. Bit(v % q, k) = Bit(v, k)
    BY <1>1, <2>1, BitOfLow
  <2> QED BY <2>2 DEF v
<1> QED BY <1>5, <1>7, <1>8, <1>9 DEF p

(* Every output of the rows is its bit of the product.                     *)
LEMMA PinExact ==
  ASSUME PhaseInv, RowsInv, Len(adders) >= job.b - 1, job.b # 1,
         NEW k \in 0..job.a + job.b - 1
  PROVE  Rows!OutputPin(k) = Bit(x * y, k)
<1>1. Sized /\ job.b \in Nat \ {0} /\ job.a \in Nat /\ x \in Nat /\ y \in Nat /\ k \in Nat
      /\ y < Pow2[job.b]
  BY OperandsSized DEF Sized
<1>2. /\ Len(adders) = job.b - 1
      /\ \A j \in 1..job.b - 1 : adders[j] = High(Partial(j), j)
  <2>1. Len(adders) \in Nat /\ Len(adders) <= job.b - 1
    BY DEF RowsInv
  <2> QED BY <1>1, <2>1 DEF RowsInv
<1>3. \A j \in Nat : Bit(High(Partial(j), j), 0) = Bit(x * y, j)
  <2> TAKE j \in Nat
  <2>1. Bit(High(Partial(j), j), 0) = Bit(Partial(j), j)
    BY <1>1, PartialStep DEF PartialFacts
  <2> QED BY <1>1, <2>1, PartialBit
<1>4. CASE k = 0
  <2>1. Rows!OutputPin(k) = Bit(Partial(0), 0)
    BY <1>1, <1>4, PartialFirst, SameNumbers DEF Rows!OutputPin
  <2> QED BY <1>1, <1>4, <2>1, PartialBit
<1>5. CASE k # 0 /\ k < job.b - 1
  <2>1. Rows!OutputPin(k) = Bit(adders[k], 0)
    BY <1>5, SameNumbers DEF Rows!OutputPin
  <2>2. adders[k] = High(Partial(k), k)
    <3>1. k \in 1..job.b - 1
      BY <1>1, <1>5
    <3> QED BY <1>2, <3>1
  <2> QED BY <1>1, <1>3, <2>1, <2>2
<1>6. CASE k # 0 /\ ~(k < job.b - 1)
  <2>1. PICK n \in Nat \ {0} : n = job.b - 1
    BY <1>1
  <2>2. Rows!OutputPin(k) = Bit(adders[n], k - n)
    BY <1>6, <2>1, SameNumbers DEF Rows!OutputPin
  <2>3. adders[n] = High(Partial(n), n)
    <3>1. n \in 1..job.b - 1
      BY <1>1, <2>1
    <3> QED BY <1>2, <3>1
  <2>4. Partial(n) = x * y
    <3>1. n + 1 = job.b
      BY <1>1, <2>1
    <3>2. Low(y, job.b) = y
      BY <1>1, LowSmall
    <3> QED BY <3>1, <3>2 DEF Partial
  <2>5. PICK j \in Nat : j = k - n
    <3>1. k - n \in Nat
      BY <1>1, <1>6, <2>1
    <3> QED BY <3>1
  <2>6. n + j = k
    BY <1>1, <2>1, <2>5
  <2>7. Bit(High(x * y, n), j) = Bit(x * y, n + j)
    <3>1. PICK v \in Nat : v = x * y
      BY <1>1
    <3>2. Bit(High(v, n), j) = Bit(v, n + j)
      BY HighHalf
    <3> QED BY <3>1, <3>2
  <2> QED BY <2>2, <2>3, <2>4, <2>5, <2>6, <2>7
<1> QED BY <1>4, <1>5, <1>6

(* Together they are the product, in their number.                         *)
LEMMA OutputsExact ==
  ASSUME PhaseInv, RowsInv, phase = "rows", Rows!HookUpOutputs, job.b # 1
  PROVE  out' = (x * y) % Pow2[Rows!DrivenWidth]
<1>1. Sized /\ job.b \in Nat \ {0} /\ job.a \in Nat \ {0} /\ x \in Nat /\ y \in Nat
      /\ width \in Nat
  BY OperandsSized DEF Sized, PhaseInv
<1> DEFINE n == Rows!DrivenWidth
           Eq(f) == f = [k \in 0..n |->
                          IF k = 0 THEN 0 ELSE f[k - 1] + Rows!OutputPin(k - 1) * Rows!Pow2[k - 1]]
           F == CHOOSE f : Eq(f)
           v == x * y
           V == [k \in 0..n |-> Low(v, k)]
           t == [k \in 1..n |-> Bit(v, k - 1) * Pow2[k - 1]]
<1>2. out' = F[n] /\ Len(adders) >= job.b - 1
  BY DEF Rows!HookUpOutputs
<1>3. n \in Nat /\ n <= job.a + job.b
  BY <1>1 DEF Rows!DrivenWidth, Rows!Smaller
<1>4. v \in Nat
  BY <1>1
<1> HIDE DEF n, v
<1>5. ASSUME NEW k \in 1..n
      PROVE  /\ Rows!OutputPin(k - 1) * Rows!Pow2[k - 1] = t[k]
             /\ Low(v, k) = Low(v, k - 1) + t[k]
  <2>1. PICK j \in Nat : j = k - 1
    BY <1>3
  <2>2. j \in 0..job.a + job.b - 1 /\ k = j + 1
    BY <1>1, <1>3, <2>1
  <2>3. Rows!OutputPin(j) = Bit(v, j)
    BY <1>2, <2>2, PinExact DEF v
  <2>4. Low(v, j + 1) = Low(v, j) + Bit(v, j) * Pow2[j]
    BY <1>4, LowStep
  <2>5. t[k] = Bit(v, j) * Pow2[j]
    BY <2>1
  <2> QED BY <2>1, <2>2, <2>3, <2>4, <2>5, SameNumbers
<1>6. Low(v, 0) = 0
  BY <1>4, LowStep
<1> HIDE DEF t
<1>7. Eq(V)
  <2>1. ASSUME NEW k \in 0..n
        PROVE  V[k] = IF k = 0 THEN 0
                      ELSE V[k - 1] + Rows!OutputPin(k - 1) * Rows!Pow2[k - 1]
    <3>1. CASE k = 0
      BY <1>6, <3>1
    <3>2. CASE k # 0
      <4>1. k \in 1..n /\ k - 1 \in 0..n
        BY <1>3, <3>2
      <4>2. V[k] = Low(v, k) /\ V[k - 1] = Low(v, k - 1)
        BY <4>1
      <4> HIDE DEF V
      <4> QED BY <1>5, <3>2, <4>1, <4>2
    <3> QED BY <3>1, <3>2
  <2>2. V = [k \in 0..n |-> V[k]]
    OBVIOUS
  <2> QED BY <2>1, <2>2
<1>8. F = CHOOSE f : Eq(f)
  BY DEF F
<1>9. Eq(F)
  <2> HIDE DEF Eq, F
  <2> QED BY <1>7, <1>8, Zenon
<1> HIDE DEF F
<1>10. ASSUME NEW f, Eq(f) PROVE f[0] = 0 /\ \A k \in 1..n : f[k] = f[k - 1] + t[k]
  <2>1. ASSUME NEW k \in 0..n
        PROVE  f[k] = IF k = 0 THEN 0
                      ELSE f[k - 1] + Rows!OutputPin(k - 1) * Rows!Pow2[k - 1]
    BY <1>10
  <2> HIDE DEF Eq
  <2>2. f[0] = 0
    <3>1. 0 \in 0..n
      BY <1>3
    <3> QED BY <2>1, <3>1
  <2>3. ASSUME NEW k \in 1..n PROVE f[k] = f[k - 1] + t[k]
    <3>1. k \in 0..n /\ k # 0
      BY <1>3
    <3> QED BY <1>5, <2>1, <3>1
  <2> QED BY <2>2, <2>3
<1>11. V[n] = Low(v, n)
  BY <1>3
<1> HIDE DEF Eq, V
<1>12. SumUp(F, V, t, n)
  BY <1>7, <1>9, <1>10 DEF SumUp
<1>13. Agree(F, V, n)
  BY <1>3, <1>12, SumsAgree
<1>14. F[n] = V[n]
  BY <1>3, <1>13 DEF Agree
<1> QED BY <1>2, <1>11, <1>14 DEF n, v, Low

-----------------------------------------------------------------------------
(* The three implement one multiplication.                                 *)

Failed == {"not_soft", "assertion_failed", "one_bit_error", "overrun"}

(* A step that ends a multiplication either drives the product or, where   *)
(* no soft logic is made of it, ends without.                              *)
Ends ==
  \/ phase' = "done" /\ MadeSoft /\ out' = (x * y) % Pow2[DrivenWidth]
  \/ phase' \in Failed /\ ~MadeSoft

(* Bits of the constant that are beyond the outputs or not there change    *)
(* nothing.                                                                *)
LEMMA ProductKept ==
  ASSUME NEW c \in Nat, NEW v \in Nat, NEW w \in Nat, NEW k \in Nat,
         k = w \/ c < Pow2[k]
  PROVE  (v * Low(c, k)) % Pow2[w] = (v * c) % Pow2[w]
<1>1. CASE c < Pow2[k]
  BY <1>1, LowSmall
<1>2. CASE k = w
  <2> DEFINE p == Pow2[w]
  <2>1. p \in Nat \ {0}
    BY Pow2Type
  <2>2. Low(c, k) = c % p
    BY <1>2 DEF Low
  <2> HIDE DEF p
  <2>3. SameCut(p, 0, c, v)
    BY <2>1, CutSum
  <2>4. ((0 % p) + (c % p) * v) % p = (0 + c * v) % p
    BY <2>3 DEF SameCut
  <2>5. 0 % p = 0 /\ c % p \in Nat
    BY <2>1, SmallRemainder, QuotientRemainder
  <2>6. (0 % p) + (c % p) * v = v * (c % p) /\ 0 + c * v = v * c
    <3> DEFINE d == c % p
    <3>1. d \in Nat
      BY <2>5
    <3> HIDE DEF d
    <3>2. 0 + d * v = v * d /\ 0 + c * v = v * c
      BY <3>1
    <3> QED BY <2>5, <3>2 DEF d
  <2> QED BY <2>2, <2>4, <2>6 DEF p
<1> QED BY <1>1, <1>2

(* The tree ends with the product, or with the failed assertion.           *)
LEMMA TreeEnds ==
  ASSUME SoftInv, Tree!RemapOutputs
  PROVE  Ends
<1>1. PhaseInv /\ TreeInv /\ phase = "remap" /\ MadeTree /\ width = PaddedWidth
  BY DEF SoftInv, Tree!RemapOutputs, PhaseInv
<1>2. /\ Sized /\ job.a \in Nat /\ job.b \in Nat /\ job.out \in Nat /\ x \in Nat /\ y \in Nat
      /\ x < Pow2[job.a] /\ y < Pow2[job.b]
  BY <1>1, OperandsSized DEF Sized
<1>3. stage[1].size = job.a + job.b /\ stage[1].bits = x * y
  BY <1>1, TreeExact
<1>4. ~MadeConstant
  BY <1>1 DEF MadeTree, MadeConstant
<1>5. DrivenWidth = job.a + job.b /\ (MadeSoft <=> job.out <= job.a + job.b)
  BY <1>1, <1>4 DEF DrivenWidth, MadeSoft
<1>6. (x * y) % Pow2[job.a + job.b] = x * y
  <2>1. Pow2[job.a + job.b] = Pow2[job.a] * Pow2[job.b] /\ Pow2[job.a] \in Nat
        /\ Pow2[job.b] \in Nat
    BY <1>2, Pow2Sum, Pow2Type
  <2> DEFINE v == x * y
             a == Pow2[job.a]
             b == Pow2[job.b]
  <2>2. v \in Nat /\ v < a * b
    <3>1. x < a /\ y < b /\ a \in Nat /\ b \in Nat
      BY <1>2, <2>1
    <3> HIDE DEF a, b
    <3> QED BY <1>2, <3>1, ProductBound
  <2>3. v < Pow2[job.a + job.b]
    BY <2>1, <2>2
  <2>4. job.a + job.b \in Nat
    BY <1>2
  <2> HIDE DEF v
  <2>5. Low(v, job.a + job.b) = v
    BY <2>2, <2>3, <2>4, LowSmall
  <2> QED BY <2>5 DEF v, Low
<1>7. width = job.a + job.b <=> job.out <= job.a + job.b
  BY <1>1, <1>2 DEF PaddedWidth, Larger
<1>8. IF width = job.a + job.b THEN out' = x * y /\ phase' = "done"
                               ELSE phase' = "assertion_failed"
  BY <1>3 DEF Tree!RemapOutputs
<1> QED BY <1>5, <1>6, <1>7, <1>8 DEF Ends, Failed

(* The rows end with the product, or with the error of a one-bit           *)
(* multiplicand.                                                           *)
LEMMA RowsEnd ==
  ASSUME SoftInv, Rows!HookUpOutputs
  PROVE  Ends
<1>1. /\ PhaseInv /\ RowsInv /\ phase = "rows" /\ ~MadeConstant /\ ~MadeTree /\ SoftMapped
      /\ width = IF job.hard_multipliers THEN PaddedWidth ELSE job.out
  BY DEF SoftInv, Rows!HookUpOutputs, PhaseInv
<1>2. job.b \in Nat \ {0}
  BY <1>1, OperandsSized DEF Sized
<1>3. MadeSoft <=> job.b # 1
  BY <1>1, <1>2 DEF MadeSoft
<1>4. DrivenWidth = Rows!DrivenWidth
  BY <1>1 DEF DrivenWidth, Rows!DrivenWidth, PaddedWidth
<1>5. CASE job.b = 1
  BY <1>3, <1>5 DEF Rows!HookUpOutputs, Ends, Failed
<1>6. CASE job.b # 1
  <2>1. phase' = "done"
    BY <1>6 DEF Rows!HookUpOutputs
  <2>2. out' = (x * y) % Pow2[Rows!DrivenWidth]
    BY <1>1, <1>6, OutputsExact
  <2> QED BY <1>3, <1>4, <1>6, <2>1, <2>2 DEF Ends
<1> QED BY <1>5, <1>6

(* The cascade ends with the product, or with the overrun.                 *)
LEMMA ConstEnds ==
  ASSUME SoftInv, Const!ConnectOutputs
  PROVE  Ends
<1>1. /\ PhaseInv /\ ConstInv /\ phase = "stages" /\ MadeConstant /\ width = job.out
      /\ (i = width \/ i = size.constant)
  BY DEF SoftInv, Const!ConnectOutputs, Const!LastStage, PhaseInv
<1>2. Sized /\ job.out \in Nat \ {0} /\ x \in Nat /\ y \in Nat /\ job.a \in Nat /\ job.b \in Nat
  BY <1>1, OperandsSized DEF Sized
<1>3. /\ i \in Nat /\ Const!TypeOK /\ Const!StageExact
      /\ Cardinality(job.constant) = 1 =>
           IF Const!Const = 0 THEN size.constant = 0
                              ELSE size.constant # 0 /\ Const!Const < Pow2[size.constant]
      /\ i <= size.constant /\ (Cardinality(job.constant) # 1 => size.constant = 0)
  BY <1>1 DEF ConstInv, Const!TypeOK
<1>4. DrivenWidth = width /\ (MadeSoft <=> Cardinality(job.constant) = 1 /\ Const!Const # 0)
  BY <1>1 DEF DrivenWidth, MadeSoft
<1>5. CASE i = 0
  <2>1. phase' = "overrun"
    BY <1>5 DEF Const!ConnectOutputs
  <2>2. size.constant = 0
    BY <1>1, <1>2, <1>5
  <2>3. ~MadeSoft
    BY <1>3, <1>4, <2>2
  <2> QED BY <2>1, <2>3 DEF Ends, Failed
<1>6. CASE i # 0
  <2>1. phase' = "done" /\ out' = internal
    BY <1>6 DEF Const!ConnectOutputs
  <2>2. size.constant # 0
    BY <1>3, <1>6
  <2>3. Cardinality(job.constant) = 1 /\ Const!Const # 0
    BY <1>3, <2>2
  <2>4. internal = (Const!Var * Low(Const!Const, i)) % Pow2[width]
    BY <1>1, <1>3, <2>3, StageExactIs DEF StageIs
  <2>5. i = width \/ Const!Const < Pow2[i]
    BY <1>1, <1>3, <2>3
  <2>6. (Const!Var * Low(Const!Const, i)) % Pow2[width] = (Const!Var * Const!Const) % Pow2[width]
    <3>1. Const!Const \in Nat /\ Const!Var \in Nat /\ width \in Nat
      BY <1>1, <1>2, ConstSized
    <3> QED BY <1>3, <2>5, <3>1, ProductKept
  <2>7. Const!Var * Const!Const = x * y
    BY <1>2 DEF Const!Var, Const!Const
  <2> QED BY <1>4, <2>1, <2>3, <2>4, <2>6, <2>7 DEF Ends
<1> QED BY <1>5, <1>6

(* No other step ends a multiplication.                                    *)
LEMMA GoesOn ==
  ASSUME SoftInv, Next, ~Tree!RemapOutputs, ~Rows!HookUpOutputs, ~Const!ConnectOutputs
  PROVE  Ends \/ (phase' \notin Failed /\ out' = out)
<1>1. PhaseInv
  BY DEF SoftInv
<1> USE DEF Failed
<1>2. CASE ResolveConstant
  BY <1>2 DEF ResolveConstant, Const!Begin
<1>3. CASE ResolvePorts \/ ResolveNothing \/ IterateKept
  BY <1>3 DEF ResolvePorts, ResolveNothing, IterateKept
<1>4. CASE IterateToTree
  <2>1. job.b \in Nat \ {0} /\ job.b # 1
    BY <1>1, <1>4, OperandsSized DEF Sized, IterateToTree, TooSmall
  <2> QED BY <1>4, <2>1 DEF IterateToTree, Tree!Begin
<1>5. CASE MapToRows
  BY <1>5 DEF MapToRows, Rows!Begin
<1>6. CASE MapNotSoft
  <2>1. phase = "map" /\ phase' = "not_soft" /\ ~SoftMapped
    BY <1>6 DEF MapNotSoft
  <2>2. ~MadeConstant /\ ~MadeTree
    BY <1>1, <2>1 DEF PhaseInv
  <2> QED BY <2>1, <2>2 DEF Ends, MadeSoft
<1>7. CASE Tree!Next
  BY <1>7 DEF Tree!Next, Tree!AddRows, Tree!NextLevel
<1>8. CASE Rows!Next
  BY <1>8 DEF Rows!Next, Rows!HookUpAdder
<1>9. CASE Const!Next
  BY <1>9 DEF Const!Next, Const!PruneConstant, Const!PassStage, Const!CopyStage, Const!AddStage
<1> QED BY <1>2, <1>3, <1>4, <1>5, <1>6, <1>7, <1>8, <1>9 DEF Next

(* Every step is the one of the abstract multiplication or a stutter.      *)
LEMMA StepImplements ==
  ASSUME SoftInv, [Next]_vars
  PROVE  [Product!Multiply]_(Product!vars)
<1>1. PhaseInv
  BY DEF SoftInv
<1>2. job' = job /\ x' = x /\ y' = y
  BY OperandsKept
<1>3. DrivenWidth' = DrivenWidth /\ MadeSoft' = MadeSoft
  BY <1>2 DEF DrivenWidth, MadeSoft, MadeConstant, MadeTree, TooSmall, SoftMapped, Hardenable,
              Const!Const
<1>4. CASE Next
  <2>1. phase \notin Ended /\ out = Undriven
    <3>1. phase \notin Ended
      BY <1>4 DEF Ended, Next, ResolveConstant, ResolvePorts, ResolveNothing, IterateToTree,
           IterateKept, MapToRows, MapNotSoft,
           Tree!Next, Tree!AddRows, Tree!NextLevel, Tree!RemapOutputs,
           Rows!Next, Rows!HookUpAdder, Rows!HookUpOutputs,
           Const!Next, Const!PruneConstant, Const!PassStage, Const!CopyStage, Const!AddStage,
           Const!ConnectOutputs
    <3> QED BY <1>1, <3>1 DEF PhaseInv
  <2>2. Outcome = Undriven
    BY <2>1 DEF Outcome, Ended
  <2>3. Ends \/ (phase' \notin Failed /\ out' = out)
    BY <1>4, TreeEnds, RowsEnd, ConstEnds, GoesOn
  <2>4. CASE Ends
    <3>1. Outcome' = IF MadeSoft THEN (x * y) % Pow2[DrivenWidth] ELSE NotSoft
      BY <2>4 DEF Ends, Failed, Outcome
    <3>2. Product!Multiply
      BY <1>2, <1>3, <2>2, <3>1, SameNumbers
         DEF Product!Multiply, Product!Undriven, Undriven, Product!NotSoft, NotSoft
    <3> QED BY <3>2
  <2>5. CASE phase' \notin Failed /\ out' = out
    <3>1. Outcome' = Outcome
      BY <2>1, <2>2, <2>5 DEF Outcome, Failed
    <3>2. UNCHANGED Product!vars
      BY <1>2, <1>3, <3>1 DEF Product!vars
    <3> QED BY <3>2
  <2> QED BY <2>3, <2>4, <2>5
<1>5. CASE UNCHANGED vars
  <2>1. Outcome' = Outcome
    BY <1>5 DEF vars, Outcome
  <2>2. UNCHANGED Product!vars
    BY <1>2, <1>3, <2>1 DEF Product!vars
  <2> QED BY <2>2
<1> QED BY <1>4, <1>5

(* Every beginning is one of the abstract multiplication.                  *)
LEMMA InitImplements == Init => Product!Init
<1> SUFFICES ASSUME Init PROVE Product!Init
  OBVIOUS
<1>1. PhaseInv
  BY SoftInit DEF SoftInv
<1>2. /\ Sized /\ x \in Nat /\ y \in Nat /\ job.a \in Nat /\ job.b \in Nat /\ job.out \in Nat
      /\ job.hard_multipliers \in BOOLEAN
  BY <1>1, OperandsSized DEF Sized, IsJob
<1>3. DrivenWidth \in Nat
  BY <1>2 DEF DrivenWidth, Rows!Smaller, Larger
<1>4. MadeSoft \in BOOLEAN
  <2>1. MadeSoft = TRUE \/ MadeSoft = FALSE
    BY <1>2 DEF MadeSoft, SoftMapped, Sized, IsJob
  <2> QED BY <2>1
<1>5. Outcome = Undriven
  BY DEF Init, Outcome
<1> QED BY <1>2, <1>3, <1>4, <1>5 DEF Product!Init, Product!Undriven, Undriven

(* Whatever the pass makes in soft logic of a multiplication implements    *)
(* it, but for its fairness: no driven output ever carries another bit     *)
(* than the product's, and nothing is driven where nothing is made.        *)
THEOREM MultiplicationImplemented ==
  Spec => Product!Init /\ [][Product!Multiply]_(Product!vars)
<1>1. SoftInv /\ [Next]_vars => [Product!Multiply]_(Product!vars)
  BY StepImplements
<1> QED BY <1>1, InitImplements, SoftInvariant, PTL DEF Spec
====
