--------------------------- MODULE MultiplierProofs ---------------------------
(***************************************************************************)
(* Proofs about the two phases that decide what becomes of a multiplier:   *)
(* MultiplierSplit, for every design and every size of block, and          *)
(* MultiplierMixing, for every netlist, every setting and every            *)
(* architecture: what is cut computes the product, no multiplier is        *)
(* implemented twice and the optimized ones are the heaviest.              *)
(***************************************************************************)
EXTENDS MultiplierSplit, MultiplierMixing, Induction, FunctionTheorems,
        SequenceTheorems, FiniteSetTheorems, TLAPS

(***************************************************************************)
(* The splitting.                                                          *)
(***************************************************************************)

NodeType ==
  [a : Nat \ {0}, b : Nat \ {0}, made : Kinds,
   pieces : Seq(Nat), cut_a : Nat, cut_b : Nat]

(* LargerSize and SmallerSize return one of their two operands.            *)
LEMMA SizesType ==
  /\ \A x, y \in Nat \ {0} : LargerSize(x, y) \in Nat \ {0} /\ SmallerSize(x, y) \in Nat \ {0}
  /\ IsSplitArch(arch) => SizeA \in Nat \ {0} /\ SizeB \in Nat \ {0} /\ Full \in Widths
BY DEF LargerSize, SmallerSize, Full, Widths, IsSplitArch, SizeA, SizeB

(* The sizes and the table depend on the architecture only.                *)
LEMMA SameArch ==
  ASSUME arch' = arch
  PROVE  /\ SizeA' = SizeA /\ SizeB' = SizeB /\ Keys' = Keys
         /\ IsSplitArch(arch)' = IsSplitArch(arch)
BY DEF SizeA, SizeB, Keys

(* A multiplication that has not been looked at has the type of a node.    *)
LEMMA WaitingType ==
  ASSUME NEW a \in Nat \ {0}, NEW b \in Nat \ {0}
  PROVE  /\ Waiting(a, b) \in NodeType
         /\ Waiting(a, b).made = "waiting"
         /\ Waiting(a, b).a = a /\ Waiting(a, b).b = b
<1>1. <<>> \in Seq(Nat)
  OBVIOUS
<1> QED
  BY <1>1 DEF Waiting, NodeType, Kinds

(* The initial states satisfy the invariant.                               *)
LEMMA SplitInitInv == SplitInit => SplitIInv
<1> SUFFICES ASSUME SplitInit PROVE SplitIInv
  OBVIOUS
<1>1. PICK d \in Designs :
        /\ arch = d.arch
        /\ nodes = [i \in 1..Len(d.mults) |-> Waiting(d.mults[i].a, d.mults[i].b)]
        /\ mult_list = [i \in 1..Len(d.mults) |-> i]
  BY DEF SplitInit
<1> DEFINE m == d.mults
<1>2. IsSplitArch(arch) /\ m \in Seq(Widths) /\ DOMAIN m = 1..Len(m) /\ Len(m) \in Nat
  BY <1>1, DesignsAssumption
<1>3. \A i \in 1..Len(m) : m[i].a \in Nat \ {0} /\ m[i].b \in Nat \ {0}
  <2>1. \A i \in 1..Len(m) : m[i] \in Widths
    BY <1>2
  <2> QED
    BY <2>1 DEF Widths
<1>4. nodes \in Seq(NodeType) /\ Len(nodes) = Len(m)
  <2>1. \A i \in 1..Len(m) : Waiting(m[i].a, m[i].b) \in NodeType
    BY <1>3, WaitingType
  <2>2. nodes = [i \in 1..Len(m) |-> Waiting(m[i].a, m[i].b)]
    BY <1>1, <1>2
  <2> QED
    BY <1>2, <2>1, <2>2
<1>5. \A i \in 1..Len(m) : nodes[i].made = "waiting"
  BY <1>1, <1>2, <1>3, WaitingType
<1>6. mult_list \in Seq(Nat) /\ Len(mult_list) = Len(m)
  BY <1>1, <1>2
<1>7. \A i \in 1..Len(m) : mult_list[i] = i
  BY <1>1, <1>2
<1>8. SplitTypeOK
  <2>1. size \in Widths
    BY <1>2, SizesType DEF SplitInit, Full
  <2>2. mults \in [Keys -> Nat] /\ split_phase = "iterate"
    BY DEF SplitInit
  <2> QED
    BY <1>2, <1>4, <1>6, <2>1, <2>2 DEF SplitTypeOK, NodeType
<1>9. ListExact
  BY <1>4, <1>5, <1>6, <1>7 DEF ListExact
<1>10. SizeInv
  BY <1>2, SizesType DEF SplitInit, SizeInv, LargerSize, SmallerSize
<1>11. BlocksFit
  BY <1>2, <1>4, <1>5 DEF BlocksFit, Leaf
<1> QED
  BY <1>8, <1>9, <1>10, <1>11 DEF SplitIInv, SplitInit

-----------------------------------------------------------------------------

(* The head of the list is a node that waits, and the rest of the list has *)
(* every other node that does.                                             *)
LEMMA HeadFacts ==
  ASSUME SplitIInv, mult_list # <<>>
  PROVE  /\ Head0 \in 1..Len(nodes) /\ Len(nodes) \in Nat
         /\ Node0 \in NodeType /\ Node0.made = "waiting"
         /\ Tail(mult_list) \in Seq(Nat) /\ Len(Tail(mult_list)) = Len(mult_list) - 1
         /\ Len(mult_list) \in Nat \ {0}
         /\ \A i \in 1..Len(mult_list) - 1 : Tail(mult_list)[i] = mult_list[i + 1]
<1>1. nodes \in Seq(NodeType) /\ mult_list \in Seq(Nat)
  BY DEF SplitIInv, SplitTypeOK, NodeType
<1>2. Len(mult_list) \in Nat \ {0} /\ Len(nodes) \in Nat
  BY <1>1
<1>3. Head0 \in 1..Len(nodes) /\ nodes[Head0].made = "waiting"
  BY <1>2 DEF SplitIInv, ListExact, Head0
<1>4. nodes[Head0] \in NodeType
  BY <1>1, <1>3
<1>5. /\ Tail(mult_list) \in Seq(Nat) /\ Len(Tail(mult_list)) = Len(mult_list) - 1
      /\ \A i \in 1..Len(mult_list) - 1 : Tail(mult_list)[i] = mult_list[i + 1]
  BY <1>1, <1>2
<1> QED
  BY <1>2, <1>3, <1>4, <1>5 DEF Node0

(* The head of the list is a node of the netlist.                          *)
LEMMA HeadNode ==
  ASSUME SplitIInv, mult_list # <<>>
  PROVE  /\ DOMAIN nodes = 1..Len(nodes) /\ Len(nodes) \in Nat
         /\ Head0 \in DOMAIN nodes /\ nodes[Head0] = Node0
         /\ Node0 \in NodeType /\ Node0.made = "waiting"
         /\ \A m \in DOMAIN nodes : nodes[m] \in NodeType
<1>1. nodes \in Seq(NodeType)
  BY DEF SplitIInv, SplitTypeOK, NodeType
<1>2. DOMAIN nodes = 1..Len(nodes) /\ \A m \in DOMAIN nodes : nodes[m] \in NodeType
  BY <1>1
<1> QED BY <1>2, HeadFacts DEF Node0

(* The sizes are those of the model in one order or the other.             *)
LEMMA OrientedFacts ==
  ASSUME SplitIInv
  PROVE  /\ Oriented \in Widths
         /\ \/ Oriented = [a |-> SizeA, b |-> SizeB]
            \/ Oriented = [a |-> SizeB, b |-> SizeA]
<1>1. size \in Widths /\ size = [a |-> size.a, b |-> size.b]
  BY DEF SplitIInv, SplitTypeOK, Widths
<1>2. Oriented = size \/ Oriented = [a |-> size.b, b |-> size.a]
  BY DEF Oriented
<1>3. Oriented \in Widths
  BY <1>1, <1>2 DEF Widths
<1>4. \/ size = [a |-> SizeA, b |-> SizeB]
      \/ size = [a |-> SizeB, b |-> SizeA]
  BY DEF SplitIInv, SizeInv
<1> QED
  BY <1>2, <1>3, <1>4

(* Both orders of the block have the same larger and smaller port, so a    *)
(* piece that is narrower on both ports fits.                              *)
LEMMA NarrowerFits ==
  ASSUME SplitIInv, NEW a \in Nat, NEW b \in Nat,
         (a <= SizeA /\ b <= SizeB) \/ (a <= SizeB /\ b <= SizeA)
  PROVE  /\ LargerSize(a, b) <= LargerSize(SizeA, SizeB)
         /\ SmallerSize(a, b) <= SmallerSize(SizeA, SizeB)
BY SizesType DEF SplitIInv, SplitTypeOK, LargerSize, SmallerSize

-----------------------------------------------------------------------------
(* Cutting a node                                                          *)

(* The step changes no hard multiplier, and makes none.                    *)
HardKept ==
  /\ \A m \in DOMAIN nodes' : nodes'[m].made = "hard" =>
        m \in DOMAIN nodes /\ nodes'[m] = nodes[m]
  /\ \A m \in DOMAIN nodes : nodes[m].made = "hard" =>
        m \in DOMAIN nodes' /\ nodes'[m] = nodes[m]

(* The pieces of a cut are new nodes that wait, and they are pushed in the *)
(* place of the head, so that the invariant holds again.                   *)
LEMMA CutInv ==
  ASSUME SplitIInv, split_phase = "iterate", mult_list # <<>>,
         NEW how \in {"both", "a", "b"}, NEW cut_a \in Nat, NEW cut_b \in Nat,
         NEW pieces \in Seq(NodeType),
         \A i \in 1..Len(pieces) : pieces[i].made = "waiting",
         Cut(how, cut_a, cut_b, pieces)
  PROVE  SplitIInv' /\ HardKept
<1> DEFINE n == Len(nodes)
           k == Len(pieces)
           names == [i \in 1..k |-> n + i]
           pushed == [i \in 1..k |-> n + k + 1 - i]
           node == [Node0 EXCEPT !.made = how, !.cut_a = cut_a, !.cut_b = cut_b,
                                 !.pieces = names]
<1>1. /\ Head0 \in 1..n /\ n \in Nat /\ k \in Nat
      /\ Node0 \in NodeType /\ Node0.made = "waiting"
      /\ Tail(mult_list) \in Seq(Nat) /\ Len(Tail(mult_list)) = Len(mult_list) - 1
      /\ Len(mult_list) \in Nat \ {0}
      /\ \A i \in 1..Len(mult_list) - 1 : Tail(mult_list)[i] = mult_list[i + 1]
  BY HeadFacts
<1>2. names \in Seq(Nat) /\ pushed \in Seq(Nat) /\ Len(pushed) = k
  BY <1>1
<1>3. node \in NodeType /\ node.made = how
  <2> HIDE DEF names
  <2> QED
    BY <1>1, <1>2 DEF NodeType, Kinds
<1>4. nodes \in Seq(NodeType) /\ mult_list \in Seq(Nat)
  BY DEF SplitIInv, SplitTypeOK, NodeType
<1>5. /\ nodes' = [nodes EXCEPT ![Head0] = node] \o pieces
      /\ mult_list' = pushed \o Tail(mult_list)
      /\ size' = Oriented
      /\ UNCHANGED <<arch, mults, split_phase>>
  BY DEF Cut, Node0
<1>0. n = Len(nodes) /\ k = Len(pieces)
  OBVIOUS
<1> DEFINE l == Len(mult_list)
<1>n. n \in Nat /\ k \in Nat /\ l \in Nat \ {0}
  BY <1>1
<1>l. l = Len(mult_list)
  OBVIOUS
<1> HIDE DEF node, pushed, names, n, k, l
<1>6. /\ nodes' \in Seq(NodeType) /\ Len(nodes') = n + k
      /\ nodes'[Head0] = node
      /\ \A i \in 1..n : i # Head0 => nodes'[i] = nodes[i]
      /\ \A i \in 1..k : nodes'[n + i] = pieces[i]
  <2> DEFINE old == [nodes EXCEPT ![Head0] = node]
  <2>1. /\ old \in Seq(NodeType) /\ Len(old) = n
        /\ old[Head0] = node
        /\ \A i \in 1..n : i # Head0 => old[i] = nodes[i]
    BY <1>0, <1>1, <1>3, <1>4
  <2>2. nodes' = old \o pieces
    BY <1>5
  <2> HIDE DEF old
  <2>3. /\ nodes' \in Seq(NodeType) /\ Len(nodes') = n + k
        /\ \A i \in 1..n + k : nodes'[i] = IF i <= n THEN old[i] ELSE pieces[i - n]
    <3>1. old \in Seq(NodeType) /\ pieces \in Seq(NodeType)
      BY <2>1
    <3>2. /\ old \o pieces \in Seq(NodeType) /\ Len(old \o pieces) = Len(old) + Len(pieces)
          /\ \A i \in 1..Len(old) + Len(pieces) :
                (old \o pieces)[i] = IF i <= Len(old) THEN old[i] ELSE pieces[i - Len(old)]
      BY <3>1, ConcatProperties, Zenon
    <3> QED
      BY <1>0, <3>2, <2>1, <2>2
  <2>4. \A i \in 1..n : nodes'[i] = old[i]
    BY <2>3, <1>1
  <2>5. \A i \in 1..k : nodes'[n + i] = pieces[i]
    <3> TAKE i \in 1..k
    <3>1. n + i \in 1..n + k /\ ~(n + i <= n) /\ (n + i) - n = i
      BY <1>1
    <3> QED
      BY <2>3, <3>1
  <2> QED
    BY <2>1, <2>3, <2>4, <2>5, <1>1
<1>7. /\ mult_list' \in Seq(Nat) /\ Len(mult_list') = k + l - 1
      /\ \A i \in 1..k : mult_list'[i] = n + k + 1 - i
      /\ \A i \in k + 1..k + l - 1 : mult_list'[i] = mult_list[i - k + 1]
  <2>1. /\ mult_list' \in Seq(Nat) /\ Len(mult_list') = k + (l - 1)
        /\ \A i \in 1..k + (l - 1) :
              mult_list'[i] = IF i <= k THEN pushed[i] ELSE Tail(mult_list)[i - k]
    <3> DEFINE rest == Tail(mult_list)
    <3>1. pushed \in Seq(Nat) /\ rest \in Seq(Nat)
      BY <1>1, <1>2
    <3>2. mult_list' = pushed \o rest
      BY <1>5
    <3>3. Len(pushed) = k /\ Len(rest) = l - 1
      BY <1>1, <1>2, <1>0, <1>l
    <3> HIDE DEF rest
    <3>4. /\ pushed \o rest \in Seq(Nat) /\ Len(pushed \o rest) = Len(pushed) + Len(rest)
          /\ \A i \in 1..Len(pushed) + Len(rest) :
                (pushed \o rest)[i] = IF i <= Len(pushed) THEN pushed[i] ELSE rest[i - Len(pushed)]
      BY <3>1, ConcatProperties, Zenon
    <3>5. /\ mult_list' \in Seq(Nat) /\ Len(mult_list') = k + (l - 1)
          /\ \A i \in 1..k + (l - 1) :
                mult_list'[i] = IF i <= k THEN pushed[i] ELSE rest[i - k]
      BY <3>2, <3>3, <3>4
    <3> QED
      BY <3>5 DEF rest
  <2>2. \A i \in 1..k : pushed[i] = n + k + 1 - i
    BY <1>1 DEF pushed
  <2>3. ASSUME NEW i \in 1..k
        PROVE  mult_list'[i] = n + k + 1 - i
    <3>1. i \in 1..k + (l - 1) /\ i <= k
      BY <1>n
    <3>2. mult_list'[i] = pushed[i]
      BY <2>1, <3>1
    <3> QED
      BY <2>2, <3>2
  <2>4. ASSUME NEW i \in k + 1..k + l - 1
        PROVE  mult_list'[i] = mult_list[i - k + 1]
    <3>1. i \in 1..k + (l - 1) /\ ~(i <= k)
      BY <1>n
    <3>2. i - k \in 1..l - 1 /\ (i - k) + 1 = i - k + 1
      BY <1>n
    <3>3. Tail(mult_list)[i - k] = mult_list[i - k + 1]
      BY <3>2, <1>1, <1>l
    <3> QED
      BY <2>1, <3>1, <3>3
  <2>5. Len(mult_list') = k + l - 1
    BY <2>1, <1>n
  <2> QED
    BY <2>1, <2>3, <2>4, <2>5
<1>8. SplitTypeOK'
  BY <1>5, <1>6, <1>7, OrientedFacts, SameArch DEF SplitTypeOK, SplitIInv, NodeType
<1>9. ListExact'
  <2>0. /\ \A i \in 1..l :
              mult_list[i] \in 1..n /\ nodes[mult_list[i]].made = "waiting"
        /\ \A i, j \in 1..l : i # j => mult_list[i] # mult_list[j]
        /\ \A m \in 1..n :
              nodes[m].made = "waiting" => \E i \in 1..l : mult_list[i] = m
    BY <1>0, <1>l DEF SplitIInv, ListExact
  <2>1. \A i \in k + 1..k + l - 1 :
           /\ i - k + 1 \in 2..l
           /\ mult_list'[i] \in 1..n /\ mult_list'[i] # Head0
           /\ nodes'[mult_list'[i]].made = "waiting"
    <3> TAKE i \in k + 1..k + l - 1
    <3>0. i - k + 1 \in 2..l /\ i - k + 1 \in 1..l /\ i - k + 1 # 1 /\ 1 \in 1..l
      BY <1>n
    <3>1. mult_list'[i] = mult_list[i - k + 1]
      BY <1>7
    <3>2. mult_list[i - k + 1] \in 1..n /\ nodes[mult_list[i - k + 1]].made = "waiting"
      BY <2>0, <3>0
    <3>3. mult_list[i - k + 1] # Head0
      BY <2>0, <3>0 DEF Head0
    <3>4. nodes'[mult_list[i - k + 1]] = nodes[mult_list[i - k + 1]]
      BY <1>6, <3>2, <3>3
    <3> QED
      BY <3>0, <3>1, <3>2, <3>3, <3>4
  <2>2. \A i \in 1..k :
           /\ mult_list'[i] \in n + 1..n + k
           /\ nodes'[mult_list'[i]].made = "waiting"
    <3> TAKE i \in 1..k
    <3>0. n + k + 1 - i = n + (k + 1 - i) /\ k + 1 - i \in 1..k
      BY <1>n
    <3>1. mult_list'[i] = n + (k + 1 - i) /\ k + 1 - i \in 1..k
      BY <3>0, <1>7
    <3>2. nodes'[n + (k + 1 - i)] = pieces[k + 1 - i]
      BY <1>6, <3>1
    <3>3. mult_list'[i] \in n + 1..n + k
      BY <3>1, <1>n
    <3>4. k + 1 - i \in 1..Len(pieces)
      BY <3>1, <1>0
    <3>5. pieces[k + 1 - i].made = "waiting"
      BY <3>4
    <3> QED
      BY <3>1, <3>2, <3>3, <3>5
  <2>3. \A i \in 1..Len(mult_list') :
           mult_list'[i] \in 1..Len(nodes') /\ nodes'[mult_list'[i]].made = "waiting"
    <3> TAKE i \in 1..Len(mult_list')
    <3>1. CASE i \in 1..k
      <4>1. mult_list'[i] \in n + 1..n + k /\ nodes'[mult_list'[i]].made = "waiting"
        BY <2>2, <3>1
      <4> QED
        BY <4>1, <1>n, <1>6
    <3>2. CASE i \in k + 1..k + l - 1
      <4>1. mult_list'[i] \in 1..n /\ nodes'[mult_list'[i]].made = "waiting"
        BY <2>1, <3>2
      <4> QED
        BY <4>1, <1>n, <1>6
    <3> QED
      BY <3>1, <3>2, <1>n, <1>7
  <2>4. \A i, j \in 1..Len(mult_list') : i # j => mult_list'[i] # mult_list'[j]
    <3> SUFFICES ASSUME NEW i \in 1..Len(mult_list'), NEW j \in 1..Len(mult_list'), i < j
                 PROVE  mult_list'[i] # mult_list'[j]
      <4>1. 1..Len(mult_list') \subseteq Int
        BY <1>7, <1>n
      <4>2. \A i, j \in 1..Len(mult_list') : i # j => i < j \/ j < i
        BY <4>1
      <4> QED BY <4>2, Zenon
    <3>1. CASE i \in 1..k /\ j \in 1..k
      <4>1. mult_list'[i] = n + k + 1 - i /\ mult_list'[j] = n + k + 1 - j
        BY <1>7, <3>1
      <4>2. n + k + 1 - i # n + k + 1 - j
        BY <1>n, <3>1
      <4> QED
        BY <4>1, <4>2
    <3>2. CASE i \in 1..k /\ j \in k + 1..k + l - 1
      <4>1. mult_list'[i] \in n + 1..n + k /\ mult_list'[j] \in 1..n
        BY <2>1, <2>2, <3>2
      <4> QED
        BY <4>1, <1>n
    <3>3. CASE i \in k + 1..k + l - 1 /\ j \in k + 1..k + l - 1
      <4>1. /\ mult_list'[i] = mult_list[i - k + 1] /\ mult_list'[j] = mult_list[j - k + 1]
        BY <1>7, <3>3
      <4>2. /\ i - k + 1 \in 1..l /\ j - k + 1 \in 1..l
            /\ i - k + 1 # j - k + 1
        BY <1>n, <3>3
      <4> QED
        BY <4>1, <4>2, <2>0
    <3>4. /\ i \in 1..k \/ i \in k + 1..k + l - 1
          /\ j \in 1..k \/ j \in k + 1..k + l - 1
          /\ ~(i \in k + 1..k + l - 1 /\ j \in 1..k)
      BY <1>n, <1>7
    <3> QED
      BY <3>1, <3>2, <3>3, <3>4
  <2>5. \A m \in 1..Len(nodes') :
           nodes'[m].made = "waiting" => \E i \in 1..Len(mult_list') : mult_list'[i] = m
    <3> SUFFICES ASSUME NEW m \in 1..Len(nodes'), nodes'[m].made = "waiting"
                 PROVE  \E i \in 1..Len(mult_list') : mult_list'[i] = m
      OBVIOUS
    <3>1. CASE m \in 1..n
      <4>1. m # Head0
        BY <1>3, <1>6
      <4>2. PICK i \in 1..l : mult_list[i] = m
        BY <2>0, <1>6, <3>1, <4>1
      <4>3. i # 1
        BY <4>1, <4>2 DEF Head0
      <4>4. i + k - 1 \in k + 1..k + l - 1 /\ (i + k - 1) - k + 1 = i
        BY <1>n, <4>3
      <4>5. mult_list'[i + k - 1] = mult_list[i]
        BY <1>7, <4>4
      <4>6. i + k - 1 \in 1..Len(mult_list')
        BY <1>n, <1>7, <4>4
      <4> QED
        BY <4>2, <4>5, <4>6
    <3>2. CASE m \in n + 1..n + k
      <4>1. n + k + 1 - m \in 1..k /\ n + k + 1 - (n + k + 1 - m) = m
        BY <1>n, <3>2
      <4>2. mult_list'[n + k + 1 - m] = m
        BY <1>7, <4>1
      <4>3. n + k + 1 - m \in 1..Len(mult_list')
        BY <1>n, <1>7, <4>1
      <4> QED
        BY <4>2, <4>3
    <3>3. m \in 1..n \/ m \in n + 1..n + k
      BY <1>n, <1>6
    <3> QED
      BY <3>1, <3>2, <3>3
  <2> QED
    BY <2>3, <2>4, <2>5 DEF ListExact
<1>10. SizeInv'
  BY <1>5, OrientedFacts, SameArch DEF SizeInv
<1>11. BlocksFit'
  <2> SUFFICES ASSUME NEW m \in 1..n + k,
                      nodes'[m].made \in {"hard", "soft", "left"}
               PROVE  /\ LargerSize(nodes'[m].a, nodes'[m].b) <= LargerSize(SizeA, SizeB)
                      /\ SmallerSize(nodes'[m].a, nodes'[m].b) <= SmallerSize(SizeA, SizeB)
    BY <1>5, <1>6, SameArch DEF BlocksFit, Leaf
  <2>1. CASE m \in 1..n
    <3>1. m # Head0
      BY <1>3, <1>6
    <3>2. nodes'[m] = nodes[m]
      BY <1>6, <2>1, <3>1
    <3>3. m \in DOMAIN nodes
      BY <1>0, <1>4, <2>1
    <3> QED
      BY <3>2, <3>3 DEF SplitIInv, BlocksFit, Leaf
  <2>2. CASE m \in n + 1..n + k
    <3>1. m - n \in 1..k /\ n + (m - n) = m
      BY <1>n, <2>2
    <3>2. nodes'[m] = pieces[m - n]
      BY <1>6, <3>1
    <3>3. m - n \in 1..Len(pieces)
      BY <3>1, <1>0
    <3>4. pieces[m - n].made = "waiting"
      BY <3>3
    <3> QED
      BY <3>2, <3>4
  <2> QED
    BY <2>1, <2>2, <1>n
<1>12. HardKept
  <2>1. DOMAIN nodes = 1..n /\ DOMAIN nodes' = 1..n + k
    BY <1>0, <1>4, <1>6
  <2>2. \A m \in 1..n : m \in 1..n + k
    BY <1>n
  <2>3. node.made # "hard" /\ nodes[Head0].made # "hard"
    BY <1>1, <1>3 DEF Node0
  <2>4. ASSUME NEW m \in 1..n + k, nodes'[m].made = "hard"
        PROVE  m \in 1..n /\ nodes'[m] = nodes[m]
    <3>1. CASE m \in 1..n
      BY <1>6, <2>3, <2>4, <3>1
    <3>2. CASE m \in n + 1..n + k
      <4>1. m - n \in 1..k /\ n + (m - n) = m
        BY <1>n, <3>2
      <4>2. nodes'[m] = pieces[m - n] /\ m - n \in 1..Len(pieces)
        BY <1>0, <1>6, <4>1
      <4>3. pieces[m - n].made = "waiting"
        BY <4>2
      <4> QED
        BY <2>4, <4>2, <4>3
    <3> QED
      BY <3>1, <3>2, <1>n
  <2>5. ASSUME NEW m \in 1..n, nodes[m].made = "hard"
        PROVE  m \in 1..n + k /\ nodes'[m] = nodes[m]
    BY <1>6, <2>2, <2>3, <2>5
  <2> QED
    BY <2>1, <2>4, <2>5 DEF HardKept
<1> QED
  BY <1>5, <1>8, <1>9, <1>10, <1>11, <1>12 DEF SplitIInv

(* A cut is one of the three, and its pieces have the widths of the ports. *)
LEMMA SplitInv ==
  ASSUME SplitIInv, SplitBoth \/ SplitOnA \/ SplitOnB
  PROVE  SplitIInv' /\ HardKept
<1>1. Oriented \in Widths
  BY OrientedFacts
<1>2. mult_list # <<>> /\ split_phase = "iterate"
  BY DEF SplitBoth, SplitOnA, SplitOnB
<1>3. Node0 \in NodeType
  BY <1>2, HeadFacts
<1>4. /\ Oriented.a \in Nat \ {0} /\ Oriented.b \in Nat \ {0}
      /\ Node0.a \in Nat \ {0} /\ Node0.b \in Nat \ {0}
  BY <1>1, <1>3 DEF Widths, NodeType
<1>5. CASE SplitBoth
  <2> DEFINE a0 == Oriented.a
             b0 == Oriented.b
             a1 == Node0.a - a0
             b1 == Node0.b - b0
             pieces == <<Waiting(a0, b0), Waiting(a1, b1), Waiting(a0, b1), Waiting(a1, b0)>>
  <2>1. a1 > 0 /\ b1 > 0 /\ Cut("both", a0, b0, pieces)
    BY <1>5 DEF SplitBoth
  <2>2. a0 \in Nat \ {0} /\ b0 \in Nat \ {0} /\ a1 \in Nat \ {0} /\ b1 \in Nat \ {0}
    BY <1>4, <2>1
  <2> HIDE DEF a0, b0, a1, b1
  <2>3. /\ Waiting(a0, b0) \in NodeType /\ Waiting(a0, b0).made = "waiting"
        /\ Waiting(a1, b1) \in NodeType /\ Waiting(a1, b1).made = "waiting"
        /\ Waiting(a0, b1) \in NodeType /\ Waiting(a0, b1).made = "waiting"
        /\ Waiting(a1, b0) \in NodeType /\ Waiting(a1, b0).made = "waiting"
    BY <2>2, WaitingType
  <2>4. pieces \in Seq(NodeType) /\ \A i \in 1..Len(pieces) : pieces[i].made = "waiting"
    BY <2>3
  <2> HIDE DEF pieces
  <2> QED
    BY <1>2, <2>1, <2>2, <2>4, CutInv
<1>6. CASE SplitOnA
  <2> DEFINE a0 == Oriented.a
             a1 == Node0.a - a0
             b == Node0.b
             pieces == <<Waiting(a0, b), Waiting(a1, b)>>
  <2>1. Node0.a > Oriented.a /\ Cut("a", a0, b, pieces)
    BY <1>6 DEF SplitOnA
  <2>2. a0 \in Nat \ {0} /\ a1 \in Nat \ {0} /\ b \in Nat \ {0}
    BY <1>4, <2>1
  <2> HIDE DEF a0, a1, b
  <2>3. /\ Waiting(a0, b) \in NodeType /\ Waiting(a0, b).made = "waiting"
        /\ Waiting(a1, b) \in NodeType /\ Waiting(a1, b).made = "waiting"
    BY <2>2, WaitingType
  <2>4. pieces \in Seq(NodeType) /\ \A i \in 1..Len(pieces) : pieces[i].made = "waiting"
    BY <2>3
  <2> HIDE DEF pieces
  <2> QED
    BY <1>2, <2>1, <2>2, <2>4, CutInv
<1>7. CASE SplitOnB
  <2> DEFINE b0 == Node0.b - Oriented.b
             b1 == Oriented.b
             a == Node0.a
             pieces == <<Waiting(a, b0), Waiting(a, b1)>>
  <2>1. Node0.b > Oriented.b /\ Cut("b", a, b0, pieces)
    BY <1>7 DEF SplitOnB
  <2>2. b0 \in Nat \ {0} /\ b1 \in Nat \ {0} /\ a \in Nat \ {0}
    BY <1>4, <2>1
  <2> HIDE DEF b0, b1, a
  <2>3. /\ Waiting(a, b0) \in NodeType /\ Waiting(a, b0).made = "waiting"
        /\ Waiting(a, b1) \in NodeType /\ Waiting(a, b1).made = "waiting"
    BY <2>2, WaitingType
  <2>4. pieces \in Seq(NodeType) /\ \A i \in 1..Len(pieces) : pieces[i].made = "waiting"
    BY <2>3
  <2> HIDE DEF pieces
  <2> QED
    BY <1>2, <2>1, <2>2, <2>4, CutInv
<1> QED
  BY <1>5, <1>6, <1>7

-----------------------------------------------------------------------------
(* Keeping a node                                                          *)

(* The table counts up and keeps its type; an overrun ends the pass.       *)
LEMMA RecordType ==
  ASSUME SplitIInv, NEW after \in {"iterate", "pad_error"}, RecordMultDistribution(after)
  PROVE  /\ mults' \in [Keys -> Nat]
         /\ split_phase' \in {after, "overrun"}
<1>1. mults \in [Keys -> Nat]
  BY DEF SplitIInv, SplitTypeOK
<1> DEFINE key == Key(Node0.a, Node0.b)
<1>2. CASE key \in Keys
  <2>1. mults[key] + 1 \in Nat
    BY <1>1, <1>2
  <2> HIDE DEF key
  <2> QED
    BY <1>1, <1>2, <2>1 DEF RecordMultDistribution, key
<1>3. CASE key \notin Keys
  BY <1>1, <1>3 DEF RecordMultDistribution
<1> QED
  BY <1>2, <1>3

(* The head is taken off the list and becomes a leaf that fits.            *)
LEMMA LeafInv ==
  ASSUME SplitIInv, split_phase = "iterate", mult_list # <<>>,
         NEW node \in NodeType, node.made \in {"hard", "soft", "left"},
         LargerSize(node.a, node.b) <= LargerSize(SizeA, SizeB),
         SmallerSize(node.a, node.b) <= SmallerSize(SizeA, SizeB),
         nodes' = [nodes EXCEPT ![Head0] = node],
         arch' = arch, mult_list' = Tail(mult_list), size' = Oriented,
         mults' \in [Keys -> Nat],
         split_phase' \in {"iterate", "overrun"}
  PROVE  SplitIInv'
<1> DEFINE n == Len(nodes)
           l == Len(mult_list)
<1>1. /\ Head0 \in 1..n /\ n \in Nat
      /\ mult_list' \in Seq(Nat) /\ Len(mult_list') = l - 1 /\ l \in Nat \ {0}
  BY HeadFacts
<1>2. \A i \in 1..l - 1 : mult_list'[i] = mult_list[i + 1]
  BY HeadFacts
<1>3. nodes \in Seq(NodeType)
  BY DEF SplitIInv, SplitTypeOK, NodeType
<1>4. /\ nodes' \in Seq(NodeType) /\ Len(nodes') = n /\ nodes'[Head0] = node
      /\ \A i \in 1..n : i # Head0 => nodes'[i] = nodes[i]
  BY <1>1, <1>3
<1>5. /\ \A i \in 1..l : mult_list[i] \in 1..n /\ nodes[mult_list[i]].made = "waiting"
      /\ \A i, j \in 1..l : i # j => mult_list[i] # mult_list[j]
      /\ \A m \in 1..n :
            nodes[m].made = "waiting" => \E i \in 1..l : mult_list[i] = m
  BY DEF SplitIInv, ListExact
<1>l. l \in Nat \ {0} /\ n \in Nat
  BY <1>1
<1>b. \A m \in 1..n : nodes[m].made \in {"hard", "soft", "left"} =>
        /\ LargerSize(nodes[m].a, nodes[m].b) <= LargerSize(SizeA, SizeB)
        /\ SmallerSize(nodes[m].a, nodes[m].b) <= SmallerSize(SizeA, SizeB)
  BY <1>3 DEF SplitIInv, BlocksFit, Leaf
<1>d. DOMAIN nodes' = 1..n
  BY <1>4
<1> HIDE DEF n, l
<1>6. SplitTypeOK'
  BY <1>1, <1>4, OrientedFacts, SameArch DEF SplitIInv, SplitTypeOK, NodeType
<1>7. ListExact'
  <2>1. ASSUME NEW i \in 1..l - 1
        PROVE  /\ i + 1 \in 1..l /\ mult_list'[i] = mult_list[i + 1]
               /\ mult_list'[i] \in 1..n /\ mult_list'[i] # Head0
    <3>1. i + 1 \in 1..l /\ i + 1 # 1 /\ 1 \in 1..l
      BY <1>l
    <3>2. mult_list'[i] = mult_list[i + 1]
      BY <1>2
    <3> QED
      BY <3>1, <3>2, <1>5 DEF Head0
  <2>2. ASSUME NEW i \in 1..l - 1
        PROVE  mult_list'[i] \in 1..n /\ nodes'[mult_list'[i]].made = "waiting"
    <3>1. nodes'[mult_list'[i]] = nodes[mult_list'[i]]
      BY <2>1, <1>4
    <3>2. nodes[mult_list'[i]].made = "waiting"
      <4>1. nodes[mult_list[i + 1]].made = "waiting"
        BY <2>1, <1>5
      <4> QED
        BY <2>1, <4>1
    <3> QED
      BY <2>1, <3>1, <3>2
  <2>3. ASSUME NEW i \in 1..l - 1, NEW j \in 1..l - 1, i # j
        PROVE  mult_list'[i] # mult_list'[j]
    <3>1. i + 1 # j + 1
      BY <1>l, <2>3
    <3>2. i + 1 \in 1..l /\ j + 1 \in 1..l
      BY <1>l
    <3>3. mult_list[i + 1] # mult_list[j + 1]
      BY <3>1, <3>2, <1>5
    <3> QED
      BY <3>3, <1>2
  <2>4. ASSUME NEW m \in 1..n, nodes'[m].made = "waiting"
        PROVE  \E i \in 1..l - 1 : mult_list'[i] = m
    <3>1. m # Head0
      BY <1>4, <2>4
    <3>2. PICK i \in 1..l : mult_list[i] = m
      BY <1>4, <1>5, <2>4, <3>1
    <3>3. i # 1
      BY <3>1, <3>2 DEF Head0
    <3>4. i - 1 \in 1..l - 1 /\ (i - 1) + 1 = i
      BY <1>l, <3>3
    <3>5. mult_list'[i - 1] = m
      BY <1>2, <3>2, <3>4
    <3> QED
      BY <3>4, <3>5
  <2> QED
    BY <1>1, <1>4, <2>2, <2>3, <2>4 DEF ListExact
<1>8. SizeInv'
  BY OrientedFacts, SameArch DEF SizeInv
<1>9. BlocksFit'
  BY <1>4, <1>b, <1>d, SameArch DEF BlocksFit, Leaf
<1> QED
  BY <1>6, <1>7, <1>8, <1>9 DEF SplitIInv

(* KeepHard: the piece fits as it is.                                      *)
LEMMA FitsBlock ==
  ASSUME SplitIInv, mult_list # <<>>, Fits
  PROVE  /\ LargerSize(Node0.a, Node0.b) <= LargerSize(SizeA, SizeB)
         /\ SmallerSize(Node0.a, Node0.b) <= SmallerSize(SizeA, SizeB)
<1>1. Node0.a \in Nat /\ Node0.b \in Nat
  BY HeadFacts DEF NodeType
<1>2. (Node0.a <= SizeA /\ Node0.b <= SizeB) \/ (Node0.a <= SizeB /\ Node0.b <= SizeA)
  <2>1. CASE Oriented = [a |-> SizeA, b |-> SizeB]
    BY <2>1 DEF Fits
  <2>2. CASE Oriented = [a |-> SizeB, b |-> SizeA]
    BY <2>2 DEF Fits
  <2> QED
    BY <2>1, <2>2, OrientedFacts
<1> QED
  BY <1>1, <1>2, NarrowerFits

(* KeepHard and KeepSoft keep the widths of the node.                      *)
LEMMA KeepInv ==
  ASSUME SplitIInv, KeepHard \/ KeepSoft
  PROVE  SplitIInv'
<1>1. split_phase = "iterate" /\ mult_list # <<>> /\ Fits
  BY DEF KeepHard, KeepSoft
<1>2. Node0 \in NodeType /\ Head0 \in DOMAIN nodes
  BY <1>1, HeadFacts DEF SplitIInv, SplitTypeOK
<1>3. /\ LargerSize(Node0.a, Node0.b) <= LargerSize(SizeA, SizeB)
      /\ SmallerSize(Node0.a, Node0.b) <= SmallerSize(SizeA, SizeB)
  BY <1>1, FitsBlock
<1>4. ASSUME NEW made \in {"hard", "soft", "left"},
             nodes' = [nodes EXCEPT ![Head0].made = made]
      PROVE  /\ nodes' = [nodes EXCEPT ![Head0] = [Node0 EXCEPT !.made = made]]
             /\ [Node0 EXCEPT !.made = made] \in NodeType
             /\ [Node0 EXCEPT !.made = made].made = made
             /\ [Node0 EXCEPT !.made = made].a = Node0.a
             /\ [Node0 EXCEPT !.made = made].b = Node0.b
  <2>1. nodes' = [nodes EXCEPT ![Head0] = [Node0 EXCEPT !.made = made]]
    BY <1>4 DEF Node0
  <2>2. /\ [Node0 EXCEPT !.made = made] \in NodeType
        /\ [Node0 EXCEPT !.made = made].made = made
        /\ [Node0 EXCEPT !.made = made].a = Node0.a
        /\ [Node0 EXCEPT !.made = made].b = Node0.b
    BY <1>2 DEF NodeType, Kinds
  <2> QED
    BY <2>1, <2>2
<1>5. CASE KeepHard
  <2> DEFINE node == [Node0 EXCEPT !.made = "hard"]
  <2>1. /\ nodes' = [nodes EXCEPT ![Head0].made = "hard"]
        /\ mult_list' = Tail(mult_list) /\ size' = Oriented /\ arch' = arch
        /\ RecordMultDistribution("iterate")
    BY <1>1, <1>5 DEF KeepHard
  <2>2. /\ nodes' = [nodes EXCEPT ![Head0] = node]
        /\ node \in NodeType /\ node.made = "hard"
        /\ node.a = Node0.a /\ node.b = Node0.b
    BY <1>4, <2>1
  <2>3. mults' \in [Keys -> Nat] /\ split_phase' \in {"iterate", "overrun"}
    BY <2>1, RecordType
  <2> HIDE DEF node
  <2> QED
    BY <1>1, <1>3, <2>1, <2>2, <2>3, LeafInv
<1>6. CASE KeepSoft
  <2> DEFINE made == IF arch.hard_adders /\ arch.fixed THEN "soft" ELSE "left"
             node == [Node0 EXCEPT !.made = made]
  <2>1. /\ nodes' = [nodes EXCEPT ![Head0].made = made]
        /\ mult_list' = Tail(mult_list) /\ size' = Oriented /\ arch' = arch
        /\ UNCHANGED <<mults, split_phase>>
    BY <1>6 DEF KeepSoft
  <2>2. made \in {"hard", "soft", "left"}
    OBVIOUS
  <2> HIDE DEF made
  <2>3. /\ nodes' = [nodes EXCEPT ![Head0] = node]
        /\ node \in NodeType /\ node.made = made
        /\ node.a = Node0.a /\ node.b = Node0.b
    BY <1>4, <2>1, <2>2
  <2>4. mults' \in [Keys -> Nat] /\ split_phase' \in {"iterate", "overrun"}
    BY <1>1, <2>1 DEF SplitIInv, SplitTypeOK
  <2> HIDE DEF node
  <2> QED
    BY <1>1, <1>3, <2>1, <2>2, <2>3, <2>4, LeafInv
<1> QED
  BY <1>5, <1>6

(* A piece that cannot be padded ends the pass: the list stays exact.      *)
LEMMA FailedPadInv ==
  ASSUME SplitIInv, split_phase = "iterate", mult_list # <<>>,
         arch' = arch, nodes' = nodes, mult_list' = Tail(mult_list), size' = Oriented,
         mults' \in [Keys -> Nat],
         split_phase' \in {"pad_error", "overrun"}
  PROVE  SplitIInv'
<1> DEFINE n == Len(nodes)
           l == Len(mult_list)
<1>1. /\ mult_list' \in Seq(Nat) /\ Len(mult_list') = l - 1 /\ l \in Nat \ {0}
      /\ Len(nodes') = n
  BY HeadFacts
<1>2. \A i \in 1..l - 1 : mult_list'[i] = mult_list[i + 1]
  BY HeadFacts
<1>3. /\ \A i \in 1..l : mult_list[i] \in 1..n /\ nodes[mult_list[i]].made = "waiting"
      /\ \A i, j \in 1..l : i # j => mult_list[i] # mult_list[j]
  BY DEF SplitIInv, ListExact
<1> HIDE DEF n, l
<1>4. SplitTypeOK'
  BY <1>1, OrientedFacts, SameArch DEF SplitIInv, SplitTypeOK
<1>5. ListExact'
  <2>1. \A i \in 1..l - 1 : i + 1 \in 1..l
    BY <1>1
  <2>2. ASSUME NEW i \in 1..l - 1
        PROVE  mult_list'[i] \in 1..n /\ nodes'[mult_list'[i]].made = "waiting"
    <3>1. mult_list'[i] = mult_list[i + 1] /\ nodes' = nodes
      BY <1>2
    <3>2. mult_list[i + 1] \in 1..n /\ nodes[mult_list[i + 1]].made = "waiting"
      BY <1>3, <2>1
    <3> QED BY <3>1, <3>2
  <2>3. ASSUME NEW i \in 1..l - 1, NEW j \in 1..l - 1, i # j
        PROVE  mult_list'[i] # mult_list'[j]
    <3>1. i + 1 # j + 1 /\ i + 1 \in 1..l /\ j + 1 \in 1..l
      BY <1>1, <2>3
    <3>2. mult_list[i + 1] # mult_list[j + 1]
      BY <3>1, <1>3
    <3> QED
      BY <3>2, <1>2
  <2> QED
    BY <1>1, <2>2, <2>3 DEF ListExact
<1>6. SizeInv'
  BY OrientedFacts, SameArch DEF SizeInv
<1>7. BlocksFit'
  BY SameArch DEF SplitIInv, BlocksFit, Leaf
<1> QED
  BY <1>4, <1>5, <1>6, <1>7 DEF SplitIInv

(* PadMultiplier gives the node the widths of a block that is no wider     *)
(* than the model, or fails and leaves the node as it was.                 *)
LEMMA PadInv ==
  ASSUME SplitIInv, PadMultiplier
  PROVE  SplitIInv'
<1>1. split_phase = "iterate" /\ mult_list # <<>> /\ Fits
      /\ mult_list' = Tail(mult_list) /\ size' = Oriented /\ arch' = arch
  BY DEF PadMultiplier
<1>2. PICK p \in {Full} \cup {PbTypes[i] : i \in 1..Len(PbTypes)} :
        /\ RecordMultDistribution(IF TooNarrow(p) THEN "pad_error" ELSE split_phase)
        /\ nodes' = IF TooNarrow(p) THEN nodes
                     ELSE [nodes EXCEPT ![Head0] =
                             [@ EXCEPT !.a = p.a, !.b = p.b, !.made = "hard"]]
  BY DEF PadMultiplier
<1>3. /\ p.a \in Nat \ {0} /\ p.b \in Nat \ {0}
      /\ (p.a <= SizeA /\ p.b <= SizeB) \/ (p.a <= SizeB /\ p.b <= SizeA)
  <2>1. CASE p = Full
    BY <2>1, SizesType DEF SplitIInv, SplitTypeOK, Full, LargerSize, SmallerSize
  <2>2. CASE p # Full
    <3>1. PICK i \in 1..Len(PbTypes) : p = PbTypes[i]
      BY <2>2, <1>2
    <3>2. PbTypes[i] \in Widths
      BY DEF SplitIInv, SplitTypeOK, IsSplitArch, PbTypes
    <3>3. PbTypes[i].a <= SizeA /\ PbTypes[i].b <= SizeB
      BY DEF SplitIInv, SplitTypeOK, IsSplitArch, PbTypes, SizeA, SizeB
    <3> QED
      BY <3>1, <3>2, <3>3 DEF Widths
  <2> QED
    BY <2>1, <2>2
<1>4. /\ LargerSize(p.a, p.b) <= LargerSize(SizeA, SizeB)
      /\ SmallerSize(p.a, p.b) <= SmallerSize(SizeA, SizeB)
  BY <1>3, NarrowerFits
<1>5. Node0 \in NodeType
  BY <1>1, HeadFacts
<1>6. CASE ~TooNarrow(p)
  <2> DEFINE node == [Node0 EXCEPT !.a = p.a, !.b = p.b, !.made = "hard"]
  <2>1. nodes' = [nodes EXCEPT ![Head0] = node]
    BY <1>2, <1>6 DEF Node0
  <2>2. node \in NodeType /\ node.made = "hard" /\ node.a = p.a /\ node.b = p.b
    BY <1>3, <1>5 DEF NodeType, Kinds
  <2>3. mults' \in [Keys -> Nat] /\ split_phase' \in {"iterate", "overrun"}
    BY <1>1, <1>2, <1>6, RecordType
  <2> HIDE DEF node
  <2> QED
    BY <1>1, <1>4, <2>1, <2>2, <2>3, LeafInv
<1>7. CASE TooNarrow(p)
  <2>1. nodes' = nodes
    BY <1>2, <1>7
  <2>2. mults' \in [Keys -> Nat] /\ split_phase' \in {"pad_error", "overrun"}
    BY <1>2, <1>7, RecordType
  <2> QED
    BY <1>1, <2>1, <2>2, FailedPadInv
<1> QED
  BY <1>6, <1>7
-----------------------------------------------------------------------------

(* A step that changes no variable keeps the invariant.                    *)
LEMMA SplitStutterInv == ASSUME SplitIInv, UNCHANGED split_vars PROVE SplitIInv'
<1>1. SplitTypeOK'
  BY SameArch DEF SplitIInv, SplitTypeOK, split_vars
<1>2. ListExact'
  BY DEF SplitIInv, ListExact, split_vars
<1>3. SizeInv' /\ BlocksFit'
  BY SameArch DEF SplitIInv, SizeInv, BlocksFit, Leaf, split_vars
<1> QED
  BY <1>1, <1>2, <1>3 DEF SplitIInv, split_vars

(* The end of the loop changes nothing but the phase.                      *)
LEMMA DoneInv == ASSUME SplitIInv, Done PROVE SplitIInv'
<1>1. SplitTypeOK'
  BY SameArch DEF SplitIInv, SplitTypeOK, Done
<1>2. ListExact'
  BY DEF SplitIInv, ListExact, Done
<1>3. SizeInv' /\ BlocksFit'
  BY SameArch DEF SplitIInv, SizeInv, BlocksFit, Leaf, Done
<1> QED
  BY <1>1, <1>2, <1>3 DEF SplitIInv, Done

(***************************************************************************)
(* iterate_multipliers keeps its work list exact for every design and      *)
(* every architecture: a multiplication waits if and only if it is on      *)
(* mult_list, once, and sizea and sizeb are the sizes of the model in one  *)
(* order or the other, however often they were exchanged.                  *)
(***************************************************************************)
THEOREM SplittingCorrect == SplitSpec => []SplitIInv
<1>1. SplitIInv /\ [SplitNext]_split_vars => SplitIInv'
  <2> SUFFICES ASSUME SplitIInv, [SplitNext]_split_vars PROVE SplitIInv'
    OBVIOUS
  <2>1. CASE SplitBoth \/ SplitOnA \/ SplitOnB
    BY <2>1, SplitInv
  <2>2. CASE KeepHard \/ KeepSoft
    BY <2>2, KeepInv
  <2>3. CASE PadMultiplier
    BY <2>3, PadInv
  <2>4. CASE Done
    BY <2>4, DoneInv
  <2>5. CASE UNCHANGED split_vars
    BY <2>5, SplitStutterInv
  <2> QED
    BY <2>1, <2>2, <2>3, <2>4, <2>5 DEF SplitNext
<1> QED
  BY <1>1, SplitInitInv, PTL DEF SplitSpec

(***************************************************************************)
(* Every multiplication that is not cut fits the block of the architecture *)
(* in one orientation, also after it was padded.                           *)
(***************************************************************************)
THEOREM PiecesFit == SplitSpec => []BlocksFit
<1>1. SplitIInv => BlocksFit
  BY DEF SplitIInv
<1> QED
  BY <1>1, SplittingCorrect, PTL

(***************************************************************************)
(* The type invariant of iterate_multipliers.                              *)
(***************************************************************************)
THEOREM SplitTypeCorrect == SplitSpec => []SplitTypeOK
<1>1. SplitIInv => SplitTypeOK
  BY DEF SplitIInv
<1> QED
  BY <1>1, SplittingCorrect, PTL

-----------------------------------------------------------------------------
(* The distribution of multipliers                                         *)

(* Over square blocks the counter of a size is in the table, and no two    *)
(* sizes share one: the rows have as many counters as there are widths.    *)
LEMMA KeysDiffer ==
  ASSUME IsSplitArch(arch), SizeA = SizeB
  PROVE  /\ \A a \in 0..SizeA, b \in 1..SizeB : Key(a, b) \in Keys
         /\ \A a, c \in 0..SizeA, b, d \in 1..SizeB :
               Key(a, b) = Key(c, d) => a = c /\ b = d
<1> DEFINE s == SizeA
<1>1. s \in Nat \ {0} /\ SizeA = s /\ SizeB = s
  BY SizesType
<1> HIDE DEF s
<1>2. ASSUME NEW a \in 0..s, NEW b \in 1..s
      PROVE  Key(a, b) \in Keys
  <2>1. a * s <= s * s /\ a * s >= 0 /\ a * s \in Int /\ s * s \in Int
    BY <1>1
  <2>2. (1 + s) * (1 + s) = s * s + s + s + 1
    BY <1>1
  <2>3. a * s + b \in 0..(1 + s) * (1 + s) - 1
    BY <1>1, <2>1, <2>2
  <2> QED BY <1>1, <2>3 DEF Key, Keys
<1>3. ASSUME NEW a \in 0..s, NEW c \in 0..s, NEW b \in 1..s, NEW d \in 1..s, a < c
      PROVE  a * s + b < c * s + d
  <2>1. (c - a - 1) * s >= 0 /\ (c - a - 1) * s \in Int /\ a * s \in Int /\ c * s \in Int
    BY <1>1, <1>3
  <2>2. (c - a - 1) * s = c * s - a * s - s
    BY <1>1
  <2> QED BY <1>1, <2>1, <2>2
<1>4. ASSUME NEW a \in 0..s, NEW c \in 0..s, NEW b \in 1..s, NEW d \in 1..s,
             a * s + b = c * s + d
      PROVE  a = c /\ b = d
  <2>1. ~(a < c) /\ ~(c < a)
    <3>1. a * s \in Int /\ c * s \in Int
      BY <1>1
    <3> QED BY <1>3, <1>4, <3>1, <1>1
  <2>2. a = c
    BY <2>1, <1>1
  <2>3. a * s \in Int
    BY <1>1
  <2> QED BY <1>1, <1>4, <2>2, <2>3
<1> QED BY <1>1, <1>2, <1>4 DEF Key

HardSet(a, b) ==
  {n \in DOMAIN nodes : nodes[n].made = "hard" /\ nodes[n].a = a /\ nodes[n].b = b}

(* The counters are exact at every moment, not only at the end.            *)
CountsExact ==
  \A a \in 0..SizeA, b \in 1..SizeB : mults[Key(a, b)] = HardOfSize(a, b)

DistributionInv == SizeA = SizeB /\ ~arch.fixed =>
  split_phase \in {"iterate", "done"} /\ CountsExact

(* A step that leaves the hard multipliers and the table alone leaves the  *)
(* counters exact.                                                         *)
LEMMA CountsKept ==
  ASSUME HardKept, arch' = arch, mults' = mults, CountsExact
  PROVE  CountsExact'
<1>1. \A a, b : HardSet(a, b)' = HardSet(a, b)
  BY DEF HardKept, HardSet
<1>2. \A a, b : HardOfSize(a, b)' = HardOfSize(a, b)
  BY <1>1 DEF HardOfSize, HardSet
<1> QED BY <1>2 DEF CountsExact, Key, SizeA, SizeB

(* Keeping a node as it is adds one to the count of its size only.         *)
LEMMA CountsHard ==
  ASSUME SplitIInv, KeepHard, SizeA = SizeB, CountsExact
  PROVE  CountsExact' /\ split_phase' = "iterate"
<1>1. /\ split_phase = "iterate" /\ mult_list # <<>> /\ Fits /\ arch' = arch
      /\ nodes' = [nodes EXCEPT ![Head0].made = "hard"]
      /\ RecordMultDistribution("iterate")
  BY DEF KeepHard
<1>2. /\ Head0 \in DOMAIN nodes /\ DOMAIN nodes = 1..Len(nodes) /\ Len(nodes) \in Nat
      /\ Node0 \in NodeType /\ Node0.made = "waiting" /\ nodes[Head0] = Node0
  BY <1>1, HeadNode
<1>3. IsSplitArch(arch) /\ SizeA \in Nat \ {0} /\ mults \in [Keys -> Nat]
  BY SizesType DEF SplitIInv, SplitTypeOK
<1> DEFINE x == Node0.a
           y == Node0.b
<1>4. x \in 0..SizeA /\ y \in 1..SizeB
  <2>1. Oriented.a = SizeA /\ Oriented.b = SizeB
    BY OrientedFacts
  <2> QED BY <1>1, <1>2, <1>3, <2>1 DEF Fits, NodeType
<1>5. Key(x, y) \in Keys
  BY <1>3, <1>4, KeysDiffer
<1>6. mults' = [mults EXCEPT ![Key(x, y)] = @ + 1] /\ split_phase' = "iterate"
  BY <1>1, <1>5 DEF RecordMultDistribution
<1>7. /\ DOMAIN nodes' = DOMAIN nodes
      /\ nodes'[Head0].made = "hard" /\ nodes'[Head0].a = x /\ nodes'[Head0].b = y
      /\ \A m \in DOMAIN nodes : m # Head0 => nodes'[m] = nodes[m]
  BY <1>1, <1>2 DEF NodeType
<1> HIDE DEF x, y
<1>8. ASSUME NEW a \in 0..SizeA, NEW b \in 1..SizeB
      PROVE  mults'[Key(a, b)] = HardOfSize(a, b)'
  <2>1. Key(a, b) \in Keys
    BY <1>3, KeysDiffer
  <2>2. mults[Key(a, b)] = Cardinality(HardSet(a, b))
    BY DEF CountsExact, HardOfSize, HardSet
  <2>3. HardOfSize(a, b)' = Cardinality(HardSet(a, b)')
    BY DEF HardOfSize, HardSet
  <2>4. CASE a = x /\ b = y
    <3>1. HardSet(a, b)' = HardSet(a, b) \cup {Head0}
      BY <1>2, <1>7, <2>4 DEF HardSet
    <3>2. Head0 \notin HardSet(a, b)
      BY <1>2 DEF HardSet
    <3>3. IsFiniteSet(HardSet(a, b))
      <4>1. IsFiniteSet(1..Len(nodes))
        BY <1>2, FS_Interval
      <4> QED BY <1>2, <4>1, FS_Subset DEF HardSet
    <3>4. Cardinality(HardSet(a, b) \cup {Head0}) = Cardinality(HardSet(a, b)) + 1
      BY <3>2, <3>3, FS_AddElement
    <3>5. mults'[Key(a, b)] = mults[Key(a, b)] + 1
      BY <1>3, <1>6, <2>1, <2>4
    <3> QED BY <2>2, <2>3, <3>1, <3>4, <3>5
  <2>5. CASE ~(a = x /\ b = y)
    <3>1. HardSet(a, b)' = HardSet(a, b)
      BY <1>2, <1>7, <2>5 DEF HardSet
    <3>2. Key(a, b) # Key(x, y)
      BY <1>3, <1>4, <2>5, KeysDiffer
    <3>3. mults'[Key(a, b)] = mults[Key(a, b)]
      BY <1>3, <1>6, <2>1, <3>2
    <3> QED BY <2>2, <2>3, <3>1, <3>3
  <2> QED BY <2>4, <2>5
<1>9. SizeA' = SizeA /\ SizeB' = SizeB /\ \A a, b : Key(a, b)' = Key(a, b)
  BY <1>1 DEF SizeA, SizeB, Key
<1> QED BY <1>6, <1>8, <1>9 DEF CountsExact

(* At first there is no hard multiplier and every counter is 0.            *)
LEMMA DistributionInit == SplitInit => DistributionInv
<1> SUFFICES ASSUME SplitInit, SizeA = SizeB PROVE split_phase = "iterate" /\ CountsExact
  BY DEF DistributionInv
<1>1. SplitIInv /\ mults = [k \in Keys |-> 0] /\ split_phase = "iterate"
  BY SplitInitInv DEF SplitInit
<1>2. IsSplitArch(arch)
  BY <1>1 DEF SplitIInv, SplitTypeOK
<1>3. \A m \in DOMAIN nodes : nodes[m].made = "waiting"
  BY DEF SplitInit, Waiting
<1>4. ASSUME NEW a \in 0..SizeA, NEW b \in 1..SizeB
      PROVE  mults[Key(a, b)] = HardOfSize(a, b)
  <2>1. Key(a, b) \in Keys
    BY <1>2, KeysDiffer
  <2>2. HardSet(a, b) = {}
    BY <1>3 DEF HardSet
  <2>3. HardOfSize(a, b) = 0
    BY <2>2, FS_EmptySet DEF HardOfSize, HardSet
  <2> QED BY <1>1, <2>1, <2>3
<1> QED BY <1>1, <1>4 DEF CountsExact

(* KeepSoft and Done make no hard multiplier.                              *)
LEMMA SoftKeepsHard ==
  ASSUME SplitIInv, KeepSoft \/ Done
  PROVE  HardKept
<1>1. CASE KeepSoft
  <2>1. PICK made \in {"soft", "left"} : nodes' = [nodes EXCEPT ![Head0].made = made]
    BY <1>1 DEF KeepSoft
  <2>2. Head0 \in DOMAIN nodes /\ Node0 \in NodeType /\ nodes[Head0].made = "waiting"
        /\ nodes[Head0] \in NodeType
    <3>1. mult_list # <<>>
      BY <1>1 DEF KeepSoft
    <3> QED BY <3>1, HeadNode
  <2>3. /\ DOMAIN nodes' = DOMAIN nodes /\ nodes'[Head0].made = made
        /\ \A m \in DOMAIN nodes : m # Head0 => nodes'[m] = nodes[m]
    BY <2>1, <2>2 DEF NodeType
  <2> QED BY <2>2, <2>3 DEF HardKept
<1>2. CASE Done
  BY <1>2 DEF Done, HardKept
<1> QED BY <1>1, <1>2

(***************************************************************************)
(* The report is exact: over square blocks that are not padded every       *)
(* counter of the table is the number of hard multipliers of its size, for *)
(* every design and size of block, and no counter lies outside the table.  *)
(***************************************************************************)
THEOREM DistributionCounts == SplitSpec => []DistributionExact
<1>1. SplitIInv /\ DistributionInv /\ [SplitNext]_split_vars => DistributionInv'
  <2> SUFFICES ASSUME SplitIInv, DistributionInv, [SplitNext]_split_vars,
                      (SizeA = SizeB)', ~arch'.fixed
               PROVE  split_phase' \in {"iterate", "done"} /\ CountsExact'
    BY DEF DistributionInv
  <2>1. arch' = arch
    BY DEF SplitNext, SplitBoth, SplitOnA, SplitOnB, Cut, KeepHard, PadMultiplier, KeepSoft,
           Done, split_vars
  <2>2. SizeA = SizeB /\ ~arch.fixed
    BY <2>1 DEF SizeA, SizeB
  <2>3. split_phase \in {"iterate", "done"} /\ CountsExact
    BY <2>2 DEF DistributionInv
  <2>4. CASE SplitBoth \/ SplitOnA \/ SplitOnB
    <3>1. HardKept
      BY <2>4, SplitInv
    <3>2. UNCHANGED <<mults, split_phase>>
      BY <2>4 DEF SplitBoth, SplitOnA, SplitOnB, Cut
    <3> QED BY <2>1, <2>3, <3>1, <3>2, CountsKept
  <2>5. CASE KeepHard
    BY <2>2, <2>3, <2>5, CountsHard
  <2>6. CASE PadMultiplier
    BY <2>2, <2>6 DEF PadMultiplier
  <2>7. CASE KeepSoft \/ Done
    <3>1. HardKept
      BY <2>7, SoftKeepsHard
    <3>2. mults' = mults /\ split_phase' \in {"iterate", "done"}
      BY <2>3, <2>7 DEF KeepSoft, Done
    <3> QED BY <2>1, <2>3, <3>1, <3>2, CountsKept
  <2>8. CASE UNCHANGED split_vars
    <3>1. HardKept /\ mults' = mults /\ split_phase' = split_phase
      BY <2>8 DEF HardKept, split_vars
    <3> QED BY <2>1, <2>3, <3>1, CountsKept
  <2> QED BY <2>4, <2>5, <2>6, <2>7, <2>8 DEF SplitNext
<1>2. SplitIInv /\ DistributionInv => DistributionExact
  <2> SUFFICES ASSUME SplitIInv, DistributionInv, SizeA = SizeB, ~arch.fixed
               PROVE  /\ split_phase # "overrun"
                      /\ \A n \in DOMAIN nodes : nodes[n].made = "hard" =>
                            nodes[n].a \in 0..SizeA /\ nodes[n].b \in 1..SizeB
                      /\ CountsExact
    BY DEF DistributionExact, CountsExact
  <2>1. split_phase # "overrun" /\ CountsExact
    BY DEF DistributionInv
  <2>2. ASSUME NEW n \in DOMAIN nodes, nodes[n].made = "hard"
        PROVE  nodes[n].a \in 0..SizeA /\ nodes[n].b \in 1..SizeB
    <3>1. /\ LargerSize(nodes[n].a, nodes[n].b) <= LargerSize(SizeA, SizeB)
          /\ SmallerSize(nodes[n].a, nodes[n].b) <= SmallerSize(SizeA, SizeB)
      BY <2>2 DEF SplitIInv, BlocksFit, Leaf
    <3>2. nodes[n].a \in Nat \ {0} /\ nodes[n].b \in Nat \ {0}
      <4>1. nodes \in Seq(NodeType)
        BY DEF SplitIInv, SplitTypeOK, NodeType
      <4>2. nodes[n] \in NodeType
        BY <4>1
      <4> QED BY <4>2 DEF NodeType
    <3>3. SizeA \in Nat \ {0} /\ SizeB \in Nat \ {0}
      BY SizesType DEF SplitIInv, SplitTypeOK
    <3> QED BY <3>1, <3>2, <3>3 DEF LargerSize, SmallerSize
  <2> QED BY <2>1, <2>2
<1> QED BY <1>1, <1>2, DistributionInit, SplittingCorrect, PTL DEF SplitSpec

-----------------------------------------------------------------------------
(* Padding                                                                 *)

(* Over square blocks the block that pad_multiplier chooses is one of the  *)
(* sizes the options allow, and wide enough for the node.                  *)
LEMMA FitWideEnough ==
  ASSUME SplitIInv, mult_list # <<>>, Fits, SizeA = SizeB,
         NEW p, p \in {Full} \cup {PbTypes[i] : i \in 1..Len(PbTypes)}, BestFit(p)
  PROVE  ~TooNarrow(p) /\ p \in BlockSizes /\ p \in Widths
<1>1. SizeA \in Nat \ {0} /\ SizeB \in Nat \ {0} /\ Full \in Widths
  BY SizesType DEF SplitIInv, SplitTypeOK
<1>2. Node0.a \in Nat \ {0} /\ Node0.b \in Nat \ {0}
  BY HeadFacts DEF NodeType
<1>3. CASE p = Full
  <2>1. Full.a = SizeA /\ Full.b = SizeB
    BY <1>1 DEF Full, LargerSize, SmallerSize
  <2>2. Node0.a <= SizeA /\ Node0.b <= SizeB
    BY OrientedFacts DEF Fits
  <2>3. ~TooNarrow(Full)
    BY <1>1, <1>2, <2>1, <2>2 DEF TooNarrow
  <2> QED BY <1>1, <1>3, <2>3 DEF BlockSizes
<1>4. CASE p # Full
  <2>1. arch.fracture /\ \E i \in Better : p = PbTypes[i]
    BY <1>4 DEF BestFit
  <2>2. PICK i \in Better : p = PbTypes[i]
    BY <2>1
  <2>3. /\ i \in 1..Len(PbTypes)
        /\ PbTypes[i].a >= Node0.a /\ PbTypes[i].b >= Node0.b
    BY DEF Better
  <2>4. p \in Widths
    BY <2>2, <2>3 DEF SplitIInv, SplitTypeOK, IsSplitArch, PbTypes
  <2>5. p.a \in Nat /\ p.b \in Nat
    BY <2>4 DEF Widths
  <2>6. ~TooNarrow(p)
    BY <1>2, <2>2, <2>3, <2>5 DEF TooNarrow
  <2> QED BY <2>1, <2>2, <2>3, <2>4, <2>6 DEF BlockSizes
<1> QED BY <1>3, <1>4

(* A step that changes no hard multiplier leaves their sizes alone.        *)
LEMMA PadFillsKept ==
  ASSUME HardKept, arch' = arch, PadFills, split_phase' # "pad_error"
  PROVE  PadFills'
<1>1. BlockSizes' = BlockSizes
  BY DEF BlockSizes, Full, PbTypes, SizeA, SizeB
<1> QED BY <1>1 DEF PadFills, HardKept, SizeA, SizeB

(***************************************************************************)
(* pad_multiplier never meets a piece that is too wide for its block when  *)
(* the blocks are square, and every padded multiplier has the size of a    *)
(* block, for every design and list of blocks.                             *)
(***************************************************************************)
THEOREM PaddingFills == SplitSpec => []PadFills
<1>1. SplitInit => PadFills
  <2> SUFFICES ASSUME SplitInit PROVE PadFills
    OBVIOUS
  <2>1. split_phase = "iterate" /\ \A m \in DOMAIN nodes : nodes[m].made = "waiting"
    BY DEF SplitInit, Waiting
  <2> QED BY <2>1 DEF PadFills
<1>2. SplitIInv /\ PadFills /\ [SplitNext]_split_vars => PadFills'
  <2> SUFFICES ASSUME SplitIInv, PadFills, [SplitNext]_split_vars PROVE PadFills'
    OBVIOUS
  <2>1. arch' = arch
    BY DEF SplitNext, SplitBoth, SplitOnA, SplitOnB, Cut, KeepHard, PadMultiplier, KeepSoft,
           Done, split_vars
  <2>2. BlockSizes' = BlockSizes /\ SizeA' = SizeA /\ SizeB' = SizeB
    BY <2>1 DEF BlockSizes, Full, PbTypes, SizeA, SizeB
  <2>3. CASE SplitBoth \/ SplitOnA \/ SplitOnB
    <3>1. HardKept
      BY <2>3, SplitInv
    <3>2. split_phase' = "iterate"
      BY <2>3 DEF SplitBoth, SplitOnA, SplitOnB, Cut
    <3> QED BY <2>1, <3>1, <3>2, PadFillsKept
  <2>4. CASE KeepHard
    <3>1. ~arch.fixed /\ split_phase = "iterate" /\ RecordMultDistribution("iterate")
      BY <2>4 DEF KeepHard
    <3>2. split_phase' \in {"iterate", "overrun"}
      BY <3>1, RecordType
    <3> QED BY <2>1, <3>1, <3>2 DEF PadFills
  <2>5. CASE PadMultiplier
    <3> SUFFICES ASSUME SizeA = SizeB
                 PROVE  /\ split_phase' # "pad_error"
                        /\ \A n \in DOMAIN nodes' : nodes'[n].made = "hard" =>
                              [a |-> nodes'[n].a, b |-> nodes'[n].b] \in BlockSizes
      BY <2>1, <2>2 DEF PadFills
    <3>1. split_phase = "iterate" /\ mult_list # <<>> /\ Fits /\ arch.fixed
      BY <2>5 DEF PadMultiplier
    <3>2. PICK p \in {Full} \cup {PbTypes[i] : i \in 1..Len(PbTypes)} :
            /\ BestFit(p)
            /\ RecordMultDistribution(IF TooNarrow(p) THEN "pad_error" ELSE split_phase)
            /\ nodes' = IF TooNarrow(p) THEN nodes
                         ELSE [nodes EXCEPT ![Head0] =
                                 [@ EXCEPT !.a = p.a, !.b = p.b, !.made = "hard"]]
      BY <2>5 DEF PadMultiplier
    <3>3. ~TooNarrow(p) /\ p \in BlockSizes /\ p \in Widths
      BY <3>1, <3>2, FitWideEnough
    <3>4. split_phase' \in {"iterate", "overrun"}
      BY <3>1, <3>2, <3>3, RecordType
    <3>5. /\ Head0 \in DOMAIN nodes /\ nodes[Head0] \in NodeType
      BY <3>1, HeadNode
    <3>6. /\ DOMAIN nodes' = DOMAIN nodes
          /\ nodes'[Head0].a = p.a /\ nodes'[Head0].b = p.b
          /\ \A m \in DOMAIN nodes : m # Head0 => nodes'[m] = nodes[m]
      BY <3>2, <3>3, <3>5 DEF NodeType
    <3>7. p = [a |-> p.a, b |-> p.b]
      BY <3>3 DEF Widths
    <3>8. \A n \in DOMAIN nodes : nodes[n].made = "hard" =>
             [a |-> nodes[n].a, b |-> nodes[n].b] \in BlockSizes
      BY <3>1 DEF PadFills
    <3>9. ASSUME NEW n \in DOMAIN nodes', nodes'[n].made = "hard"
          PROVE  [a |-> nodes'[n].a, b |-> nodes'[n].b] \in BlockSizes
      BY <3>3, <3>6, <3>7, <3>8, <3>9
    <3> QED BY <3>4, <3>9
  <2>6. CASE KeepSoft \/ Done
    <3>1. HardKept
      BY <2>6, SoftKeepsHard
    <3>2. split_phase' # "pad_error"
      BY <2>6 DEF KeepSoft, Done
    <3> QED BY <2>1, <3>1, <3>2, PadFillsKept
  <2>7. CASE UNCHANGED split_vars
    BY <2>2, <2>7 DEF PadFills, split_vars
  <2> QED BY <2>3, <2>4, <2>5, <2>6, <2>7 DEF SplitNext
<1> QED BY <1>1, <1>2, SplittingCorrect, PTL DEF SplitSpec

-----------------------------------------------------------------------------
(* What the adders behind the pieces compute                               *)

(* An adder of w bits over a product u without its lowest c bits and a     *)
(* number v, with those c bits behind it: the sum, if there is room.       *)
Joined(u, v, c, w) == Low(u, c) + Low(High(u, c) + v, w) * Pow2[c]

LEMMA JoinExact ==
  ASSUME NEW u \in Nat, NEW v \in Nat, NEW c \in Nat, NEW w \in Nat,
         NEW x, x = u + v * Pow2[c], x < Pow2[w + c]
  PROVE  Joined(u, v, c, w) = x
<1> DEFINE P == Pow2[c]
           W == Pow2[w]
           l == Low(u, c)
           h == High(u, c)
<1>1. P \in Nat \ {0} /\ W \in Nat \ {0} /\ Pow2[w + c] = W * P
  BY Pow2Type, Pow2Sum
<1>2. l \in Nat /\ h \in Nat /\ u = l + h * P
  BY LowHigh
<1>3. u + v * P < W * P
  BY <1>1
<1>4. h + v \in Nat
  BY <1>2
<1>5. Low(h + v, w) = h + v
  <2> SUFFICES h + v < W
    BY <1>4, LowSmall
  <2> HIDE DEF P, W, l, h
  <2>1. (h + v) * P < W * P
    <3>1. (h + v) * P = h * P + v * P /\ h * P \in Nat /\ v * P \in Nat /\ W * P \in Nat
      BY <1>1, <1>2
    <3> QED BY <1>2, <1>3, <3>1
  <2> QED BY <1>1, <1>4, <2>1, FactorBound
<1>6. l + (h + v) * P = u + v * P
  <2> HIDE DEF P, W, l, h
  <2> QED BY <1>1, <1>2
<1> QED BY <1>5, <1>6 DEF Joined

(* The widths of a node, and operands that fit them, taken apart.          *)
LEMMA JoinAExact ==
  ASSUME NEW m \in NodeType, m.cut_a <= m.a,
         NEW x \in Nat, NEW y \in Nat, x < Pow2[m.a], y < Pow2[m.b]
  PROVE  JoinA(m, Low(x, m.cut_a) * y, High(x, m.cut_a) * y) = x * y
<1> DEFINE c == m.cut_a
           w == m.a - c + m.b
           l == Low(x, c)
           h == High(x, c)
           P == Pow2[c]
<1>0. P = Pow2[c]
  OBVIOUS
<1>1. c \in Nat /\ m.a \in Nat /\ m.b \in Nat
  BY DEF NodeType
<1>2. w \in Nat /\ w + c = m.a + m.b
  BY <1>1
<1>3. l \in Nat /\ h \in Nat /\ x = l + h * P /\ P \in Nat
  BY <1>1, LowHigh, Pow2Type
<1>4. x * y < Pow2[m.a] * Pow2[m.b] /\ Pow2[m.a + m.b] = Pow2[m.a] * Pow2[m.b]
  BY <1>1, ProductBound, Pow2Type, Pow2Sum
<1>5. l * y \in Nat /\ h * y \in Nat /\ l * y + (h * y) * P = x * y
  <2> HIDE DEF l, h, P
  <2> QED BY <1>3
<1>6. JoinA(m, l * y, h * y) = Joined(l * y, h * y, c, w)
  BY DEF JoinA, Joined
<1>7. l * y + (h * y) * P < Pow2[w + c]
  BY <1>2, <1>4, <1>5
<1> HIDE DEF c, w, l, h, P
<1>8. Joined(l * y, h * y, c, w) = x * y
  <2> DEFINE u == l * y
             v == h * y
             z == x * y
  <2>1. u \in Nat /\ v \in Nat /\ z = u + v * Pow2[c] /\ z < Pow2[w + c]
    BY <1>0, <1>5, <1>7
  <2> HIDE DEF u, v, z
  <2>2. Joined(u, v, c, w) = z
    BY <1>1, <1>2, <2>1, JoinExact
  <2> QED BY <2>2 DEF u, v, z
<1> QED BY <1>5, <1>6, <1>8 DEF c, l, h

LEMMA JoinBExact ==
  ASSUME NEW m \in NodeType, m.cut_b <= m.b,
         NEW x \in Nat, NEW y \in Nat, x < Pow2[m.a], y < Pow2[m.b],
         TopBit(m, x * Low(y, m.cut_b)) = 0
  PROVE  JoinB(m, x * Low(y, m.cut_b), x * High(y, m.cut_b)) = x * y
<1> DEFINE c == m.cut_b
           w == m.a + m.b - c
           l == Low(y, c)
           h == High(y, c)
           P == Pow2[c]
<1>0. P = Pow2[c]
  OBVIOUS
<1>1. c \in Nat /\ m.a \in Nat /\ m.b \in Nat
  BY DEF NodeType
<1>2. w \in Nat /\ w + c = m.a + m.b
  BY <1>1
<1>3. l \in Nat /\ h \in Nat /\ y = l + h * P /\ P \in Nat
  BY <1>1, LowHigh, Pow2Type
<1>4. x * y < Pow2[m.a] * Pow2[m.b] /\ Pow2[m.a + m.b] = Pow2[m.a] * Pow2[m.b]
  BY <1>1, ProductBound, Pow2Type, Pow2Sum
<1>5. x * l \in Nat /\ x * h \in Nat /\ x * l + (x * h) * P = x * y
  <2> HIDE DEF l, h, P
  <2> QED BY <1>3
<1>6. JoinB(m, x * l, x * h) = Joined(x * l, x * h, c, w)
  <2>1. 0 * (Pow2[w] - Pow2[m.a]) = 0
    BY <1>1, <1>2, Pow2Type
  <2>2. High(x * l, c) \in Nat
    BY <1>1, <1>5, LowHigh
  <2>3. High(x * l, c) + 0 + x * h = High(x * l, c) + x * h
    BY <1>5, <2>2
  <2> QED BY <2>1, <2>3 DEF JoinB, Joined
<1>7. x * l + (x * h) * P < Pow2[w + c]
  BY <1>2, <1>4, <1>5
<1> HIDE DEF c, w, l, h, P
<1>8. Joined(x * l, x * h, c, w) = x * y
  <2> DEFINE u == x * l
             v == x * h
             z == x * y
  <2>1. u \in Nat /\ v \in Nat /\ z = u + v * Pow2[c] /\ z < Pow2[w + c]
    BY <1>0, <1>5, <1>7
  <2> HIDE DEF u, v, z
  <2>2. Joined(u, v, c, w) = z
    BY <1>1, <1>2, <2>1, JoinExact
  <2> QED BY <2>2 DEF u, v, z
<1> QED BY <1>5, <1>6, <1>8 DEF c, l, h

(* The product of two numbers of two parts each.                           *)
LEMMA FourProducts ==
  ASSUME NEW p \in Nat, NEW q \in Nat, NEW s \in Nat, NEW t \in Nat, NEW z \in Nat
  PROVE  (p + q * z) * (s + t * z) = p * s + (q * s + p * t + (q * t) * z) * z
<1>1. (p + q * z) * (s + t * z) = p * (s + t * z) + (q * z) * (s + t * z)
  OBVIOUS
<1>2. p * (s + t * z) = p * s + (p * t) * z
  OBVIOUS
<1>3. (q * z) * (s + t * z) = (q * s) * z + ((q * t) * z) * z
  OBVIOUS
<1> QED BY <1>1, <1>2, <1>3

LEMMA LargerFacts ==
  \A x, y \in Nat : LargerSize(x, y) \in Nat /\ x <= LargerSize(x, y) /\ y <= LargerSize(x, y)
BY DEF LargerSize

LEMMA JoinBothExact ==
  ASSUME NEW m \in NodeType, m.cut_a = m.cut_b, m.cut_a <= m.a, m.cut_b <= m.b,
         NEW x \in Nat, NEW y \in Nat, x < Pow2[m.a], y < Pow2[m.b]
  PROVE  JoinBoth(m, Low(x, m.cut_a) * Low(y, m.cut_b), High(x, m.cut_a) * High(y, m.cut_b),
                     Low(x, m.cut_a) * High(y, m.cut_b), High(x, m.cut_a) * Low(y, m.cut_b))
           = x * y
<1> DEFINE c == m.cut_a
           a1 == m.a - c
           b1 == m.b - c
           small == LargerSize(a1 + c + 1, c + b1 + 1)
           big == LargerSize(small, m.a + b1)
           x0 == Low(x, c)
           x1 == High(x, c)
           y0 == Low(y, c)
           y1 == High(y, c)
           P == Pow2[c]
           mixed == x1 * y0 + x0 * y1
           v == mixed + (x1 * y1) * P
<1>0. P = Pow2[c]
  OBVIOUS
<1>1. c \in Nat /\ m.a \in Nat /\ m.b \in Nat
  BY DEF NodeType
<1>2. /\ a1 \in Nat /\ b1 \in Nat /\ small \in Nat /\ big \in Nat
      /\ a1 + c + 1 <= small /\ c + b1 + 1 <= small /\ m.a + b1 <= big
      /\ m.a + b1 + c = m.a + m.b
  <2>1. a1 \in Nat /\ b1 \in Nat /\ a1 + c + 1 \in Nat /\ c + b1 + 1 \in Nat /\ m.a + b1 \in Nat
    BY <1>1
  <2>2. small \in Nat /\ a1 + c + 1 <= small /\ c + b1 + 1 <= small
    BY <2>1, LargerFacts
  <2>3. big \in Nat /\ m.a + b1 <= big
    BY <2>1, <2>2, LargerFacts
  <2> QED BY <1>1, <2>1, <2>2, <2>3
<1>3. /\ x0 \in Nat /\ x1 \in Nat /\ y0 \in Nat /\ y1 \in Nat /\ P \in Nat
      /\ x = x0 + x1 * P /\ y = y0 + y1 * P
      /\ x0 < Pow2[c] /\ y0 < Pow2[c] /\ x1 < Pow2[a1] /\ y1 < Pow2[b1]
  BY <1>1, LowHigh, HighBound, Pow2Type
<1>4. mixed \in Nat /\ mixed < Pow2[small]
  <2>0. /\ Pow2[a1] \in Nat /\ Pow2[b1] \in Nat /\ Pow2[c] \in Nat
        /\ Pow2[a1 + c] = Pow2[a1] * Pow2[c] /\ Pow2[c + b1] = Pow2[c] * Pow2[b1]
    BY <1>1, <1>2, Pow2Type, Pow2Sum
  <2>1. x1 * y0 \in Nat /\ x1 * y0 < Pow2[a1 + c]
    <3> HIDE DEF a1, c, x1, y0
    <3> QED BY <1>3, <2>0, ProductBound
  <2>2. x0 * y1 \in Nat /\ x0 * y1 < Pow2[c + b1]
    <3> HIDE DEF b1, c, x0, y1
    <3> QED BY <1>3, <2>0, ProductBound
  <2>3. small - 1 \in Nat /\ a1 + c <= small - 1 /\ c + b1 <= small - 1
    BY <1>1, <1>2
  <2>4. /\ Pow2[a1 + c] <= Pow2[small - 1] /\ Pow2[c + b1] <= Pow2[small - 1]
        /\ a1 + c \in Nat /\ c + b1 \in Nat
    BY <1>1, <1>2, <2>3, Pow2Monotone
  <2>5. Pow2[(small - 1) + 1] = 2 * Pow2[small - 1] /\ (small - 1) + 1 = small
    BY <1>2, <2>3, Pow2Step
  <2>6. Pow2[small - 1] \in Nat /\ Pow2[a1 + c] \in Nat /\ Pow2[c + b1] \in Nat
    BY <2>3, <2>4, Pow2Type
  <2> HIDE DEF small, a1, b1, c, x0, x1, y0, y1, P
  <2> QED BY <2>1, <2>2, <2>4, <2>5, <2>6
<1>5. Low(mixed, small) = mixed
  BY <1>2, <1>4, LowSmall
<1>6. x0 * y0 + v * P = x * y /\ v \in Nat /\ x0 * y0 \in Nat /\ (x1 * y1) * P \in Nat
  <2> HIDE DEF x0, x1, y0, y1, P, a1, b1, c
  <2> QED BY <1>3, FourProducts
<1>7. x0 * y0 + v * P < Pow2[big + c]
  <2>1. x * y < Pow2[m.a] * Pow2[m.b] /\ Pow2[m.a + m.b] = Pow2[m.a] * Pow2[m.b]
    BY <1>1, ProductBound, Pow2Type, Pow2Sum
  <2>2. m.a + m.b \in Nat /\ big + c \in Nat /\ m.a + m.b <= big + c
    BY <1>1, <1>2
  <2>3. Pow2[m.a + m.b] <= Pow2[big + c]
    BY <2>2, Pow2Monotone
  <2>4. Pow2[m.a + m.b] \in Nat /\ Pow2[big + c] \in Nat
    BY <2>2, Pow2Type
  <2> HIDE DEF big, c, v, x0, y0, P
  <2> QED BY <1>6, <2>1, <2>3, <2>4
<1>8. High(x0 * y0, c) \in Nat
  BY <1>1, <1>6, LowHigh
<1>9. JoinBoth(m, x0 * y0, x1 * y1, x0 * y1, x1 * y0)
        = Joined(x0 * y0, v, c, big)
  <2>1. mixed + High(x0 * y0, c) + (x1 * y1) * P = High(x0 * y0, c) + v
    <3> HIDE DEF mixed, c, x0, x1, y0, y1, P
    <3> QED BY <1>4, <1>6, <1>8
  <2> QED BY <1>5, <2>1 DEF JoinBoth, Joined
<1> HIDE DEF c, a1, b1, small, big, x0, x1, y0, y1, P, v
<1>10. Joined(x0 * y0, v, c, big) = x * y
  <2> DEFINE u == x0 * y0
             z == x * y
  <2>1. u \in Nat /\ z = u + v * Pow2[c] /\ z < Pow2[big + c]
    BY <1>0, <1>6, <1>7
  <2> HIDE DEF u, z
  <2>2. Joined(u, v, c, big) = z
    BY <1>1, <1>2, <1>6, <2>1, JoinExact
  <2> QED BY <2>2 DEF u, z
<1> QED BY <1>6, <1>9, <1>10 DEF c, x0, x1, y0, y1
-----------------------------------------------------------------------------
(* What the cuts leave                                                     *)

(* Piece i of node n was made after it and is at least so wide.            *)
Piece(n, i, a, b) ==
  /\ nodes[n].pieces[i] \in n + 1 .. Len(nodes)
  /\ nodes[nodes[n].pieces[i]].a >= a
  /\ nodes[nodes[n].pieces[i]].b >= b

(* A node that was cut has the pieces that the way it was cut calls for.   *)
CutRight(n) ==
  LET m == nodes[n]
  IN  /\ m.made \in {"both", "a", "b"} => m.cut_a <= m.a /\ m.cut_b <= m.b
      /\ m.made = "both" =>
           /\ Piece(n, 1, m.cut_a, m.cut_b) /\ Piece(n, 2, m.a - m.cut_a, m.b - m.cut_b)
           /\ Piece(n, 3, m.cut_a, m.b - m.cut_b) /\ Piece(n, 4, m.a - m.cut_a, m.cut_b)
      /\ m.made = "a" =>
           m.cut_b = m.b /\ Piece(n, 1, m.cut_a, m.b) /\ Piece(n, 2, m.a - m.cut_a, m.b)
      /\ m.made = "b" =>
           m.cut_a = m.a /\ Piece(n, 1, m.a, m.cut_b) /\ Piece(n, 2, m.a, m.b - m.cut_b)

CutsInv == \A n \in 1..Len(nodes) : CutRight(n)

(* The step narrows no node and leaves those that were cut alone.          *)
CutsStay ==
  /\ Len(nodes) <= Len(nodes')
  /\ \A n \in 1..Len(nodes) :
        /\ nodes'[n].a >= nodes[n].a /\ nodes'[n].b >= nodes[n].b
        /\ nodes[n].made \in {"both", "a", "b"} => nodes'[n] = nodes[n]

(* What a cut node has it keeps.                                           *)
LEMMA CutsStayRight ==
  ASSUME SplitIInv, SplitIInv', CutsInv, CutsStay,
         NEW n \in 1..Len(nodes), nodes[n].made \in {"both", "a", "b"}
  PROVE  CutRight(n)'
<1>1. /\ nodes \in Seq(NodeType) /\ nodes' \in Seq(NodeType)
      /\ Len(nodes) \in Nat /\ Len(nodes') \in Nat
  <2>1. nodes \in Seq(NodeType)
    BY DEF SplitIInv, SplitTypeOK, NodeType
  <2>2. nodes' \in Seq(NodeType)
    BY DEF SplitIInv, SplitTypeOK, NodeType
  <2> QED BY <2>1, <2>2
<1>2. nodes'[n] = nodes[n] /\ nodes[n] \in NodeType
  BY <1>1 DEF CutsStay
<1>3. nodes[n].a \in Nat /\ nodes[n].b \in Nat /\ nodes[n].cut_a \in Nat /\ nodes[n].cut_b \in Nat
  BY <1>2 DEF NodeType
<1>4. ASSUME NEW i, NEW a \in Int, NEW b \in Int, Piece(n, i, a, b)
      PROVE  Piece(n, i, a, b)'
  <2> DEFINE k == nodes[n].pieces[i]
  <2>1. k \in n + 1 .. Len(nodes) /\ nodes[k].a >= a /\ nodes[k].b >= b
    BY <1>4 DEF Piece
  <2>2. nodes'[n].pieces[i] = k
    BY <1>2
  <2> HIDE DEF k
  <2>3. k \in 1..Len(nodes) /\ k \in 1..Len(nodes') /\ k \in n + 1 .. Len(nodes')
    BY <1>1, <2>1 DEF CutsStay
  <2>4. nodes[k] \in NodeType /\ nodes'[k] \in NodeType
    BY <1>1, <2>3
  <2>5. nodes[k].a \in Nat /\ nodes[k].b \in Nat /\ nodes'[k].a \in Nat /\ nodes'[k].b \in Nat
    BY <2>4 DEF NodeType
  <2>6. nodes'[k].a >= nodes[k].a /\ nodes'[k].b >= nodes[k].b
    BY <2>3 DEF CutsStay
  <2>7. nodes'[k].a >= a /\ nodes'[k].b >= b
    BY <2>1, <2>5, <2>6
  <2> QED BY <2>2, <2>3, <2>7 DEF Piece
<1>5. CutRight(n)
  BY DEF CutsInv
<1>6. nodes[n].a - nodes[n].cut_a \in Int /\ nodes[n].b - nodes[n].cut_b \in Int
  BY <1>3
<1> QED BY <1>2, <1>3, <1>4, <1>5, <1>6 DEF CutRight

(* The nodes after a cut.                                                  *)
CutMade(how, cut_a, cut_b, pieces) ==
  /\ Len(nodes') = Len(nodes) + Len(pieces)
  /\ \A n \in 1..Len(nodes) : n # Head0 => nodes'[n] = nodes[n]
  /\ nodes'[Head0].made = how
  /\ nodes'[Head0].cut_a = cut_a /\ nodes'[Head0].cut_b = cut_b
  /\ nodes'[Head0].a = Node0.a /\ nodes'[Head0].b = Node0.b
  /\ \A i \in 1..Len(pieces) :
        /\ nodes'[Head0].pieces[i] = Len(nodes) + i
        /\ nodes'[Len(nodes) + i] = pieces[i]

LEMMA CutNodes ==
  ASSUME SplitIInv, mult_list # <<>>, NEW how, NEW cut_a \in Nat, NEW cut_b \in Nat,
         NEW pieces \in Seq(NodeType), Cut(how, cut_a, cut_b, pieces)
  PROVE  CutMade(how, cut_a, cut_b, pieces)
<1> DEFINE names == [i \in 1..Len(pieces) |-> Len(nodes) + i]
           node == [Node0 EXCEPT !.made = how, !.cut_a = cut_a, !.cut_b = cut_b,
                                 !.pieces = names]
           front == [nodes EXCEPT ![Head0] = node]
<1>1. /\ nodes \in Seq(NodeType) /\ Len(nodes) \in Nat /\ Len(pieces) \in Nat
      /\ DOMAIN nodes = 1..Len(nodes) /\ Head0 \in 1..Len(nodes) /\ nodes[Head0] = Node0
  <2>1. nodes \in Seq(NodeType)
    BY DEF SplitIInv, SplitTypeOK, NodeType
  <2> QED BY <2>1, HeadNode
<1>2. nodes' = front \o pieces
  BY <1>1 DEF Cut
<1>3. /\ DOMAIN front = 1..Len(nodes) /\ front[Head0] = node
      /\ \A n \in 1..Len(nodes) : n # Head0 => front[n] = nodes[n]
  BY <1>1
<1> HIDE DEF front, node
<1>4. front \in Seq(NodeType \cup {node}) /\ Len(front) = Len(nodes)
  <2>1. \A n \in 1..Len(nodes) : front[n] \in NodeType \cup {node}
    BY <1>1, <1>3
  <2>2. front = [n \in 1..Len(nodes) |-> front[n]]
    BY <1>1, <1>3 DEF front
  <2> QED BY <1>1, <2>1, <2>2
<1>5. pieces \in Seq(NodeType \cup {node})
  OBVIOUS
<1>6. /\ Len(nodes') = Len(nodes) + Len(pieces)
      /\ \A n \in 1..Len(nodes) : nodes'[n] = front[n]
      /\ \A i \in 1..Len(pieces) : nodes'[Len(nodes) + i] = pieces[i]
  <2> DEFINE X == NodeType \cup {node}
  <2>1. front \in Seq(X) /\ pieces \in Seq(X)
    BY <1>4, <1>5
  <2> HIDE DEF X
  <2>2. Len(front \o pieces) = Len(front) + Len(pieces)
    BY <2>1
  <2>3. \A n \in 1..Len(front) : (front \o pieces)[n] = front[n]
    BY <2>1
  <2>4. \A i \in 1..Len(pieces) : (front \o pieces)[Len(front) + i] = pieces[i]
    BY <2>1
  <2> QED BY <1>2, <1>4, <2>2, <2>3, <2>4
<1>7. /\ node.made = how /\ node.cut_a = cut_a /\ node.cut_b = cut_b
      /\ node.a = Node0.a /\ node.b = Node0.b
      /\ \A i \in 1..Len(pieces) : node.pieces[i] = Len(nodes) + i
  <2>1. Node0 \in NodeType
    BY HeadNode
  <2> QED BY <2>1 DEF node, NodeType
<1> QED BY <1>1, <1>3, <1>6, <1>7 DEF CutMade

(* The node that was cut, once its pieces are known to be wide enough.     *)
LEMMA CutsKept ==
  ASSUME SplitIInv, SplitIInv', CutsInv, split_phase = "iterate", mult_list # <<>>,
         NEW how \in {"both", "a", "b"}, NEW cut_a \in Nat, NEW cut_b \in Nat,
         NEW pieces \in Seq(NodeType), Cut(how, cut_a, cut_b, pieces),
         \A i \in 1..Len(pieces) : pieces[i].made = "waiting",
         NEW h, h = Head0, CutRight(h)'
  PROVE  CutsInv'
<1>1. /\ nodes \in Seq(NodeType) /\ Len(nodes) \in Nat /\ Len(pieces) \in Nat
      /\ Head0 \in 1..Len(nodes) /\ nodes[Head0] = Node0
      /\ Node0 \in NodeType /\ Node0.made = "waiting"
  <2>1. nodes \in Seq(NodeType)
    BY DEF SplitIInv, SplitTypeOK, NodeType
  <2> QED BY <2>1, HeadNode
<1>2. /\ Len(nodes') = Len(nodes) + Len(pieces)
      /\ \A n \in 1..Len(nodes) : n # Head0 => nodes'[n] = nodes[n]
      /\ nodes'[Head0].a = Node0.a /\ nodes'[Head0].b = Node0.b
      /\ \A i \in 1..Len(pieces) : nodes'[Len(nodes) + i] = pieces[i]
  BY CutNodes DEF CutMade
<1>3. nodes'[Head0].a = nodes[Head0].a /\ nodes'[Head0].b = nodes[Head0].b
  BY <1>1, <1>2
<1>4. CutsStay
  <2>1. \A n \in 1..Len(nodes) : nodes[n] \in NodeType
    BY <1>1
  <2>2. \A n \in 1..Len(nodes) : nodes[n].a \in Nat /\ nodes[n].b \in Nat
    BY <2>1 DEF NodeType
  <2>3. Len(nodes) <= Len(nodes')
    BY <1>1, <1>2
  <2>4. ASSUME NEW n \in 1..Len(nodes)
        PROVE  /\ nodes'[n].a >= nodes[n].a /\ nodes'[n].b >= nodes[n].b
               /\ nodes[n].made \in {"both", "a", "b"} => nodes'[n] = nodes[n]
    <3>1. CASE n = Head0
      BY <1>1, <1>3, <2>2, <3>1
    <3>2. CASE n # Head0
      <4>1. nodes'[n] = nodes[n]
        BY <1>2, <3>2
      <4> QED BY <2>2, <4>1
    <3> QED BY <3>1, <3>2
  <2> QED BY <2>3, <2>4 DEF CutsStay
<1>5. ASSUME NEW n \in 1..Len(nodes') PROVE CutRight(n)'
  <2>1. CASE n \in 1..Len(nodes) /\ nodes[n].made \in {"both", "a", "b"}
    BY <1>4, <2>1, CutsStayRight
  <2>2. CASE n = Head0
    <3>1. n = h
      BY <2>2
    <3> QED BY <3>1
  <2>3. CASE n \in 1..Len(nodes) /\ n # Head0 /\ nodes[n].made \notin {"both", "a", "b"}
    BY <1>2, <2>3 DEF CutRight
  <2>4. CASE n \notin 1..Len(nodes)
    <3>1. n - Len(nodes) \in 1..Len(pieces) /\ n = Len(nodes) + (n - Len(nodes))
      BY <1>1, <1>2, <2>4
    <3>2. nodes'[n].made = "waiting"
      BY <1>2, <3>1
    <3> QED BY <3>2 DEF CutRight
  <2> QED BY <2>1, <2>2, <2>3, <2>4
<1> QED BY <1>5 DEF CutsInv
(* The names of the pieces are the numbers behind the last node.           *)
LEMMA NewPiece ==
  ASSUME SplitIInv, mult_list # <<>>, NEW how \in {"both", "a", "b"},
         NEW cut_a \in Nat, NEW cut_b \in Nat,
         NEW pieces \in Seq(NodeType), Cut(how, cut_a, cut_b, pieces),
         NEW h, h = Head0, NEW i \in 1..Len(pieces)
  PROVE  Piece(h, i, pieces[i].a, pieces[i].b)'
<1>1. /\ Len(nodes) \in Nat /\ Len(pieces) \in Nat /\ Head0 \in 1..Len(nodes)
      /\ Node0 \in NodeType
  BY HeadFacts
<1>2. /\ Len(nodes') = Len(nodes) + Len(pieces)
      /\ \A j \in 1..Len(pieces) :
            /\ nodes'[Head0].pieces[j] = Len(nodes) + j
            /\ nodes'[Len(nodes) + j] = pieces[j]
  BY CutNodes DEF CutMade
<1>4. nodes'[h].pieces[i] = Len(nodes) + i
  BY <1>2
<1>5. Len(nodes) + i \in h + 1 .. Len(nodes')
  BY <1>1, <1>2
<1>6. nodes'[Len(nodes) + i] = pieces[i] /\ pieces[i] \in NodeType
  BY <1>2
<1>7. pieces[i].a \in Nat /\ pieces[i].b \in Nat
  BY <1>6 DEF NodeType
<1> QED BY <1>4, <1>5, <1>6, <1>7 DEF Piece

(* Each way of cutting leaves what it should.                              *)
LEMMA SplitKeepsCuts ==
  ASSUME SplitIInv, SplitIInv', CutsInv, SplitBoth \/ SplitOnA \/ SplitOnB
  PROVE  CutsInv'
<1>1. mult_list # <<>> /\ split_phase = "iterate"
  BY DEF SplitBoth, SplitOnA, SplitOnB
<1>2. /\ Oriented.a \in Nat \ {0} /\ Oriented.b \in Nat \ {0}
      /\ Node0.a \in Nat \ {0} /\ Node0.b \in Nat \ {0} /\ Node0 \in NodeType
  <2>1. Oriented \in Widths /\ Node0 \in NodeType
    BY <1>1, OrientedFacts, HeadFacts
  <2> QED BY <2>1 DEF Widths, NodeType
<1>3. ASSUME NEW how \in {"both", "a", "b"}, NEW cut_a \in Nat, NEW cut_b \in Nat,
             NEW pieces \in Seq(NodeType), Cut(how, cut_a, cut_b, pieces)
      PROVE  /\ nodes'[Head0].made = how
             /\ nodes'[Head0].cut_a = cut_a /\ nodes'[Head0].cut_b = cut_b
             /\ nodes'[Head0].a = Node0.a /\ nodes'[Head0].b = Node0.b
  BY <1>1, <1>3, CutNodes DEF CutMade
<1>4. CASE SplitBoth
  <2>0. PICK a0, b0, a1, b1 :
           a0 = Oriented.a /\ b0 = Oriented.b /\ a1 = Node0.a - a0 /\ b1 = Node0.b - b0
    OBVIOUS
  <2>p. PICK pieces :
           pieces = <<Waiting(a0, b0), Waiting(a1, b1), Waiting(a0, b1), Waiting(a1, b0)>>
    OBVIOUS
  <2>1. a1 > 0 /\ b1 > 0 /\ Cut("both", a0, b0, pieces)
    BY <1>4, <2>0, <2>p DEF SplitBoth
  <2>2. /\ a0 \in Nat \ {0} /\ b0 \in Nat \ {0} /\ a1 \in Nat \ {0} /\ b1 \in Nat \ {0}
        /\ a0 <= Node0.a /\ b0 <= Node0.b /\ a1 = Node0.a - a0 /\ b1 = Node0.b - b0
    BY <1>2, <2>0, <2>1
  <2>3. \A a \in {a0, a1}, b \in {b0, b1} :
           /\ Waiting(a, b) \in NodeType /\ Waiting(a, b).made = "waiting"
           /\ Waiting(a, b).a = a /\ Waiting(a, b).b = b
    BY <2>2, WaitingType
  <2>4. /\ pieces \in Seq(NodeType) /\ Len(pieces) = 4
        /\ \A i \in 1..Len(pieces) : pieces[i].made = "waiting"
        /\ pieces[1].a = a0 /\ pieces[1].b = b0 /\ pieces[2].a = a1 /\ pieces[2].b = b1
        /\ pieces[3].a = a0 /\ pieces[3].b = b1 /\ pieces[4].a = a1 /\ pieces[4].b = b0
    BY <2>3, <2>p
  <2>5. PICK h : h = Head0
    OBVIOUS
  <2>6. \A i \in 1..4 : Piece(h, i, pieces[i].a, pieces[i].b)'
    BY <1>1, <2>1, <2>2, <2>4, <2>5, NewPiece
  <2>7. /\ nodes'[h].made = "both" /\ nodes'[h].cut_a = a0 /\ nodes'[h].cut_b = b0
        /\ nodes'[h].a = Node0.a /\ nodes'[h].b = Node0.b
    BY <1>3, <2>1, <2>2, <2>4, <2>5
  <2>8. CutRight(h)'
    BY <2>2, <2>4, <2>6, <2>7 DEF CutRight
  <2> QED BY <1>1, <2>1, <2>2, <2>4, <2>5, <2>8, CutsKept
<1>5. CASE SplitOnA
  <2>0. PICK a0, a1, b : a0 = Oriented.a /\ a1 = Node0.a - a0 /\ b = Node0.b
    OBVIOUS
  <2>p. PICK pieces : pieces = <<Waiting(a0, b), Waiting(a1, b)>>
    OBVIOUS
  <2>1. Node0.a > Oriented.a /\ Cut("a", a0, b, pieces)
    BY <1>5, <2>0, <2>p DEF SplitOnA
  <2>2. /\ a0 \in Nat \ {0} /\ a1 \in Nat \ {0} /\ b \in Nat \ {0}
        /\ a0 <= Node0.a /\ a1 = Node0.a - a0 /\ b = Node0.b
    BY <1>2, <2>0, <2>1
  <2>3. \A a \in {a0, a1} :
           /\ Waiting(a, b) \in NodeType /\ Waiting(a, b).made = "waiting"
           /\ Waiting(a, b).a = a /\ Waiting(a, b).b = b
    BY <2>2, WaitingType
  <2>4. /\ pieces \in Seq(NodeType) /\ Len(pieces) = 2
        /\ \A i \in 1..Len(pieces) : pieces[i].made = "waiting"
        /\ pieces[1].a = a0 /\ pieces[1].b = b /\ pieces[2].a = a1 /\ pieces[2].b = b
    BY <2>3, <2>p
  <2>5. PICK h : h = Head0
    OBVIOUS
  <2>6. \A i \in 1..2 : Piece(h, i, pieces[i].a, pieces[i].b)'
    BY <1>1, <2>1, <2>2, <2>4, <2>5, NewPiece
  <2>7. /\ nodes'[h].made = "a" /\ nodes'[h].cut_a = a0 /\ nodes'[h].cut_b = b
        /\ nodes'[h].a = Node0.a /\ nodes'[h].b = Node0.b
    BY <1>3, <2>1, <2>2, <2>4, <2>5
  <2>8. CutRight(h)'
    BY <2>2, <2>4, <2>6, <2>7 DEF CutRight
  <2> QED BY <1>1, <2>1, <2>2, <2>4, <2>5, <2>8, CutsKept
<1>6. CASE SplitOnB
  <2>0. PICK b0, b1, a : b0 = Node0.b - Oriented.b /\ b1 = Oriented.b /\ a = Node0.a
    OBVIOUS
  <2>p. PICK pieces : pieces = <<Waiting(a, b0), Waiting(a, b1)>>
    OBVIOUS
  <2>1. Node0.b > Oriented.b /\ Cut("b", a, b0, pieces)
    BY <1>6, <2>0, <2>p DEF SplitOnB
  <2>2. /\ b0 \in Nat \ {0} /\ b1 \in Nat \ {0} /\ a \in Nat \ {0}
        /\ b0 <= Node0.b /\ b1 = Node0.b - b0 /\ a = Node0.a
    BY <1>2, <2>0, <2>1
  <2>3. \A b \in {b0, b1} :
           /\ Waiting(a, b) \in NodeType /\ Waiting(a, b).made = "waiting"
           /\ Waiting(a, b).a = a /\ Waiting(a, b).b = b
    BY <2>2, WaitingType
  <2>4. /\ pieces \in Seq(NodeType) /\ Len(pieces) = 2
        /\ \A i \in 1..Len(pieces) : pieces[i].made = "waiting"
        /\ pieces[1].a = a /\ pieces[1].b = b0 /\ pieces[2].a = a /\ pieces[2].b = b1
    BY <2>3, <2>p
  <2>5. PICK h : h = Head0
    OBVIOUS
  <2>6. \A i \in 1..2 : Piece(h, i, pieces[i].a, pieces[i].b)'
    BY <1>1, <2>1, <2>2, <2>4, <2>5, NewPiece
  <2>7. /\ nodes'[h].made = "b" /\ nodes'[h].cut_a = a /\ nodes'[h].cut_b = b0
        /\ nodes'[h].a = Node0.a /\ nodes'[h].b = Node0.b
    BY <1>3, <2>1, <2>2, <2>4, <2>5
  <2>8. CutRight(h)'
    BY <2>2, <2>4, <2>6, <2>7 DEF CutRight
  <2> QED BY <1>1, <2>1, <2>2, <2>4, <2>5, <2>8, CutsKept
<1> QED BY <1>4, <1>5, <1>6
(* Keeping the head of the list, as wide as it was or padded.              *)
LEMMA LeafKeepsCuts ==
  ASSUME SplitIInv, SplitIInv', CutsInv, mult_list # <<>>,
         NEW made \in {"hard", "soft", "left"}, NEW a \in Nat, NEW b \in Nat,
         a >= Node0.a, b >= Node0.b,
         nodes' = [nodes EXCEPT ![Head0] = [@ EXCEPT !.a = a, !.b = b, !.made = made]]
  PROVE  CutsInv'
<1>1. /\ nodes \in Seq(NodeType) /\ Len(nodes) \in Nat /\ DOMAIN nodes = 1..Len(nodes)
      /\ Head0 \in 1..Len(nodes) /\ nodes[Head0] = Node0
      /\ Node0 \in NodeType /\ Node0.made = "waiting"
  <2>1. nodes \in Seq(NodeType)
    BY DEF SplitIInv, SplitTypeOK, NodeType
  <2> QED BY <2>1, HeadNode
<1>2. nodes' \in Seq(NodeType)
  BY DEF SplitIInv, SplitTypeOK, NodeType
<1>3. /\ nodes'[Head0].a = a /\ nodes'[Head0].b = b /\ nodes'[Head0].made = made
      /\ \A n \in 1..Len(nodes) : n # Head0 => nodes'[n] = nodes[n]
      /\ Len(nodes') = Len(nodes)
  BY <1>1, <1>2 DEF NodeType
<1>4. CutsStay
  <2>1. \A n \in 1..Len(nodes) : nodes[n] \in NodeType
    BY <1>1
  <2>2. \A n \in 1..Len(nodes) : nodes[n].a \in Nat /\ nodes[n].b \in Nat
    BY <2>1 DEF NodeType
  <2>3. ASSUME NEW n \in 1..Len(nodes)
        PROVE  /\ nodes'[n].a >= nodes[n].a /\ nodes'[n].b >= nodes[n].b
               /\ nodes[n].made \in {"both", "a", "b"} => nodes'[n] = nodes[n]
    <3>1. CASE n = Head0
      BY <1>1, <1>3, <3>1
    <3>2. CASE n # Head0
      <4>1. nodes'[n] = nodes[n]
        BY <1>3, <3>2
      <4>2. nodes[n].a \in Nat /\ nodes[n].b \in Nat
        BY <2>2
      <4>3. nodes[n].a >= nodes[n].a /\ nodes[n].b >= nodes[n].b
        BY <4>2
      <4> QED BY <4>1, <4>3, Zenon
    <3> QED BY <3>1, <3>2
  <2> QED BY <1>1, <1>3, <2>3 DEF CutsStay
<1>5. ASSUME NEW n \in 1..Len(nodes') PROVE CutRight(n)'
  <2>1. n \in 1..Len(nodes)
    BY <1>3
  <2>2. CASE nodes[n].made \in {"both", "a", "b"}
    BY <1>4, <2>1, <2>2, CutsStayRight
  <2>3. CASE nodes[n].made \notin {"both", "a", "b"}
    <3>1. nodes'[n].made \notin {"both", "a", "b"}
      <4>1. CASE n = Head0
        BY <1>3, <4>1
      <4>2. CASE n # Head0
        <5>1. nodes'[n] = nodes[n]
          BY <1>3, <2>1, <4>2
        <5> QED BY <2>3, <5>1
      <4> QED BY <4>1, <4>2
    <3> QED BY <3>1 DEF CutRight
  <2> QED BY <2>2, <2>3
<1> QED BY <1>5 DEF CutsInv

LEMMA SameNodesKeepCuts ==
  ASSUME CutsInv, nodes' = nodes PROVE CutsInv'
BY DEF CutsInv, CutRight, Piece

(***************************************************************************)
(* Every node that was cut has the pieces its cut calls for, made after it *)
(* and never narrowed.                                                     *)
(***************************************************************************)
THEOREM PiecesRight == SplitSpec => []CutsInv
<1>1. SplitInit => CutsInv
  <2> SUFFICES ASSUME SplitInit PROVE CutsInv
    OBVIOUS
  <2>1. SplitIInv
    BY SplitInitInv
  <2>2. \A m \in DOMAIN nodes : nodes[m].made = "waiting"
    BY DEF SplitInit, Waiting
  <2>3. DOMAIN nodes = 1..Len(nodes)
    BY <2>1 DEF SplitIInv, SplitTypeOK
  <2> QED BY <2>2, <2>3 DEF CutsInv, CutRight
<1>2. SplitIInv /\ SplitIInv' /\ CutsInv /\ [SplitNext]_split_vars => CutsInv'
  <2> SUFFICES ASSUME SplitIInv, SplitIInv', CutsInv, [SplitNext]_split_vars PROVE CutsInv'
    OBVIOUS
  <2>1. CASE SplitBoth \/ SplitOnA \/ SplitOnB
    BY <2>1, SplitKeepsCuts
  <2>2. ASSUME mult_list # <<>>, NEW made \in {"hard", "soft", "left"},
               nodes' = [nodes EXCEPT ![Head0].made = made]
        PROVE  CutsInv'
    <3> DEFINE a == Node0.a
               b == Node0.b
    <3>1. /\ nodes \in Seq(NodeType) /\ Head0 \in DOMAIN nodes /\ nodes[Head0] = Node0
          /\ Node0 \in NodeType
      <4>1. nodes \in Seq(NodeType)
        BY DEF SplitIInv, SplitTypeOK, NodeType
      <4> QED BY <2>2, <4>1, HeadNode
    <3>2. PICK k, l : k = a /\ l = b
      OBVIOUS
    <3>3. k \in Nat /\ l \in Nat /\ k >= Node0.a /\ l >= Node0.b
      BY <3>1, <3>2 DEF NodeType
    <3>4. [nodes[Head0] EXCEPT !.made = made]
            = [nodes[Head0] EXCEPT !.a = k, !.b = l, !.made = made]
      BY <3>1, <3>2 DEF NodeType
    <3>5. nodes' = [nodes EXCEPT ![Head0] = [@ EXCEPT !.a = k, !.b = l, !.made = made]]
      BY <2>2, <3>1, <3>4
    <3> QED BY <2>2, <3>3, <3>5, LeafKeepsCuts
  <2>3. CASE KeepHard
    BY <2>2, <2>3 DEF KeepHard
  <2>4. CASE KeepSoft
    <3>1. PICK made \in {"soft", "left"} : nodes' = [nodes EXCEPT ![Head0].made = made]
      BY <2>4 DEF KeepSoft
    <3> QED BY <2>2, <2>4, <3>1 DEF KeepSoft
  <2>5. CASE PadMultiplier
    <3>1. mult_list # <<>>
      BY <2>5 DEF PadMultiplier
    <3>2. PICK p \in {Full} \cup {PbTypes[i] : i \in 1..Len(PbTypes)} :
            nodes' = IF TooNarrow(p) THEN nodes
                      ELSE [nodes EXCEPT ![Head0] =
                              [@ EXCEPT !.a = p.a, !.b = p.b, !.made = "hard"]]
      BY <2>5 DEF PadMultiplier
    <3>3. CASE TooNarrow(p)
      BY <3>2, <3>3, SameNodesKeepCuts
    <3>4. CASE ~TooNarrow(p)
      <4>1. p \in Widths
        <5>1. Full \in Widths /\ PbTypes \in Seq(Widths)
          BY SizesType DEF SplitIInv, SplitTypeOK, IsSplitArch, PbTypes
        <5> QED BY <5>1
      <4>2. p.a \in Nat /\ p.b \in Nat
        BY <4>1 DEF Widths
      <4>3. Node0.a \in Nat /\ Node0.b \in Nat
        BY <3>1, HeadFacts DEF NodeType
      <4>4. p.a >= Node0.a /\ p.b >= Node0.b
        BY <3>4, <4>2, <4>3 DEF TooNarrow
      <4> QED BY <3>1, <3>2, <3>4, <4>2, <4>4, LeafKeepsCuts
    <3> QED BY <3>3, <3>4
  <2>6. CASE Done \/ UNCHANGED split_vars
    BY <2>6, SameNodesKeepCuts DEF Done, split_vars
  <2> QED BY <2>1, <2>3, <2>4, <2>5, <2>6 DEF SplitNext
<1> QED BY <1>1, <1>2, SplittingCorrect, PTL DEF SplitSpec
-----------------------------------------------------------------------------
(* Value and SoundCuts are recursions towards the pieces                   *)

Arguments == (DOMAIN nodes) \X Nat \X Nat

(* Their bodies, over the values of the pieces.                            *)
ValueStep(p, f) ==
  LET m == nodes[p[1]]
      x0 == Low(p[2], m.cut_a)
      x1 == High(p[2], m.cut_a)
      y0 == Low(p[3], m.cut_b)
      y1 == High(p[3], m.cut_b)
  IN  CASE m.made = "both" ->
             JoinBoth(m, f[<<m.pieces[1], x0, y0>>], f[<<m.pieces[2], x1, y1>>],
                         f[<<m.pieces[3], x0, y1>>], f[<<m.pieces[4], x1, y0>>])
        [] m.made = "a" -> JoinA(m, f[<<m.pieces[1], x0, y0>>], f[<<m.pieces[2], x1, y0>>])
        [] m.made = "b" -> JoinB(m, f[<<m.pieces[1], x0, y0>>], f[<<m.pieces[2], x0, y1>>])
        [] OTHER -> p[2] * p[3]

SoundStep(p, f) ==
  LET m == nodes[p[1]]
      x0 == Low(p[2], m.cut_a)
      x1 == High(p[2], m.cut_a)
      y0 == Low(p[3], m.cut_b)
      y1 == High(p[3], m.cut_b)
  IN  CASE m.made = "both" ->
             /\ m.cut_a = m.cut_b
             /\ f[<<m.pieces[1], x0, y0>>] /\ f[<<m.pieces[2], x1, y1>>]
             /\ f[<<m.pieces[3], x0, y1>>] /\ f[<<m.pieces[4], x1, y0>>]
        [] m.made = "a" -> f[<<m.pieces[1], x0, y0>>] /\ f[<<m.pieces[2], x1, y0>>]
        [] m.made = "b" ->
             /\ TopBit(m, x0 * y0) = 0
             /\ f[<<m.pieces[1], x0, y0>>] /\ f[<<m.pieces[2], x0, y1>>]
        [] OTHER -> TRUE

(* The pieces that the bodies look at, with their operands.                *)
Looked(p, i) ==
  LET m == nodes[p[1]]
  IN  CASE m.made = "both" -> i \in 1..4
        [] m.made \in {"a", "b"} -> i \in 1..2
        [] OTHER -> FALSE

(* The rank: a piece comes after the node it is a piece of.                *)
Height == [p \in Arguments |-> Len(nodes) - p[1]]

LEMMA ArgumentFacts ==
  ASSUME SplitIInv, CutsInv, NEW p \in Arguments
  PROVE  /\ p[1] \in 1..Len(nodes) /\ p[2] \in Nat /\ p[3] \in Nat /\ p = <<p[1], p[2], p[3]>>
         /\ nodes[p[1]] \in NodeType
         /\ LET m == nodes[p[1]]
            IN  /\ m.cut_a \in Nat /\ m.cut_b \in Nat /\ m.a \in Nat /\ m.b \in Nat
                /\ Low(p[2], m.cut_a) \in Nat /\ High(p[2], m.cut_a) \in Nat
                /\ Low(p[3], m.cut_b) \in Nat /\ High(p[3], m.cut_b) \in Nat
                /\ m.made \in {"both", "a", "b"} => m.cut_a <= m.a /\ m.cut_b <= m.b
                /\ \A i : Looked(p, i) => \A x, y \in Nat :
                     /\ <<m.pieces[i], x, y>> \in Arguments
                     /\ Height[<<m.pieces[i], x, y>>] < Height[p]
<1>1. /\ nodes \in Seq(NodeType) /\ Len(nodes) \in Nat /\ DOMAIN nodes = 1..Len(nodes)
  <2>1. nodes \in Seq(NodeType)
    BY DEF SplitIInv, SplitTypeOK, NodeType
  <2> QED BY <2>1
<1>2. p[1] \in 1..Len(nodes) /\ p[2] \in Nat /\ p[3] \in Nat /\ p = <<p[1], p[2], p[3]>>
  BY <1>1 DEF Arguments
<1> DEFINE m == nodes[p[1]]
<1>3. m \in NodeType
  BY <1>1, <1>2
<1>4. m.cut_a \in Nat /\ m.cut_b \in Nat /\ m.a \in Nat /\ m.b \in Nat
  BY <1>3 DEF NodeType
<1>5. /\ Low(p[2], m.cut_a) \in Nat /\ High(p[2], m.cut_a) \in Nat
      /\ Low(p[3], m.cut_b) \in Nat /\ High(p[3], m.cut_b) \in Nat
  BY <1>2, <1>4, LowHigh
<1>6. CutRight(p[1])
  BY <1>2 DEF CutsInv
<1>7. ASSUME NEW i, Looked(p, i), NEW x \in Nat, NEW y \in Nat
      PROVE  <<m.pieces[i], x, y>> \in Arguments /\ Height[<<m.pieces[i], x, y>>] < Height[p]
  <2>1. m.pieces[i] \in p[1] + 1 .. Len(nodes)
    <3>1. CASE m.made = "both"
      <4>1. i \in 1..4
        BY <1>7, <3>1 DEF Looked
      <4>2. \A j \in 1..4 : m.pieces[j] \in p[1] + 1 .. Len(nodes)
        BY <1>6, <3>1 DEF CutRight, Piece
      <4> QED BY <4>1, <4>2
    <3>2. CASE m.made \in {"a", "b"}
      <4>1. i \in 1..2
        BY <1>7, <3>2 DEF Looked
      <4>2. \A j \in 1..2 : m.pieces[j] \in p[1] + 1 .. Len(nodes)
        BY <1>6, <3>2 DEF CutRight, Piece
      <4> QED BY <4>1, <4>2
    <3>3. CASE m.made \notin {"both", "a", "b"}
      BY <1>7, <3>3 DEF Looked
    <3> QED BY <3>1, <3>2, <3>3
  <2> DEFINE k == m.pieces[i]
             q == <<k, x, y>>
  <2>2. k \in 1..Len(nodes) /\ k > p[1]
    BY <1>1, <1>2, <2>1
  <2> HIDE DEF k
  <2>3. q \in Arguments /\ q[1] = k
    BY <1>1, <2>2 DEF Arguments
  <2> HIDE DEF q
  <2>4. Height[q] = Len(nodes) - k /\ Height[p] = Len(nodes) - p[1]
    BY <2>3 DEF Height
  <2>5. Height[q] < Height[p]
    BY <1>1, <1>2, <2>2, <2>4
  <2> QED BY <2>3, <2>5 DEF k, q
<1>8. m.made \in {"both", "a", "b"} => m.cut_a <= m.a /\ m.cut_b <= m.b
  BY <1>6 DEF CutRight
<1> QED BY <1>2, <1>3, <1>4, <1>5, <1>7, <1>8
LEMMA BitsType ==
  ASSUME NEW x \in Int, NEW w \in Nat
  PROVE  Low(x, w) \in Int /\ High(x, w) \in Int
<1> DEFINE p == Pow2[w]
<1>1. p \in Nat \ {0}
  BY Pow2Type
<1> HIDE DEF p
<1>2. x % p \in Int /\ x \div p \in Int
  BY <1>1, Z3
<1> QED BY <1>2 DEF Low, High, p

LEMMA JoinTypes ==
  ASSUME NEW m \in NodeType, m.cut_a <= m.a, m.cut_b <= m.b,
         NEW p \in Int, NEW q \in Int
  PROVE  /\ JoinA(m, p, q) \in Int /\ JoinB(m, p, q) \in Int
         /\ \A r, s \in Int : JoinBoth(m, p, q, r, s) \in Int
<1>1. m.cut_a \in Nat /\ m.cut_b \in Nat /\ m.a \in Nat /\ m.b \in Nat
  BY DEF NodeType
<1>2. Pow2[m.cut_a] \in Int /\ Pow2[m.cut_b] \in Int
  BY <1>1, Pow2Type
<1>3. JoinA(m, p, q) \in Int
  <2> DEFINE h == High(p, m.cut_a) + q
             w == m.a - m.cut_a + m.b
  <2>1. w \in Nat
    BY <1>1
  <2>2. h \in Int /\ Low(p, m.cut_a) \in Int
    <3>1. High(p, m.cut_a) \in Int /\ Low(p, m.cut_a) \in Int
      BY <1>1, BitsType
    <3> QED BY <3>1
  <2> HIDE DEF h, w
  <2>3. Low(h, w) \in Int
    BY <2>1, <2>2, BitsType
  <2> QED BY <1>2, <2>2, <2>3 DEF JoinA, h, w
<1>4. JoinB(m, p, q) \in Int
  <2> DEFINE w == m.a + m.b - m.cut_b
             e == TopBit(m, p) * (Pow2[w] - Pow2[m.a])
             h == High(p, m.cut_b) + e + q
  <2>1. w \in Nat
    BY <1>1
  <2>2. TopBit(m, p) \in Int
    <3>1. CASE m.a + m.cut_b - 1 \in Nat
      BY <3>1, BitsType DEF TopBit
    <3>2. CASE m.a + m.cut_b - 1 \notin Nat
      BY <1>1, <3>2 DEF NodeType
    <3> QED BY <3>1, <3>2
  <2>3. Pow2[w] \in Int /\ Pow2[m.a] \in Int
    BY <1>1, <2>1, Pow2Type
  <2> HIDE DEF w
  <2>4. e \in Int
    BY <2>2, <2>3
  <2> HIDE DEF e
  <2>5. h \in Int /\ Low(p, m.cut_b) \in Int
    <3>1. High(p, m.cut_b) \in Int /\ Low(p, m.cut_b) \in Int
      BY <1>1, BitsType
    <3> QED BY <2>4, <3>1
  <2> HIDE DEF h
  <2>6. Low(h, w) \in Int
    BY <2>1, <2>5, BitsType
  <2> QED BY <1>2, <2>5, <2>6 DEF JoinB, h, w, e
<1>5. ASSUME NEW r \in Int, NEW s \in Int PROVE JoinBoth(m, p, q, r, s) \in Int
  <2> DEFINE a1 == m.a - m.cut_a
             b1 == m.b - m.cut_b
             small == LargerSize(a1 + m.cut_b + 1, m.cut_a + b1 + 1)
             big == LargerSize(small, m.a + b1)
             sum == Low(s + r, small)
             h == sum + High(p, m.cut_b) + q * Pow2[m.cut_a]
  <2>1. /\ a1 + m.cut_b + 1 \in Nat /\ m.cut_a + b1 + 1 \in Nat /\ m.a + b1 \in Nat
    BY <1>1
  <2>2. small \in Nat
    BY <2>1, LargerFacts
  <2>3. big \in Nat
    BY <2>1, <2>2, LargerFacts
  <2> HIDE DEF small, big
  <2>4. sum \in Int
    BY <1>5, <2>2, BitsType
  <2>5. h \in Int /\ Low(p, m.cut_b) \in Int
    <3>1. High(p, m.cut_b) \in Int /\ Low(p, m.cut_b) \in Int
      BY <1>1, BitsType
    <3>2. q * Pow2[m.cut_a] \in Int
      BY <1>2
    <3> HIDE DEF sum
    <3> QED BY <2>4, <3>1, <3>2
  <2> HIDE DEF h
  <2>6. Low(h, big) \in Int
    BY <2>3, <2>5, BitsType
  <2> QED BY <1>2, <2>5, <2>6 DEF JoinBoth, h, small, big
<1> QED BY <1>3, <1>4, <1>5

(* Value satisfies its equation.                                           *)
LEMMA ValueUnfolds ==
  ASSUME SplitIInv, CutsInv
  PROVE  \A p \in Arguments : Value[p] = ValueStep(p, Value)
<1> DEFINE Outputs == [Arguments -> Int]
           H == [q \in Arguments \X Outputs |-> ValueStep(q[1], q[2])]
           Eq(f) == f = [p \in Arguments |-> ValueStep(p, f)]
<1>0. Len(nodes) \in Nat
  BY DEF SplitIInv, SplitTypeOK
<1>1. Height \in [Arguments -> Nat]
  <2>1. \A p \in Arguments : Len(nodes) - p[1] \in Nat
    BY <1>0, ArgumentFacts
  <2> QED BY <2>1 DEF Height
<1>2. ASSUME NEW p \in Arguments, NEW f \in Outputs
      PROVE  ValueStep(p, f) \in Int
  <2> DEFINE m == nodes[p[1]]
  <2>1. /\ m \in NodeType
        /\ Low(p[2], m.cut_a) \in Nat /\ High(p[2], m.cut_a) \in Nat
        /\ Low(p[3], m.cut_b) \in Nat /\ High(p[3], m.cut_b) \in Nat
        /\ m.made \in {"both", "a", "b"} => m.cut_a <= m.a /\ m.cut_b <= m.b
        /\ p[2] \in Nat /\ p[3] \in Nat
    BY ArgumentFacts, Zenon
  <2>2. ASSUME NEW i, Looked(p, i), NEW x \in Nat, NEW y \in Nat
        PROVE  f[<<m.pieces[i], x, y>>] \in Int
    <3>1. <<m.pieces[i], x, y>> \in Arguments
      BY <2>2, ArgumentFacts, Zenon
    <3> QED BY <3>1
  <2>3. CASE m.made = "both"
    <3>1. \A i \in 1..4 : Looked(p, i)
      BY <2>3 DEF Looked
    <3> DEFINE v(i, x, y) == f[<<m.pieces[i], x, y>>]
    <3>2. \A i \in 1..4 : \A x, y \in Nat : v(i, x, y) \in Int
      BY <2>2, <3>1
    <3>3. 1 \in 1..4 /\ 2 \in 1..4 /\ 3 \in 1..4 /\ 4 \in 1..4
      OBVIOUS
    <3>4. ValueStep(p, f) =
            JoinBoth(m, v(1, Low(p[2], m.cut_a), Low(p[3], m.cut_b)),
                        v(2, High(p[2], m.cut_a), High(p[3], m.cut_b)),
                        v(3, Low(p[2], m.cut_a), High(p[3], m.cut_b)),
                        v(4, High(p[2], m.cut_a), Low(p[3], m.cut_b)))
      BY <2>3 DEF ValueStep
    <3> HIDE DEF v, m
    <3>5. \A j, k, r, s \in Int : JoinBoth(m, j, k, r, s) \in Int
      BY <2>1, <2>3, JoinTypes
    <3>6. /\ v(1, Low(p[2], m.cut_a), Low(p[3], m.cut_b)) \in Int
          /\ v(2, High(p[2], m.cut_a), High(p[3], m.cut_b)) \in Int
          /\ v(3, Low(p[2], m.cut_a), High(p[3], m.cut_b)) \in Int
          /\ v(4, High(p[2], m.cut_a), Low(p[3], m.cut_b)) \in Int
      BY <2>1, <3>2, <3>3
    <3> QED BY <3>4, <3>5, <3>6
  <2>4. CASE m.made \in {"a", "b"}
    <3>1. \A i \in 1..2 : Looked(p, i)
      BY <2>4 DEF Looked
    <3> DEFINE v(i, x, y) == f[<<m.pieces[i], x, y>>]
    <3>2. \A i \in 1..2 : \A x, y \in Nat : v(i, x, y) \in Int
      BY <2>2, <3>1
    <3>3. 1 \in 1..2 /\ 2 \in 1..2
      OBVIOUS
    <3>4. m.made = "a" => ValueStep(p, f) =
            JoinA(m, v(1, Low(p[2], m.cut_a), Low(p[3], m.cut_b)),
                     v(2, High(p[2], m.cut_a), Low(p[3], m.cut_b)))
      BY DEF ValueStep
    <3>5. m.made = "b" => ValueStep(p, f) =
            JoinB(m, v(1, Low(p[2], m.cut_a), Low(p[3], m.cut_b)),
                     v(2, Low(p[2], m.cut_a), High(p[3], m.cut_b)))
      BY DEF ValueStep
    <3> HIDE DEF v, m
    <3> QED BY <2>1, <2>4, <3>2, <3>3, <3>4, <3>5, JoinTypes
  <2>5. CASE m.made \notin {"both", "a", "b"}
    <3>1. ValueStep(p, f) = p[2] * p[3]
      BY <2>5 DEF ValueStep
    <3> QED BY <2>1, <3>1
  <2> QED BY <2>3, <2>4, <2>5
<1>3. ASSUME NEW p \in Arguments, NEW f \in Outputs, NEW g \in Outputs,
             \A q \in Arguments : Height[q] < Height[p] => f[q] = g[q]
      PROVE  ValueStep(p, f) = ValueStep(p, g)
  <2> DEFINE m == nodes[p[1]]
             x0 == Low(p[2], m.cut_a)
             x1 == High(p[2], m.cut_a)
             y0 == Low(p[3], m.cut_b)
             y1 == High(p[3], m.cut_b)
  <2>1. x0 \in Nat /\ x1 \in Nat /\ y0 \in Nat /\ y1 \in Nat
    BY ArgumentFacts, Zenon
  <2>2. ASSUME NEW i, Looked(p, i), NEW x \in Nat, NEW y \in Nat
        PROVE  f[<<m.pieces[i], x, y>>] = g[<<m.pieces[i], x, y>>]
    BY <1>3, <2>2, ArgumentFacts, Zenon
  <2> HIDE DEF x0, x1, y0, y1
  <2>3. CASE m.made = "both"
    <3>1. Looked(p, 1) /\ Looked(p, 2) /\ Looked(p, 3) /\ Looked(p, 4)
      BY <2>3 DEF Looked
    <3>2. /\ f[<<m.pieces[1], x0, y0>>] = g[<<m.pieces[1], x0, y0>>]
          /\ f[<<m.pieces[2], x1, y1>>] = g[<<m.pieces[2], x1, y1>>]
          /\ f[<<m.pieces[3], x0, y1>>] = g[<<m.pieces[3], x0, y1>>]
          /\ f[<<m.pieces[4], x1, y0>>] = g[<<m.pieces[4], x1, y0>>]
      BY <2>1, <2>2, <3>1
    <3> QED BY <2>3, <3>2, Zenon DEF ValueStep, x0, x1, y0, y1
  <2>4. CASE m.made \in {"a", "b"}
    <3>1. Looked(p, 1) /\ Looked(p, 2)
      BY <2>4 DEF Looked
    <3>2. /\ f[<<m.pieces[1], x0, y0>>] = g[<<m.pieces[1], x0, y0>>]
          /\ f[<<m.pieces[2], x1, y0>>] = g[<<m.pieces[2], x1, y0>>]
          /\ f[<<m.pieces[2], x0, y1>>] = g[<<m.pieces[2], x0, y1>>]
      BY <2>1, <2>2, <3>1
    <3> QED BY <2>4, <3>2 DEF ValueStep, x0, x1, y0, y1
  <2>5. CASE m.made \notin {"both", "a", "b"}
    BY <2>5 DEF ValueStep
  <2> QED BY <2>3, <2>4, <2>5
<1>4. IsRecursion(H, Arguments, Int, Height)
  <2>1. \A p \in Arguments, f \in Outputs : H[<<p, f>>] = ValueStep(p, f)
    OBVIOUS
  <2>2. H \in [Arguments \X Outputs -> Int]
    BY <1>2
  <2> HIDE DEF H
  <2>3. \A p \in Arguments : \A f, g \in Outputs :
          (\A q \in Arguments : Height[q] < Height[p] => f[q] = g[q]) => H[<<p, f>>] = H[<<p, g>>]
    BY <1>3, <2>1
  <2> QED BY <1>1, <2>2, <2>3, Zenon DEF IsRecursion
<1>5. \A p \in Arguments, f \in Outputs : H[<<p, f>>] = ValueStep(p, f)
  OBVIOUS
<1>6. PICK f \in Outputs : \A p \in Arguments : f[p] = H[<<p, f>>]
  <2> HIDE DEF H
  <2>1. Int # {}
    OBVIOUS
  <2> QED BY <1>4, <2>1, RecursionExists
<1>7. Eq(f)
  BY <1>5, <1>6
<1>8. Value = CHOOSE v : Eq(v)
  BY DEF Value, ValueStep, Arguments
<1> HIDE DEF Eq
<1>9. Eq(Value)
  BY <1>7, <1>8, Zenon
<1> QED BY <1>9 DEF Eq
(* And so does SoundCuts.                                                  *)
LEMMA SoundUnfolds ==
  ASSUME SplitIInv, CutsInv
  PROVE  \A p \in Arguments : SoundCuts[p] = SoundStep(p, SoundCuts)
<1> DEFINE Outputs == [Arguments -> BOOLEAN]
           H == [q \in Arguments \X Outputs |-> SoundStep(q[1], q[2])]
           Eq(f) == f = [p \in Arguments |-> SoundStep(p, f)]
<1>0. Len(nodes) \in Nat
  BY DEF SplitIInv, SplitTypeOK
<1>1. Height \in [Arguments -> Nat]
  <2>1. \A p \in Arguments : Len(nodes) - p[1] \in Nat
    BY <1>0, ArgumentFacts
  <2> QED BY <2>1 DEF Height
<1>2. ASSUME NEW p \in Arguments, NEW f \in Outputs
      PROVE  SoundStep(p, f) \in BOOLEAN
  <2> DEFINE m == nodes[p[1]]
  <2>1. /\ Low(p[2], m.cut_a) \in Nat /\ High(p[2], m.cut_a) \in Nat
        /\ Low(p[3], m.cut_b) \in Nat /\ High(p[3], m.cut_b) \in Nat
    BY ArgumentFacts, Zenon
  <2>2. ASSUME NEW i, Looked(p, i), NEW x \in Nat, NEW y \in Nat
        PROVE  f[<<m.pieces[i], x, y>>] \in BOOLEAN
    <3>1. <<m.pieces[i], x, y>> \in Arguments
      BY <2>2, ArgumentFacts, Zenon
    <3> QED BY <3>1
  <2>3. CASE m.made = "both"
    <3>1. SoundStep(p, f) =
             (/\ m.cut_a = m.cut_b
              /\ f[<<m.pieces[1], Low(p[2], m.cut_a), Low(p[3], m.cut_b)>>]
              /\ f[<<m.pieces[2], High(p[2], m.cut_a), High(p[3], m.cut_b)>>]
              /\ f[<<m.pieces[3], Low(p[2], m.cut_a), High(p[3], m.cut_b)>>]
              /\ f[<<m.pieces[4], High(p[2], m.cut_a), Low(p[3], m.cut_b)>>])
      BY <2>3 DEF SoundStep
    <3> QED BY <3>1
  <2>4. CASE m.made = "a"
    <3>1. SoundStep(p, f) =
             (/\ f[<<m.pieces[1], Low(p[2], m.cut_a), Low(p[3], m.cut_b)>>]
              /\ f[<<m.pieces[2], High(p[2], m.cut_a), Low(p[3], m.cut_b)>>])
      BY <2>4 DEF SoundStep
    <3> QED BY <3>1
  <2>5. CASE m.made = "b"
    <3>1. SoundStep(p, f) =
             (/\ TopBit(m, Low(p[2], m.cut_a) * Low(p[3], m.cut_b)) = 0
              /\ f[<<m.pieces[1], Low(p[2], m.cut_a), Low(p[3], m.cut_b)>>]
              /\ f[<<m.pieces[2], Low(p[2], m.cut_a), High(p[3], m.cut_b)>>])
      BY <2>5 DEF SoundStep
    <3> QED BY <3>1
  <2>6. CASE m.made \notin {"both", "a", "b"}
    <3>1. SoundStep(p, f) = TRUE
      BY <2>6 DEF SoundStep
    <3> QED BY <3>1
  <2> QED BY <2>3, <2>4, <2>5, <2>6
<1>3. ASSUME NEW p \in Arguments, NEW f \in Outputs, NEW g \in Outputs,
             \A q \in Arguments : Height[q] < Height[p] => f[q] = g[q]
      PROVE  SoundStep(p, f) = SoundStep(p, g)
  <2> DEFINE m == nodes[p[1]]
             x0 == Low(p[2], m.cut_a)
             x1 == High(p[2], m.cut_a)
             y0 == Low(p[3], m.cut_b)
             y1 == High(p[3], m.cut_b)
  <2>1. x0 \in Nat /\ x1 \in Nat /\ y0 \in Nat /\ y1 \in Nat
    BY ArgumentFacts, Zenon
  <2>2. ASSUME NEW i, Looked(p, i), NEW x \in Nat, NEW y \in Nat
        PROVE  f[<<m.pieces[i], x, y>>] = g[<<m.pieces[i], x, y>>]
    BY <1>3, <2>2, ArgumentFacts, Zenon
  <2> HIDE DEF x0, x1, y0, y1
  <2>3. CASE m.made = "both"
    <3>1. Looked(p, 1) /\ Looked(p, 2) /\ Looked(p, 3) /\ Looked(p, 4)
      BY <2>3 DEF Looked
    <3>2. /\ f[<<m.pieces[1], x0, y0>>] = g[<<m.pieces[1], x0, y0>>]
          /\ f[<<m.pieces[2], x1, y1>>] = g[<<m.pieces[2], x1, y1>>]
          /\ f[<<m.pieces[3], x0, y1>>] = g[<<m.pieces[3], x0, y1>>]
          /\ f[<<m.pieces[4], x1, y0>>] = g[<<m.pieces[4], x1, y0>>]
      BY <2>1, <2>2, <3>1
    <3> QED BY <2>3, <3>2, Zenon DEF SoundStep, x0, x1, y0, y1
  <2>4. CASE m.made \in {"a", "b"}
    <3>1. Looked(p, 1) /\ Looked(p, 2)
      BY <2>4 DEF Looked
    <3>2. /\ f[<<m.pieces[1], x0, y0>>] = g[<<m.pieces[1], x0, y0>>]
          /\ f[<<m.pieces[2], x1, y0>>] = g[<<m.pieces[2], x1, y0>>]
          /\ f[<<m.pieces[2], x0, y1>>] = g[<<m.pieces[2], x0, y1>>]
      BY <2>1, <2>2, <3>1
    <3> QED BY <2>4, <3>2 DEF SoundStep, x0, x1, y0, y1
  <2>5. CASE m.made \notin {"both", "a", "b"}
    BY <2>5 DEF SoundStep
  <2> QED BY <2>3, <2>4, <2>5
<1>4. IsRecursion(H, Arguments, BOOLEAN, Height)
  <2>1. \A p \in Arguments, f \in Outputs : H[<<p, f>>] = SoundStep(p, f)
    OBVIOUS
  <2>2. H \in [Arguments \X Outputs -> BOOLEAN]
    BY <1>2
  <2> HIDE DEF H
  <2>3. \A p \in Arguments : \A f, g \in Outputs :
          (\A q \in Arguments : Height[q] < Height[p] => f[q] = g[q]) => H[<<p, f>>] = H[<<p, g>>]
    BY <1>3, <2>1
  <2> QED BY <1>1, <2>2, <2>3, Zenon DEF IsRecursion
<1>5. \A p \in Arguments, f \in Outputs : H[<<p, f>>] = SoundStep(p, f)
  OBVIOUS
<1>6. PICK f \in Outputs : \A p \in Arguments : f[p] = H[<<p, f>>]
  <2> HIDE DEF H
  <2>1. BOOLEAN # {}
    OBVIOUS
  <2> QED BY <1>4, <2>1, RecursionExists
<1>7. Eq(f)
  BY <1>5, <1>6
<1>8. SoundCuts = CHOOSE v : Eq(v)
  BY DEF SoundCuts, SoundStep, Arguments
<1> HIDE DEF Eq
<1>9. Eq(SoundCuts)
  BY <1>7, <1>8, Zenon
<1> QED BY <1>9 DEF Eq
-----------------------------------------------------------------------------
(* The product of a node from those of its pieces                          *)

(* Node n computes the product of all operands it is sound for.            *)
Right(n) ==
  \A x, y \in Nat : x < Pow2[nodes[n].a] /\ y < Pow2[nodes[n].b] =>
    (SoundCuts[<<n, x, y>>] => Value[<<n, x, y>>] = x * y)

(* And so does piece i of node n for the operands of so many bits.         *)
PieceValue(n, i, a, b) ==
  \A x, y \in Nat : x < Pow2[a] /\ y < Pow2[b] =>
    (SoundCuts[<<nodes[n].pieces[i], x, y>>] => Value[<<nodes[n].pieces[i], x, y>>] = x * y)

LEMMA PieceRight ==
  ASSUME SplitIInv, NEW n \in 1..Len(nodes), \A k \in n + 1 .. Len(nodes) : Right(k),
         NEW i, NEW a \in Nat, NEW b \in Nat, Piece(n, i, a, b)
  PROVE  PieceValue(n, i, a, b)
<1> SUFFICES ASSUME NEW x \in Nat, NEW y \in Nat, x < Pow2[a], y < Pow2[b],
                    SoundCuts[<<nodes[n].pieces[i], x, y>>]
             PROVE  Value[<<nodes[n].pieces[i], x, y>>] = x * y
  BY DEF PieceValue
<1> DEFINE k == nodes[n].pieces[i]
<1>1. k \in n + 1 .. Len(nodes) /\ nodes[k].a >= a /\ nodes[k].b >= b
  BY DEF Piece
<1>2. nodes[k].a \in Nat /\ nodes[k].b \in Nat
  <2>1. nodes \in Seq(NodeType)
    BY DEF SplitIInv, SplitTypeOK, NodeType
  <2>2. Len(nodes) \in Nat
    BY <2>1
  <2> HIDE DEF k
  <2>3. k \in 1..Len(nodes)
    BY <1>1, <2>2
  <2>4. nodes[k] \in NodeType
    BY <2>1, <2>3
  <2> QED BY <2>4 DEF NodeType
<1> HIDE DEF k
<1>3. Pow2[a] <= Pow2[nodes[k].a] /\ Pow2[b] <= Pow2[nodes[k].b]
  BY <1>1, <1>2, Pow2Monotone
<1>4. /\ Pow2[a] \in Nat /\ Pow2[nodes[k].a] \in Nat
      /\ Pow2[b] \in Nat /\ Pow2[nodes[k].b] \in Nat
  BY <1>2, Pow2Type
<1>5. x < Pow2[nodes[k].a] /\ y < Pow2[nodes[k].b]
  <2> DEFINE p == Pow2[a]
             q == Pow2[nodes[k].a]
             r == Pow2[b]
             t == Pow2[nodes[k].b]
  <2>1. p \in Nat /\ q \in Nat /\ r \in Nat /\ t \in Nat /\ p <= q /\ r <= t
    BY <1>3, <1>4
  <2>2. x < p /\ y < r
    OBVIOUS
  <2> HIDE DEF p, q, r, t
  <2>3. x < q /\ y < t
    BY <2>1, <2>2
  <2> QED BY <2>3 DEF q, t
<1>6. Right(k)
  BY <1>1
<1>7. SoundCuts[<<k, x, y>>] => Value[<<k, x, y>>] = x * y
  BY <1>5, <1>6 DEF Right
<1> QED BY <1>7 DEF k

LEMMA NodeRight ==
  ASSUME SplitIInv, CutsInv, NEW n \in 1..Len(nodes),
         \A k \in n + 1 .. Len(nodes) : Right(k)
  PROVE  Right(n)
<1> DEFINE m == nodes[n]
<1> SUFFICES ASSUME NEW x \in Nat, NEW y \in Nat, x < Pow2[m.a], y < Pow2[m.b],
                    SoundCuts[<<n, x, y>>]
             PROVE  Value[<<n, x, y>>] = x * y
  BY DEF Right
<1> DEFINE p == <<n, x, y>>
           a1 == m.a - m.cut_a
           b1 == m.b - m.cut_b
           x0 == Low(x, m.cut_a)
           x1 == High(x, m.cut_a)
           y0 == Low(y, m.cut_b)
           y1 == High(y, m.cut_b)
<1>1. p \in Arguments /\ p[1] = n /\ p[2] = x /\ p[3] = y
  <2>1. nodes \in Seq(NodeType)
    BY DEF SplitIInv, SplitTypeOK, NodeType
  <2>2. n \in DOMAIN nodes
    BY <2>1
  <2> QED BY <2>2 DEF Arguments
<1>2. SoundStep(p, SoundCuts) /\ Value[p] = ValueStep(p, Value)
  <2>1. SoundCuts[p] = SoundStep(p, SoundCuts)
    BY <1>1, SoundUnfolds
  <2>2. Value[p] = ValueStep(p, Value)
    BY <1>1, ValueUnfolds
  <2> QED BY <2>1, <2>2
<1>3. /\ m \in NodeType
      /\ m.cut_a \in Nat /\ m.cut_b \in Nat /\ m.a \in Nat /\ m.b \in Nat
      /\ m.made \in {"both", "a", "b"} => m.cut_a <= m.a /\ m.cut_b <= m.b
  <2>1. /\ nodes[p[1]] \in NodeType
        /\ nodes[p[1]].cut_a \in Nat /\ nodes[p[1]].cut_b \in Nat
        /\ nodes[p[1]].a \in Nat /\ nodes[p[1]].b \in Nat
        /\ nodes[p[1]].made \in {"both", "a", "b"} =>
              nodes[p[1]].cut_a <= nodes[p[1]].a /\ nodes[p[1]].cut_b <= nodes[p[1]].b
    BY <1>1, ArgumentFacts, Zenon
  <2> QED BY <1>1, <2>1
<1>4. CutRight(n)
  BY DEF CutsInv
<1>5. /\ x0 \in Nat /\ x1 \in Nat /\ y0 \in Nat /\ y1 \in Nat
      /\ x0 < Pow2[m.cut_a] /\ y0 < Pow2[m.cut_b]
  BY <1>3, LowHigh
<1>6. CASE m.made = "both"
  <2>1. m.cut_a <= m.a /\ m.cut_b <= m.b /\ a1 \in Nat /\ b1 \in Nat
    BY <1>3, <1>6
  <2>2. x1 < Pow2[a1] /\ y1 < Pow2[b1]
    BY <1>3, <2>1, HighBound
  <2>3. /\ Piece(n, 1, m.cut_a, m.cut_b) /\ Piece(n, 2, a1, b1)
        /\ Piece(n, 3, m.cut_a, b1) /\ Piece(n, 4, a1, m.cut_b)
    BY <1>4, <1>6 DEF CutRight
  <2>4. /\ m.cut_a = m.cut_b
        /\ SoundCuts[<<m.pieces[1], x0, y0>>] /\ SoundCuts[<<m.pieces[2], x1, y1>>]
        /\ SoundCuts[<<m.pieces[3], x0, y1>>] /\ SoundCuts[<<m.pieces[4], x1, y0>>]
    BY <1>1, <1>2, <1>6 DEF SoundStep
  <2>5. Value[p] = JoinBoth(m, Value[<<m.pieces[1], x0, y0>>], Value[<<m.pieces[2], x1, y1>>],
                               Value[<<m.pieces[3], x0, y1>>], Value[<<m.pieces[4], x1, y0>>])
    BY <1>1, <1>2, <1>6 DEF ValueStep
  <2> HIDE DEF a1, b1, x0, x1, y0, y1, p
  <2>6. /\ Value[<<m.pieces[1], x0, y0>>] = x0 * y0
        /\ Value[<<m.pieces[2], x1, y1>>] = x1 * y1
        /\ Value[<<m.pieces[3], x0, y1>>] = x0 * y1
        /\ Value[<<m.pieces[4], x1, y0>>] = x1 * y0
    <3>0. /\ PieceValue(n, 1, m.cut_a, m.cut_b) /\ PieceValue(n, 2, a1, b1)
          /\ PieceValue(n, 3, m.cut_a, b1) /\ PieceValue(n, 4, a1, m.cut_b)
      BY <1>3, <2>1, <2>3, PieceRight
    <3>1. Value[<<m.pieces[1], x0, y0>>] = x0 * y0
      BY <1>3, <1>5, <2>3, <2>4, <3>0, ZenonT(60) DEF PieceValue
    <3>2. Value[<<m.pieces[2], x1, y1>>] = x1 * y1
      BY <1>5, <2>1, <2>2, <2>3, <2>4, <3>0 DEF PieceValue
    <3>3. Value[<<m.pieces[3], x0, y1>>] = x0 * y1
      BY <1>3, <1>5, <2>1, <2>2, <2>3, <2>4, <3>0 DEF PieceValue
    <3>4. Value[<<m.pieces[4], x1, y0>>] = x1 * y0
      BY <1>3, <1>5, <2>1, <2>2, <2>3, <2>4, <3>0 DEF PieceValue
    <3> QED BY <3>1, <3>2, <3>3, <3>4
  <2>7. Value[p] = JoinBoth(m, x0 * y0, x1 * y1, x0 * y1, x1 * y0)
    BY <2>5, <2>6
  <2>8. JoinBoth(m, x0 * y0, x1 * y1, x0 * y1, x1 * y0) = x * y
    BY <1>3, <2>1, <2>4, JoinBothExact DEF x0, x1, y0, y1
  <2> QED BY <2>7, <2>8 DEF p
<1>7. CASE m.made = "a"
  <2>1. m.cut_a <= m.a /\ a1 \in Nat
    BY <1>3, <1>7
  <2>2. x1 < Pow2[a1]
    BY <1>3, <2>1, HighBound
  <2>3. m.cut_b = m.b /\ Piece(n, 1, m.cut_a, m.b) /\ Piece(n, 2, a1, m.b)
    BY <1>4, <1>7 DEF CutRight
  <2>4. SoundCuts[<<m.pieces[1], x0, y0>>] /\ SoundCuts[<<m.pieces[2], x1, y0>>]
    BY <1>1, <1>2, <1>7 DEF SoundStep
  <2>5. Value[p] = JoinA(m, Value[<<m.pieces[1], x0, y0>>], Value[<<m.pieces[2], x1, y0>>])
    BY <1>1, <1>2, <1>7 DEF ValueStep
  <2>6. y0 = y
    BY <1>3, <2>3, LowSmall
  <2> HIDE DEF a1, x0, x1, y0, p
  <2>7. /\ Value[<<m.pieces[1], x0, y0>>] = x0 * y0
        /\ Value[<<m.pieces[2], x1, y0>>] = x1 * y0
    <3>0. PieceValue(n, 1, m.cut_a, m.b) /\ PieceValue(n, 2, a1, m.b)
      BY <1>3, <2>1, <2>3, PieceRight
    <3>1. Value[<<m.pieces[1], x0, y0>>] = x0 * y0
      BY <1>3, <1>5, <2>3, <2>4, <2>6, <3>0 DEF PieceValue
    <3>2. Value[<<m.pieces[2], x1, y0>>] = x1 * y0
      BY <1>3, <1>5, <2>1, <2>2, <2>3, <2>4, <2>6, <3>0 DEF PieceValue
    <3> QED BY <3>1, <3>2
  <2>8. Value[p] = JoinA(m, x0 * y, x1 * y)
    BY <2>5, <2>6, <2>7
  <2>9. JoinA(m, x0 * y, x1 * y) = x * y
    BY <1>3, <2>1, JoinAExact DEF x0, x1
  <2> QED BY <2>8, <2>9 DEF p
<1>8. CASE m.made = "b"
  <2>1. m.cut_b <= m.b /\ b1 \in Nat
    BY <1>3, <1>8
  <2>2. y1 < Pow2[b1]
    BY <1>3, <2>1, HighBound
  <2>3. m.cut_a = m.a /\ Piece(n, 1, m.a, m.cut_b) /\ Piece(n, 2, m.a, b1)
    BY <1>4, <1>8 DEF CutRight
  <2>4. /\ TopBit(m, x0 * y0) = 0
        /\ SoundCuts[<<m.pieces[1], x0, y0>>] /\ SoundCuts[<<m.pieces[2], x0, y1>>]
    BY <1>1, <1>2, <1>8 DEF SoundStep
  <2>5. Value[p] = JoinB(m, Value[<<m.pieces[1], x0, y0>>], Value[<<m.pieces[2], x0, y1>>])
    BY <1>1, <1>2, <1>8 DEF ValueStep
  <2>6. x0 = x
    BY <1>3, <2>3, LowSmall
  <2> HIDE DEF b1, x0, y0, y1, p
  <2>7. /\ Value[<<m.pieces[1], x0, y0>>] = x0 * y0
        /\ Value[<<m.pieces[2], x0, y1>>] = x0 * y1
    <3>0. PieceValue(n, 1, m.a, m.cut_b) /\ PieceValue(n, 2, m.a, b1)
      BY <1>3, <2>1, <2>3, PieceRight
    <3>1. Value[<<m.pieces[1], x0, y0>>] = x0 * y0
      BY <1>3, <1>5, <2>3, <2>4, <2>6, <3>0 DEF PieceValue
    <3>2. Value[<<m.pieces[2], x0, y1>>] = x0 * y1
      BY <1>3, <1>5, <2>1, <2>2, <2>3, <2>4, <2>6, <3>0 DEF PieceValue
    <3> QED BY <3>1, <3>2
  <2>8. Value[p] = JoinB(m, x * y0, x * y1)
    BY <2>5, <2>6, <2>7
  <2>9. JoinB(m, x * y0, x * y1) = x * y
    <3>1. TopBit(m, x * y0) = 0
      BY <2>4, <2>6
    <3> QED BY <1>3, <2>1, <3>1, JoinBExact DEF y0, y1
  <2> QED BY <2>8, <2>9 DEF p
<1>9. CASE m.made \notin {"both", "a", "b"}
  BY <1>1, <1>2, <1>9 DEF ValueStep
<1> QED BY <1>6, <1>7, <1>8, <1>9

(* Induction from the last node to the first.                              *)
LEMMA AllRight ==
  ASSUME SplitIInv, CutsInv
  PROVE  \A n \in 1..Len(nodes) : Right(n)
<1> DEFINE S == {j \in Nat : \A n \in 1..Len(nodes) : Len(nodes) - n < j => Right(n)}
<1>0. Len(nodes) \in Nat
  BY DEF SplitIInv, SplitTypeOK
<1>1. 0 \in S
  BY <1>0
<1>2. ASSUME NEW j \in S PROVE j + 1 \in S
  <2>1. j \in Nat /\ \A n \in 1..Len(nodes) : Len(nodes) - n < j => Right(n)
    OBVIOUS
  <2>2. ASSUME NEW n \in 1..Len(nodes), Len(nodes) - n < j + 1 PROVE Right(n)
    <3>1. ASSUME NEW k \in n + 1 .. Len(nodes) PROVE Right(k)
      <4>1. k \in 1..Len(nodes) /\ Len(nodes) - k < j
        BY <1>0, <2>1, <2>2
      <4> QED BY <2>1, <4>1
    <3> QED BY <3>1, NodeRight
  <2> QED BY <2>1, <2>2
<1>3. S = Nat
  <2>1. S \in SUBSET Nat
    OBVIOUS
  <2> HIDE DEF S
  <2> QED BY <1>1, <1>2, <2>1, SetInduction
<1> SUFFICES ASSUME NEW n \in 1..Len(nodes) PROVE Right(n)
  OBVIOUS
<1>4. Len(nodes) \in S
  BY <1>0, <1>3
<1>5. Len(nodes) - n < Len(nodes)
  BY <1>0
<1> QED BY <1>4, <1>5

(***************************************************************************)
(* ProductKept of every design and block: split_multiplier and its two     *)
(* variants keep the product through any number of cuts, for the operands  *)
(* that no sign extension and no misaligned shift gets in the way of.      *)
(***************************************************************************)
THEOREM SplittingKeepsProduct == SplitSpec => []ProductKept
<1>1. SplitIInv /\ CutsInv => ProductKept
  <2> SUFFICES ASSUME SplitIInv, CutsInv, NEW n \in DOMAIN nodes, NEW o \in Operands(n),
                      SoundCuts[<<n, o[1], o[2]>>]
               PROVE  Value[<<n, o[1], o[2]>>] = o[1] * o[2]
    BY DEF ProductKept
  <2>1. nodes \in Seq(NodeType)
    BY DEF SplitIInv, SplitTypeOK, NodeType
  <2>2. n \in 1..Len(nodes) /\ nodes[n] \in NodeType
    BY <2>1
  <2>3. Pow2[nodes[n].a] \in Nat /\ Pow2[nodes[n].b] \in Nat
    BY <2>2, Pow2Type DEF NodeType
  <2>4. o[1] \in 0 .. Pow2[nodes[n].a] - 1 /\ o[2] \in 0 .. Pow2[nodes[n].b] - 1
    BY DEF Operands
  <2>5. /\ o[1] \in Nat /\ o[2] \in Nat
        /\ o[1] < Pow2[nodes[n].a] /\ o[2] < Pow2[nodes[n].b]
    BY <2>3, <2>4
  <2>6. Right(n)
    BY <2>2, AllRight
  <2> QED BY <2>5, <2>6 DEF Right
<1> QED BY <1>1, SplittingCorrect, PiecesRight, PTL

-----------------------------------------------------------------------------
(***************************************************************************)
(* Floats                                                                  *)
(***************************************************************************)

(* A number is below the power of two it is the exponent of.               *)
LEMMA PowerAbove == \A n \in Nat : n < Pow2[n]
<1> DEFINE S == {n \in Nat : n < Pow2[n]}
<1>1. 0 \in S
  BY Pow2Step
<1>2. ASSUME NEW n \in S PROVE n + 1 \in S
  <2>1. n \in Nat /\ n < Pow2[n] /\ Pow2[n] \in Nat /\ Pow2[n + 1] = 2 * Pow2[n]
    BY Pow2Step, Pow2Type
  <2> QED BY <2>1
<1>3. S = Nat
  <2>1. S \in SUBSET Nat
    OBVIOUS
  <2> HIDE DEF S
  <2> QED BY <1>1, <1>2, <2>1, SetInduction
<1> QED BY <1>3

(* Inequalities keep their direction under multiplication, and lose it     *)
(* again.                                                                  *)
LEMMA TimesNat ==
  ASSUME NEW a \in Int, NEW b \in Int, NEW c \in Nat, a <= b
  PROVE  a * c <= b * c
<1>1. (b - a) * c \in Nat
  <2>1. b - a \in Nat
    OBVIOUS
  <2> QED BY <2>1
<1>2. (b - a) * c = b * c - a * c /\ a * c \in Int /\ b * c \in Int
  OBVIOUS
<1> QED BY <1>1, <1>2

LEMMA CancelFactor ==
  ASSUME NEW a \in Int, NEW b \in Int, NEW c \in Nat \ {0}
  PROVE  /\ a * c <= b * c => a <= b
         /\ a * c < b * c => a < b
<1>1. ASSUME b + 1 <= a PROVE b * c + c <= a * c
  <2>1. (b + 1) * c <= a * c
    BY <1>1, TimesNat
  <2>2. (b + 1) * c = b * c + c
    OBVIOUS
  <2> QED BY <2>1, <2>2
<1>2. ASSUME b <= a PROVE b * c <= a * c
  BY <1>2, TimesNat
<1>3. a * c \in Int /\ b * c \in Int
  OBVIOUS
<1>4. a * c <= b * c => a <= b
  BY <1>1, <1>3
<1>5. a * c < b * c => a < b
  BY <1>2, <1>3
<1> QED BY <1>4, <1>5

(* The floats next to a number have an exponent.                           *)
LEMMA ExponentExists ==
  ASSUME NEW num \in Nat, NEW den \in Nat \ {0}
  PROVE  \E k \in 0..num : IsExponent(k, num, den)
<1> SUFFICES ASSUME \A k \in 0..num : ~IsExponent(k, num, den) PROVE FALSE
  OBVIOUS
<1>1. Precision \in Nat \ {0}
  BY FloatAssumption
<1> DEFINE bound(k) == den * Pow2[Precision + k]
           S == {k \in Nat : bound(k) <= num}
<1>2. \A k \in Nat : bound(k) \in Nat
  <2> SUFFICES ASSUME NEW k \in Nat PROVE bound(k) \in Nat
    OBVIOUS
  <2>1. Precision + k \in Nat
    BY <1>1
  <2>2. Pow2[Precision + k] \in Nat
    BY <2>1, Pow2Type
  <2> QED BY <2>2
<1>3. \A k \in 0..num : ~(num < bound(k)) \/ (k > 0 /\ num < den * Pow2[Precision + k - 1])
  <2> SUFFICES ASSUME NEW k \in 0..num, num < bound(k)
               PROVE  k > 0 /\ num < den * Pow2[Precision + k - 1]
    OBVIOUS
  <2>1. k > 0 /\ ~(den * Pow2[Precision + k - 1] <= num)
    <3>1. ~IsExponent(k, num, den)
      OBVIOUS
    <3> QED BY <3>1 DEF IsExponent
  <2>2. Precision + k - 1 \in Nat
    BY <1>1, <2>1
  <2>3. Pow2[Precision + k - 1] \in Nat
    BY <2>2, Pow2Type
  <2> DEFINE low == Pow2[Precision + k - 1]
  <2>4. den * low \in Nat
    BY <2>3
  <2> QED BY <2>1, <2>4
<1>4. 0 \in S
  <2>1. 0 \in 0..num
    OBVIOUS
  <2>2. ~(num < bound(0))
    BY <1>3, <2>1
  <2>3. bound(0) \in Nat
    BY <1>2
  <2> HIDE DEF bound
  <2> QED BY <2>2, <2>3
<1>5. ASSUME NEW k \in 0..num - 1, k \in S PROVE k + 1 \in S
  <2>1. k + 1 \in 0..num /\ k + 1 > 0 /\ k \in Nat /\ Precision + (k + 1) - 1 = Precision + k
    BY <1>1
  <2>2. ~(num < den * Pow2[Precision + (k + 1) - 1])
    <3>1. bound(k) <= num /\ bound(k) \in Nat
      BY <1>2, <1>5, <2>1
    <3>2. den * Pow2[Precision + (k + 1) - 1] = bound(k)
      BY <2>1
    <3> HIDE DEF bound
    <3> QED BY <3>1, <3>2
  <2>3. ~(num < bound(k + 1))
    BY <1>3, <2>1, <2>2
  <2>4. bound(k + 1) \in Nat
    BY <1>2, <2>1
  <2> HIDE DEF bound
  <2> QED BY <2>1, <2>3, <2>4
<1>6. num \in S
  <2>1. \A k \in 0..num : k \in S
    <3> HIDE DEF S
    <3> QED BY <1>4, <1>5, InductionUpto
  <2> QED BY <2>1
<1>7. num < bound(num)
  <2> DEFINE p == Pow2[Precision]
             q == Pow2[num]
  <2>1. p \in Nat \ {0} /\ q \in Nat \ {0} /\ num < q /\ Pow2[Precision + num] = p * q
    BY <1>1, Pow2Type, Pow2Sum, PowerAbove
  <2> HIDE DEF p, q
  <2>2. 1 * q <= p * q
    BY <2>1, TimesNat
  <2>3. 1 * (p * q) <= den * (p * q)
    <3>1. p * q \in Nat
      BY <2>1
    <3> QED BY <3>1, TimesNat
  <2> QED BY <2>1, <2>2, <2>3
<1> QED BY <1>2, <1>6, <1>7

(* What the choice of the spacing gives.                                   *)
LEMMA SpacingFacts ==
  ASSUME NEW num \in Nat, NEW den \in Nat \ {0}
  PROVE  \E k \in Nat : Spacing(num, den) = Pow2[k] /\ IsExponent(k, num, den)
<1> DEFINE e == CHOOSE k \in 0..num : IsExponent(k, num, den)
<1>1. e \in 0..num /\ IsExponent(e, num, den)
  BY ExponentExists
<1>2. Spacing(num, den) = Pow2[e]
  BY DEF Spacing
<1> HIDE DEF e
<1> QED BY <1>1, <1>2

(* The nearest integer is no farther than half a unit.                     *)
LEMMA NearestFacts ==
  ASSUME NEW num \in Nat, NEW den \in Nat \ {0}
  PROVE  /\ NearestEven(num, den) \in Nat
         /\ num \div den \in Nat /\ num \div den <= NearestEven(num, den)
         /\ 2 * (NearestEven(num, den) * den) <= 2 * num + den
         /\ 2 * num <= 2 * (NearestEven(num, den) * den) + den
<1> DEFINE q == num \div den
           r == num % den
           e == NearestEven(num, den)
<1>1. q \in Nat /\ r \in Nat /\ r < den /\ num = den * q + r
  BY QuotientRemainder
<1>2. e = IF 2 * r > den \/ (2 * r = den /\ q % 2 = 1) THEN q + 1 ELSE q
  BY DEF NearestEven
<1>3. \/ e = q + 1 /\ 2 * r >= den
      \/ e = q /\ 2 * r <= den
  <2> HIDE DEF q, r, e
  <2>1. CASE 2 * r > den
    BY <1>1, <1>2, <2>1
  <2>2. CASE 2 * r < den
    BY <1>1, <1>2, <2>2
  <2>3. CASE 2 * r = den
    <3>1. e = q \/ e = q + 1
      BY <1>2
    <3> QED BY <1>1, <2>3, <3>1
  <2> QED BY <1>1, <2>1, <2>2, <2>3
<1> HIDE DEF q, r, e
<1>4. (q + 1) * den = den * q + den /\ q * den = den * q /\ den * q \in Int
  BY <1>1
<1>5. e \in Nat /\ q <= e
  BY <1>1, <1>3
<1>6. 2 * (e * den) <= 2 * num + den
  BY <1>1, <1>3, <1>4
<1>7. 2 * num <= 2 * (e * den) + den
  BY <1>1, <1>3, <1>4
<1> QED BY <1>1, <1>5, <1>6, <1>7 DEF q, e

(* An integer is its own nearest one.                                      *)
LEMMA NearestWhole ==
  ASSUME NEW q \in Nat, NEW den \in Nat \ {0}
  PROVE  NearestEven(den * q, den) = q
<1>1. (den * q + 0) \div den = q /\ (den * q + 0) % den = 0
  BY QuotientUnique
<1>2. den * q + 0 = den * q
  OBVIOUS
<1>3. (den * q) \div den = q /\ (den * q) % den = 0
  BY <1>1, <1>2
<1>4. ~(2 * 0 > den) /\ 2 * 0 # den
  OBVIOUS
<1> QED BY <1>3, <1>4 DEF NearestEven

(* Rounding errs by half the spacing, and a spacing above one unit is      *)
(* small beside the number and beside what it is rounded to.               *)
LEMMA RoundedFacts ==
  ASSUME NEW num \in Nat, NEW den \in Nat \ {0}
  PROVE  /\ Rounded(num, den) \in Nat
         /\ \E s \in Nat \ {0} :
              /\ 2 * (Rounded(num, den) * den) <= 2 * num + den * s
              /\ 2 * num <= 2 * (Rounded(num, den) * den) + den * s
              /\ s = 1 \/ (/\ s * Pow2[Precision - 1] <= Rounded(num, den)
                           /\ (s * Pow2[Precision - 1]) * den <= num)
<1>1. PICK k \in Nat : Spacing(num, den) = Pow2[k] /\ IsExponent(k, num, den)
  BY SpacingFacts
<1> DEFINE s == Pow2[k]
           half == Pow2[Precision - 1]
           q == NearestEven(num, den * s)
<1>2. Precision - 1 \in Nat /\ Precision \in Nat
  BY FloatAssumption
<1>3. s \in Nat \ {0} /\ half \in Nat \ {0} /\ den * s \in Nat \ {0}
  <2>1. s \in Nat \ {0} /\ half \in Nat \ {0}
    BY <1>2, Pow2Type
  <2> HIDE DEF s, half
  <2> QED BY <2>1
<1>4. Rounded(num, den) = q * s
  BY <1>1 DEF Rounded
<1>5. k = 0 => s = 1
  BY Pow2Step
<1>6. k > 0 => den * (half * s) <= num
  <2> SUFFICES ASSUME k > 0 PROVE den * (half * s) <= num
    OBVIOUS
  <2>1. Precision + k - 1 = (Precision - 1) + k
    BY <1>2
  <2>2. Pow2[Precision + k - 1] = half * s
    BY <1>2, <2>1, Pow2Sum
  <2> QED BY <1>1, <2>2 DEF IsExponent
<1> DEFINE d == den * s
<1>7. /\ q \in Nat /\ num \div d \in Nat /\ num \div d <= q
      /\ 2 * (q * d) <= 2 * num + d
      /\ 2 * num <= 2 * (q * d) + d
  <2> HIDE DEF s
  <2> QED BY <1>3, NearestFacts
<1>8. num = d * (num \div d) + (num % d) /\ num % d \in Nat /\ num % d < d
  <2> HIDE DEF d, s
  <2> QED BY <1>3, QuotientRemainder DEF d
<1> HIDE DEF s, half, q
<1>9. q * d = (q * s) * den /\ (q * s) * den \in Int /\ q * s \in Nat
  BY <1>3, <1>7
<1>10. k > 0 => s * half <= q * s /\ (s * half) * den <= num
  <2> SUFFICES ASSUME k > 0 PROVE s * half <= q * s /\ (s * half) * den <= num
    OBVIOUS
  <2>1. half * d <= num
    <3>1. half * d = den * (half * s)
      BY <1>3
    <3> QED BY <1>6, <3>1
  <2>2. half <= num \div d
    <3> DEFINE v == num \div d
               r == num % d
    <3>1. v \in Nat /\ r \in Nat /\ r < d /\ num = d * v + r /\ d \in Nat \ {0}
      BY <1>3, <1>7, <1>8
    <3> HIDE DEF v, r, d
    <3>2. (v + 1) * d = d * v + d
      BY <3>1
    <3>3. half * d < (v + 1) * d
      BY <1>3, <2>1, <3>1, <3>2
    <3>4. half < v + 1
      BY <1>3, <3>1, <3>3, CancelFactor
    <3> QED BY <1>3, <3>1, <3>4 DEF v
  <2>3. half * s <= q * s
    <3>1. half <= q
      BY <1>3, <1>7, <2>2
    <3> QED BY <1>3, <1>7, <3>1, TimesNat
  <2>4. half * s = s * half /\ (s * half) * den = half * d
    BY <1>3
  <2> QED BY <2>1, <2>3, <2>4
<1>11. /\ 2 * ((q * s) * den) <= 2 * num + den * s
       /\ 2 * num <= 2 * ((q * s) * den) + den * s
  BY <1>7, <1>9
<1>12. s = 1 \/ (s * half <= q * s /\ (s * half) * den <= num)
  BY <1>5, <1>10 DEF s
<1> QED BY <1>3, <1>4, <1>9, <1>11, <1>12 DEF half

(* The error of a rounded number, measured at n where the number, or what  *)
(* it is rounded to, is no more than n.                                    *)
LEMMA RoundingError ==
  ASSUME NEW num \in Nat, NEW den \in Nat \ {0}, NEW n \in Nat \ {0},
         Rounded(num, den) <= n * One \/ num <= (n * One) * den
  PROVE  /\ Rounded(num, den) \in Nat
         /\ (Rounded(num, den) * den) * Pow2[Precision]
              <= num * Pow2[Precision] + (n * One) * den
         /\ num * Pow2[Precision]
              <= (Rounded(num, den) * den) * Pow2[Precision] + (n * One) * den
<1> DEFINE p == Rounded(num, den)
           half == Pow2[Precision - 1]
           scale == Pow2[Precision]
           top == n * One
<1>1. /\ half \in Nat \ {0} /\ scale = 2 * half
      /\ One \in Nat \ {0} /\ scale <= 2 * One
  <2>1. /\ Precision - 1 \in Nat /\ Precision \in Nat /\ (Precision - 1) + 1 = Precision
        /\ Fraction \in Nat /\ Fraction + 1 \in Nat /\ Precision <= Fraction + 1
    BY FloatAssumption
  <2>2. Pow2[Precision] = 2 * Pow2[Precision - 1] /\ Pow2[Fraction + 1] = 2 * Pow2[Fraction]
    BY <2>1, Pow2Step
  <2>3. Pow2[Precision] <= Pow2[Fraction + 1]
    BY <2>1, Pow2Monotone
  <2> QED BY <2>1, <2>2, <2>3, Pow2Type DEF One
<1>2. p \in Nat
  BY RoundedFacts
<1>3. PICK s \in Nat \ {0} :
        /\ 2 * (p * den) <= 2 * num + den * s
        /\ 2 * num <= 2 * (p * den) + den * s
        /\ s = 1 \/ (s * half <= p /\ (s * half) * den <= num)
  BY RoundedFacts
<1> HIDE DEF p, half, scale
<1>4. top \in Nat /\ One <= top
  <2>1. 1 * One <= n * One
    BY <1>1, TimesNat
  <2> QED BY <1>1, <2>1
<1>5. p <= top \/ num <= top * den
  BY DEF p
<1> HIDE DEF top
<1>6. s * half <= top \/ s = 1
  <2>1. CASE s = 1
    BY <2>1
  <2>2. CASE s # 1 /\ p <= top
    BY <1>1, <1>2, <1>3, <1>4, <2>2
  <2>3. CASE s # 1 /\ num <= top * den
    <3>1. s * half \in Nat
      BY <1>1
    <3>2. (s * half) * den <= top * den
      BY <1>3, <1>4, <2>3, <3>1
    <3> QED BY <1>4, <3>1, <3>2, CancelFactor
  <2> QED BY <1>5, <2>1, <2>2, <2>3
<1>7. s * scale <= 2 * top
  <2>1. CASE s = 1
    BY <1>1, <1>4, <2>1
  <2>2. CASE s * half <= top
    <3>1. s * scale = 2 * (s * half)
      BY <1>1
    <3> QED BY <1>1, <1>4, <2>2, <3>1
  <2> QED BY <1>6, <2>1, <2>2
<1>8. (den * s) * scale <= 2 * (top * den)
  <2>1. s * scale \in Nat /\ scale \in Nat
    BY <1>1
  <2>2. (s * scale) * den <= (2 * top) * den
    BY <1>4, <1>7, <2>1, TimesNat
  <2>3. (den * s) * scale = (s * scale) * den /\ (2 * top) * den = 2 * (top * den)
    BY <1>4, <2>1
  <2> QED BY <2>2, <2>3
<1> DEFINE a == p * den
           b == den * s
<1>9. /\ a \in Nat /\ b \in Nat /\ top * den \in Nat /\ scale \in Nat
      /\ a * scale \in Nat /\ num * scale \in Nat /\ b * scale \in Nat
  BY <1>1, <1>2, <1>4
<1>10. 2 * (a * scale) <= 2 * (num * scale) + b * scale
  <2>1. (2 * a) * scale <= (2 * num + b) * scale
    <3>1. 2 * a \in Int /\ 2 * num + b \in Int /\ 2 * a <= 2 * num + b
      BY <1>3, <1>9
    <3> HIDE DEF a, b
    <3> QED BY <1>9, <3>1, TimesNat
  <2> HIDE DEF a, b
  <2>2. (2 * a) * scale = 2 * (a * scale) /\ (2 * num + b) * scale = 2 * (num * scale) + b * scale
    BY <1>9
  <2> QED BY <2>1, <2>2
<1>11. 2 * (num * scale) <= 2 * (a * scale) + b * scale
  <2>1. (2 * num) * scale <= (2 * a + b) * scale
    <3>1. 2 * num \in Int /\ 2 * a + b \in Int /\ 2 * num <= 2 * a + b
      BY <1>3, <1>9
    <3> HIDE DEF a, b
    <3> QED BY <1>9, <3>1, TimesNat
  <2> HIDE DEF a, b
  <2>2. (2 * num) * scale = 2 * (num * scale) /\ (2 * a + b) * scale = 2 * (a * scale) + b * scale
    BY <1>9
  <2> QED BY <2>1, <2>2
<1>12. b * scale <= 2 * (top * den)
  BY <1>8
<1>13. a * scale <= num * scale + top * den /\ num * scale <= a * scale + top * den
  <2> HIDE DEF a, b
  <2> QED BY <1>9, <1>10, <1>11, <1>12
<1> QED BY <1>2, <1>13 DEF p, scale, top

(* A number of at most Precision bits is a float.                          *)
LEMMA RoundedExact ==
  ASSUME NEW c \in Nat, c < Pow2[Precision], NEW den \in Nat \ {0}
  PROVE  Rounded((c * One) * den, den) = c * One
<1>1. Precision \in Nat \ {0} /\ Fraction \in Nat /\ One \in Nat \ {0}
  BY FloatAssumption, Pow2Type DEF One
<1> DEFINE v == c * One
           num == v * den
<1>2. v \in Nat /\ num \in Nat
  BY <1>1
<1>3. PICK k \in Nat : Spacing(num, den) = Pow2[k] /\ IsExponent(k, num, den)
  <2> HIDE DEF num
  <2> QED BY <1>2, SpacingFacts
<1>4. c = 0 => k = 0
  <2> SUFFICES ASSUME c = 0, k > 0 PROVE FALSE
    BY <1>3
  <2>1. num = 0
    BY <1>1
  <2>2. den * Pow2[Precision + k - 1] <= 0
    BY <1>3, <2>1 DEF IsExponent
  <2>3. Precision + k - 1 \in Nat
    BY <1>1
  <2> DEFINE q == Pow2[Precision + k - 1]
  <2>4. q \in Nat \ {0} /\ den * q <= 0
    BY <2>2, <2>3, Pow2Type
  <2> HIDE DEF q
  <2> QED BY <2>4
<1>5. k <= Fraction
  <2> SUFFICES ASSUME k > Fraction PROVE FALSE
    BY <1>1
  <2>1. /\ k > 0 /\ Precision + k - 1 \in Nat /\ Precision + Fraction \in Nat
        /\ Precision + Fraction <= Precision + k - 1
    BY <1>1
  <2> DEFINE q == Pow2[Precision + k - 1]
             scale == Pow2[Precision]
  <2>2. q \in Nat \ {0} /\ scale \in Nat \ {0}
    BY <1>1, <2>1, Pow2Type
  <2>3. scale * One <= q
    BY <1>1, <2>1, Pow2Sum, Pow2Monotone DEF One
  <2>4. den * q <= v * den
    BY <1>3, <2>1 DEF IsExponent
  <2>5. c < scale
    OBVIOUS
  <2> HIDE DEF q, scale
  <2>6. (c + 1) * One <= scale * One /\ (c + 1) * One = v + One
    BY <1>1, <2>2, <2>5, TimesNat
  <2> HIDE DEF v
  <2>7. den * q = q * den /\ q * den <= v * den
    BY <1>2, <2>2, <2>4
  <2>8. q <= v
    BY <1>2, <2>2, <2>7, CancelFactor
  <2>9. scale * One \in Int
    BY <1>1, <2>2
  <2> QED BY <1>1, <1>2, <2>2, <2>3, <2>6, <2>8, <2>9
<1> DEFINE s == Pow2[k]
           r == Pow2[Fraction - k]
<1>6. s \in Nat \ {0} /\ r \in Nat \ {0} /\ One = s * r
  <2>1. Fraction - k \in Nat /\ k + (Fraction - k) = Fraction
    BY <1>1, <1>5
  <2>2. Pow2[Fraction] = Pow2[k] * Pow2[Fraction - k]
    BY <2>1, Pow2Sum
  <2> QED BY <2>1, <2>2, Pow2Type DEF One
<1>7. Rounded(num, den) = NearestEven(num, den * s) * s
  BY <1>3 DEF Rounded
<1> HIDE DEF s, r
<1>8. num = (den * s) * (c * r) /\ den * s \in Nat \ {0} /\ c * r \in Nat /\ (c * r) * s = v
  BY <1>6
<1>9. NearestEven(num, den * s) = c * r
  <2> HIDE DEF num
  <2> QED BY <1>8, NearestWhole
<1> QED BY <1>7, <1>8, <1>9

(* A share of n, computed with a rounded ratio f and a rounded product p.  *)
LEMMA ShareError ==
  ASSUME NEW n \in Nat, NEW ratio \in Int, NEW f \in Nat, NEW units \in Nat \ {0},
         NEW scale \in Nat \ {0}, NEW one \in Nat \ {0}, NEW p \in Nat,
         (f * units) * scale <= (ratio * one) * scale + one * units,
         (ratio * one) * scale <= (f * units) * scale + one * units,
         p * scale <= (n * f) * scale + n * one,
         (n * f) * scale <= p * scale + n * one
  PROVE  /\ p \div one \in Nat
         /\ (p \div one) * (units * scale) <= (n * ratio) * scale + (2 * n) * units
         /\ (n * ratio) * scale < (p \div one + 1) * (units * scale) + (2 * n) * units
<1> DEFINE h == p \div one
           r == p % one
<1>1. h \in Nat /\ r \in Nat /\ r < one /\ p = one * h + r
  BY QuotientRemainder
<1> HIDE DEF h, r
<1> DEFINE P == (p * scale) * units
           F == ((n * f) * scale) * units
           R == (n * ratio) * scale
           E == n * units
<1>2. P \in Nat /\ F \in Nat /\ R \in Int /\ E \in Nat /\ R * one \in Int /\ E * one \in Nat
  OBVIOUS
<1>3. P <= F + E * one
  <2>1. (p * scale) * units <= ((n * f) * scale + n * one) * units
    <3>1. p * scale \in Int /\ (n * f) * scale + n * one \in Int
      OBVIOUS
    <3> QED BY <3>1, TimesNat
  <2>2. ((n * f) * scale + n * one) * units = F + E * one
    OBVIOUS
  <2> QED BY <2>1, <2>2
<1>4. F <= P + E * one
  <2>1. ((n * f) * scale) * units <= (p * scale + n * one) * units
    <3>1. p * scale + n * one \in Int /\ (n * f) * scale \in Int
      OBVIOUS
    <3> QED BY <3>1, TimesNat
  <2>2. (p * scale + n * one) * units = P + E * one
    OBVIOUS
  <2> QED BY <2>1, <2>2
<1>5. F <= R * one + E * one
  <2>1. ((f * units) * scale) * n <= ((ratio * one) * scale + one * units) * n
    <3>1. (f * units) * scale \in Int /\ (ratio * one) * scale + one * units \in Int
      OBVIOUS
    <3> QED BY <3>1, TimesNat
  <2>2. /\ ((f * units) * scale) * n = F
        /\ ((ratio * one) * scale + one * units) * n = R * one + E * one
    OBVIOUS
  <2> QED BY <2>1, <2>2
<1>6. R * one <= F + E * one
  <2>1. ((ratio * one) * scale) * n <= ((f * units) * scale + one * units) * n
    <3>1. (ratio * one) * scale \in Int /\ (f * units) * scale + one * units \in Int
      OBVIOUS
    <3> QED BY <3>1, TimesNat
  <2>2. /\ ((ratio * one) * scale) * n = R * one
        /\ ((f * units) * scale + one * units) * n = F + E * one
    OBVIOUS
  <2> QED BY <2>1, <2>2
<1> DEFINE block == units * scale
<1>7. block \in Nat \ {0} /\ h * block \in Nat /\ (h + 1) * block \in Nat
  BY <1>1
<1>8. (h * block) * one <= P
  <2>1. (h * one) * block <= p * block
    BY <1>1, <1>7, TimesNat
  <2>2. (h * one) * block = (h * block) * one /\ p * block = P
    BY <1>1
  <2> QED BY <2>1, <2>2
<1>9. P < ((h + 1) * block) * one
  <2>1. (p + 1) * block <= ((h + 1) * one) * block
    <3>1. p + 1 <= (h + 1) * one
      <4>1. (h + 1) * one = one * h + one
        BY <1>1
      <4> QED BY <1>1, <4>1
    <3> QED BY <1>1, <1>7, <3>1, TimesNat
  <2>2. ((h + 1) * one) * block = ((h + 1) * block) * one /\ (p + 1) * block = P + block
    BY <1>1
  <2> QED BY <1>2, <1>7, <2>1, <2>2
<1> HIDE DEF P, F, R, E, block
<1>10. (h * block) * one <= (R + 2 * E) * one
  <2>1. (R + 2 * E) * one = R * one + 2 * (E * one)
    BY <1>2
  <2>2. (h * block) * one \in Int
    BY <1>7
  <2> QED BY <1>2, <1>3, <1>5, <1>8, <2>1, <2>2
<1>11. R * one < ((h + 1) * block + 2 * E) * one
  <2>1. ((h + 1) * block + 2 * E) * one = ((h + 1) * block) * one + 2 * (E * one)
    BY <1>2, <1>7
  <2>2. ((h + 1) * block) * one \in Int
    BY <1>7
  <2> QED BY <1>2, <1>4, <1>6, <1>9, <2>1, <2>2
<1>12. h * block <= R + 2 * E
  BY <1>2, <1>7, <1>10, CancelFactor
<1>13. R < (h + 1) * block + 2 * E
  BY <1>2, <1>7, <1>11, CancelFactor
<1>14. 2 * E = (2 * n) * units
  BY DEF E
<1> QED BY <1>1, <1>12, <1>13, <1>14 DEF h, R, block

-----------------------------------------------------------------------------
(***************************************************************************)
(* The mixing.                                                             *)
(***************************************************************************)

(***************************************************************************)
(* What the operators of the model return.                                 *)
(***************************************************************************)
LEMMA AppendFacts ==
  ASSUME NEW S, NEW s \in Seq(S), NEW x \in S
  PROVE  /\ Append(s, x) \in Seq(S)
         /\ Len(Append(s, x)) = Len(s) + 1
         /\ \A i \in 1..Len(s) : Append(s, x)[i] = s[i]
         /\ Append(s, x)[Len(s) + 1] = x
  OBVIOUS

(* Returning from a call leaves the calls below it as they are.            *)
LEMMA PopFacts ==
  ASSUME stack \in Seq(Node), stack # <<>>
  PROVE  /\ Top \in Node
         /\ Pop \in Seq(Node)
         /\ Len(Pop) = Len(stack) - 1
         /\ \A i \in 1..(Len(stack) - 1) : Pop[i] = stack[i]
<1>1. Top \in Node
  BY DEF Top
<1>2. Pop \in Seq(Node) /\ Len(Pop) = Len(stack) - 1
  BY DEF Pop
<1>3. ASSUME NEW i \in 1..(Len(stack) - 1)
      PROVE  Pop[i] = stack[i]
  <2>1. Len(stack) \in Nat
    OBVIOUS
  <2>2. i \in Int /\ 1 <= i /\ i <= Len(stack) - 1
    BY <2>1
  <2> QED BY <2>1, <2>2 DEF Pop
<1> QED BY <1>1, <1>2, <1>3

(* The sequence that erase(begin() + i) leaves.                            *)
LEMMA WithoutFacts ==
  ASSUME NEW S, NEW s \in Seq(S), NEW i \in 1..Len(s)
  PROVE  /\ Without(s, i) \in Seq(S)
         /\ Len(Without(s, i)) = Len(s) - 1
         /\ \A j \in 1..Len(s) - 1 :
               Without(s, i)[j] = IF j < i THEN s[j] ELSE s[j + 1]
  BY DEF Without

(* No candidate is missing or doubled when one is erased.                  *)
LEMMA WithoutElements ==
  ASSUME NEW S, NEW s \in Seq(S), NEW i \in 1..Len(s), NEW j \in 1..Len(s), j # i
  PROVE  \E k \in 1..Len(Without(s, i)) : Without(s, i)[k] = s[j]
<1>0. /\ Len(s) \in Nat /\ i \in Int /\ j \in Int
      /\ Len(Without(s, i)) = Len(s) - 1
      /\ \A k \in 1..Len(s) - 1 : Without(s, i)[k] = IF k < i THEN s[k] ELSE s[k + 1]
  BY WithoutFacts
<1>1. CASE j < i
  <2>1. j \in 1..Len(s) - 1
    BY <1>0, <1>1
  <2> QED BY <1>0, <1>1, <2>1
<1>2. CASE j > i
  <2>1. j - 1 \in 1..Len(s) - 1 /\ ~(j - 1 < i)
    BY <1>0, <1>2
  <2>2. Without(s, i)[j - 1] = s[(j - 1) + 1]
    BY <1>0, <2>1
  <2>3. (j - 1) + 1 = j
    BY <1>0, <1>2
  <2> QED BY <1>0, <2>1, <2>2, <2>3
<1> QED BY <1>0, <1>1, <1>2

(* A sequence of distinct nodes is no longer than the netlist is large.    *)
LEMMA DistinctBounded ==
  ASSUME NEW s \in Seq(Mult),
         \A i, j \in 1..Len(s) : i # j => s[i] # s[j]
  PROVE  Len(s) < IntMax
<1>1. s \in Injection(1..Len(s), Mult)
  <2>1. s \in [1..Len(s) -> Mult]
    OBVIOUS
  <2>2. \A i, j \in 1..Len(s) : s[i] = s[j] => i = j
    OBVIOUS
  <2>3. DOMAIN s = 1..Len(s)
    OBVIOUS
  <2>4. IsInjective(s)
    BY <2>2, <2>3 DEF IsInjective
  <2> QED BY <2>1, <2>4 DEF Injection
<1>2. IsFiniteSet(1..Len(s)) /\ Cardinality(1..Len(s)) = Len(s)
  <2>1. Len(s) \in Nat
    OBVIOUS
  <2>2. 1 \in Int /\ Len(s) \in Int
    BY <2>1
  <2>3. /\ IsFiniteSet(1..Len(s))
        /\ Cardinality(1..Len(s)) = IF 1 > Len(s) THEN 0 ELSE Len(s) - 1 + 1
    BY <2>2, FS_Interval
  <2> QED BY <2>1, <2>3
<1>3. IsFiniteSet(Mult) /\ Cardinality(Mult) <= Cardinality(Node)
  BY FS_Subset, NodeAssumption
<1>4. Cardinality(1..Len(s)) <= Cardinality(Mult)
  BY <1>1, <1>3, FS_Injection
<1>5. Cardinality(Mult) \in Nat /\ Cardinality(Node) \in Nat
  BY <1>3, FS_CardinalityType, NodeAssumption
<1> QED BY <1>2, <1>3, <1>4, <1>5, IntMaxAssumption

(* The settings in force are floats, and one of them is one.               *)
LEMMA OneFacts ==
  /\ One \in Nat \ {0} /\ Pow2[Precision] \in Nat \ {0}
  /\ InRange(One) /\ AsFloat(RatioUnits) = One
<1>1. One \in Nat \ {0} /\ Pow2[Precision] \in Nat \ {0} /\ 1 < Pow2[Precision]
  <2>1. Precision \in Nat \ {0} /\ Fraction \in Nat
    BY FloatAssumption
  <2>2. Precision < Pow2[Precision]
    BY <2>1, PowerAbove
  <2>3. One \in Nat \ {0} /\ Pow2[Precision] \in Nat \ {0}
    BY <2>1, Pow2Type DEF One
  <2> QED BY <2>1, <2>2, <2>3
<1>2. InRange(One)
  BY <1>1 DEF InRange
<1>3. Rounded((1 * One) * RatioUnits, RatioUnits) = 1 * One
  BY <1>1, RatioAssumption, RoundedExact
<1>4. (1 * One) * RatioUnits = RatioUnits * One /\ 1 * One = One
  BY <1>1, RatioAssumption
<1>5. AsFloat(RatioUnits) = Rounded(RatioUnits * One, RatioUnits)
  BY RatioAssumption DEF AsFloat
<1> QED BY <1>1, <1>2, <1>3, <1>4, <1>5

LEMMA AsFloatFacts ==
  ASSUME NEW ratio \in Int
  PROVE  /\ AsFloat(ratio) \in Int
         /\ InRange(AsFloat(ratio)) =>
              /\ (AsFloat(ratio) * RatioUnits) * Pow2[Precision]
                   <= (ratio * One) * Pow2[Precision] + One * RatioUnits
              /\ (ratio * One) * Pow2[Precision]
                   <= (AsFloat(ratio) * RatioUnits) * Pow2[Precision] + One * RatioUnits
<1> DEFINE scale == Pow2[Precision]
           one == One
           units == RatioUnits
<1>1. one \in Nat \ {0} /\ scale \in Nat \ {0} /\ units \in Nat \ {0}
  BY OneFacts, RatioAssumption
<1>2. ASSUME NEW r \in Nat
      PROVE  /\ Rounded(r * one, units) \in Nat
             /\ Rounded(r * one, units) <= one =>
                  /\ (Rounded(r * one, units) * units) * scale
                       <= (r * one) * scale + one * units
                  /\ (r * one) * scale
                       <= (Rounded(r * one, units) * units) * scale + one * units
  <2>1. r * one \in Nat
    BY <1>1
  <2>2. Rounded(r * one, units) \in Nat
    BY <1>1, <2>1, RoundedFacts
  <2>3. Rounded(r * one, units) <= one => Rounded(r * one, units) <= 1 * One
    BY <1>1, <2>2
  <2>4. (1 * One) * RatioUnits = one * units /\ 1 \in Nat \ {0}
    BY <1>1
  <2> QED BY <1>1, <2>1, <2>2, <2>3, <2>4, RoundingError
<1>3. CASE ratio >= 0
  <2>1. ratio \in Nat /\ AsFloat(ratio) = Rounded(ratio * one, units)
    BY <1>3 DEF AsFloat
  <2> HIDE DEF scale, one, units
  <2> QED BY <1>1, <1>2, <2>1 DEF InRange, scale, one, units
<1>4. CASE ratio < 0
  <2> DEFINE r == -ratio
             g == Rounded(r * one, units)
  <2>1. r \in Nat /\ AsFloat(ratio) = -g
    BY <1>4 DEF AsFloat
  <2>2. g \in Nat
    BY <1>2, <2>1
  <2>3. ASSUME InRange(AsFloat(ratio))
        PROVE  /\ (AsFloat(ratio) * units) * scale <= (ratio * one) * scale + one * units
               /\ (ratio * one) * scale <= (AsFloat(ratio) * units) * scale + one * units
    <3>1. g = 0
      <4> HIDE DEF g
      <4> QED BY <2>1, <2>2, <2>3 DEF InRange
    <3>2. (g * units) * scale <= (r * one) * scale + one * units
          /\ (r * one) * scale <= (g * units) * scale + one * units
      <4>1. g <= one
        BY <1>1, <3>1
      <4> QED BY <1>2, <2>1, <4>1
    <3> HIDE DEF g, scale, one, units
    <3>3. (g * units) * scale = 0 /\ (AsFloat(ratio) * units) * scale = 0
      BY <1>1, <2>1, <3>1
    <3>4. (ratio * one) * scale = -((r * one) * scale) /\ (r * one) * scale \in Nat
      <4>1. ratio * one = -(r * one) /\ r * one \in Nat
        BY <1>1, <2>1
      <4> DEFINE y == r * one
      <4>2. y \in Nat /\ ratio * one = -y
        BY <4>1
      <4> HIDE DEF y
      <4>3. (-y) * scale = -(y * scale) /\ y * scale \in Nat
        BY <1>1, <4>2
      <4> QED BY <4>2, <4>3 DEF y
    <3>5. one * units \in Nat
      BY <1>1
    <3> QED BY <3>2, <3>3, <3>4, <3>5
  <2>4. AsFloat(ratio) \in Int
    <3> HIDE DEF g
    <3> QED BY <2>1, <2>2
  <2> QED BY <2>3, <2>4
<1> QED BY <1>3, <1>4

(* A setting that is accepted scales to a count of blocks, and at one to   *)
(* the count itself.                                                       *)
LEMMA Scaled ==
  ASSUME NEW count \in Nat, count < IntMax, NEW ratio \in Int, InRange(ratio)
  PROVE  /\ ScaleCounts(count, ratio) \in Nat
         /\ ScaleCounts(count, ratio) = Rounded(count * ratio, 1) \div One
         /\ ratio = One /\ count < Pow2[Precision] => ScaleCounts(count, ratio) = count
<1>1. One \in Nat \ {0}
  BY OneFacts
<1>2. count * ratio \in Nat
  <2>1. ratio \in Nat
    BY DEF InRange
  <2> QED BY <2>1
<1>3. Rounded(count * ratio, 1) \in Nat
  <2>1. 1 \in Nat \ {0}
    OBVIOUS
  <2> QED BY <1>2, <2>1, RoundedFacts
<1>4. Rounded(count * ratio, 1) \div One \in Nat
  BY <1>1, <1>3, QuotientRemainder
<1>5. ~Unscalable(count, ratio)
  BY IntMaxAssumption DEF Unscalable
<1>6. ScaleCounts(count, ratio) = Rounded(count * ratio, 1) \div One
  BY <1>5 DEF ScaleCounts
<1>7. ASSUME ratio = One, count < Pow2[Precision]
      PROVE  Rounded(count * ratio, 1) \div One = count
  <2>1. Rounded((count * One) * 1, 1) = count * One
    BY <1>7, RoundedExact
  <2>2. (count * One) * 1 = count * ratio /\ count * One = One * count + 0
    BY <1>1, <1>7
  <2>3. (One * count + 0) \div One = count
    BY <1>1, QuotientUnique
  <2> QED BY <2>1, <2>2, <2>3
<1> QED BY <1>4, <1>6, <1>7

(* Whatever it is given, scale_counts returns an integer.                  *)
LEMMA ScaledType ==
  ASSUME NEW count \in Int, NEW ratio \in Int
  PROVE  ScaleCounts(count, ratio) \in Int
<1>1. CASE Unscalable(count, ratio)
  BY <1>1 DEF ScaleCounts
<1>2. CASE ~Unscalable(count, ratio)
  <2>1. count \in Nat /\ ratio \in Nat /\ One \in Nat \ {0}
    BY <1>2, OneFacts DEF Unscalable, InRange
  <2>2. count * ratio \in Nat /\ 1 \in Nat \ {0}
    BY <2>1
  <2>3. Rounded(count * ratio, 1) \in Nat
    BY <2>2, RoundedFacts
  <2>4. Rounded(count * ratio, 1) \div One \in Nat
    BY <2>1, <2>3, QuotientRemainder
  <2> QED BY <1>2, <2>4 DEF ScaleCounts
<1> QED BY <1>1, <1>2

-----------------------------------------------------------------------------

(* Whatever was asked, the configured setting is well-formed and in range. *)
LEMMA SettingsType ==
  ASSUME NEW line, NEW file, IsSetting(line), IsSetting(file)
  PROVE  /\ Configured(line, file) \in [enabled : BOOLEAN, count : Int, ratio : Int]
         /\ Configured(line, file).enabled =>
              InRange(Configured(line, file).ratio) /\ Configured(line, file).count >= 0
<1>1. /\ line.ratio \in Int /\ line.exact \in Int /\ file.ratio \in Int /\ file.exact \in Int
      /\ IntMax \in Nat
  BY IntMaxAssumption DEF IsSetting
<1>2. /\ AsFloat(line.ratio) \in Int /\ AsFloat(file.ratio) \in Int
      /\ One \in Int /\ -One \in Int /\ InRange(One)
  BY <1>1, AsFloatFacts, OneFacts
<1> QED
  BY <1>1, <1>2 DEF Configured, ReadOptimizations, ByRatio, ByCount, Disabled

(* A declared instance has two sizes.                                      *)
LEMMA InstanceType ==
  ASSUME TypeOK, NEW m \in Mult
  PROVE  InstanceOf(m) \in [a : Nat, b : Nat]
  BY InvocationsAssumption DEF TypeOK, IsInvocation, IsNetlist, InstanceOf, Larger, Smaller

(* instantiate_hard_multiplier keeps the types of what it changes.         *)
LEMMA HardType ==
  ASSUME TypeOK, NEW m \in Mult, InstantiateHard(m)
  PROVE  /\ hardened' \in [Mult -> Nat] /\ softened' \in [Mult -> Nat]
         /\ instances' \subseteq [a : Nat, b : Nat]
  BY InstanceType DEF TypeOK, InstantiateHard

(* instantiate_simple_soft_multiplier keeps the types of what it changes.  *)
LEMMA SoftType ==
  ASSUME TypeOK, NEW m \in Mult, InstantiateSoft(m)
  PROVE  /\ hardened' \in [Mult -> Nat] /\ softened' \in [Mult -> Nat]
         /\ instances' \subseteq [a : Nat, b : Nat]
  BY DEF TypeOK, InstantiateSoft

(* A step of the partial map keeps the types.                              *)
LEMMA PartialMapType ==
  ASSUME TypeOK, PartialMapNode
  PROVE  TypeOK'
<1>1. PICK m \in unmapped :
        /\ unmapped' = unmapped \ {m}
        /\ NoteCandidate(m) \/ MapHard(m) \/ MapSoft(m) \/ MapLeft(m)
  BY DEF PartialMapNode
<1>2. m \in Mult
  BY DEF TypeOK
<1>3. /\ candidates' \in Seq(Mult) /\ phase' \in Phases
      /\ hardened' \in [Mult -> Nat] /\ softened' \in [Mult -> Nat]
      /\ instances' \subseteq [a : Nat, b : Nat]
  <2>1. CASE NoteCandidate(m)
    BY <1>2, <2>1, AppendFacts DEF NoteCandidate, implVars, TypeOK
  <2>2. CASE MapHard(m)
    BY <1>2, <2>2, HardType DEF MapHard, TypeOK
  <2>3. CASE MapSoft(m)
    BY <1>2, <2>3, SoftType DEF MapSoft, TypeOK, Phases
  <2>4. CASE MapLeft(m)
    BY <2>4 DEF MapLeft, implVars, TypeOK
  <2> QED BY <1>1, <2>1, <2>2, <2>3, <2>4
<1>4. pos' \in Nat \ {0} /\ phase' # "erase"
  BY <1>1 DEF PartialMapNode, NoteCandidate, MapHard, MapSoft, MapLeft, TypeOK
<1> QED BY <1>1, <1>3, <1>4 DEF PartialMapNode, TypeOK, weighVars

(* Every step keeps the types.                                             *)
LEMMA TypeStep ==
  ASSUME TypeOK, [Next]_vars
  PROVE  TypeOK'
<1>1. CASE PartialMapNode
  BY <1>1, PartialMapType
<1>2. CASE SetBlocksNeeded
  <2>1. Smaller(opt.count, Len(candidates)) \in Int
    BY DEF TypeOK, Smaller
  <2>2. ScaleCounts(Smaller(opt.count, Len(candidates)), opt.ratio) \in Int
    BY <2>1, ScaledType DEF TypeOK
  <2> QED BY <1>2, <2>2 DEF SetBlocksNeeded, TypeOK, Phases, inputVars, weighVars, implVars
<1>3. CASE NothingToMix
  BY <1>3 DEF NothingToMix, TypeOK, Phases, inputVars, weighVars, implVars
<1>4. CASE StatCandidate
  <2>1. candidates[pos] \in Node
    <3>1. candidates \in Seq(Mult) /\ pos \in 1..Len(candidates)
      BY <1>4 DEF StatCandidate, TypeOK
    <3> QED BY <3>1, NodeAssumption
  <2> QED
    BY <1>4, <2>1, AppendFacts
       DEF StatCandidate, EnterStat, TypeOK, inputVars, implVars
<1>5. CASE StatReader
  BY <1>5, AppendFacts DEF StatReader, EnterStat, Readers, TypeOK, inputVars, implVars
<1>6. CASE StatReturn
  <2>1. Top \in Node /\ Pop \in Seq(Node)
    BY <1>6, PopFacts DEF StatReturn, TypeOK
  <2>2. depth' \in [Node -> Nat]
    <3>1. PICK d \in {0} \cup {depth[m] : m \in Readers(Top)} :
            depth' = [depth EXCEPT ![Top] = d + 1]
      BY <1>6 DEF StatReturn
    <3>2. d \in Nat
      <4>1. depth \in [Node -> Nat] /\ Readers(Top) \subseteq Node
        BY DEF Readers, TypeOK
      <4> QED BY <3>1, <4>1
    <3> QED BY <2>1, <3>1, <3>2 DEF TypeOK
  <2> QED BY <1>6, <2>1, <2>2 DEF StatReturn, TypeOK, inputVars, implVars
<1>7. CASE AssignWeight
  <2>1. candidates[pos] \in visited
    BY <1>7 DEF AssignWeight
  <2>2. depth[candidates[pos]] \in Nat
    BY <2>1 DEF TypeOK
  <2>3. weight' \in [Mult -> Nat \cup {-1}]
    BY <1>7, <2>2 DEF AssignWeight, TypeOK
  <2>4. pos' \in Nat \ {0}
    BY <1>7 DEF AssignWeight, TypeOK
  <2>5. UNCHANGED <<inputVars, opt, candidates, weighVars, implVars, phase>>
    BY <1>7 DEF AssignWeight
  <2>6. phase' = "weigh"
    BY <1>7, <2>5 DEF AssignWeight
  <2> QED BY <2>3, <2>4, <2>5, <2>6 DEF TypeOK, inputVars, weighVars, implVars
<1>8. CASE BeginPerform
  BY <1>8 DEF BeginPerform, TypeOK, Phases, inputVars, weighVars, implVars
<1>9. CASE HardenHeaviest
  <2>1. PICK j \in Eligible :
          /\ weight' = [weight EXCEPT ![candidates[j]] = -1]
          /\ InstantiateHard(candidates[j])
    BY <1>9 DEF HardenHeaviest
  <2>2. candidates[j] \in Mult
    BY <2>1 DEF Eligible, TypeOK
  <2>3. /\ hardened' \in [Mult -> Nat] /\ softened' \in [Mult -> Nat]
        /\ instances' \subseteq [a : Nat, b : Nat]
    BY <2>1, <2>2, HardType
  <2>4. weight' \in [Mult -> Nat \cup {-1}]
    BY <2>1 DEF TypeOK
  <2>5. pos' \in Nat \ {0}
    BY <1>9 DEF HardenHeaviest, TypeOK
  <2> QED BY <1>9, <2>3, <2>4, <2>5 DEF HardenHeaviest, TypeOK, inputVars, weighVars
<1>10. CASE BeginErase
  BY <1>10 DEF BeginErase, TypeOK, Phases, inputVars, weighVars, implVars
<1>11. CASE EraseHardened
  <2>1. candidates \in Seq(Mult) /\ pos \in 1..Len(candidates)
    BY <1>11 DEF EraseHardened, TypeOK
  <2>2. /\ candidates' \in Seq(Mult)
        /\ Len(candidates') >= Len(candidates) - 1
    <3>1. CASE weight[candidates[pos]] = -1
      BY <1>11, <2>1, <3>1, WithoutFacts DEF EraseHardened
    <3>2. CASE weight[candidates[pos]] # -1
      BY <1>11, <2>1, <3>2 DEF EraseHardened
    <3> QED BY <3>1, <3>2
  <2>3. pos' \in 0..Len(candidates') /\ phase' = "erase"
    BY <1>11, <2>1, <2>2 DEF EraseHardened
  <2> QED BY <1>11, <2>2, <2>3 DEF EraseHardened, TypeOK, inputVars, weighVars, implVars
<1>12. CASE BeginSoften
  BY <1>12 DEF BeginSoften, TypeOK, Phases, inputVars, weighVars, implVars
<1>13. CASE SoftenRemaining
  <2>1. candidates[pos] \in Mult
    <3>1. candidates \in Seq(Mult) /\ pos \in 1..Len(candidates)
      BY <1>13 DEF SoftenRemaining, TypeOK
    <3> QED BY <3>1
  <2>2. /\ hardened' \in [Mult -> Nat] /\ softened' \in [Mult -> Nat]
        /\ instances' \subseteq [a : Nat, b : Nat]
    BY <1>13, <2>1, SoftType DEF SoftenRemaining
  <2>3. pos' \in Nat \ {0} /\ phase' \in Phases /\ phase' # "erase"
    BY <1>13 DEF SoftenRemaining, TypeOK, Phases
  <2> QED BY <1>13, <2>2, <2>3 DEF SoftenRemaining, TypeOK, inputVars, weighVars
<1>14. CASE Finish
  BY <1>14 DEF Finish, TypeOK, Phases, inputVars, weighVars, implVars
<1>15. CASE UNCHANGED vars
  BY <1>15 DEF vars, TypeOK, inputVars, weighVars, implVars
<1> QED
  BY <1>1, <1>2, <1>3, <1>4, <1>5, <1>6, <1>7, <1>8, <1>9, <1>10, <1>11,
     <1>12, <1>13, <1>14, <1>15 DEF Next

-----------------------------------------------------------------------------

(***************************************************************************)
(* Where a step leaves the netlist and the switch alone, what is a         *)
(* candidate does not change.                                              *)
(***************************************************************************)
LEMMA SameCandidates ==
  ASSUME net' = net, asked' = asked, opt'.enabled = opt.enabled
  PROVE  /\ \A m : Hardenable(m)' = Hardenable(m)
         /\ \A m : Noted(m)' = Noted(m)
         /\ HardAdders' = HardAdders
  BY DEF Hardenable, Noted, HardMultipliers, HardAdders, MinMult

(* With mixing enabled only candidates are hardened.                       *)
LEMMA OnlyNotedOnce ==
  ASSUME TypeOK, CandidatesInv, opt.enabled, NEW m \in Mult, Once(m)
  PROVE  Noted(m) /\ m \notin unmapped
  BY DEF CandidatesInv, Once, Untouched, MappedOtherwise, Noted, Softly

(* The initial states satisfy the invariant.                               *)
LEMMA InitInv == Init => IInv
<1> SUFFICES ASSUME Init PROVE IInv
  OBVIOUS
<1>1. /\ opt \in [enabled : BOOLEAN, count : Int, ratio : Int]
      /\ opt.enabled => InRange(opt.ratio) /\ opt.count >= 0
  BY SettingsType, InvocationsAssumption DEF Init, IsInvocation
<1>2. TypeOK
  <2>1. IsInvocation([net |-> net, asked |-> asked])
    BY InvocationsAssumption DEF Init, IsInvocation
  <2> QED BY <1>1, <2>1 DEF Init, TypeOK, Phases
<1>3. OptInv /\ BeforePerform /\ WeighInv
  BY <1>1 DEF Init, OptInv, BeforePerform, AllNoted, WeighInv, Untouched
<1>4. CandidatesInv
  BY DEF Init, CandidatesInv, Untouched
<1> QED BY <1>2, <1>3, <1>4 DEF Init, IInv, PerformInv, EraseInv, SoftenInv, EnabledInv, EndInv

(* Noting or mapping one multiplier in the traversal.                      *)
LEMMA PartialMapInv ==
  ASSUME IInv, PartialMapNode
  PROVE  IInv'
<1>1. PICK m \in unmapped :
        /\ unmapped' = unmapped \ {m}
        /\ NoteCandidate(m) \/ MapHard(m) \/ MapSoft(m) \/ MapLeft(m)
  BY DEF PartialMapNode
<1>2. /\ m \in Mult /\ Untouched(m) /\ TypeOK /\ TypeOK'
      /\ phase = "map" /\ phase' \in {"map", "one_bit_error"}
  BY <1>1, PartialMapType
     DEF IInv, TypeOK, CandidatesInv, PartialMapNode, NoteCandidate, MapHard, MapSoft, MapLeft
<1>3. /\ net' = net /\ asked' = asked /\ opt' = opt /\ weight' = weight /\ pos' = pos
      /\ stack' = stack /\ depth' = depth
  BY DEF PartialMapNode, weighVars
<1>4. /\ \A n : Hardenable(n)' = Hardenable(n)
      /\ \A n : Noted(n)' = Noted(n)
      /\ HardAdders' = HardAdders
  BY <1>3, SameCandidates
<1>5. CASE NoteCandidate(m)
  <2>1. /\ Noted(m) /\ phase' = "map"
        /\ candidates' = Append(candidates, m)
        /\ hardened' = hardened /\ softened' = softened
    BY <1>2, <1>5 DEF NoteCandidate, Noted, implVars
  <2>2. /\ Len(candidates') = Len(candidates) + 1
        /\ \A i \in 1..Len(candidates) : candidates'[i] = candidates[i]
        /\ candidates'[Len(candidates) + 1] = m
        /\ Len(candidates) \in Nat
    BY <1>2, <2>1, AppendFacts DEF TypeOK
  <2>3. /\ \A n : Once(n)' = Once(n) /\ Softly(n)' = Softly(n)
        /\ \A n : Untouched(n)' = Untouched(n)
        /\ \A n : MappedOtherwise(n)' = MappedOtherwise(n)
    BY <1>4, <2>1 DEF Once, Softly, Untouched, MappedOtherwise
  <2>4. CandidatesInv'
    <3>1. \A i \in 1..Len(candidates) : candidates[i] # m
      BY <1>1 DEF IInv, CandidatesInv
    <3>2. \A i, j \in 1..Len(candidates') : i # j => candidates'[i] # candidates'[j]
      BY <2>2, <3>1 DEF IInv, CandidatesInv
    <3>3. \A i \in 1..Len(candidates') :
             Noted(candidates'[i]) /\ candidates'[i] \notin unmapped'
      BY <1>1, <2>1, <2>2 DEF IInv, CandidatesInv
    <3> QED BY <1>1, <1>2, <1>4, <2>1, <2>3, <3>2, <3>3 DEF IInv, CandidatesInv
  <2>5. AllNoted'
    <3>1. ASSUME NEW n \in Mult \ unmapped', Noted(n)
          PROVE  \E i \in 1..Len(candidates') : candidates'[i] = n
      <4>1. CASE n = m
        BY <2>2, <4>1
      <4>2. CASE n # m
        <5>1. PICK i \in 1..Len(candidates) : candidates[i] = n
          BY <1>1, <1>2, <3>1, <4>2 DEF IInv, BeforePerform, AllNoted
        <5> QED BY <2>2, <5>1
      <4> QED BY <4>1, <4>2
    <3> QED BY <1>4, <3>1 DEF AllNoted
  <2>6. OptInv' /\ BeforePerform' /\ WeighInv'
    BY <1>2, <1>3, <1>4, <2>1, <2>3, <2>5 DEF IInv, OptInv, BeforePerform, WeighInv
  <2> QED
    BY <1>2, <2>1, <2>4, <2>6 DEF IInv, PerformInv, EraseInv, SoftenInv, EnabledInv, EndInv
<1>6. CASE MapHard(m) \/ MapSoft(m) \/ MapLeft(m)
  <2>1. /\ candidates' = candidates
        /\ ~Noted(m) /\ MappedOtherwise(m)'
        /\ \A n \in Mult : n # m => hardened'[n] = hardened[n] /\ softened'[n] = softened[n]
    BY <1>2, <1>4, <1>6
       DEF MapHard, MapSoft, MapLeft, InstantiateHard, InstantiateSoft, Noted, implVars,
           MappedOtherwise, Untouched, Once, Softly, TypeOK
  <2>2. \A n \in Mult : n # m =>
          /\ Once(n)' = Once(n) /\ Softly(n)' = Softly(n)
          /\ Untouched(n)' = Untouched(n)
          /\ MappedOtherwise(n)' = MappedOtherwise(n)
    BY <1>4, <2>1 DEF Once, Softly, Untouched, MappedOtherwise
  <2>3. CandidatesInv'
    BY <1>1, <1>2, <1>4, <2>1, <2>2 DEF IInv, CandidatesInv, TypeOK
  <2>4. AllNoted' /\ \A n \in Mult : Noted(n)' => Untouched(n)'
    BY <1>1, <1>2, <1>4, <2>1, <2>2 DEF IInv, BeforePerform, AllNoted
  <2>5. OptInv' /\ BeforePerform' /\ WeighInv'
    BY <1>2, <1>3, <1>4, <2>1, <2>4 DEF IInv, OptInv, BeforePerform, WeighInv
  <2>6. EndInv'
    <3>1. \A n \in Mult : opt.enabled => ~Once(n)'
      BY <1>3, <1>2, <2>3, <2>4, OnlyNotedOnce
         DEF Once, Untouched, CandidatesInv, MappedOtherwise, Noted, Softly
    <3> QED BY <1>2, <1>3, <2>4, <3>1 DEF EndInv, Heaviest
  <2> QED
    BY <1>2, <2>3, <2>5, <2>6 DEF IInv, PerformInv, EraseInv, SoftenInv, EnabledInv
<1> QED BY <1>1, <1>5, <1>6

(***************************************************************************)
(* A step that touches neither the candidates nor their implementation     *)
(* keeps what is said of those.                                            *)
(***************************************************************************)
LEMMA SameImplementation ==
  ASSUME net' = net, asked' = asked, opt'.enabled = opt.enabled, unmapped' = unmapped,
         candidates' = candidates, hardened' = hardened, softened' = softened
  PROVE  /\ \A m : Noted(m)' = Noted(m)
         /\ \A m : Once(m)' = Once(m) /\ Softly(m)' = Softly(m)
         /\ \A m : Untouched(m)' = Untouched(m)
         /\ \A m : MappedOtherwise(m)' = MappedOtherwise(m)
         /\ AllNoted' = AllNoted
         /\ CandidatesInv /\ (phase' \notin {"map", "one_bit_error"} => unmapped = {})
              => CandidatesInv'
<1>1. /\ \A m : Hardenable(m)' = Hardenable(m)
      /\ \A m : Noted(m)' = Noted(m)
      /\ HardAdders' = HardAdders
  BY SameCandidates
<1>2. /\ \A m : Once(m)' = Once(m) /\ Softly(m)' = Softly(m)
      /\ \A m : Untouched(m)' = Untouched(m)
  BY DEF Once, Softly, Untouched
<1>3. \A m : MappedOtherwise(m)' = MappedOtherwise(m)
  BY <1>1, <1>2 DEF MappedOtherwise
<1>4. AllNoted' = AllNoted
  BY <1>1 DEF AllNoted
<1>5. CandidatesInv /\ (phase' \notin {"map", "one_bit_error"} => unmapped = {})
        => CandidatesInv'
  BY <1>1, <1>2, <1>3 DEF CandidatesInv
<1> QED BY <1>1, <1>2, <1>3, <1>4, <1>5

(* Nothing is lost when the mapping ends.                                  *)
LEMMA MapEndInv ==
  ASSUME IInv, TypeOK', SetBlocksNeeded \/ NothingToMix
  PROVE  IInv'
<1>1. /\ net' = net /\ asked' = asked /\ unmapped' = unmapped /\ candidates' = candidates
      /\ hardened' = hardened /\ softened' = softened
      /\ weight' = weight /\ pos' = pos /\ stack' = stack
      /\ phase = "map" /\ unmapped = {}
  BY DEF SetBlocksNeeded, NothingToMix, inputVars, weighVars, implVars
<1>2. opt'.enabled = opt.enabled
  BY DEF SetBlocksNeeded, NothingToMix, IInv, TypeOK
<1>3. /\ \A m : Noted(m)' = Noted(m)
      /\ \A m : Once(m)' = Once(m) /\ Softly(m)' = Softly(m)
      /\ \A m : Untouched(m)' = Untouched(m)
      /\ AllNoted' = AllNoted
      /\ CandidatesInv'
  BY <1>1, <1>2, SameImplementation DEF IInv
<1>4. CASE SetBlocksNeeded
  <2>1. /\ Smaller(opt.count, Len(candidates)) \in Nat
        /\ Smaller(opt.count, Len(candidates)) < IntMax
        /\ opt.ratio \in Int /\ InRange(opt.ratio)
    <3>1. Len(candidates) < IntMax /\ Len(candidates) \in Nat
      BY DistinctBounded DEF IInv, TypeOK, CandidatesInv
    <3>2. opt.enabled /\ opt.count \in Nat /\ opt.ratio \in Int /\ InRange(opt.ratio)
      BY <1>4 DEF SetBlocksNeeded, IInv, TypeOK, OptInv
    <3> QED BY <3>1, <3>2, IntMaxAssumption DEF Smaller
  <2>2. ScaleCounts(Smaller(opt.count, Len(candidates)), opt.ratio) \in Nat
    BY <2>1, Scaled
  <2>3. /\ phase' = "weigh"
        /\ opt'.ratio = opt.ratio /\ opt'.count \in Nat
    BY <1>4, <2>2 DEF SetBlocksNeeded, IInv, TypeOK
  <2>4. OptInv'
    BY <1>1, <1>2, <2>1, <2>3 DEF OptInv, IInv, InRange
  <2>5. BeforePerform'
    BY <1>1, <1>3 DEF IInv, BeforePerform
  <2>6. WeighInv'
    BY <1>1, <2>3 DEF IInv, WeighInv, TypeOK
  <2> QED
    BY <1>2, <1>3, <1>4, <2>3, <2>4, <2>5, <2>6
       DEF SetBlocksNeeded, IInv, PerformInv, EraseInv, SoftenInv, EnabledInv, EndInv
<1>5. CASE NothingToMix
  <2>1. phase' = "done" /\ ~opt.enabled /\ opt' = opt
    BY <1>5 DEF NothingToMix
  <2>2. \A m : ~Noted(m)'
    BY <1>3, <2>1 DEF Noted
  <2> QED
    BY <1>1, <1>3, <2>1, <2>2
       DEF IInv, OptInv, BeforePerform, WeighInv, PerformInv, EraseInv, SoftenInv, EnabledInv, EndInv
<1> QED BY <1>4, <1>5

(* The recursion does not touch a candidate that is already weighed.       *)
LEMMA WeighingInv ==
  ASSUME IInv, TypeOK', StatCandidate \/ StatReader \/ StatReturn \/ AssignWeight
  PROVE  IInv'
<1>1. /\ net' = net /\ asked' = asked /\ unmapped' = unmapped /\ candidates' = candidates
      /\ hardened' = hardened /\ softened' = softened /\ opt' = opt
      /\ phase = "weigh" /\ phase' = "weigh" /\ unmapped = {}
  BY DEF StatCandidate, StatReader, StatReturn, AssignWeight, inputVars, implVars,
         IInv, CandidatesInv
<1>2. /\ \A m : Noted(m)' = Noted(m)
      /\ \A m : Untouched(m)' = Untouched(m)
      /\ AllNoted' = AllNoted
      /\ CandidatesInv'
  BY <1>1, SameImplementation DEF IInv
<1>3. /\ candidates \in Seq(Mult) /\ pos \in Nat \ {0} /\ Len(candidates) \in Nat
      /\ depth \in [Node -> Nat] /\ weight \in [Mult -> Nat \cup {-1}]
      /\ \A i \in 1..Len(candidates) : candidates[i] \in Mult
  BY <1>1 DEF IInv, TypeOK
<1>4. \A i \in 1..Len(candidates) : i < pos => Weighed(i)
  BY <1>1 DEF IInv, WeighInv
<1>5. ASSUME StatCandidate \/ StatReader
      PROVE  (\A m \in Mult : weight'[m] >= 0) /\ WeighInv'
  <2>1. PICK n \in Node : /\ n \notin visited
                          /\ visited' = visited \cup {n}
                          /\ stack' = Append(stack, n)
    <3>1. CASE StatCandidate
      <4>1. candidates[pos] \in Node
        BY <1>3, <3>1, NodeAssumption DEF StatCandidate
      <4> QED BY <3>1, <4>1 DEF StatCandidate, EnterStat
    <3>2. CASE StatReader
      BY <3>2 DEF StatReader, EnterStat, Readers
    <3> QED BY <1>5, <3>1, <3>2
  <2>2. weight' = weight /\ depth' = depth /\ pos' = pos
    BY <1>5 DEF StatCandidate, StatReader
  <2>3. /\ Len(stack) \in Nat
        /\ Len(stack') = Len(stack) + 1
        /\ \A i \in 1..Len(stack) : stack'[i] = stack[i]
        /\ stack'[Len(stack) + 1] = n
    BY <2>1, AppendFacts DEF IInv, TypeOK
  <2>4. ASSUME NEW i \in 1..Len(candidates), i < pos
        PROVE  Weighed(i)'
    <3>1. Weighed(i)
      BY <1>4, <2>4
    <3>2. candidates[i] # n
      BY <2>1, <3>1 DEF Weighed
    <3>3. \A k \in 1..Len(stack') : stack'[k] # candidates[i]
      BY <2>3, <3>1, <3>2 DEF Weighed
    <3> QED BY <1>1, <2>1, <2>2, <3>1, <3>3 DEF Weighed
  <2> QED BY <1>1, <2>2, <2>4 DEF WeighInv, IInv, BeforePerform
<1>6. ASSUME StatReturn
      PROVE  (\A m \in Mult : weight'[m] >= 0) /\ WeighInv'
  <2>1. PICK d : depth' = [depth EXCEPT ![Top] = d]
    BY <1>6 DEF StatReturn
  <2>2. weight' = weight /\ visited' = visited /\ pos' = pos /\ stack' = Pop
    BY <1>6 DEF StatReturn
  <2>3. /\ stack \in Seq(Node) /\ stack # <<>>
        /\ Len(stack) \in 1..Len(stack) /\ Len(stack) \in Nat
    BY <1>6 DEF StatReturn, IInv, TypeOK
  <2>4. /\ Top = stack[Len(stack)]
        /\ Len(stack') = Len(stack) - 1
        /\ \A i \in 1..(Len(stack) - 1) : stack'[i] = stack[i]
    BY <2>2, <2>3, PopFacts DEF Top
  <2>5. ASSUME NEW i \in 1..Len(candidates), i < pos
        PROVE  Weighed(i)'
    <3>1. Weighed(i)
      BY <1>4, <2>5
    <3>2. candidates[i] # Top
      BY <2>3, <2>4, <3>1 DEF Weighed
    <3>3. \A k \in 1..Len(stack') : stack'[k] # candidates[i]
      BY <2>3, <2>4, <3>1 DEF Weighed
    <3>4. depth'[candidates[i]] = depth[candidates[i]]
      BY <1>3, <2>1, <3>2, NodeAssumption
    <3> QED BY <1>1, <2>2, <3>1, <3>3, <3>4 DEF Weighed
  <2> QED BY <1>1, <2>2, <2>5 DEF WeighInv, IInv, BeforePerform
<1>7. ASSUME AssignWeight
      PROVE  (\A m \in Mult : weight'[m] >= 0) /\ WeighInv'
  <2>1. /\ pos \in 1..Len(candidates) /\ candidates[pos] \in visited
        /\ stack = <<>> /\ stack' = stack
        /\ weight' = [weight EXCEPT ![candidates[pos]] = depth[candidates[pos]]]
        /\ pos' = pos + 1 /\ visited' = visited /\ depth' = depth
    BY <1>3, <1>7 DEF AssignWeight, weighVars
  <2>2. candidates[pos] \in Mult /\ depth[candidates[pos]] \in Nat
    BY <1>3, <2>1, NodeAssumption
  <2>3. \A m \in Mult : weight'[m] >= 0
    BY <1>1, <1>3, <2>1, <2>2 DEF IInv, BeforePerform
  <2>4. ASSUME NEW i \in 1..Len(candidates), i < pos'
        PROVE  Weighed(i)'
    <3>1. CASE i = pos
      BY <1>1, <1>3, <2>1, <2>2, <3>1 DEF Weighed
    <3>2. CASE i # pos
      <4>1. i < pos /\ Weighed(i)
        BY <1>3, <1>4, <2>1, <2>4, <3>2
      <4>2. candidates[i] # candidates[pos]
        BY <2>1, <3>2 DEF IInv, CandidatesInv
      <4> QED BY <1>1, <1>3, <2>1, <4>1, <4>2 DEF Weighed
    <3> QED BY <3>1, <3>2
  <2> QED BY <1>1, <2>3, <2>4 DEF WeighInv
<1>8. (\A m \in Mult : weight'[m] >= 0) /\ WeighInv'
  BY <1>5, <1>6, <1>7
<1>9. OptInv' /\ BeforePerform'
  BY <1>1, <1>2, <1>8 DEF IInv, OptInv, BeforePerform
<1> QED
  BY <1>1, <1>2, <1>8, <1>9 DEF IInv, PerformInv, EraseInv, SoftenInv, EnabledInv, EndInv

(***************************************************************************)
(* When the rounds begin every candidate has its depth as weight.          *)
(***************************************************************************)
LEMMA BeginPerformInv ==
  ASSUME IInv, TypeOK', BeginPerform
  PROVE  IInv'
<1>1. /\ net' = net /\ asked' = asked /\ unmapped' = unmapped /\ candidates' = candidates
      /\ hardened' = hardened /\ softened' = softened /\ opt' = opt
      /\ weight' = weight /\ depth' = depth
      /\ phase = "weigh" /\ phase' = "perform" /\ unmapped = {}
      /\ pos > Len(candidates)
  BY DEF BeginPerform, inputVars, implVars, weighVars, IInv, CandidatesInv
<1>2. /\ \A m : Noted(m)' = Noted(m)
      /\ \A m : Once(m)' = Once(m)
      /\ \A m : Untouched(m)' = Untouched(m)
      /\ AllNoted' = AllNoted
      /\ CandidatesInv'
  BY <1>1, SameImplementation DEF IInv
<1>3. ASSUME NEW m \in Mult, Noted(m)
      PROVE  Untouched(m) /\ weight[m] = depth[m]
  <2>1. PICK i \in 1..Len(candidates) : candidates[i] = m
    BY <1>1, <1>3 DEF IInv, BeforePerform, AllNoted
  <2>2. i < pos
    BY <1>1 DEF IInv, TypeOK
  <2>3. Weighed(i)
    BY <1>1, <2>2 DEF IInv, WeighInv
  <2> QED BY <1>1, <1>3, <2>1, <2>3 DEF Weighed, IInv, BeforePerform
<1>4. opt.enabled
  BY <1>1 DEF IInv, EnabledInv
<1>5. \A h \in Mult : ~Once(h)
  BY <1>3, <1>4, OnlyNotedOnce DEF IInv, Once, Untouched
<1>6. PerformInv'
  BY <1>1, <1>2, <1>3, <1>4, <1>5
     DEF PerformInv, IInv, BeforePerform, HardenedOrWaiting, Heaviest
<1> QED
  BY <1>1, <1>2, <1>6
     DEF IInv, OptInv, BeforePerform, WeighInv, EraseInv, SoftenInv, EndInv, EnabledInv

(* One round: the heaviest that waits is hardened.                         *)
LEMMA HardenInv ==
  ASSUME IInv, TypeOK', HardenHeaviest
  PROVE  IInv'
<1>0. PICK j \in Eligible :
        /\ Preferred(j)
        /\ weight' = [weight EXCEPT ![candidates[j]] = -1]
        /\ InstantiateHard(candidates[j])
  BY DEF HardenHeaviest
<1>1. PICK m \in Mult :
        /\ m = candidates[j] /\ Preferred(j)
        /\ weight' = [weight EXCEPT ![m] = -1]
        /\ InstantiateHard(m)
  <2>1. candidates \in Seq(Mult) /\ j \in DOMAIN candidates
    BY <1>0 DEF Eligible, IInv, TypeOK
  <2>2. candidates[j] \in Mult
    BY <2>1
  <2> QED BY <1>0, <2>2, Zenon
<1>2. /\ net' = net /\ asked' = asked /\ unmapped' = unmapped /\ candidates' = candidates
      /\ opt' = opt /\ depth' = depth
      /\ phase = "perform" /\ phase' = "perform" /\ unmapped = {}
  BY DEF HardenHeaviest, inputVars, weighVars, IInv, CandidatesInv
<1>3. /\ j \in 1..Len(candidates)
      /\ weight[m] > -1 /\ Noted(m)
      /\ weight \in [Mult -> Nat \cup {-1}]
      /\ hardened \in [Mult -> Nat] /\ softened \in [Mult -> Nat]
      /\ depth \in [Node -> Nat]
      /\ \A k \in 1..Len(candidates) : candidates[k] \in Mult
  <2>1. j \in 1..Len(candidates) /\ weight[m] > -1
    <3>1. candidates \in Seq(Mult) /\ j \in DOMAIN candidates
      BY <1>0 DEF Eligible, IInv, TypeOK
    <3>2. DOMAIN candidates = 1..Len(candidates)
      BY <3>1
    <3>3. weight[m] > -1
      BY <1>0, <1>1 DEF Eligible
    <3> QED BY <3>1, <3>2, <3>3
  <2>2. Noted(m)
    BY <1>1, <2>1 DEF IInv, CandidatesInv
  <2>3. /\ candidates \in Seq(Mult)
        /\ weight \in [Mult -> Nat \cup {-1}]
        /\ hardened \in [Mult -> Nat] /\ softened \in [Mult -> Nat]
        /\ depth \in [Node -> Nat]
    BY DEF IInv, TypeOK
  <2>4. \A k \in 1..Len(candidates) : candidates[k] \in Mult
    BY <2>3
  <2> QED BY <2>1, <2>2, <2>3, <2>4
<1>4. Untouched(m) /\ weight[m] = depth[m]
  BY <1>2, <1>3 DEF IInv, PerformInv, HardenedOrWaiting
<1>5. /\ \A n : Hardenable(n)' = Hardenable(n)
      /\ \A n : Noted(n)' = Noted(n)
      /\ HardAdders' = HardAdders
  BY <1>2, SameCandidates
<1>6. /\ Once(m)' /\ weight'[m] = -1
      /\ \A n \in Mult : n # m =>
           /\ Once(n)' = Once(n) /\ Softly(n)' = Softly(n)
           /\ Untouched(n)' = Untouched(n)
           /\ MappedOtherwise(n)' = MappedOtherwise(n)
           /\ weight'[n] = weight[n]
           /\ hardened'[n] = hardened[n]
  <2>1. /\ hardened' = [hardened EXCEPT ![m] = @ + 1]
        /\ softened' = softened
    BY <1>1 DEF InstantiateHard
  <2>2. hardened'[m] = 1 /\ softened'[m] = 0 /\ weight'[m] = -1
    BY <1>1, <1>3, <1>4, <2>1 DEF Untouched
  <2>3. ASSUME NEW n \in Mult, n # m
        PROVE  /\ hardened'[n] = hardened[n] /\ softened'[n] = softened[n]
               /\ weight'[n] = weight[n]
    BY <1>1, <1>3, <2>1, <2>3
  <2> QED BY <1>5, <2>2, <2>3 DEF Once, Softly, Untouched, MappedOtherwise
<1>7. CandidatesInv'
  BY <1>2, <1>3, <1>5, <1>6 DEF IInv, CandidatesInv
<1>8. OptInv'
  <2>1. hardened'[m] = 1
    BY <1>6 DEF Once
  <2> QED BY <1>2, <1>6, <2>1 DEF IInv, OptInv
<1>9. AllNoted' /\ \A n \in Mult : Noted(n)' => HardenedOrWaiting(n)'
  <2>1. AllNoted'
    BY <1>2, <1>5 DEF IInv, PerformInv, AllNoted
  <2>2. ASSUME NEW n \in Mult, Noted(n)
        PROVE  HardenedOrWaiting(n)'
    <3>1. CASE n = m
      BY <1>6, <3>1 DEF HardenedOrWaiting
    <3>2. CASE n # m
      BY <1>2, <1>6, <2>2, <3>2 DEF HardenedOrWaiting, IInv, PerformInv
    <3> QED BY <3>1, <3>2
  <2> QED BY <1>5, <2>1, <2>2
<1>10. Heaviest'
  <2>1. ASSUME NEW h \in Mult, NEW s \in Mult, Once(h)', Noted(s)', ~Once(s)'
        PROVE  depth'[s] <= depth'[h]
    <3>1. s # m /\ ~Once(s) /\ Noted(s)
      BY <1>5, <1>6, <2>1
    <3>2. CASE h = m
      <4>1. Untouched(s) /\ weight[s] = depth[s]
        BY <1>2, <3>1 DEF IInv, PerformInv, HardenedOrWaiting
      <4>2. PICK k \in 1..Len(candidates) : candidates[k] = s
        BY <1>2, <3>1 DEF IInv, PerformInv, AllNoted
      <4>3. depth[s] \in Nat /\ depth[m] \in Nat
        BY <1>3, NodeAssumption
      <4>4. k \in Eligible
        BY <3>1, <4>1, <4>2, <4>3 DEF Eligible, Noted
      <4>5. weight[s] <= weight[m]
        BY <1>1, <1>4, <4>1, <4>2, <4>3, <4>4 DEF Preferred
      <4> QED BY <1>2, <1>4, <3>2, <4>1, <4>5
    <3>3. CASE h # m
      BY <1>2, <1>6, <2>1, <3>1, <3>3 DEF IInv, PerformInv, Heaviest
    <3> QED BY <3>2, <3>3
  <2> QED BY <2>1 DEF Heaviest
<1> QED
  BY <1>2, <1>7, <1>8, <1>9, <1>10
     DEF IInv, PerformInv, BeforePerform, WeighInv, EraseInv, SoftenInv, EndInv, EnabledInv

(* When the rounds are over, hardened candidates bear the weight -1.       *)
LEMMA BeginEraseInv ==
  ASSUME IInv, TypeOK', BeginErase
  PROVE  IInv'
<1>1. /\ net' = net /\ asked' = asked /\ unmapped' = unmapped /\ candidates' = candidates
      /\ hardened' = hardened /\ softened' = softened /\ opt' = opt
      /\ weight' = weight /\ depth' = depth /\ pos' = Len(candidates)
      /\ phase = "perform" /\ phase' = "erase" /\ unmapped = {}
  BY DEF BeginErase, inputVars, implVars, weighVars, IInv, CandidatesInv
<1>2. /\ \A m : Noted(m)' = Noted(m)
      /\ \A m : Once(m)' = Once(m)
      /\ \A m : Untouched(m)' = Untouched(m)
      /\ CandidatesInv'
  BY <1>1, SameImplementation DEF IInv
<1>3. AllNoted /\ opt.enabled /\ Heaviest
      /\ \A m \in Mult : Noted(m) => HardenedOrWaiting(m)
  BY <1>1 DEF IInv, PerformInv, EnabledInv
<1>4. EraseInv'
  <2>1. \A i \in 1..Len(candidates) : ~(i > Len(candidates))
    BY DEF IInv, TypeOK
  <2>2. Heaviest'
    BY <1>1, <1>2, <1>3 DEF Heaviest
  <2>3. \A m \in Mult : Noted(m)' => HardenedOrWaiting(m)'
    BY <1>1, <1>2, <1>3 DEF HardenedOrWaiting
  <2> QED BY <1>1, <1>2, <1>3, <2>1, <2>2, <2>3 DEF EraseInv, AllNoted
<1> QED
  BY <1>1, <1>2, <1>3, <1>4
     DEF IInv, OptInv, BeforePerform, WeighInv, PerformInv, SoftenInv, EndInv, EnabledInv

(* Erasing takes out hardened candidates and no other.                     *)
LEMMA EraseHardenedInv ==
  ASSUME IInv, TypeOK', EraseHardened
  PROVE  IInv'
<1>1. /\ net' = net /\ asked' = asked /\ unmapped' = unmapped
      /\ hardened' = hardened /\ softened' = softened /\ opt' = opt
      /\ weight' = weight /\ depth' = depth /\ pos' = pos - 1
      /\ phase = "erase" /\ phase' = "erase" /\ unmapped = {}
  BY DEF EraseHardened, inputVars, implVars, weighVars, IInv, CandidatesInv
<1>2. /\ \A m : Hardenable(m)' = Hardenable(m)
      /\ \A m : Noted(m)' = Noted(m)
      /\ HardAdders' = HardAdders
  BY <1>1, SameCandidates
<1>3. /\ \A m : Once(m)' = Once(m) /\ Softly(m)' = Softly(m)
      /\ \A m : Untouched(m)' = Untouched(m)
  BY <1>1 DEF Once, Softly, Untouched
<1>4. \A m : MappedOtherwise(m)' = MappedOtherwise(m)
  BY <1>2, <1>3 DEF MappedOtherwise
<1>5. /\ candidates \in Seq(Mult) /\ Len(candidates) \in Nat
      /\ pos \in 1..Len(candidates) /\ candidates[pos] \in Mult
      /\ depth[candidates[pos]] \in Nat
  <2>1. candidates \in Seq(Mult) /\ pos \in 1..Len(candidates)
    BY <1>1 DEF IInv, TypeOK, EraseHardened
  <2>2. candidates[pos] \in Mult
    BY <2>1
  <2>3. depth \in [Node -> Nat]
    BY DEF IInv, TypeOK
  <2> QED BY <2>1, <2>2, <2>3, NodeAssumption
<1>6. /\ Heaviest /\ Noted(candidates[pos])
      /\ \A m \in Mult : Noted(m) => HardenedOrWaiting(m)
      /\ \A i \in 1..Len(candidates) : i > pos => Untouched(candidates[i])
      /\ \A m \in Mult : Noted(m) /\ ~Once(m) =>
            \E i \in 1..Len(candidates) : candidates[i] = m
      /\ \A i, j \in 1..Len(candidates) : i # j => candidates[i] # candidates[j]
      /\ \A i \in 1..Len(candidates) :
            Noted(candidates[i]) /\ candidates[i] \notin unmapped
  BY <1>1, <1>5 DEF IInv, EraseInv, CandidatesInv
<1>7. CASE weight[candidates[pos]] = -1
  <2>1. candidates' = Without(candidates, pos)
    BY <1>7 DEF EraseHardened
  <2>2. /\ Len(candidates') = Len(candidates) - 1
        /\ \A i \in 1..Len(candidates') :
              candidates'[i] = IF i < pos THEN candidates[i] ELSE candidates[i + 1]
    BY <1>5, <2>1, WithoutFacts
  <2>3. /\ \A i, j \in 1..Len(candidates') : i # j => candidates'[i] # candidates'[j]
        /\ \A i \in 1..Len(candidates') :
              Noted(candidates'[i]) /\ candidates'[i] \notin unmapped
    <3> DEFINE from(i) == IF i < pos THEN i ELSE i + 1
    <3>1. /\ \A i \in 1..Len(candidates') : from(i) \in 1..Len(candidates)
          /\ \A i, j \in 1..Len(candidates') : i # j => from(i) # from(j)
      BY <1>5, <2>2
    <3>2. \A i \in 1..Len(candidates') : candidates'[i] = candidates[from(i)]
      BY <2>2
    <3> HIDE DEF from
    <3>3. \A i, j \in 1..Len(candidates') : i # j => candidates'[i] # candidates'[j]
      BY <1>6, <3>1, <3>2
    <3>4. \A i \in 1..Len(candidates') :
             Noted(candidates'[i]) /\ candidates'[i] \notin unmapped
      BY <1>6, <3>1, <3>2
    <3> QED BY <3>3, <3>4
  <2>4. \A i \in 1..Len(candidates') : i > pos' => Untouched(candidates'[i])
    <3>1. ASSUME NEW i \in 1..Len(candidates'), i > pos'
          PROVE  Untouched(candidates'[i])
      <4>1. ~(i < pos) /\ i + 1 \in 1..Len(candidates) /\ i + 1 > pos
        BY <1>1, <1>5, <2>2, <3>1
      <4> QED BY <1>6, <2>2, <4>1
    <3> QED BY <3>1
  <2>5. Once(candidates[pos])
    BY <1>5, <1>6, <1>7 DEF HardenedOrWaiting
  <2>6. ASSUME NEW m \in Mult, Noted(m), ~Once(m)
        PROVE  \E i \in 1..Len(candidates') : candidates'[i] = m
    <3>1. PICK i \in 1..Len(candidates) : candidates[i] = m
      BY <1>6, <2>6
    <3>2. i # pos
      BY <2>5, <2>6, <3>1
    <3> QED BY <1>5, <2>1, <3>1, <3>2, WithoutElements
  <2> QED BY <2>3, <2>4, <2>6,
             <1>1, <1>2, <1>3, <1>4, <1>6
          DEF IInv, OptInv, CandidatesInv, EraseInv, HardenedOrWaiting, Heaviest,
              BeforePerform, WeighInv, PerformInv, SoftenInv, EnabledInv, EndInv
<1>8. CASE weight[candidates[pos]] # -1
  <2>1. candidates' = candidates
    BY <1>8 DEF EraseHardened
  <2>2. Untouched(candidates[pos])
    BY <1>5, <1>6, <1>8 DEF HardenedOrWaiting
  <2>3. \A i \in 1..Len(candidates) : i > pos' => Untouched(candidates[i])
    <3>1. ASSUME NEW i \in 1..Len(candidates), i > pos'
          PROVE  i = pos \/ i > pos
      BY <1>1, <1>5, <3>1
    <3> QED BY <1>6, <2>2, <3>1
  <2> QED BY <1>1, <1>2, <1>3, <1>4, <1>6, <2>1, <2>3
          DEF IInv, OptInv, CandidatesInv, EraseInv, HardenedOrWaiting, Heaviest,
              BeforePerform, WeighInv, PerformInv, SoftenInv, EnabledInv, EndInv
<1> QED BY <1>7, <1>8

(* After the loop of erasures no hardened candidate is left in the vector. *)
LEMMA BeginSoftenInv ==
  ASSUME IInv, TypeOK', BeginSoften
  PROVE  IInv'
<1>1. /\ net' = net /\ asked' = asked /\ unmapped' = unmapped /\ candidates' = candidates
      /\ hardened' = hardened /\ softened' = softened /\ opt' = opt
      /\ weight' = weight /\ depth' = depth /\ pos' = 1
      /\ phase = "erase" /\ phase' = "soften" /\ unmapped = {} /\ pos = 0
  BY DEF BeginSoften, inputVars, implVars, weighVars, IInv, CandidatesInv
<1>2. /\ \A m : Noted(m)' = Noted(m)
      /\ \A m : Once(m)' = Once(m) /\ Softly(m)' = Softly(m)
      /\ \A m : Untouched(m)' = Untouched(m)
      /\ CandidatesInv'
  BY <1>1, SameImplementation DEF IInv
<1>3. \A i \in 1..Len(candidates) : Untouched(candidates[i]) /\ ~(i < 1)
  <2>1. \A i \in 1..Len(candidates) : i > pos => Untouched(candidates[i])
    BY <1>1 DEF IInv, EraseInv
  <2> QED BY <1>1, <2>1
<1>4. SoftenInv'
  BY <1>1, <1>2, <1>3 DEF SoftenInv, IInv, EraseInv, Heaviest
<1> QED
  BY <1>1, <1>2, <1>4
     DEF IInv, OptInv, BeforePerform, WeighInv, PerformInv, EraseInv, EnabledInv, EndInv

(* What is left of the candidates is softened one after the other.         *)
LEMMA SoftenInvStep ==
  ASSUME IInv, TypeOK', SoftenRemaining
  PROVE  IInv'
<1>1. /\ net' = net /\ asked' = asked /\ unmapped' = unmapped /\ candidates' = candidates
      /\ opt' = opt /\ weight' = weight /\ depth' = depth /\ pos' = pos + 1
      /\ hardened' = hardened
      /\ softened' = [softened EXCEPT ![candidates[pos]] = @ + 1]
      /\ phase = "soften" /\ phase' \in {"soften", "one_bit_error"} /\ unmapped = {}
  BY DEF SoftenRemaining, InstantiateSoft, inputVars, weighVars, IInv, CandidatesInv
<1>2. PICK m \in Mult : m = candidates[pos]
  <2>1. candidates \in Seq(Mult) /\ pos \in 1..Len(candidates)
    BY <1>1 DEF SoftenRemaining, IInv, TypeOK
  <2> QED BY <2>1
<1>3. /\ pos \in 1..Len(candidates) /\ Len(candidates) \in Nat
      /\ \A i \in 1..Len(candidates) : candidates[i] \in Mult
      /\ softened \in [Mult -> Nat]
  <2>1. /\ candidates \in Seq(Mult)
        /\ softened \in [Mult -> Nat]
    BY DEF IInv, TypeOK
  <2>2. pos \in 1..Len(candidates)
    BY <1>1 DEF SoftenRemaining, IInv, TypeOK
  <2>3. Len(candidates) \in Nat
    BY <2>1
  <2>4. \A i \in 1..Len(candidates) : candidates[i] \in Mult
    BY <2>1
  <2> QED BY <2>1, <2>2, <2>3, <2>4
<1>4. Untouched(m) /\ Noted(m)
  <2>1. Untouched(m)
    BY <1>1, <1>2, <1>3 DEF IInv, SoftenInv
  <2> QED BY <1>2, <1>3, <2>1 DEF IInv, CandidatesInv
<1>5. /\ \A n : Hardenable(n)' = Hardenable(n)
      /\ \A n : Noted(n)' = Noted(n)
      /\ HardAdders' = HardAdders
  BY <1>1, SameCandidates
<1>6. /\ Softly(m)'
      /\ \A n \in Mult : n # m =>
            /\ Once(n)' = Once(n) /\ Softly(n)' = Softly(n)
            /\ Untouched(n)' = Untouched(n)
            /\ MappedOtherwise(n)' = MappedOtherwise(n)
  <2>1. softened'[m] = 1 /\ hardened'[m] = 0
    BY <1>1, <1>2, <1>3, <1>4 DEF Untouched
  <2>2. \A n \in Mult : n # m => hardened'[n] = hardened[n] /\ softened'[n] = softened[n]
    BY <1>1, <1>2, <1>3
  <2> QED BY <1>5, <2>1, <2>2 DEF Once, Softly, Untouched, MappedOtherwise
<1>7. ~Once(m) /\ ~Once(m)'
  BY <1>4, <1>6 DEF Once, Untouched, Softly
<1>8. CandidatesInv'
  BY <1>1, <1>4, <1>5, <1>6 DEF IInv, CandidatesInv
<1>9. Heaviest'
  BY <1>1, <1>5, <1>6, <1>7 DEF IInv, SoftenInv, Heaviest
<1>10. \A i \in 1..Len(candidates) :
         IF i < pos' THEN Softly(candidates[i])' ELSE Untouched(candidates[i])'
  <2>1. ASSUME NEW i \in 1..Len(candidates), NEW n \in Mult, n = candidates[i]
        PROVE  IF i < pos' THEN Softly(n)' ELSE Untouched(n)'
    <3>1. CASE i = pos
      BY <1>1, <1>2, <1>6, <2>1, <3>1
    <3>2. CASE i # pos
      <4>1. n # m
        BY <1>2, <1>3, <2>1, <3>2 DEF IInv, CandidatesInv
      <4>2. IF i < pos THEN Softly(n) ELSE Untouched(n)
        BY <1>1, <2>1 DEF IInv, SoftenInv
      <4>3. (i < pos') <=> (i < pos)
        BY <1>1, <1>3, <3>2
      <4> QED BY <1>6, <2>1, <4>1, <4>2, <4>3
    <3> QED BY <3>1, <3>2
  <2>2. \A i \in 1..Len(candidates), n \in Mult : n = candidates[i] =>
          IF i < pos' THEN Softly(n)' ELSE Untouched(n)'
    BY <2>1
  <2> QED BY <1>1, <1>3, <2>2 DEF Softly, Untouched
<1>11. \A n \in Mult : Noted(n)' /\ ~Once(n)' =>
         \E i \in 1..Len(candidates) : candidates[i] = n
  BY <1>1, <1>2, <1>3, <1>5, <1>6 DEF IInv, SoftenInv
<1>12. \A n \in Mult : Noted(n)' => Once(n)' \/ Softly(n)' \/ Untouched(n)'
  <2>1. ASSUME NEW n \in Mult, Noted(n)', ~Once(n)'
        PROVE  Softly(n)' \/ Untouched(n)'
    <3>1. PICK i \in 1..Len(candidates) : candidates[i] = n
      BY <1>11, <2>1
    <3> QED BY <1>1, <1>10, <3>1 DEF Softly, Untouched
  <2> QED BY <2>1
<1>13. SoftenInv'
  BY <1>1, <1>9, <1>10, <1>11 DEF SoftenInv, Softly, Untouched
<1>14. EndInv' /\ EnabledInv'
  BY <1>1, <1>9, <1>12 DEF EndInv, EnabledInv, IInv
<1> QED
  BY <1>1, <1>8, <1>13, <1>14
     DEF IInv, OptInv, BeforePerform, WeighInv, PerformInv, EraseInv

(* When all the rest is softened, every candidate is implemented.          *)
LEMMA FinishInv ==
  ASSUME IInv, TypeOK', Finish
  PROVE  IInv'
<1>1. /\ net' = net /\ asked' = asked /\ unmapped' = unmapped /\ candidates' = candidates
      /\ hardened' = hardened /\ softened' = softened /\ opt' = opt
      /\ weight' = weight /\ depth' = depth
      /\ phase = "soften" /\ phase' = "done" /\ unmapped = {}
      /\ pos > Len(candidates)
  BY DEF Finish, inputVars, implVars, weighVars, IInv, CandidatesInv
<1>2. /\ \A m : Noted(m)' = Noted(m)
      /\ \A m : Once(m)' = Once(m) /\ Softly(m)' = Softly(m)
      /\ CandidatesInv'
  BY <1>1, SameImplementation DEF IInv
<1>3. \A i \in 1..Len(candidates) : i < pos
  BY <1>1 DEF IInv, TypeOK
<1>4. \A m \in Mult : Noted(m) => Once(m) \/ Softly(m)
  BY <1>1, <1>3 DEF IInv, SoftenInv
<1>5. EndInv'
  BY <1>1, <1>2, <1>4 DEF EndInv, IInv, SoftenInv, Heaviest
<1> QED
  BY <1>1, <1>2, <1>5
     DEF IInv, OptInv, BeforePerform, WeighInv, PerformInv, EraseInv, SoftenInv, EnabledInv

(* A step that changes no variable keeps the invariant.                    *)
LEMMA StutterInv ==
  ASSUME IInv, TypeOK', UNCHANGED vars
  PROVE  IInv'
<1>1. /\ net' = net /\ asked' = asked /\ unmapped' = unmapped /\ candidates' = candidates
      /\ hardened' = hardened /\ softened' = softened /\ opt' = opt
      /\ weight' = weight /\ depth' = depth /\ pos' = pos /\ phase' = phase
      /\ stack' = stack /\ visited' = visited
  BY DEF vars, inputVars, implVars, weighVars
<1>2. /\ \A m : Noted(m)' = Noted(m)
      /\ \A m : Once(m)' = Once(m) /\ Softly(m)' = Softly(m)
      /\ \A m : Untouched(m)' = Untouched(m)
      /\ AllNoted' = AllNoted
      /\ CandidatesInv'
  BY <1>1, SameImplementation DEF IInv, CandidatesInv
<1>3. /\ \A i : Weighed(i)' = Weighed(i)
      /\ \A m : HardenedOrWaiting(m)' = HardenedOrWaiting(m)
      /\ Heaviest' = Heaviest
  BY <1>1, <1>2 DEF Weighed, HardenedOrWaiting, Heaviest
<1> QED
  BY <1>1, <1>2, <1>3
     DEF IInv, OptInv, BeforePerform, WeighInv, PerformInv, EraseInv, SoftenInv,
         EnabledInv, EndInv

-----------------------------------------------------------------------------

(***************************************************************************)
(* The inductive invariant of the mapping holds in every behaviour.        *)
(***************************************************************************)
THEOREM MappingCorrect == Spec => []IInv
<1>1. Init => IInv
  BY InitInv
<1>2. IInv /\ [Next]_vars => IInv'
  <2> SUFFICES ASSUME IInv, [Next]_vars PROVE IInv'
    OBVIOUS
  <2>1. TypeOK'
    BY TypeStep DEF IInv
  <2> QED
    BY <2>1, PartialMapInv, MapEndInv, WeighingInv, BeginPerformInv, HardenInv,
       BeginEraseInv, EraseHardenedInv, BeginSoftenInv, SoftenInvStep, FinishInv,
       StutterInv
       DEF Next
<1> QED BY <1>1, <1>2, PTL DEF Spec

(***************************************************************************)
(* Every variable of the mapping keeps its type.                           *)
(***************************************************************************)
THEOREM MixingTypeCorrect == Spec => []TypeOK
<1>1. IInv => TypeOK
  BY DEF IInv
<1> QED BY <1>1, MappingCorrect, PTL

(***************************************************************************)
(* No multiplier of any netlist is implemented twice, and all are          *)
(* implemented that should be.                                             *)
(***************************************************************************)
THEOREM EachImplementedOnce == Spec => []ImplementedOnce
<1>1. IInv => ImplementedOnce
  <2> SUFFICES ASSUME IInv PROVE ImplementedOnce
    OBVIOUS
  <2>1. ASSUME NEW m \in Mult
        PROVE  /\ Once(m) \/ Softly(m) \/ Untouched(m)
               /\ Once(m) => Hardenable(m)
               /\ phase = "done" /\ (Hardenable(m) \/ ~HardAdders) => Once(m) \/ Softly(m)
    <3>1. CASE m \in unmapped
      BY <3>1 DEF IInv, CandidatesInv, Untouched, Once
    <3>2. CASE m \notin unmapped /\ ~Noted(m)
      BY <3>2 DEF IInv, CandidatesInv, MappedOtherwise, Once, Softly, Untouched
    <3>3. CASE m \notin unmapped /\ Noted(m)
      <4>1. Hardenable(m) /\ opt.enabled
        BY <3>3 DEF Noted
      <4>2. CASE phase \in {"map", "weigh", "perform", "done", "one_bit_error"}
        BY <3>3, <4>1, <4>2
           DEF IInv, BeforePerform, PerformInv, HardenedOrWaiting, EndInv
      <4>3. CASE phase = "erase"
        BY <3>3, <4>1, <4>3 DEF IInv, EraseInv, HardenedOrWaiting
      <4>4. CASE phase = "soften"
        BY <3>3, <4>1, <4>4 DEF IInv, SoftenInv
      <4> QED BY <4>2, <4>3, <4>4 DEF IInv, TypeOK, Phases
    <3> QED BY <3>1, <3>2, <3>3
  <2> QED BY <2>1 DEF ImplementedOnce, Once, Softly, Untouched
<1> QED BY <1>1, MappingCorrect, PTL

(***************************************************************************)
(* Whatever the weights are, a softened candidate is never heavier than a  *)
(* hardened one.                                                           *)
(***************************************************************************)
THEOREM HeaviestFirst == Spec => []HeaviestHardened
<1>1. IInv /\ ImplementedOnce => HeaviestHardened
  <2> SUFFICES ASSUME IInv, ImplementedOnce, opt.enabled,
                      NEW h \in Mult, NEW s \in Mult,
                      hardened[h] = 1, softened[s] = 1, Hardenable(s)
               PROVE  depth[s] <= depth[h]
    BY DEF HeaviestHardened
  <2>1. Once(h) /\ ~Once(s) /\ Noted(s)
    BY DEF ImplementedOnce, IInv, TypeOK, Once, Noted
  <2>2. Noted(h)
    BY <2>1, OnlyNotedOnce DEF IInv
  <2>3. phase \notin {"map", "weigh"}
    BY <2>1, <2>2 DEF IInv, BeforePerform, Once, Untouched
  <2>4. Heaviest
    BY <2>3 DEF IInv, TypeOK, Phases, PerformInv, EraseInv, SoftenInv, EndInv
  <2> QED BY <2>1, <2>4 DEF Heaviest
<1> QED BY <1>1, MappingCorrect, EachImplementedOnce, PTL

(***************************************************************************)
(* No accepted setting makes scale_counts give up, on a netlist of any     *)
(* size that INT_MAX can count.                                            *)
(***************************************************************************)
THEOREM SettingsNeverRefused == Spec => []SettingsAccepted
<1>1. IInv => SettingsAccepted
  BY DEF IInv, SettingsAccepted
<1> QED BY <1>1, MappingCorrect, PTL

-----------------------------------------------------------------------------
(* The budget of hard blocks                                               *)

(***************************************************************************)
(* Why the budget is spent: the count the mixer works with is the scaled   *)
(* setting, one round of perform hardens one candidate that was not        *)
(* hardened before, and the rounds stop at the budget or when no candidate *)
(* is left.                                                                *)
(***************************************************************************)
HardenableSet == {m \in Mult : Hardenable(m)}
HardenedSet == {m \in Mult : hardened[m] > 0}

Setting == Configured(asked.line, asked.file)

BudgetInv == opt.enabled =>
  /\ phase = "map" => opt = Setting
  /\ Setting.enabled
  /\ phase \in {"weigh", "perform", "erase", "soften", "done"} =>
        opt.count = ScaleCounts(Smaller(Setting.count, Cardinality(HardenableSet)), Setting.ratio)
  /\ phase = "perform" =>
        Cardinality(HardenedSet) = pos - 1 /\ pos - 1 <= opt.count
  /\ phase \in {"erase", "soften", "done"} =>
        /\ Cardinality(HardenedSet) <= opt.count
        /\ Cardinality(HardenedSet) = opt.count \/ HardenedSet = HardenableSet

(* The number of blocks a ratio scales to is a share of the multipliers.   *)
LEMMA RatioScaled ==
  ASSUME NEW n \in Nat, n < IntMax, n < Pow2[Precision],
         NEW ratio \in Int, InRange(AsFloat(ratio)),
         NEW h \in Nat, h <= ScaleCounts(n, AsFloat(ratio)),
         h = ScaleCounts(n, AsFloat(ratio)) \/ h = n
  PROVE  NearShare(h, n, ratio)
<1> DEFINE scale == Pow2[Precision]
           units == RatioUnits
           f == AsFloat(ratio)
           block == units * scale
           share == (n * ratio) * scale
           error == (2 * n) * units
           c == ScaleCounts(n, f)
<1>1. /\ One \in Nat \ {0} /\ scale \in Nat \ {0} /\ units \in Nat \ {0}
      /\ f \in Nat /\ f <= One
  BY OneFacts, AsFloatFacts, RatioAssumption DEF InRange
<1>2. /\ (f * units) * scale <= (ratio * One) * scale + One * units
      /\ (ratio * One) * scale <= (f * units) * scale + One * units
  BY AsFloatFacts
<1>3. c \in Nat /\ c = Rounded(n * f, 1) \div One
  BY <1>1, Scaled
<1>4. c * block <= share + error /\ share < (c + 1) * block + error
  <2> DEFINE p == Rounded(n * f, 1)
  <2>1. n * f \in Nat /\ n * f <= n * One
    <3>1. f * n <= One * n
      BY <1>1, TimesNat
    <3> QED BY <1>1, <3>1
  <2>2. /\ p \in Nat
        /\ p * scale <= (n * f) * scale + n * One
        /\ (n * f) * scale <= p * scale + n * One
    <3>1. CASE n = 0
      <4>1. 0 < Pow2[Precision] /\ (0 * One) * 1 = n * f /\ 0 * One = 0
        BY <1>1, <3>1
      <4>2. p = 0
        BY <4>1, RoundedExact
      <4> HIDE DEF p
      <4> QED BY <1>1, <3>1, <4>1, <4>2
    <3>2. CASE n # 0
      <4>1. n * f <= (n * One) * 1
        BY <1>1, <2>1
      <4>2. /\ p \in Nat
            /\ (p * 1) * scale <= (n * f) * scale + (n * One) * 1
            /\ (n * f) * scale <= (p * 1) * scale + (n * One) * 1
        BY <2>1, <3>2, <4>1, RoundingError
      <4>3. p * 1 = p /\ (n * One) * 1 = n * One
        <5> HIDE DEF p
        <5> QED BY <1>1, <4>2
      <4> QED BY <4>2, <4>3
    <3> QED BY <3>1, <3>2
  <2> HIDE DEF p, f, scale, units
  <2>3. /\ (p \div One) * (units * scale) <= (n * ratio) * scale + (2 * n) * units
        /\ (n * ratio) * scale < (p \div One + 1) * (units * scale) + (2 * n) * units
    BY <1>1, <1>2, <2>2, ShareError
  <2> QED BY <1>3, <2>3 DEF p, f
<1>5. h * block <= share + error /\ share < (h + 1) * block + error
  <2>1. CASE h = c
    BY <1>4, <2>1
  <2>2. CASE h = n
    <3> HIDE DEF c, scale, units, f
    <3>1. block \in Nat \ {0} /\ share \in Int /\ error \in Nat
      BY <1>1
    <3>2. h * block <= c * block
      BY <1>3, <3>1, TimesNat DEF c, f
    <3>3. share <= n * block + n * units
      <4>1. (f * units) * scale <= (One * units) * scale
        <5>1. f * block <= One * block
          BY <1>1, <3>1, TimesNat
        <5>2. (f * units) * scale = f * block /\ (One * units) * scale = One * block
          BY <1>1
        <5> QED BY <5>1, <5>2
      <4>2. (ratio * scale) * One <= (block + units) * One
        <5>1. /\ (ratio * scale) * One = (ratio * One) * scale
              /\ (block + units) * One = (One * units) * scale + One * units
              /\ (ratio * One) * scale \in Int /\ (One * units) * scale \in Int
              /\ (f * units) * scale \in Int /\ One * units \in Int
          BY <1>1
        <5> QED BY <1>2, <4>1, <5>1
      <4>3. ratio * scale <= block + units
        <5>1. ratio * scale \in Int /\ block + units \in Int
          BY <1>1
        <5> HIDE DEF block
        <5> QED BY <1>1, <4>2, <5>1, CancelFactor
      <4>4. (ratio * scale) * n <= (block + units) * n
        <5>1. ratio * scale \in Int /\ block + units \in Int
          BY <1>1
        <5> HIDE DEF block
        <5> QED BY <4>3, <5>1, TimesNat
      <4>5. (ratio * scale) * n = share /\ (block + units) * n = n * block + n * units
        BY <1>1
      <4> QED BY <4>4, <4>5
    <3>4. (h + 1) * block = n * block + block /\ error = 2 * (n * units)
          /\ n * units \in Nat /\ n * block \in Nat
      BY <1>1, <2>2
    <3>5. c * block \in Int /\ h * block \in Int
      BY <1>3, <3>1 DEF c, f
    <3> HIDE DEF block, share, error
    <3> QED BY <1>4, <3>1, <3>2, <3>3, <3>4, <3>5 DEF c, f
  <2> QED BY <2>1, <2>2
<1>6. ratio = RatioUnits => h = n
  <2> SUFFICES ASSUME ratio = RatioUnits PROVE h = n
    OBVIOUS
  <2>1. f = One
    BY OneFacts
  <2>2. c = n
    BY <1>1, <2>1, Scaled
  <2> QED BY <2>2
<1>7. /\ share = n * ratio * Pow2[Precision] /\ error = 2 * n * RatioUnits
      /\ block = RatioUnits * Pow2[Precision]
  OBVIOUS
<1> QED BY <1>5, <1>6, <1>7 DEF NearShare

(***************************************************************************)
(* The scaled setting is the number of blocks the setting asks for.        *)
(***************************************************************************)
LEMMA SettingScaled ==
  ASSUME NEW n \in Nat, n < IntMax, n < Pow2[Precision], Setting.enabled,
         IsSetting(asked.line), IsSetting(asked.file),
         NEW h \in Nat,
         h <= ScaleCounts(Smaller(Setting.count, n), Setting.ratio),
         h = ScaleCounts(Smaller(Setting.count, n), Setting.ratio) \/ h = n
  PROVE  Spent(h, n)
<1> DEFINE line == asked.line
           file == asked.file
<1>1. /\ IntMax \in Nat /\ Pow2[Precision] \in Nat
      /\ line.ratio \in Int /\ line.exact \in Int /\ line.exact < IntMax
      /\ file.ratio \in Int /\ file.exact \in Int /\ file.exact < IntMax
  BY IntMaxAssumption, OneFacts DEF IsSetting
<1>2. ASSUME NEW exact \in Nat, exact < IntMax, Setting = ByCount(exact)
      PROVE  h = Smaller(exact, n)
  <2>1. Setting.count = exact /\ Setting.ratio = One
    BY <1>2 DEF ByCount
  <2>2. /\ Smaller(exact, n) \in Nat /\ Smaller(exact, n) < IntMax
        /\ Smaller(exact, n) < Pow2[Precision] /\ Smaller(exact, n) <= n
    BY <1>1, <1>2 DEF Smaller
  <2>3. One \in Int /\ InRange(One)
    BY OneFacts
  <2>4. ScaleCounts(Smaller(exact, n), One) = Smaller(exact, n)
    BY <2>2, <2>3, Scaled
  <2> QED BY <2>1, <2>2, <2>4
<1>3. ASSUME NEW ratio \in Int, InRange(AsFloat(ratio)), Setting = ByRatio(ratio)
      PROVE  NearShare(h, n, ratio)
  <2>1. Setting.count = IntMax /\ Setting.ratio = AsFloat(ratio)
    BY <1>3 DEF ByRatio
  <2>2. Smaller(IntMax, n) = n
    BY <1>1 DEF Smaller
  <2> QED BY <1>3, <2>1, <2>2, RatioScaled
<1>4. CASE file.exact >= 0
  <2>1. Setting = ByCount(file.exact)
    BY <1>4 DEF Setting, Configured, ReadOptimizations
  <2>2. h = Smaller(file.exact, n)
    BY <1>1, <1>2, <1>4, <2>1
  <2> QED BY <1>4, <2>2 DEF Spent
<1>5. CASE ~(file.exact >= 0) /\ InRange(AsFloat(file.ratio))
  <2>1. Setting = ByRatio(file.ratio)
    BY <1>5 DEF Setting, Configured, ReadOptimizations
  <2>2. NearShare(h, n, file.ratio)
    BY <1>1, <1>3, <1>5, <2>1
  <2> QED BY <1>5, <2>2 DEF Spent
<1>6. CASE ~(file.exact >= 0) /\ ~InRange(AsFloat(file.ratio)) /\ InRange(AsFloat(line.ratio))
  <2>1. Setting = ByRatio(line.ratio)
    BY <1>6 DEF Setting, Configured, ReadOptimizations
  <2>2. NearShare(h, n, line.ratio)
    BY <1>1, <1>3, <1>6, <2>1
  <2> QED BY <1>6, <2>2 DEF Spent
<1>7. CASE ~(file.exact >= 0) /\ ~InRange(AsFloat(file.ratio)) /\ ~InRange(AsFloat(line.ratio))
  <2>1. line.exact >= 0 /\ Setting = ByCount(line.exact)
    BY <1>7 DEF Setting, Configured, ReadOptimizations, Disabled
  <2>2. h = Smaller(line.exact, n)
    BY <1>1, <1>2, <2>1
  <2> QED BY <1>7, <2>2 DEF Spent
<1> QED BY <1>4, <1>5, <1>6, <1>7

(* Every set of multipliers is finite, and its number is a float below     *)
(* INT_MAX.                                                                *)
LEMMA MultCount ==
  ASSUME NEW S \in SUBSET Mult
  PROVE  /\ IsFiniteSet(S) /\ Cardinality(S) \in Nat
         /\ Cardinality(S) < IntMax /\ Cardinality(S) < Pow2[Precision]
<1>1. /\ S \in SUBSET Node /\ IsFiniteSet(Node)
      /\ S \in SUBSET Mult /\ IsFiniteSet(Mult)
  BY NodeAssumption, FS_Subset
<1>2. IsFiniteSet(S) /\ Cardinality(S) <= Cardinality(Node)
  BY <1>1, FS_Subset
<1>3. Cardinality(S) \in Nat /\ Cardinality(Node) \in Nat /\ Cardinality(Mult) \in Nat
  BY <1>1, <1>2, FS_CardinalityType
<1>4. Cardinality(S) <= Cardinality(Mult) /\ Pow2[Precision] \in Nat
  BY <1>1, FS_Subset, OneFacts
<1> QED BY <1>2, <1>3, <1>4, IntMaxAssumption, CountAssumption

(* At the end of the partial map the candidates are counted right.         *)
LEMMA CandidatesCounted ==
  ASSUME IInv, opt.enabled, unmapped = {}, AllNoted
  PROVE  Len(candidates) = Cardinality(HardenableSet)
<1>1. /\ candidates \in Seq(Mult) /\ Len(candidates) \in Nat
      /\ DOMAIN candidates = 1..Len(candidates)
  BY DEF IInv, TypeOK
<1>2. \A i, j \in 1..Len(candidates) : candidates[i] = candidates[j] => i = j
  BY DEF IInv, CandidatesInv
<1>3. \A i \in 1..Len(candidates) : candidates[i] \in HardenableSet
  BY <1>1 DEF IInv, CandidatesInv, Noted, HardenableSet
<1>4. \A m \in HardenableSet : \E i \in 1..Len(candidates) : candidates[i] = m
  BY DEF AllNoted, HardenableSet, Noted
<1>5. candidates \in Bijection(1..Len(candidates), HardenableSet)
  <2>1. candidates \in [1..Len(candidates) -> HardenableSet]
    BY <1>1, <1>3
  <2> QED BY <1>1, <1>2, <1>4, <2>1 DEF Bijection, Injection, Surjection, IsInjective
<1>6. IsFiniteSet(1..Len(candidates)) /\ Cardinality(1..Len(candidates)) = Len(candidates)
  BY <1>1, FS_Interval
<1>7. ExistsBijection(1..Len(candidates), HardenableSet)
  BY <1>5 DEF ExistsBijection
<1> QED BY <1>6, <1>7, FS_Bijection

(* Under an enabled mixer only candidates become hard blocks.              *)
LEMMA HardenedAreHardenable ==
  ASSUME IInv, opt.enabled, phase \in {"weigh", "perform"}
  PROVE  HardenedSet \subseteq HardenableSet
<1>1. SUFFICES ASSUME NEW m \in Mult, ~Hardenable(m) PROVE ~(hardened[m] > 0)
  BY DEF HardenedSet, HardenableSet
<1>2. unmapped = {} /\ ~Noted(m)
  BY <1>1 DEF IInv, CandidatesInv, Noted
<1>3. MappedOtherwise(m)
  BY <1>2 DEF IInv, CandidatesInv
<1>4. hardened[m] = 0
  BY <1>1, <1>3 DEF MappedOtherwise, Untouched, Softly
<1> QED BY <1>4

(* What the budget is computed from does not change.                       *)
LEMMA BudgetKept ==
  ASSUME net' = net, asked' = asked
  PROVE  HardenableSet' = HardenableSet /\ Setting' = Setting
BY DEF HardenableSet, Hardenable, HardMultipliers, MinMult, Setting

(* The budget is set from the candidates the partial map found.            *)
LEMMA BudgetSet ==
  ASSUME IInv, BudgetInv, SetBlocksNeeded
  PROVE  BudgetInv'
<1>1. /\ net' = net /\ asked' = asked /\ phase = "map" /\ unmapped = {} /\ opt.enabled
      /\ phase' \in {"weigh", "count_error"}
      /\ opt' = [opt EXCEPT !.count =
                   ScaleCounts(Smaller(opt.count, Len(candidates)), opt.ratio)]
  BY DEF SetBlocksNeeded, inputVars
<1>2. Len(candidates) = Cardinality(HardenableSet)
  BY <1>1, CandidatesCounted DEF IInv, BeforePerform
<1>3. opt'.count = ScaleCounts(Smaller(opt.count, Len(candidates)), opt.ratio)
  BY <1>1 DEF IInv, TypeOK
<1>4. opt = Setting /\ Setting.enabled
  BY <1>1 DEF BudgetInv
<1>5. HardenableSet' = HardenableSet /\ Setting' = Setting
  BY <1>1, BudgetKept
<1> QED BY <1>1, <1>2, <1>3, <1>4, <1>5 DEF BudgetInv

(* Before the first round nothing is hardened.                             *)
LEMMA BudgetUntouched ==
  ASSUME IInv, BudgetInv, BeginPerform
  PROVE  BudgetInv'
<1>1. /\ net' = net /\ asked' = asked /\ opt' = opt /\ hardened' = hardened
      /\ phase = "weigh" /\ phase' = "perform" /\ pos' = 1
  BY DEF BeginPerform, inputVars, implVars
<1>2. opt.enabled /\ opt.count \in Int /\ opt.count >= 0
  BY <1>1 DEF IInv, EnabledInv, OptInv, TypeOK
<1>3. HardenedSet = {}
  <2>1. HardenedSet \subseteq HardenableSet
    BY <1>1, <1>2, HardenedAreHardenable
  <2>2. \A m \in HardenableSet : ~(hardened[m] > 0)
    <3>1. \A m \in HardenableSet : m \in Mult /\ Noted(m)
      BY <1>2 DEF HardenableSet, Noted
    <3>2. \A m \in HardenableSet : hardened[m] = 0
      BY <1>1, <3>1 DEF IInv, BeforePerform, Untouched
    <3> QED BY <3>2
  <2> QED BY <2>1, <2>2 DEF HardenedSet
<1>4. Cardinality(HardenedSet) = 0 /\ HardenedSet' = HardenedSet
  BY <1>1, <1>3, FS_EmptySet DEF HardenedSet
<1>5. HardenableSet' = HardenableSet /\ Setting' = Setting
  BY <1>1, BudgetKept
<1> QED BY <1>1, <1>2, <1>4, <1>5 DEF BudgetInv

(* One round spends one block.                                             *)
LEMMA BudgetRound ==
  ASSUME IInv, BudgetInv, HardenHeaviest
  PROVE  BudgetInv'
<1>1. /\ net' = net /\ asked' = asked /\ opt' = opt
      /\ phase = "perform" /\ phase' = "perform" /\ pos' = pos + 1 /\ pos <= opt.count
  BY DEF HardenHeaviest, inputVars, weighVars
<1>2. PICK j \in Eligible : InstantiateHard(candidates[j])
  BY DEF HardenHeaviest
<1>3. PICK m \in Mult : m = candidates[j] /\ InstantiateHard(m) /\ Noted(m) /\ weight[m] > -1
  <2>1. j \in 1..Len(candidates) /\ candidates[j] \in Mult /\ weight[candidates[j]] > -1
    BY DEF Eligible, IInv, TypeOK
  <2>2. Noted(candidates[j])
    BY <2>1 DEF IInv, CandidatesInv
  <2> QED BY <1>2, <2>1, <2>2
<1>4. /\ opt.enabled /\ opt.count \in Int /\ pos \in Nat
      /\ hardened \in [Mult -> Nat]
  BY <1>1 DEF IInv, EnabledInv, TypeOK
<1>5. hardened[m] = 0
  BY <1>1, <1>3 DEF IInv, PerformInv, HardenedOrWaiting, Untouched
<1>6. hardened' = [hardened EXCEPT ![m] = @ + 1]
  BY <1>3 DEF InstantiateHard
<1>7. HardenedSet' = HardenedSet \cup {m} /\ m \notin HardenedSet
  BY <1>4, <1>5, <1>6 DEF HardenedSet
<1>8. IsFiniteSet(HardenedSet) /\ Cardinality(HardenedSet) \in Nat
  BY MultCount DEF HardenedSet
<1>9. Cardinality(HardenedSet') = Cardinality(HardenedSet) + 1
  BY <1>7, <1>8, FS_AddElement
<1>10. Cardinality(HardenedSet) = pos - 1
  BY <1>1, <1>4 DEF BudgetInv
<1>11. Cardinality(HardenedSet)' = pos' - 1 /\ pos' - 1 <= opt'.count
  BY <1>1, <1>4, <1>9, <1>10
<1>12. HardenableSet' = HardenableSet /\ Setting' = Setting
  BY <1>1, BudgetKept
<1> QED BY <1>1, <1>4, <1>11, <1>12 DEF BudgetInv

(* The rounds end at the budget, or when every candidate is hardened.      *)
LEMMA BudgetEnd ==
  ASSUME IInv, BudgetInv, BeginErase
  PROVE  BudgetInv'
<1>1. /\ net' = net /\ asked' = asked /\ opt' = opt /\ hardened' = hardened
      /\ phase = "perform" /\ phase' = "erase"
      /\ pos > opt.count \/ Eligible = {}
  BY DEF BeginErase, inputVars, implVars
<1>2. /\ opt.enabled /\ opt.count \in Int /\ pos \in Nat
      /\ weight \in [Mult -> Nat \cup {-1}] /\ depth \in [Node -> Nat]
      /\ DOMAIN candidates = 1..Len(candidates)
  BY <1>1 DEF IInv, EnabledInv, TypeOK
<1>3. Cardinality(HardenedSet) = pos - 1 /\ pos - 1 <= opt.count
  BY <1>1, <1>2 DEF BudgetInv
<1>4. CASE pos > opt.count
  <2>1. Cardinality(HardenedSet) = opt.count
    BY <1>2, <1>3, <1>4
  <2>2. QED
    BY <1>1, <1>2, <1>3, <2>1, BudgetKept DEF BudgetInv, HardenedSet
<1>5. CASE Eligible = {}
  <2>1. ASSUME NEW m \in HardenableSet PROVE m \in HardenedSet
    <3>1. m \in Mult /\ Noted(m) /\ Hardenable(m)
      BY <1>2, <2>1 DEF HardenableSet, Noted
    <3>2. HardenedOrWaiting(m)
      BY <1>1, <3>1 DEF IInv, PerformInv
    <3>3. CASE Once(m)
      BY <3>1, <3>3 DEF Once, HardenedSet
    <3>4. CASE Untouched(m) /\ weight[m] = depth[m]
      <4>1. weight[m] > -1
        BY <1>2, <3>1, <3>4, NodeAssumption
      <4>2. PICK i \in 1..Len(candidates) : candidates[i] = m
        BY <1>1, <3>1 DEF IInv, PerformInv, AllNoted, CandidatesInv
      <4>3. i \in Eligible
        BY <1>2, <3>1, <4>1, <4>2 DEF Eligible
      <4> QED BY <1>5, <4>3
    <3> QED BY <3>2, <3>3, <3>4 DEF HardenedOrWaiting
  <2>2. HardenedSet = HardenableSet
    BY <1>1, <1>2, <2>1, HardenedAreHardenable
  <2>3. HardenedSet' = HardenedSet
    BY <1>1 DEF HardenedSet
  <2>4. HardenableSet' = HardenableSet /\ Setting' = Setting
    BY <1>1, BudgetKept
  <2>5. Cardinality(HardenedSet) <= opt.count
    BY <1>3
  <2> QED BY <1>1, <1>2, <2>2, <2>3, <2>4, <2>5 DEF BudgetInv
<1> QED BY <1>1, <1>4, <1>5

(***************************************************************************)
(* With mixing enabled the pass hardens as many multipliers as the setting *)
(* in force asks for, for every netlist, setting and architecture: exactly *)
(* as many as a count says, and the share a ratio says to within the error *)
(* of the two roundings, for every precision of the floats.                *)
(***************************************************************************)
THEOREM BudgetExact == Spec => []BudgetSpent
<1>1. Init => BudgetInv
  BY DEF Init, BudgetInv, Setting
<1>2. IInv /\ BudgetInv /\ [Next]_vars => BudgetInv'
  <2> SUFFICES ASSUME IInv, BudgetInv, [Next]_vars PROVE BudgetInv'
    OBVIOUS
  <2>1. CASE PartialMapNode \/ NothingToMix
    <3>1. /\ net' = net /\ asked' = asked /\ opt' = opt /\ phase = "map"
          /\ phase' \in {"map", "one_bit_error"} \/ ~opt.enabled
      BY <2>1 DEF PartialMapNode, NoteCandidate, MapHard, MapSoft, MapLeft, NothingToMix,
                  inputVars
    <3> QED BY <3>1, BudgetKept DEF BudgetInv
  <2>2. CASE StatCandidate \/ StatReader \/ StatReturn \/ AssignWeight
    <3>1. net' = net /\ asked' = asked /\ opt' = opt /\ phase = "weigh" /\ phase' = "weigh"
      BY <2>2 DEF StatCandidate, StatReader, StatReturn, AssignWeight, inputVars
    <3> QED BY <3>1, BudgetKept DEF BudgetInv
  <2>3. CASE EraseHardened \/ BeginSoften \/ SoftenRemaining \/ Finish
    <3>1. /\ net' = net /\ asked' = asked /\ opt' = opt /\ hardened' = hardened
          /\ phase \in {"erase", "soften"}
          /\ phase' \in {"erase", "soften", "done", "one_bit_error"}
      BY <2>3 DEF EraseHardened, BeginSoften, SoftenRemaining, Finish, InstantiateSoft,
                  inputVars, implVars
    <3>2. HardenedSet' = HardenedSet
      BY <3>1 DEF HardenedSet
    <3>3. HardenableSet' = HardenableSet /\ Setting' = Setting
      BY <3>1, BudgetKept
    <3> QED BY <3>1, <3>2, <3>3 DEF BudgetInv
  <2>4. CASE UNCHANGED vars
    <3>1. /\ net' = net /\ asked' = asked /\ opt' = opt /\ hardened' = hardened
          /\ phase' = phase /\ pos' = pos
      BY <2>4 DEF vars, inputVars, implVars
    <3>2. HardenedSet' = HardenedSet
      BY <3>1 DEF HardenedSet
    <3>3. HardenableSet' = HardenableSet /\ Setting' = Setting
      BY <3>1, BudgetKept
    <3> QED BY <3>1, <3>2, <3>3 DEF BudgetInv
  <2> QED
    BY <2>1, <2>2, <2>3, <2>4, BudgetSet, BudgetUntouched, BudgetRound, BudgetEnd DEF Next
<1>3. IInv /\ BudgetInv => BudgetSpent
  <2> SUFFICES ASSUME IInv, BudgetInv, phase = "done", opt.enabled
               PROVE  Spent(Cardinality(HardenedSet), Cardinality(HardenableSet))
    BY DEF BudgetSpent, HardenableSet, HardenedSet
  <2>1. /\ Cardinality(HardenableSet) \in Nat /\ Cardinality(HardenableSet) < IntMax
        /\ Cardinality(HardenableSet) < Pow2[Precision]
        /\ Cardinality(HardenedSet) \in Nat
    BY MultCount DEF HardenableSet, HardenedSet
  <2>2. IsSetting(asked.line) /\ IsSetting(asked.file)
    BY DEF IInv, TypeOK, IsInvocation
  <2>3. /\ Setting.enabled
        /\ opt.count =
             ScaleCounts(Smaller(Setting.count, Cardinality(HardenableSet)), Setting.ratio)
        /\ Cardinality(HardenedSet) <= opt.count
        /\ Cardinality(HardenedSet) = opt.count
             \/ Cardinality(HardenedSet) = Cardinality(HardenableSet)
    BY DEF BudgetInv
  <2> QED BY <2>1, <2>2, <2>3, SettingScaled
<1> QED BY <1>1, <1>2, <1>3, MappingCorrect, PTL DEF Spec

-----------------------------------------------------------------------------
(***************************************************************************)
(* Walks: paths of a given number of nodes                                 *)
(***************************************************************************)

(* The nodes with a reader in S.                                           *)
Before(S) == {n \in Node : Readers(n) \cap S # {}}

(* The sets of Walks exist, up to any number of steps ...                  *)
LEMMA WalksExist ==
  ASSUME NEW N \in Nat
  PROVE  \E f : f = [k \in 0..N |-> IF k = 0 THEN Node ELSE Before(f[k - 1])]
<1> DEFINE IsWalks(f, k) == f = [i \in 0..k |-> IF i = 0 THEN Node ELSE Before(f[i - 1])]
           S == {k \in Nat : \E f : IsWalks(f, k)}
<1>1. 0 \in S
  <2>1. IsWalks([i \in 0..0 |-> Node], 0)
    OBVIOUS
  <2> QED BY <2>1
<1>2. ASSUME NEW k \in S PROVE k + 1 \in S
  <2>1. PICK f : IsWalks(f, k)
    OBVIOUS
  <2>2. k \in Nat
    OBVIOUS
  <2> DEFINE g == [i \in 0..k + 1 |-> IF i = k + 1 THEN Before(f[k]) ELSE f[i]]
  <2>3. \A i \in 0..k : g[i] = f[i]
    BY <2>2
  <2>4. g[k + 1] = Before(g[k])
    BY <2>2, <2>3
  <2>5. ASSUME NEW i \in 0..k + 1
        PROVE  g[i] = IF i = 0 THEN Node ELSE Before(g[i - 1])
    <3>1. CASE i = k + 1
      BY <2>2, <2>4, <3>1
    <3>2. CASE i # k + 1
      <4>1. i \in 0..k /\ (i # 0 => i - 1 \in 0..k)
        BY <2>2, <3>2
      <4>2. f[i] = IF i = 0 THEN Node ELSE Before(f[i - 1])
        BY <2>1, <4>1
      <4> QED BY <2>3, <4>1, <4>2
    <3> QED BY <3>1, <3>2
  <2>6. g = [i \in 0..k + 1 |-> g[i]]
    OBVIOUS
  <2> HIDE DEF g
  <2>7. g = [i \in 0..k + 1 |-> IF i = 0 THEN Node ELSE Before(g[i - 1])]
    BY <2>5, <2>6
  <2> QED BY <2>2, <2>7
<1>3. S = Nat
  <2> HIDE DEF IsWalks
  <2>1. S \in SUBSET Nat
    OBVIOUS
  <2> HIDE DEF S
  <2> QED BY <1>1, <1>2, <2>1, SetInduction
<1> QED BY <1>3

(* ... so that Walks is the function its definition says.                  *)
LEMMA WalksDefined ==
  ASSUME Cardinality(Node) \in Nat
  PROVE  Walks = [k \in 0..Cardinality(Node) |->
                    IF k = 0 THEN Node ELSE {n \in Node : Readers(n) \cap Walks[k - 1] # {}}]
<1> DEFINE Eq(f) == f = [k \in 0..Cardinality(Node) |->
                    IF k = 0 THEN Node ELSE {n \in Node : Readers(n) \cap f[k - 1] # {}}]
<1>1. \E f : Eq(f)
  BY WalksExist DEF Before
<1>2. Walks = CHOOSE f : Eq(f)
  BY DEF Walks
<1> HIDE DEF Eq
<1>3. Eq(Walks)
  BY <1>1, <1>2, Zenon
<1> QED BY <1>3 DEF Eq

LEMMA WalksFacts ==
  ASSUME Cardinality(Node) \in Nat
  PROVE  /\ Walks[0] = Node
         /\ \A k \in 0..Cardinality(Node) - 1 :
               Walks[k + 1] = {n \in Node : Readers(n) \cap Walks[k] # {}}
<1> DEFINE N == Cardinality(Node)
           f == [k \in 0..N |-> IF k = 0 THEN Node
                                 ELSE {n \in Node : Readers(n) \cap Walks[k - 1] # {}}]
<1>1. Walks = f
  BY WalksDefined
<1>2. f[0] = Node
  OBVIOUS
<1>3. \A k \in 0..N - 1 : f[k + 1] = {n \in Node : Readers(n) \cap Walks[k] # {}}
  <2> TAKE k \in 0..N - 1
  <2>1. k + 1 \in 0..N /\ k + 1 # 0 /\ (k + 1) - 1 = k
    OBVIOUS
  <2> QED BY <2>1
<1> HIDE DEF f
<1> QED BY <1>1, <1>2, <1>3

(* The netlist decides what the walks are.                                 *)
LEMMA WalksSame ==
  ASSUME Cardinality(Node) \in Nat, net' = net
  PROVE  \A k \in 0..Cardinality(Node) : Walks'[k] = Walks[k]
<1> DEFINE N == Cardinality(Node)
           S == {k \in Nat : k <= N => Walks'[k] = Walks[k]}
<1>1. (/\ Walks[0] = Node
       /\ \A k \in 0..Cardinality(Node) - 1 :
               Walks[k + 1] = {n \in Node : Readers(n) \cap Walks[k] # {}})'
  BY WalksFacts, PTL
<1>2. \A n : Readers(n)' = Readers(n)
  BY DEF Readers
<1>3. 0 \in S
  BY <1>1, WalksFacts
<1>4. ASSUME NEW k \in S PROVE k + 1 \in S
  <2> SUFFICES ASSUME k + 1 <= N PROVE Walks'[k + 1] = Walks[k + 1]
    OBVIOUS
  <2>1. k \in 0..N - 1 /\ Walks'[k] = Walks[k]
    OBVIOUS
  <2>2. Walks'[k + 1] = {n \in Node : Readers(n) \cap Walks[k] # {}}
    BY <1>1, <1>2, <2>1
  <2> QED BY <2>1, <2>2, WalksFacts
<1>5. S = Nat
  <2>1. S \in SUBSET Nat
    OBVIOUS
  <2> HIDE DEF S
  <2> QED BY <1>3, <1>4, <2>1, SetInduction
<1> QED BY <1>5

(* A long path has shorter ones in front of it: the walks only shrink.     *)
LEMMA WalksShrink ==
  ASSUME Cardinality(Node) \in Nat,
         NEW i \in 0..Cardinality(Node), NEW j \in 0..Cardinality(Node), i <= j
  PROVE  Walks[j] \subseteq Walks[i]
<1> DEFINE N == Cardinality(Node)
           S == {k \in Nat : k + 1 <= N => Walks[k + 1] \subseteq Walks[k]}
           T == {k \in Nat : i + k <= N => Walks[i + k] \subseteq Walks[i]}
<1>1. 0 \in S
  BY WalksFacts
<1>2. ASSUME NEW k \in S PROVE k + 1 \in S
  <2> SUFFICES ASSUME k + 1 + 1 <= N PROVE Walks[k + 1 + 1] \subseteq Walks[k + 1]
    OBVIOUS
  <2>1. Walks[k + 1] \subseteq Walks[k] /\ k \in 0..N - 1 /\ k + 1 \in 0..N - 1
    OBVIOUS
  <2>2. /\ Walks[k + 1] = {n \in Node : Readers(n) \cap Walks[k] # {}}
        /\ Walks[k + 1 + 1] = {n \in Node : Readers(n) \cap Walks[k + 1] # {}}
    BY <2>1, WalksFacts
  <2> QED BY <2>1, <2>2
<1>3. S = Nat
  <2>1. S \in SUBSET Nat
    OBVIOUS
  <2> HIDE DEF S
  <2> QED BY <1>1, <1>2, <2>1, SetInduction
<1>4. 0 \in T
  OBVIOUS
<1>5. ASSUME NEW k \in T PROVE k + 1 \in T
  <2> SUFFICES ASSUME i + (k + 1) <= N PROVE Walks[i + (k + 1)] \subseteq Walks[i]
    OBVIOUS
  <2>1. i + k \in Nat /\ i + k + 1 <= N /\ i + (k + 1) = i + k + 1 /\ i + k <= N
    OBVIOUS
  <2>2. Walks[i + k + 1] \subseteq Walks[i + k]
    BY <1>3, <2>1
  <2>3. Walks[i + k] \subseteq Walks[i]
    BY <2>1
  <2> QED BY <2>1, <2>2, <2>3
<1>6. T = Nat
  <2>1. T \in SUBSET Nat
    OBVIOUS
  <2> HIDE DEF T
  <2> QED BY <1>4, <1>5, <2>1, SetInduction
<1>7. j - i \in Nat /\ i + (j - i) = j /\ j <= N
  OBVIOUS
<1>8. j - i \in T
  BY <1>6, <1>7
<1> QED BY <1>7, <1>8

(* Every call in progress reads the node of the call before it.            *)
StackPath == \A i \in 1..Len(stack) - 1 : stack[i + 1] \in Readers(stack[i])

(* On a netlist without loops the deepest call has no reader in progress:  *)
(* from such a loop paths of every length would start.                     *)
LEMMA NoReaderOnStack ==
  ASSUME Cardinality(Node) \in Nat, stack \in Seq(Node), stack # <<>>, StackPath,
         Walks[Cardinality(Node)] = {}, NEW i \in 1..Len(stack)
  PROVE  stack[i] \notin Readers(Top)
<1> DEFINE N == Cardinality(Node)
           last == Len(stack)
           S == {k \in Nat : k <= N => \A j \in i..last : stack[j] \in Walks[k]}
<1>0. last \in Nat /\ last >= 1 /\ i \in 1..last /\ \A j \in 1..last : stack[j] \in Node
  OBVIOUS
<1>1. SUFFICES ASSUME stack[i] \in Readers(Top) PROVE FALSE
  OBVIOUS
<1>l. stack[i] \in Readers(stack[last])
  BY <1>1 DEF Top
<1>p. \A j \in 1..last - 1 : stack[j + 1] \in Readers(stack[j])
  BY DEF StackPath
<1> HIDE DEF last
<1>2. 0 \in S
  BY <1>0, WalksFacts
<1>3. ASSUME NEW k \in S PROVE k + 1 \in S
  <2> SUFFICES ASSUME k + 1 <= N, NEW j \in i..last PROVE stack[j] \in Walks[k + 1]
    OBVIOUS
  <2>1. k \in 0..N - 1 /\ \A m \in i..last : stack[m] \in Walks[k]
    OBVIOUS
  <2>2. Walks[k + 1] = {n \in Node : Readers(n) \cap Walks[k] # {}}
    BY <2>1, WalksFacts
  <2>3. stack[j] \in Node
    BY <1>0
  <2>4. CASE j = last
    <3>1. stack[i] \in Walks[k]
      BY <1>0, <2>1
    <3> QED BY <1>l, <2>2, <2>3, <2>4, <3>1
  <2>5. CASE j # last
    <3>1. j + 1 \in i..last /\ j \in 1..last - 1
      BY <1>0, <2>5
    <3> QED BY <1>p, <2>1, <2>2, <2>3, <3>1
  <2> QED BY <2>4, <2>5
<1>4. S = Nat
  <2>1. S \in SUBSET Nat
    OBVIOUS
  <2> HIDE DEF S
  <2> QED BY <1>2, <1>3, <2>1, SetInduction
<1>5. N \in S /\ i \in i..last
  BY <1>0, <1>4
<1> QED BY <1>5

Returned(n) == n \in visited /\ \A i \in 1..Len(stack) : stack[i] # n

(* On a netlist without loops a call that has returned knows its depth.    *)
DepthInv == Walks[Cardinality(Node)] = {} =>
  \A n \in visited : Returned(n) =>
     /\ depth[n] - 1 \in 0..Cardinality(Node) - 1
     /\ n \in Walks[depth[n] - 1]
     /\ n \notin Walks[depth[n]]

(* A return: one more than the deepest reader.                             *)
LEMMA ReturnDepth ==
  ASSUME TypeOK, StackPath, DepthInv, StatReturn
  PROVE  StackPath' /\ DepthInv'
<1> DEFINE N == Cardinality(Node)
<1>0. N \in Nat
  BY NodeAssumption, FS_CardinalityType
<1>1. /\ stack # <<>> /\ stack' = Pop /\ net' = net /\ visited' = visited
      /\ Readers(Top) \subseteq visited
  BY DEF StatReturn, inputVars
<1>2. PICK d \in {0} \cup {depth[m] : m \in Readers(Top)} :
        IsDeepest(d, Readers(Top)) /\ depth' = [depth EXCEPT ![Top] = d + 1]
  BY DEF StatReturn
<1>3. /\ stack \in Seq(Node) /\ Len(stack) \in Nat \ {0}
      /\ visited \subseteq Node /\ depth \in [Node -> Nat]
  BY <1>1 DEF TypeOK
<1>4. /\ Top \in Node /\ Len(Pop) = Len(stack) - 1
      /\ \A i \in 1..Len(stack) - 1 : Pop[i] = stack[i]
  BY <1>1, <1>3, PopFacts
<1>5. \A n : Readers(n)' = Readers(n)
  BY <1>1 DEF Readers
<1>6. StackPath'
  <2>1. ASSUME NEW i \in 1..Len(stack') - 1
        PROVE  stack'[i + 1] \in Readers(stack'[i])
    <3>1. i \in 1..Len(stack) - 1 /\ i + 1 \in 1..Len(stack) - 1
      BY <1>1, <1>3, <1>4
    <3>2. stack'[i] = stack[i] /\ stack'[i + 1] = stack[i + 1]
      BY <1>1, <1>4, <3>1
    <3> QED BY <3>1, <3>2 DEF StackPath
  <2> QED BY <1>5, <2>1 DEF StackPath
<1>7. \A k \in 0..N : Walks'[k] = Walks[k]
  BY <1>0, <1>1, WalksSame
<1>8. ASSUME Walks[N] = {}
      PROVE  d \in 0..N - 1 /\ Top \in Walks[d] /\ Top \notin Walks[d + 1]
  <2>1. ASSUME NEW m \in Readers(Top)
        PROVE  /\ m \in visited /\ depth[m] \in 1..N
               /\ m \in Walks[depth[m] - 1] /\ m \notin Walks[depth[m]]
    <3>1. \A i \in 1..Len(stack) : stack[i] # m
      BY <1>0, <1>1, <1>3, <1>8, NoReaderOnStack
    <3>2. m \in visited /\ Returned(m)
      BY <1>1, <3>1 DEF Returned
    <3>3. /\ depth[m] - 1 \in 0..N - 1
          /\ m \in Walks[depth[m] - 1] /\ m \notin Walks[depth[m]]
      BY <1>8, <3>2 DEF DepthInv
    <3>4. depth[m] \in Nat
      BY <1>3, <3>2
    <3> QED BY <1>0, <3>2, <3>3, <3>4
  <2>2. d \in Nat /\ \A m \in Readers(Top) : d >= depth[m]
    <3>1. \A m \in Readers(Top) : depth[m] \in Nat
      BY <1>1, <1>3
    <3> QED BY <1>2, <3>1 DEF IsDeepest
  <2>3. N > 0
    BY <1>0, <1>4, <1>8, WalksFacts
  <2>4. d <= N /\ Top \in Walks[d]
    <3>1. CASE d = 0
      BY <1>0, <1>4, <3>1, WalksFacts
    <3>2. CASE d # 0
      <4>1. PICK m \in Readers(Top) : d = depth[m]
        BY <1>2, <3>2
      <4>2. d \in 1..N /\ m \in Walks[d - 1]
        BY <2>1, <4>1
      <4>3. d - 1 \in 0..N - 1 /\ (d - 1) + 1 = d
        BY <1>0, <4>2
      <4>4. Walks[d] = {n \in Node : Readers(n) \cap Walks[d - 1] # {}}
        BY <1>0, <4>3, WalksFacts
      <4> QED BY <1>0, <1>4, <4>1, <4>2, <4>4
    <3> QED BY <3>1, <3>2
  <2>5. d # N
    BY <1>8, <2>4
  <2>6. d \in 0..N - 1
    BY <1>0, <2>2, <2>4, <2>5
  <2>7. Top \notin Walks[d + 1]
    <3>1. SUFFICES ASSUME Top \in Walks[d + 1] PROVE FALSE
      OBVIOUS
    <3>2. Walks[d + 1] = {n \in Node : Readers(n) \cap Walks[d] # {}}
      BY <1>0, <2>6, WalksFacts
    <3>3. PICK m \in Readers(Top) : m \in Walks[d]
      BY <3>1, <3>2
    <3>4. depth[m] \in 0..N /\ d \in 0..N /\ depth[m] <= d /\ m \notin Walks[depth[m]]
      <4>1. depth[m] \in 1..N /\ m \notin Walks[depth[m]]
        BY <2>1
      <4> QED BY <1>0, <2>2, <2>6, <4>1
    <3>5. Walks[d] \subseteq Walks[depth[m]]
      BY <1>0, <3>4, WalksShrink
    <3> QED BY <3>3, <3>4, <3>5
  <2> QED BY <2>4, <2>6, <2>7
<1>9. DepthInv'
  <2> SUFFICES ASSUME Walks'[N] = {}, NEW n \in visited', Returned(n)'
               PROVE  /\ depth'[n] - 1 \in 0..N - 1
                      /\ n \in Walks'[depth'[n] - 1]
                      /\ n \notin Walks'[depth'[n]]
    BY DEF DepthInv
  <2>1. Walks[N] = {}
    BY <1>0, <1>7
  <2>2. n \in visited /\ n \in Node
    BY <1>1, <1>3
  <2>3. CASE n = Top
    <3>1. depth'[n] = d + 1
      BY <1>2, <1>3, <1>4, <2>3
    <3>2. d \in 0..N - 1 /\ n \in Walks[d] /\ n \notin Walks[d + 1]
      BY <1>8, <2>1, <2>3
    <3>3. d \in 0..N /\ d + 1 \in 0..N /\ (d + 1) - 1 = d
      BY <1>0, <3>2
    <3> QED BY <1>7, <3>1, <3>2, <3>3
  <2>4. CASE n # Top
    <3>1. depth'[n] = depth[n] /\ depth[n] \in Nat
      BY <1>2, <1>3, <2>2, <2>4
    <3>2. ASSUME NEW i \in 1..Len(stack) PROVE stack[i] # n
      <4>1. CASE i = Len(stack)
        BY <2>4, <4>1 DEF Top
      <4>2. CASE i # Len(stack)
        <5>1. i \in 1..Len(stack) - 1 /\ i \in 1..Len(stack')
          BY <1>1, <1>3, <1>4, <4>2
        <5>2. stack'[i] = stack[i]
          BY <1>1, <1>4, <5>1
        <5> QED BY <5>1, <5>2 DEF Returned
      <4> QED BY <4>1, <4>2
    <3>3. Returned(n)
      BY <2>2, <3>2 DEF Returned
    <3>4. /\ depth[n] - 1 \in 0..N - 1
          /\ n \in Walks[depth[n] - 1] /\ n \notin Walks[depth[n]]
      BY <2>1, <2>2, <3>3 DEF DepthInv
    <3>5. depth[n] - 1 \in 0..N /\ depth[n] \in 0..N
      BY <1>0, <3>1, <3>4
    <3> QED BY <1>7, <3>1, <3>4, <3>5
  <2> QED BY <2>3, <2>4
<1> QED BY <1>6, <1>9

(* A call: the node it enters has not returned, all others are as before.  *)
LEMMA CallDepth ==
  ASSUME TypeOK, StackPath, DepthInv, StatCandidate \/ StatReader
  PROVE  StackPath' /\ DepthInv'
<1>1. PICK n \in Node : /\ EnterStat(n)
                        /\ stack # <<>> => n \in Readers(Top)
  <2>1. CASE StatCandidate
    <3>1. /\ candidates \in Seq(Mult) /\ Mult \subseteq Node
          /\ pos \in Nat \ {0} /\ pos <= Len(candidates)
      BY <2>1, NodeAssumption DEF StatCandidate, TypeOK
    <3>2. candidates[pos] \in Node
      BY <3>1
    <3> QED BY <2>1, <3>2 DEF StatCandidate
  <2>2. CASE StatReader
    BY <2>2 DEF StatReader, Readers
  <2> QED BY <2>1, <2>2
<1>2. /\ n \notin visited /\ visited' = visited \cup {n} /\ stack' = Append(stack, n)
      /\ net' = net /\ depth' = depth
  BY <1>1 DEF EnterStat, StatCandidate, StatReader, inputVars
<1>3. stack \in Seq(Node) /\ Len(stack) \in Nat
  BY DEF TypeOK
<1>4. /\ Len(stack') = Len(stack) + 1
      /\ \A i \in 1..Len(stack) : stack'[i] = stack[i]
      /\ stack'[Len(stack) + 1] = n
  BY <1>2, <1>3, AppendFacts
<1>5. \A m : Readers(m)' = Readers(m)
  BY <1>2 DEF Readers
<1>6. StackPath'
  <2>1. ASSUME NEW i \in 1..Len(stack') - 1
        PROVE  stack'[i + 1] \in Readers(stack'[i])
    <3>1. i \in 1..Len(stack)
      BY <1>3, <1>4
    <3>2. CASE i = Len(stack)
      <4>1. stack # <<>>
        BY <3>1, <3>2
      <4> QED BY <1>1, <1>4, <3>1, <3>2, <4>1 DEF Top
    <3>3. CASE i # Len(stack)
      <4>1. i \in 1..Len(stack) - 1 /\ i + 1 \in 1..Len(stack)
        BY <1>3, <3>1, <3>3
      <4>2. stack'[i] = stack[i] /\ stack'[i + 1] = stack[i + 1]
        BY <1>4, <3>1, <4>1
      <4> QED BY <4>1, <4>2 DEF StackPath
    <3> QED BY <3>2, <3>3
  <2> QED BY <1>5, <2>1 DEF StackPath
<1>7. Cardinality(Node) \in Nat
  BY NodeAssumption, FS_CardinalityType
<1>8. \A k \in 0..Cardinality(Node) : Walks'[k] = Walks[k]
  BY <1>2, <1>7, WalksSame
<1>9. DepthInv'
  <2> SUFFICES ASSUME Walks'[Cardinality(Node)] = {}, NEW m \in visited', Returned(m)'
               PROVE  /\ depth'[m] - 1 \in 0..Cardinality(Node) - 1
                      /\ m \in Walks'[depth'[m] - 1]
                      /\ m \notin Walks'[depth'[m]]
    BY DEF DepthInv
  <2>1. Walks[Cardinality(Node)] = {}
    BY <1>7, <1>8
  <2>2. m # n
    <3>1. Len(stack) + 1 \in 1..Len(stack')
      BY <1>3, <1>4
    <3> QED BY <1>4, <3>1 DEF Returned
  <2>3. m \in visited /\ Returned(m)
    <3>1. m \in visited
      BY <1>2, <2>2
    <3>2. \A i \in 1..Len(stack) : i \in 1..Len(stack') /\ stack'[i] = stack[i]
      BY <1>3, <1>4
    <3> QED BY <3>1, <3>2 DEF Returned
  <2>4. /\ depth[m] - 1 \in 0..Cardinality(Node) - 1
        /\ m \in Walks[depth[m] - 1] /\ m \notin Walks[depth[m]]
    BY <2>1, <2>3 DEF DepthInv
  <2>5. depth[m] \in Nat
    BY <2>3 DEF TypeOK
  <2>6. depth[m] - 1 \in 0..Cardinality(Node) /\ depth[m] \in 0..Cardinality(Node)
    BY <1>7, <2>4, <2>5
  <2> QED BY <1>2, <1>8, <2>4, <2>6
<1> QED BY <1>6, <1>9

(* All other steps leave the weighing alone.                               *)
LEMMA DepthUntouched ==
  ASSUME TypeOK, StackPath, DepthInv, UNCHANGED <<net, weighVars>>
  PROVE  StackPath' /\ DepthInv'
<1>1. net' = net /\ visited' = visited /\ depth' = depth /\ stack' = stack
  BY DEF weighVars
<1>2. Cardinality(Node) \in Nat
  BY NodeAssumption, FS_CardinalityType
<1>3. \A k \in 0..Cardinality(Node) : Walks'[k] = Walks[k]
  BY <1>1, <1>2, WalksSame
<1>4. StackPath'
  BY <1>1 DEF StackPath, Readers
<1>5. DepthInv'
  <2> SUFFICES ASSUME Walks'[Cardinality(Node)] = {}, NEW m \in visited', Returned(m)'
               PROVE  /\ depth'[m] - 1 \in 0..Cardinality(Node) - 1
                      /\ m \in Walks'[depth'[m] - 1]
                      /\ m \notin Walks'[depth'[m]]
    BY DEF DepthInv
  <2>1. Walks[Cardinality(Node)] = {} /\ m \in visited /\ Returned(m)
    BY <1>1, <1>2, <1>3 DEF Returned
  <2>2. /\ depth[m] - 1 \in 0..Cardinality(Node) - 1
        /\ m \in Walks[depth[m] - 1] /\ m \notin Walks[depth[m]]
    BY <2>1 DEF DepthInv
  <2>3. depth[m] \in Nat
    BY <2>1 DEF TypeOK
  <2>4. depth[m] - 1 \in 0..Cardinality(Node) /\ depth[m] \in 0..Cardinality(Node)
    BY <1>2, <2>2, <2>3
  <2> QED BY <1>1, <1>3, <2>2, <2>4
<1> QED BY <1>4, <1>5

(***************************************************************************)
(* The depth get_downward_stat leaves is the length of the longest path,   *)
(* for every netlist without loops, however many nodes it has and from     *)
(* whichever candidate the recursion first came to a node.                 *)
(***************************************************************************)
THEOREM WeightsExact == Spec => []WeightIsLongestPath
<1>1. Init => StackPath /\ DepthInv
  <2> SUFFICES ASSUME Init PROVE StackPath /\ DepthInv
    OBVIOUS
  <2>1. visited = {} /\ Len(stack) = 0
    BY DEF Init
  <2> QED BY <2>1 DEF StackPath, DepthInv
<1>2. TypeOK /\ StackPath /\ DepthInv /\ [Next]_vars => StackPath' /\ DepthInv'
  <2> SUFFICES ASSUME TypeOK, StackPath, DepthInv, [Next]_vars
               PROVE  StackPath' /\ DepthInv'
    OBVIOUS
  <2>1. CASE StatCandidate \/ StatReader
    BY <2>1, CallDepth
  <2>2. CASE StatReturn
    BY <2>2, ReturnDepth
  <2>3. CASE \/ PartialMapNode \/ SetBlocksNeeded \/ NothingToMix
            \/ AssignWeight \/ BeginPerform \/ HardenHeaviest
            \/ BeginErase \/ EraseHardened \/ BeginSoften
            \/ SoftenRemaining \/ Finish
    <3>1. UNCHANGED <<net, weighVars>>
      BY <2>3 DEF PartialMapNode, SetBlocksNeeded, NothingToMix, AssignWeight, BeginPerform,
                  HardenHeaviest, BeginErase, EraseHardened, BeginSoften, SoftenRemaining,
                  Finish, inputVars
    <3> QED BY <3>1, DepthUntouched
  <2>4. CASE UNCHANGED vars
    <3>1. UNCHANGED <<net, weighVars>>
      BY <2>4 DEF vars, inputVars
    <3> QED BY <3>1, DepthUntouched
  <2> QED BY <2>1, <2>2, <2>3, <2>4 DEF Next
<1>3. TypeOK /\ DepthInv => WeightIsLongestPath
  <2> SUFFICES ASSUME TypeOK, DepthInv, Walks[Cardinality(Node)] = {}, NEW n \in visited,
                      \A i \in DOMAIN stack : stack[i] # n
               PROVE  n \in Walks[depth[n] - 1] /\ n \notin Walks[depth[n]]
    BY DEF WeightIsLongestPath
  <2>1. DOMAIN stack = 1..Len(stack)
    BY DEF TypeOK
  <2> QED BY <2>1 DEF DepthInv, Returned
<1> QED BY <1>1, <1>2, <1>3, MixingTypeCorrect, PTL DEF Spec
===============================================================================
