--------------------------- MODULE MultiplierSplit ---------------------------
(***************************************************************************)
(* iterate_multipliers of multipliers.cc: the multiplications of a design  *)
(* are cut until every piece fits a hard block of the architecture.  A     *)
(* piece is either kept as a hard multiplier (padded when all are to have  *)
(* one size), torn into an adder tree, or left to the partial map.         *)
(*                                                                         *)
(* The work list mult_list is a stack: pieces are pushed in front of the   *)
(* multiplications that wait.  sizea and sizeb are locals of the function, *)
(* exchanged when a piece is wider on port b, and stay exchanged for the   *)
(* pieces after it.                                                        *)
(*                                                                         *)
(* What the pieces and the adders that join them compute is a function of  *)
(* the operands, so a netlist of them is a table of nodes: a node that was *)
(* cut names its pieces.  Operands are unsigned numbers, as they are for   *)
(* the multiplier blocks; padded input pins read zero.                     *)
(***************************************************************************)
EXTENDS Binary, Sequences, FiniteSets

CONSTANT
  Designs  \* architectures with the multiplications mult_list may start as

Widths == [a : Nat \ {0}, b : Nat \ {0}]

(***************************************************************************)
(* What is known of the target: the port sizes a and b of hard_multipliers *)
(* and the physical blocks that implement it, whose ports are no wider;    *)
(* the minimum size min_mult; is there a hard adder; and are the options   *)
(* fixed_hard_multiplier and split_hard_multiplier (fracture) set?         *)
(***************************************************************************)
IsSplitArch(r) ==
  /\ r.a \in Nat \ {0} /\ r.b \in Nat \ {0}
  /\ r.pb_types \in Seq(Widths)
  /\ \A i \in 1..Len(r.pb_types) : r.pb_types[i].a <= r.a /\ r.pb_types[i].b <= r.b
  /\ r.min_mult \in Nat
  /\ r.hard_adders \in BOOLEAN /\ r.fixed \in BOOLEAN /\ r.fracture \in BOOLEAN

ASSUME DesignsAssumption ==
  Designs # {} /\ \A d \in Designs : IsSplitArch(d.arch) /\ d.mults \in Seq(Widths)

VARIABLES
  arch,       \* the target architecture and the options
  nodes,      \* the multiplications of the design and the pieces, in order of creation
  mult_list,  \* indexes of those still to be looked at, the head first
  size,       \* sizea and sizeb
  mults,      \* the distribution: how many blocks of each size were kept
  split_phase

split_vars == <<arch, nodes, mult_list, size, mults, split_phase>>

SizeA == arch.a
SizeB == arch.b
PbTypes == arch.pb_types

LargerSize(x, y) == IF x > y THEN x ELSE y
SmallerSize(x, y) == IF x < y THEN x ELSE y

(* cut_a and cut_b: width of the low piece of a port that was cut.         *)
Waiting(a, b) ==
  [a |-> a, b |-> b, made |-> "waiting", pieces |-> <<>>, cut_a |-> a, cut_b |-> b]

(* init_mult_distribution allocates this many counters.                    *)
Keys == 0 .. (1 + SizeA) * (1 + SizeB) - 1

SplitInit ==
  /\ \E d \in Designs :
        /\ arch = d.arch
        /\ nodes = [i \in 1..Len(d.mults) |-> Waiting(d.mults[i].a, d.mults[i].b)]
        /\ mult_list = [i \in 1..Len(d.mults) |-> i]
  /\ size = [a |-> LargerSize(SizeA, SizeB), b |-> SmallerSize(SizeA, SizeB)]
  /\ mults = [k \in Keys |-> 0]
  /\ split_phase = "iterate"

-----------------------------------------------------------------------------

Head0 == mult_list[1]
Node0 == nodes[Head0]

(* Mutation: the exchange loses one of the two sizes.                      *)
Oriented_LostSize ==
  IF Node0.a < Node0.b THEN [a |-> size.a, b |-> size.a] ELSE size

(* The block sizes for the node at the head of the list.                   *)
Oriented ==
  IF Node0.a < Node0.b THEN [a |-> size.b, b |-> size.a] ELSE size

(* Mutation: the node that is cut stays on the list.                       *)
Cut_KeepsHead(how, cut_a, cut_b, pieces) ==
  LET n == Len(nodes)
      k == Len(pieces)
  IN  /\ nodes' = [nodes EXCEPT ![Head0] =
                     [@ EXCEPT !.made = how, !.cut_a = cut_a, !.cut_b = cut_b,
                               !.pieces = [i \in 1..k |-> n + i]]] \o pieces
      /\ mult_list' = [i \in 1..k |-> n + k + 1 - i] \o mult_list
      /\ size' = Oriented
      /\ UNCHANGED <<arch, mults, split_phase>>

(* The node is cut: its pieces are new and go in front of the list, the    *)
(* last first.                                                             *)
Cut(how, cut_a, cut_b, pieces) ==
  LET n == Len(nodes)
      k == Len(pieces)
  IN  /\ nodes' = [nodes EXCEPT ![Head0] =
                     [@ EXCEPT !.made = how, !.cut_a = cut_a, !.cut_b = cut_b,
                               !.pieces = [i \in 1..k |-> n + i]]] \o pieces
      /\ mult_list' = [i \in 1..k |-> n + k + 1 - i] \o Tail(mult_list)
      /\ size' = Oriented
      /\ UNCHANGED <<arch, mults, split_phase>>

(* split_multiplier: both ports are too wide.                              *)
SplitBoth ==
  /\ split_phase = "iterate" /\ mult_list # <<>>
  /\ LET a0 == Oriented.a
         b0 == Oriented.b
         a1 == Node0.a - a0
         b1 == Node0.b - b0
     IN  /\ a1 > 0 /\ b1 > 0
         /\ Cut("both", a0, b0,
                <<Waiting(a0, b0), Waiting(a1, b1), Waiting(a0, b1), Waiting(a1, b0)>>)

(* split_multiplier_a                                                      *)
SplitOnA ==
  /\ split_phase = "iterate" /\ mult_list # <<>>
  /\ Node0.a > Oriented.a /\ Node0.b <= Oriented.b
  /\ LET a0 == Oriented.a
     IN  Cut("a", a0, Node0.b, <<Waiting(a0, Node0.b), Waiting(Node0.a - a0, Node0.b)>>)

(* split_multiplier_b: here the high piece has the size of the block.      *)
SplitOnB ==
  /\ split_phase = "iterate" /\ mult_list # <<>>
  /\ Node0.a <= Oriented.a /\ Node0.b > Oriented.b
  /\ LET b0 == Node0.b - Oriented.b
     IN  Cut("b", Node0.a, b0, <<Waiting(Node0.a, b0), Waiting(Node0.a, Oriented.b)>>)

Fits == Node0.a <= Oriented.a /\ Node0.b <= Oriented.b

WorthABlock(n) == LargerSize(n.a, n.b) >= arch.min_mult \/ n.a = 1 \/ n.b = 1

-----------------------------------------------------------------------------
(* pad_multiplier                                                          *)

Surplus(p) == p.a - Node0.a + p.b - Node0.b

(* The size of the model, larger port first.                               *)
Full == [a |-> LargerSize(SizeA, SizeB), b |-> SmallerSize(SizeA, SizeB)]

(* Mutation: only the sum of the widths is compared.                       *)
Better_AnyShape ==
  {i \in 1..Len(PbTypes) :
     0 <= Surplus(PbTypes[i]) /\ Surplus(PbTypes[i]) < Surplus(Full)}

(* Blocks that leave fewer pins over than the model does.                  *)
Better ==
  {i \in 1..Len(PbTypes) :
     /\ PbTypes[i].a >= Node0.a /\ PbTypes[i].b >= Node0.b
     /\ Surplus(PbTypes[i]) < Surplus(Full)}

(* The size to pad to: that of the model, or with fracturing of the first  *)
(* block that leaves the fewest pins over.                                 *)
BestFit(p) ==
  IF ~arch.fracture \/ Surplus(Full) = 0 \/ Better = {} THEN p = Full
  ELSE \E i \in Better :
         /\ p = PbTypes[i]
         /\ \A j \in Better :
              \/ Surplus(PbTypes[i]) < Surplus(PbTypes[j])
              \/ Surplus(PbTypes[i]) = Surplus(PbTypes[j]) /\ i <= j

(* A block narrower than the node: an error, or pins moved past the array. *)
TooNarrow(p) == p.a < Node0.a \/ p.b < Node0.b

(* Mutation: the rows of the table are one counter too short.              *)
Key_ShortRows(a, b) == a * (SizeA - 1) + b

(* The counter of a size: nothing checks that it is in the table.          *)
Key(a, b) == a * SizeA + b

(* record_mult_distribution, with the phase that follows.                  *)
RecordMultDistribution(after) ==
  LET k == Key(Node0.a, Node0.b)
  IN  IF k \in Keys THEN mults' = [mults EXCEPT ![k] = @ + 1] /\ split_phase' = after
                    ELSE UNCHANGED mults /\ split_phase' = "overrun"

KeepHard ==
  /\ split_phase = "iterate" /\ mult_list # <<>>
  /\ Fits /\ WorthABlock(Node0) /\ ~arch.fixed
  /\ RecordMultDistribution(split_phase)
  /\ nodes' = [nodes EXCEPT ![Head0].made = "hard"]
  /\ mult_list' = Tail(mult_list) /\ size' = Oriented /\ UNCHANGED arch

PadMultiplier ==
  /\ split_phase = "iterate" /\ mult_list # <<>>
  /\ Fits /\ WorthABlock(Node0) /\ arch.fixed
  /\ \E p \in {Full} \cup {PbTypes[i] : i \in 1..Len(PbTypes)} :
        /\ BestFit(p)
        /\ RecordMultDistribution(IF TooNarrow(p) THEN "pad_error" ELSE split_phase)
        /\ nodes' = IF TooNarrow(p) THEN nodes
                     ELSE [nodes EXCEPT ![Head0] =
                             [@ EXCEPT !.a = p.a, !.b = p.b, !.made = "hard"]]
  /\ mult_list' = Tail(mult_list) /\ size' = Oriented /\ UNCHANGED arch

(* Mutation: the small multiplication is not taken off the list.           *)
KeepSoft_Stays ==
  /\ split_phase = "iterate" /\ mult_list # <<>>
  /\ Fits /\ ~WorthABlock(Node0)
  /\ UNCHANGED split_vars

(* Below the minimum size: torn here only for hard adders and fixed sizes, *)
(* otherwise a MULTIPLY node that the partial map will meet again.         *)
KeepSoft ==
  /\ split_phase = "iterate" /\ mult_list # <<>>
  /\ Fits /\ ~WorthABlock(Node0)
  /\ nodes' = [nodes EXCEPT ![Head0].made = IF arch.hard_adders /\ arch.fixed THEN "soft" ELSE "left"]
  /\ mult_list' = Tail(mult_list) /\ size' = Oriented
  /\ UNCHANGED <<arch, mults, split_phase>>

Done ==
  /\ split_phase = "iterate" /\ mult_list = <<>>
  /\ split_phase' = "done"
  /\ UNCHANGED <<arch, nodes, mult_list, size, mults>>

SplitNext ==
  \/ SplitBoth \/ SplitOnA \/ SplitOnB
  \/ KeepHard \/ PadMultiplier \/ KeepSoft \/ Done

SplitSpec == SplitInit /\ [][SplitNext]_split_vars

(* The pass is one thread that nothing interrupts.                         *)
SplitFairSpec == SplitSpec /\ WF_split_vars(SplitNext)

-----------------------------------------------------------------------------
(* What a node computes                                                    *)

(* Mutation: the low bits of a0b0 are added in as well.                    *)
JoinBoth_Unshifted(m, a0b0, a1b1, a0b1, a1b0) ==
  LET a1 == m.a - m.cut_a
      b1 == m.b - m.cut_b
      small == LargerSize(a1 + m.cut_b + 1, m.cut_a + b1 + 1)
      big == LargerSize(small, m.a + b1)
      sum == Low(a1b0 + a0b1, small)
  IN  Low(a0b0, m.cut_b)
        + Low(sum + a0b0 + a1b1 * Pow2[m.cut_a], big) * Pow2[m.cut_b]

(* addsmall adds the mixed products, addbig that sum to a1b1 concatenated  *)
(* with the high bits of a0b0; the lowest b0 bits are those of a0b0.       *)
JoinBoth(m, a0b0, a1b1, a0b1, a1b0) ==
  LET a1 == m.a - m.cut_a
      b1 == m.b - m.cut_b
      small == LargerSize(a1 + m.cut_b + 1, m.cut_a + b1 + 1)
      big == LargerSize(small, m.a + b1)
      sum == Low(a1b0 + a0b1, small)
  IN  Low(a0b0, m.cut_b)
        + Low(sum + High(a0b0, m.cut_b) + a1b1 * Pow2[m.cut_a], big) * Pow2[m.cut_b]

JoinA(m, a0b, a1b) ==
  Low(a0b, m.cut_a)
    + Low(High(a0b, m.cut_a) + a1b, m.a - m.cut_a + m.b) * Pow2[m.cut_a]

(* The top bit of ab0 is copied into the missing bits of the low operand.  *)
TopBit(m, ab0) == High(ab0, m.a + m.cut_b - 1)

JoinB(m, ab0, ab1) ==
  LET width == m.a + m.b - m.cut_b
      extension == TopBit(m, ab0) * (Pow2[width] - Pow2[m.a])
  IN  Low(ab0, m.cut_b)
        + Low(High(ab0, m.cut_b) + extension + ab1, width) * Pow2[m.cut_b]

(* Value[<<n, x, y>>]: the output pins of node n for operands x and y.     *)
Value[p \in (DOMAIN nodes) \X Nat \X Nat] ==
  LET m == nodes[p[1]]
      x0 == Low(p[2], m.cut_a)
      x1 == High(p[2], m.cut_a)
      y0 == Low(p[3], m.cut_b)
      y1 == High(p[3], m.cut_b)
  IN  CASE m.made = "both" ->
             JoinBoth(m, Value[<<m.pieces[1], x0, y0>>], Value[<<m.pieces[2], x1, y1>>],
                         Value[<<m.pieces[3], x0, y1>>], Value[<<m.pieces[4], x1, y0>>])
        [] m.made = "a" -> JoinA(m, Value[<<m.pieces[1], x0, y0>>], Value[<<m.pieces[2], x1, y0>>])
        [] m.made = "b" -> JoinB(m, Value[<<m.pieces[1], x0, y0>>], Value[<<m.pieces[2], x0, y1>>])
        [] OTHER -> p[2] * p[3]

-----------------------------------------------------------------------------

Kinds == {"waiting", "both", "a", "b", "hard", "soft", "left"}

(* Every variable keeps its type.                                          *)
SplitTypeOK ==
  /\ IsSplitArch(arch)
  /\ nodes \in Seq([a : Nat \ {0}, b : Nat \ {0}, made : Kinds,
                    pieces : Seq(Nat), cut_a : Nat, cut_b : Nat])
  /\ mult_list \in Seq(Nat)
  /\ size \in Widths
  /\ mults \in [Keys -> Nat]
  /\ split_phase \in {"iterate", "done", "overrun", "pad_error"}

Operands(n) == (0 .. Pow2[nodes[n].a] - 1) \X (0 .. Pow2[nodes[n].b] - 1)
Leaf(n) == nodes[n].made \in {"hard", "soft", "left"}

(* The operands for which the way a node was cut is sound: the two shifts  *)
(* of split_multiplier agree, and the low product of split_multiplier_b    *)
(* leaves its top bit clear.                                               *)
SoundCuts[p \in (DOMAIN nodes) \X Nat \X Nat] ==
  LET m == nodes[p[1]]
      x0 == Low(p[2], m.cut_a)
      x1 == High(p[2], m.cut_a)
      y0 == Low(p[3], m.cut_b)
      y1 == High(p[3], m.cut_b)
  IN  CASE m.made = "both" ->
             /\ m.cut_a = m.cut_b
             /\ SoundCuts[<<m.pieces[1], x0, y0>>] /\ SoundCuts[<<m.pieces[2], x1, y1>>]
             /\ SoundCuts[<<m.pieces[3], x0, y1>>] /\ SoundCuts[<<m.pieces[4], x1, y0>>]
        [] m.made = "a" -> SoundCuts[<<m.pieces[1], x0, y0>>] /\ SoundCuts[<<m.pieces[2], x1, y0>>]
        [] m.made = "b" ->
             /\ TopBit(m, x0 * y0) = 0
             /\ SoundCuts[<<m.pieces[1], x0, y0>>] /\ SoundCuts[<<m.pieces[2], x0, y1>>]
        [] OTHER -> TRUE

(***************************************************************************)
(* However often a multiplication is cut, and whatever the order, the      *)
(* pieces and adders compute its product, but for the operands where a     *)
(* sign extension or a misaligned shift gets in the way.                   *)
(***************************************************************************)
ProductKept ==
  split_phase = "done" => \A n \in DOMAIN nodes : ~Leaf(n) =>
    \A o \in Operands(n) :
       SoundCuts[<<n, o[1], o[2]>>] => Value[<<n, o[1], o[2]>>] = o[1] * o[2]

(***************************************************************************)
(* Whichever way round sizea and sizeb were left by the pieces before, a   *)
(* multiplication that is not cut fits the block in one orientation.       *)
(***************************************************************************)
BlocksFit ==
  \A n \in DOMAIN nodes : Leaf(n) =>
    /\ LargerSize(nodes[n].a, nodes[n].b) <= LargerSize(SizeA, SizeB)
    /\ SmallerSize(nodes[n].a, nodes[n].b) <= SmallerSize(SizeA, SizeB)

(***************************************************************************)
(* Over square blocks that are not padded every line of                    *)
(* report_mult_distribution is the number of hard multipliers of that      *)
(* size: no counter lies outside the table, none is shared by two sizes    *)
(* and none is missed by the loops.  (A padded multiplier is recorded with *)
(* the size it had before.)                                                *)
(***************************************************************************)
HardOfSize(a, b) ==
  Cardinality({n \in DOMAIN nodes :
                 nodes[n].made = "hard" /\ nodes[n].a = a /\ nodes[n].b = b})

DistributionExact == SizeA = SizeB /\ ~arch.fixed =>
  /\ split_phase # "overrun"
  /\ split_phase = "done" =>
        /\ \A n \in DOMAIN nodes :
              nodes[n].made = "hard" => nodes[n].a \in 0..SizeA /\ nodes[n].b \in 1..SizeB
        /\ \A i \in 0..SizeA, j \in 1..SizeB : mults[Key(i, j)] = HardOfSize(i, j)

(***************************************************************************)
(* "Fill out a multiplier to a fixed size" (multipliers.cc, line 1184):    *)
(* over square blocks a kept multiplier has the size of one of the blocks, *)
(* and no piece is too wide for the block it is padded to.                 *)
(***************************************************************************)
BlockSizes ==
  {Full} \cup (IF arch.fracture THEN {PbTypes[i] : i \in 1..Len(PbTypes)} ELSE {})

PadFills == SizeA = SizeB =>
  /\ split_phase # "pad_error"
  /\ arch.fixed => \A n \in DOMAIN nodes : nodes[n].made = "hard" =>
       [a |-> nodes[n].a, b |-> nodes[n].b] \in BlockSizes

(* The function comes to an end: cutting always makes something smaller.   *)
SplittingEnds == <>(split_phase # "iterate")

-----------------------------------------------------------------------------

(***************************************************************************)
(* "a * b1b0 => a * b1 + a * b0 => c" (multipliers.cc, line 1121): the     *)
(* adder of split_multiplier_b joins the two products to the product.      *)
(***************************************************************************)
SplitOnBAsStated ==
  \A n \in DOMAIN nodes : nodes[n].made = "b" =>
    LET m == nodes[n]
    IN  \A o \in Operands(n) :
          JoinB(m, o[1] * Low(o[2], m.cut_b), o[1] * High(o[2], m.cut_b)) = o[1] * o[2]

-----------------------------------------------------------------------------

(***************************************************************************)
(* The inductive invariant: what waits is on the list, once, and the two   *)
(* block sizes are those of the model in one order or the other.           *)
(***************************************************************************)
ListExact ==
  /\ \A i \in 1..Len(mult_list) :
        /\ mult_list[i] \in 1..Len(nodes)
        /\ nodes[mult_list[i]].made = "waiting"
  /\ \A i, j \in 1..Len(mult_list) : i # j => mult_list[i] # mult_list[j]
  /\ split_phase \in {"iterate", "done"} => \A n \in 1..Len(nodes) :
        nodes[n].made = "waiting" => \E i \in 1..Len(mult_list) : mult_list[i] = n

SizeInv ==
  \/ size = [a |-> SizeA, b |-> SizeB]
  \/ size = [a |-> SizeB, b |-> SizeA]

SplitIInv ==
  /\ SplitTypeOK /\ ListExact /\ SizeInv /\ BlocksFit
  /\ split_phase = "done" => mult_list = <<>>
=============================================================================
