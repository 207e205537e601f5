------------------------------- MODULE AdderTree -------------------------------
(***************************************************************************)
(* split_soft_multiplier of multipliers.cc: a multiplication becomes a row *)
(* of AND gates for every bit of the multiplicand and a balanced tree of   *)
(* adders over the rows.  A row of AdderTreeRow is a shift and its output  *)
(* pins; here it is the shift, the number of pins and the number they      *)
(* carry for the operands x and y.  A step is one pass through the loop    *)
(* over pairs of rows, with the adder it makes.  SoftMultiplication says   *)
(* which multiplications get here.                                         *)
(***************************************************************************)
EXTENDS Binary, Sequences

VARIABLES
  job,     \* the multiplication: its widths are job.a and job.b
  x, y,    \* the operands
  width,   \* num_output_pins
  level,   \* level of the tree
  stage,   \* rows of addition_stages[level] that the loop has yet to reach
  next,    \* rows made for addition_stages[level + 1]
  out,     \* what the output pins carry once they are remapped
  phase

operands == <<job, x, y, width>>
vars == <<operands, level, stage, next, out, phase>>

Larger(m, n) == IF m > n THEN m ELSE n

(* ceil(log2(multiplicand_width))                                          *)
AddLevels == CHOOSE l \in 0..job.b : Pow2[l] >= job.b /\ \A k \in 0..l - 1 : Pow2[k] < job.b

PartialProduct(i) == [shift |-> i, size |-> job.a, bits |-> x * Bit(y, i)]

(* The AND gates; the rows become the first level of the tree.  oassert:   *)
(* the multiplicand is wider than one bit.                                 *)
Begin ==
  /\ IF job.b > 1
       THEN stage' = [i \in 1..job.b |-> PartialProduct(i - 1)] /\ phase' = "tree"
       ELSE UNCHANGED stage /\ phase' = "assertion_failed"
  /\ UNCHANGED <<operands, level, next, out>>

(* Mutation: a last bit that both rows feed gets no carry.                 *)
AdderWidth_NoCarry(first, second) ==
  Larger(first.size - (second.shift - first.shift), second.size)
    + (IF level = 0 THEN 1 ELSE 0)

(* The first level generates a carry, and so does a last bit both rows     *)
(* feed.                                                                   *)
AdderWidth(first, second) ==
  LET overlap == first.size - (second.shift - first.shift)
  IN  Larger(overlap, second.size)
        + (IF level = 0 THEN 1 ELSE 0)
        + (IF overlap = second.size THEN 1 ELSE 0)

(* Mutation: the bits that bypass the adder are not copied.                *)
Sum_NoBypass(first, second) ==
  LET ahead == second.shift - first.shift
      sum == AdderWidth(first, second)
  IN  [shift |-> first.shift,
       size |-> ahead + sum,
       bits |-> ((first.bits \div Pow2[ahead] + second.bits) % Pow2[sum]) * Pow2[ahead]]

(* The lowest bits of the first row bypass the adder.                      *)
Sum(first, second) ==
  LET ahead == second.shift - first.shift
      sum == AdderWidth(first, second)
  IN  [shift |-> first.shift,
       size |-> ahead + sum,
       bits |-> (first.bits % Pow2[ahead])
                  + ((first.bits \div Pow2[ahead] + second.bits) % Pow2[sum]) * Pow2[ahead]]

AddRows ==
  /\ phase = "tree" /\ Len(stage) >= 2
  /\ next' = Append(next, Sum(stage[1], stage[2]))
  /\ stage' = SubSeq(stage, 3, Len(stage))
  /\ UNCHANGED <<operands, level, out, phase>>

(* An odd row is added on a later level.                                   *)
NextLevel ==
  /\ phase = "tree" /\ Len(stage) < 2 /\ level < AddLevels
  /\ level' = level + 1
  /\ stage' = next \o stage /\ next' = <<>>
  /\ phase' = IF level' = AddLevels THEN "remap" ELSE phase
  /\ UNCHANGED <<operands, out>>

(* oassert: the last row has as many pins as the multiplication.           *)
RemapOutputs ==
  /\ phase = "remap"
  /\ IF stage[1].size = width
       THEN out' = stage[1].bits /\ phase' = "done"
       ELSE UNCHANGED out /\ phase' = "assertion_failed"
  /\ UNCHANGED <<operands, level, stage, next>>

Next == AddRows \/ NextLevel \/ RemapOutputs

-----------------------------------------------------------------------------

Rows == [shift : Nat, size : Nat, bits : Nat]

(* Rows are rows, and none carries more than its pins.                     *)
TypeOK ==
  /\ level \in Nat
  /\ stage \in Seq(Rows) /\ next \in Seq(Rows)
  /\ \A i \in DOMAIN stage : stage[i].bits < Pow2[stage[i].size]
  /\ \A i \in DOMAIN next : next[i].bits < Pow2[next[i].size]

Total(rows) ==
  LET Upto[i \in 0..Len(rows)] ==
        IF i = 0 THEN 0 ELSE Upto[i - 1] + rows[i].bits * Pow2[rows[i].shift]
  IN  Upto[Len(rows)]

(* "was found to be the only case were a carry out will be needed in this  *)
(* multiplier adder tree": on every level the rows in their positions add  *)
(* up to the product, no adder is too narrow for its sum, and the last row *)
(* has the width of the product.                                           *)
NoCarryLost ==
  /\ phase \in {"tree", "remap"} => Total(stage) + Total(next) = x * y
  /\ phase = "remap" => stage[1].size = job.a + job.b
=============================================================================
