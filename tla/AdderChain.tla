------------------------------ MODULE AdderChain ------------------------------
(***************************************************************************)
(* What becomes of a node of type ADD or MINUS: resolve_arithmetic_nodes   *)
(* gives it the ports the later passes expect, iterate_adders and          *)
(* iterate_adders_for_sub cut it into a chain of hard adders, and the      *)
(* partial map turns a node that was not cut into soft logic, one full     *)
(* adder a bit (instantiate_add_w_carry_block).                            *)
(*                                                                         *)
(* Position p of a chain is input p % S of slice p \div S.  Position 0 is  *)
(* the dummy adder whose only purpose is to feed the first carry, so bit k *)
(* of an operand belongs in position k + 1.  What an input pin is tied to  *)
(* is a source: a pin of the old node, a constant node, the carry out of a *)
(* slice, or nothing yet.  adder_cin_global and min_add are constants of   *)
(* the program (off, zero); a MINUS node has two operands, as only $sub    *)
(* becomes one.                                                            *)
(***************************************************************************)
EXTENDS Binary, Sequences

CONSTANT
  Jobs  \* a node and the target that it is mapped to

(***************************************************************************)
(* A node: op with operands of a and b pins and y output pins.  design: it *)
(* is from the netlist, and not one that splitting multiplications made.   *)
(* ext_a and ext_b: how many leading pins of the operand are tied to the   *)
(* net that extends it, the one net if the port is signed and the zero net *)
(* if not.  The target: is there a hard adder, how wide is it, and what is *)
(* min_threshold_adder?                                                    *)
(***************************************************************************)
IsJob(r) ==
  /\ r.op \in {"add", "sub"} /\ r.design \in BOOLEAN
  /\ r.a \in Nat \ {0} /\ r.b \in Nat \ {0} /\ r.y \in Nat \ {0}
  /\ r.ext_a \in 0..r.a - 1 /\ r.ext_b \in 0..r.b - 1 /\ r.signed \in BOOLEAN
  /\ r.op = "add" => r.ext_a = 0 /\ r.ext_b = 0
  /\ r.hard \in BOOLEAN /\ r.size \in Nat \ {0} /\ r.threshold \in Nat
  /\ ~r.design => r.op = "add" /\ r.y = (IF r.a > r.b THEN r.a ELSE r.b)

ASSUME JobsAssumption == Jobs # {} /\ \A r \in Jobs : IsJob(r)

VARIABLES
  job,     \* the node as it comes and its target
  node,    \* the ports it has been given
  slices,  \* the adders made for it, in the order of the chain
  drive,   \* what drives each of its output pins
  index,   \* the bit that the soft adder is at
  phase

vars == <<job, node, slices, drive, index, phase>>

Larger(m, n) == IF m > n THEN m ELSE n
Smaller(m, n) == IF m < n THEN m ELSE n

Source(of, bit, inv) == [of |-> of, bit |-> bit, inv |-> inv]
Open == Source("open", 0, FALSE)
Gnd == Source("gnd", 0, FALSE)
Vcc == Source("vcc", 0, FALSE)
Pad == Source("pad", 0, FALSE)
Cout(i) == Source("cout", i, FALSE)
Sum(p) == Source("sum", p, FALSE)
Invert(s) == [s EXCEPT !.inv = ~s.inv]

S == job.size
IsSub == job.op = "sub"
Width == Larger(node.a, node.b)

(* Is the node cut into hard adders?  A node without a hard adder, or one  *)
(* that is below the threshold, is left to the partial map.                *)
IsCut == job.hard /\ Width >= job.threshold

(* Input pin k of an operand; past live the pins were added as padding.    *)
Pin(port, live, k) == IF k < live THEN Source(port, k, FALSE) ELSE Pad

PinA(k) == Pin("a", node.live_a, k)
PinB(k) == Pin("b", node.live_b, k)

Init ==
  /\ job \in Jobs
  /\ node = [ports |-> 2, a |-> job.a, b |-> job.b, out |-> job.y,
             live_a |-> job.a, live_b |-> job.b]
  /\ slices = <<>>
  /\ drive = [k \in 0..job.y - 1 |-> Open]
  /\ index = 0
  /\ phase = IF job.design THEN "resolve" ELSE "list"

-----------------------------------------------------------------------------
(* parmys_resolve.cc: resolve_arithmetic_nodes                             *)

(* The output pins of the new node; those of the design that are left over *)
(* are driven from s.                                                      *)
NewOutputs(out, s) ==
  [k \in 0..Larger(out, job.y) - 1 |-> IF k < out THEN Open ELSE s]

(* Mutation: no room for the carry out of the last bit.                    *)
SumWidth_NoCarry == Width

SumWidth == Width + 1

(* check_missing_ports: a third input port, tied to ground, and an output  *)
(* pin for the carry.                                                      *)
ResolveAdd ==
  /\ phase = "resolve" /\ ~IsSub
  /\ IF job.hard
       THEN /\ node' = [node EXCEPT !.ports = 3, !.out = SumWidth]
            /\ drive' = NewOutputs(SumWidth, Gnd)
       ELSE UNCHANGED <<node, drive>>
  /\ phase' = "list"
  /\ UNCHANGED <<job, slices, index>>

(* equalize_ports_size: leading pins tied to the extending net are taken   *)
(* away, the narrower operand is padded, and the outputs get the width of  *)
(* the operands.                                                           *)
ResolveSub ==
  /\ phase = "resolve" /\ IsSub
  /\ LET live_a == job.a - job.ext_a
         live_b == job.b - job.ext_b
         w == Larger(live_a, live_b)
     IN  /\ node' = [ports |-> 2, a |-> w, b |-> w, out |-> w,
                     live_a |-> live_a, live_b |-> live_b]
         /\ drive' = NewOutputs(w, Pad)
  /\ phase' = "list"
  /\ UNCHANGED <<job, slices, index>>

-----------------------------------------------------------------------------
(* iterate_adders, split_adder and their twins for subtraction             *)

SlicesFor(w) ==
  IF IsSub /\ (w + 1) % S = 0 THEN (w + 1) \div S ELSE (w + 1) \div S + 1

(* Mutation: the position of the dummy adder is not counted.               *)
Count_NoDummy == Larger(node.a \div S, node.b \div S) + 1

Count == Larger(SlicesFor(node.a), SlicesFor(node.b))

(* Mutation: the last position of a slice that is not full stays empty.    *)
OperandSource_OffByOne(i, j, w, pin) ==
  IF i * S + j \in 1..w /\ (j # S - 1 \/ w >= (i + 1) * S) THEN pin ELSE Open

(* What init_split_adder puts in input j of slice i for an operand of w    *)
(* pins.                                                                   *)
OperandSource(i, j, w, pin) == IF i * S + j \in 1..w THEN pin ELSE Open

(* The loop over init_split_adder.  A subtrahend is connected later.       *)
CutNode ==
  /\ phase = "list" /\ IsCut
  /\ slices' =
       [i \in 1..Count |->
          [a |-> [j \in 0..S - 1 |->
                    OperandSource(i - 1, j, node.a, PinA((i - 1) * S + j - 1))],
           b |-> [j \in 0..S - 1 |->
                    IF IsSub THEN Open
                    ELSE OperandSource(i - 1, j, node.b, PinB((i - 1) * S + j - 1))],
           cin |-> Open]]
  /\ phase' = IF IsSub THEN "invert" ELSE "start"
  /\ UNCHANGED <<job, node, drive, index>>

(* Mutation: the inverted bits are not moved up past the dummy adder.      *)
Inverter_NoOffset(i, j) ==
  IF i * S + j < node.b THEN Invert(PinB(i * S + j)) ELSE Open

(* The subtrahend goes through a NOT gate a bit.                           *)
Inverter(i, j) ==
  IF i * S + j \in 1..node.b THEN Invert(PinB(i * S + j - 1)) ELSE Open

ConnectInverters ==
  /\ phase = "invert"
  /\ slices' =
       [i \in DOMAIN slices |->
          [slices[i] EXCEPT !.b = [j \in 0..S - 1 |-> Inverter(i - 1, j)]]]
  /\ phase' = "start"
  /\ UNCHANGED <<job, node, drive, index>>

(* Mutation: the grounded inputs of the last slice are chosen when one of  *)
(* the operands fills its slices.                                          *)
LastIsEmpty_Either ==
  ~IsSub /\ ((node.a + 1) % S = 0 \/ (node.b + 1) % S = 0)

(* Both operands fill the slices before the last one.                      *)
LastIsEmpty ==
  ~IsSub /\ (node.a + 1) % S = 0 /\ (node.b + 1) % S = 0

(* What input 0 of an operand of slice i is tied to, the last slice coming *)
(* after the first.                                                        *)
FirstInput(i, dummy, old) ==
  IF LastIsEmpty /\ i = Len(slices) THEN Gnd ELSE IF i = 1 THEN dummy ELSE old

(* The dummy adder and its carry in: the carry that it passes on is its    *)
(* own carry in, as one of its operands is one and the other zero.         *)
StartChain ==
  /\ phase = "start"
  /\ slices' =
       [i \in DOMAIN slices |->
          [a |-> [slices[i].a EXCEPT ![0] = FirstInput(i, IF IsSub THEN Gnd ELSE Vcc, @)],
           b |-> [slices[i].b EXCEPT ![0] = FirstInput(i, IF IsSub THEN Vcc ELSE Gnd, @)],
           cin |-> IF i # 1 THEN slices[i].cin ELSE IF node.ports = 3 THEN Gnd ELSE Pad]]
  /\ phase' = "fill"
  /\ UNCHANGED <<job, node, drive, index>>

(* What an input that is still open gets; input counts both operands.      *)
Filler(i, input) == IF IsSub /\ i * S + input < node.a THEN Gnd ELSE Pad

FillOpen ==
  /\ phase = "fill"
  /\ slices' =
       [i \in DOMAIN slices |->
          [slices[i] EXCEPT
             !.a = [j \in 0..S - 1 |-> IF @[j] = Open THEN Filler(i - 1, j) ELSE @[j]],
             !.b = [j \in 0..S - 1 |-> IF @[j] = Open THEN Filler(i - 1, S + j) ELSE @[j]]]]
  /\ phase' = "link"
  /\ UNCHANGED <<job, node, drive, index>>

(* Mutation: the first slice is linked too.                                *)
CarryIn_FromFirst(i) == Cout(i - 2)

(* Every carry out but the last feeds the next slice.                      *)
CarryIn(i) == IF i = 1 THEN slices[i].cin ELSE Cout(i - 2)

LinkCarry ==
  /\ phase = "link"
  /\ slices' = [i \in DOMAIN slices |-> [slices[i] EXCEPT !.cin = CarryIn(i)]]
  /\ phase' = "remap"
  /\ UNCHANGED <<job, node, drive, index>>

(* The output pins that split_adder takes without a look at how many there *)
(* are: those of every slice but the last.                                 *)
Unchecked ==
  IF IsSub \/ Len(slices) = 1 THEN {} ELSE 0..(Len(slices) - 1) * S - 2

(* Sums are handed the output pins of the old node, from position 1 on; a  *)
(* pin that none is handed is tied to ground when the node is freed.       *)
RemapOutputs ==
  /\ phase = "remap"
  /\ IF Unchecked \subseteq 0..node.out - 1
       THEN /\ drive' = [k \in DOMAIN drive |->
                           IF k >= node.out THEN drive[k]
                           ELSE IF k + 1 < Len(slices) * S THEN Sum(k + 1) ELSE Gnd]
            /\ phase' = "done"
       ELSE phase' = "overrun" /\ UNCHANGED drive
  /\ UNCHANGED <<job, node, slices, index>>

-----------------------------------------------------------------------------
(* partial_map.cc: instantiate_add_w_carry and instantiate_sub_w_carry     *)

LeaveNode ==
  /\ phase = "list" /\ ~IsCut
  /\ phase' = "ripple"
  /\ UNCHANGED <<job, node, slices, drive, index>>

(* Mutation: a subtraction starts without a borrow to undo.                *)
FirstCarry_Ground == Gnd

FirstCarry == IF IsSub THEN Vcc ELSE Gnd

(* connect_output_pin_to_node: the pin that sum i is handed.               *)
OutputFor(i) ==
  IF IsSub \/ node.ports = 2 THEN i
  ELSE IF i < node.out - 1 THEN i + 1 ELSE 0

(* One bit of instantiate_add_w_carry_block.                               *)
RippleBit ==
  /\ phase = "ripple"
  /\ LET missing == IF IsSub THEN Vcc ELSE Gnd
         bit == IF index < node.b THEN PinB(index) ELSE missing
         adder == [a |-> [j \in {0} |-> IF index < node.a THEN PinA(index) ELSE Gnd],
                   b |-> [j \in {0} |-> IF IsSub /\ index < node.b THEN Invert(bit) ELSE bit],
                   cin |-> IF index = 0 THEN FirstCarry ELSE Cout(index - 1)]
     IN  slices' = Append(slices, adder)
  /\ drive' = [drive EXCEPT ![OutputFor(index)] = Sum(index)]
  /\ index' = index + 1
  /\ phase' = IF index + 1 = node.out THEN "done" ELSE "ripple"
  /\ UNCHANGED <<job, node>>

-----------------------------------------------------------------------------

Next ==
  \/ ResolveAdd \/ ResolveSub
  \/ CutNode \/ ConnectInverters \/ StartChain \/ FillOpen \/ LinkCarry \/ RemapOutputs
  \/ LeaveNode \/ RippleBit

Spec == Init /\ [][Next]_vars

-----------------------------------------------------------------------------
(* What the chain computes.                                                *)

(* The width of a slice of the chain: a soft adder has one bit.            *)
SliceWidth == IF IsCut THEN S ELSE 1

At(p) == slices[p \div SliceWidth + 1]
SourceA(p) == At(p).a[p % SliceWidth]
SourceB(p) == At(p).b[p % SliceWidth]
Positions == 0..Len(slices) * SliceWidth - 1

(* The value of a source that is not a carry or a sum, for the operands x  *)
(* and z and the value pad of the pad net.                                 *)
Value(s, x, z, pad) ==
  LET v == CASE s.of = "a" -> Bit(x, s.bit)
             [] s.of = "b" -> Bit(z, s.bit)
             [] s.of = "vcc" -> 1
             [] s.of = "pad" -> pad
             [] OTHER -> 0
  IN  IF s.inv THEN 1 - v ELSE v

(* The carry into every position: within a slice from the position below,  *)
(* into the first position of a slice from its carry in.                   *)
Carries(x, z, pad) ==
  LET A(p) == Value(SourceA(p), x, z, pad)
      B(p) == Value(SourceB(p), x, z, pad)
      carry[p \in Positions] ==
        LET cin == At(p).cin
            from == IF p % SliceWidth # 0 THEN p - 1
                    ELSE cin.bit * SliceWidth + SliceWidth - 1
        IN  IF p % SliceWidth = 0 /\ cin.of # "cout"
              THEN Value(cin, x, z, pad)
              ELSE (A(from) + B(from) + carry[from]) \div 2
  IN  carry

(* What output pin k carries.                                              *)
OutputBit(k, x, z, pad) ==
  LET p == drive[k].bit
  IN  IF drive[k].of = "sum"
        THEN (Value(SourceA(p), x, z, pad) + Value(SourceB(p), x, z, pad)
                + Carries(x, z, pad)[p]) % 2
        ELSE Value(drive[k], x, z, pad)

Carried(width, ext) ==
  {v \in 0..Pow2[width] - 1 :
     \A k \in width - ext..width - 1 : Bit(v, k) = (IF job.signed THEN 1 ELSE 0)}

Operands == Carried(job.a, job.ext_a) \X Carried(job.b, job.ext_b)

-----------------------------------------------------------------------------

Phases == {"resolve", "list", "invert", "start", "fill", "link", "remap", "ripple",
           "done", "overrun"}

Sources ==
  [of : {"a", "b", "open", "gnd", "vcc", "pad", "cout", "sum"}, bit : Nat, inv : BOOLEAN]

TypeOK ==
  /\ job \in Jobs
  /\ node \in [ports : {2, 3}, a : Nat \ {0}, b : Nat \ {0}, out : Nat \ {0},
               live_a : Nat, live_b : Nat]
  /\ node.live_a <= node.a /\ node.live_b <= node.b
  /\ slices \in Seq([a : [0..SliceWidth - 1 -> Sources], b : [0..SliceWidth - 1 -> Sources],
                     cin : Sources])
  /\ drive \in [0..Larger(node.out, job.y) - 1 -> Sources]
  /\ index \in 0..node.out
  /\ phase \in Phases

-----------------------------------------------------------------------------

IsBit(s, port, k) == s.of = port /\ s.bit = k

PlacedOnce(Src(_), port, k) ==
  \E p \in Positions : \A q \in Positions : IsBit(Src(q), port, k) <=> q = p

(***************************************************************************)
(* However the widths fall on the slices, every pin of the design that an  *)
(* operand is left with is in the chain, and in one place.                 *)
(***************************************************************************)
EveryBitPlaced ==
  phase \in {"link", "remap", "done"} =>
    /\ \A k \in 0..Smaller(node.live_a, node.out) - 1 : PlacedOnce(SourceA, "a", k)
    /\ \A k \in 0..Smaller(node.live_b, node.out) - 1 : PlacedOnce(SourceB, "b", k)

(***************************************************************************)
(* split_adder numbers the outputs of all slices but the last without a    *)
(* look at how many pins the node has: it never runs past them, and every  *)
(* output pin ends up with the sum of one position, and no two with the    *)
(* same.                                                                   *)
(***************************************************************************)
OutputsHandedOver ==
  /\ phase # "overrun"
  /\ phase = "done" =>
       /\ \A k \in 0..node.out - 1 : drive[k].of = "sum" /\ drive[k].bit \in Positions
       /\ \A k, l \in 0..node.out - 1 : k # l => drive[k] # drive[l]

(***************************************************************************)
(* The chain that is handed on has no loose input, and its carry goes      *)
(* through all slices in their order.                                      *)
(***************************************************************************)
ChainConnected ==
  phase = "done" =>
    /\ \A p \in Positions : SourceA(p) # Open /\ SourceB(p) # Open
    /\ \A i \in DOMAIN slices :
         IF i = 1 THEN slices[i].cin.of \in {"gnd", "vcc", "pad"}
                  ELSE slices[i].cin = Cout(i - 2)

SumExact(pad) ==
  \A v \in Operands : \A k \in 0..job.y - 1 :
    OutputBit(k, v[1], v[2], pad) = Bit(v[1] + v[2], k)

(***************************************************************************)
(* An addition, cut or soft, gives its outputs the low bits of the sum,    *)
(* provided the pad net reads zero.  It need not if both operands have the *)
(* same width and the node went through check_missing_ports: then nothing  *)
(* that matters is tied to the pad net.  Soft adders with three ports are  *)
(* the exception, see SoftSumExact.                                        *)
(***************************************************************************)
AddExact ==
  phase = "done" /\ ~IsSub /\ (IsCut \/ node.ports = 2) =>
    \A pad \in {0, 1} :
      pad = 0 \/ (node.ports = 3 /\ node.a = node.b) => SumExact(pad)

Padded == node.live_a # node.live_b

DifferenceExact(pad) ==
  \A v \in Operands : \A k \in 0..Smaller(node.out, job.y) - 1 :
    OutputBit(k, v[1], v[2], pad) = Bit((v[1] - v[2]) % Pow2[job.y], k)

PadFits(pad) ==
  /\ IsCut => pad = 1
  /\ Padded => IF job.signed THEN job.a = job.b /\ pad = 1 ELSE pad = 0

(***************************************************************************)
(* A subtraction gives the outputs it kept the low bits of the difference. *)
(* The carry into a chain is the pad net, which must read one.  If an      *)
(* operand was padded, the pad net must read what is missing: zeros, or    *)
(* the ones that were taken away from a signed operand.  So a chain for a  *)
(* padded unsigned subtraction is right for no value.                      *)
(***************************************************************************)
SubExact ==
  phase = "done" /\ IsSub =>
    \A pad \in {0, 1} : PadFits(pad) => DifferenceExact(pad)

Kept(s, t) == s # Open => t = s

SlicesKept ==
  \A i \in DOMAIN slices :
    /\ \A j \in DOMAIN slices[i].a :
         Kept(slices[i].a[j], slices'[i].a[j]) /\ Kept(slices[i].b[j], slices'[i].b[j])
    /\ Kept(slices[i].cin, slices'[i].cin)

DrivesKept == \A k \in DOMAIN drive : drive[k].of = "sum" => drive'[k] = drive[k]

(***************************************************************************)
(* connect_nodes and remap_pin_to_new_node overwrite what they find: an    *)
(* input that is connected and an output that has its sum stay as they     *)
(* are, so no pin of the design is dropped on the way.                     *)
(***************************************************************************)
ConnectedOnce == [][SlicesKept /\ DrivesKept]_vars

(***************************************************************************)
(* What the comment in instantiate_add_w_carry_block says: an addition     *)
(* that is not cut becomes a ripple carry adder.                           *)
(***************************************************************************)
SoftSumExact ==
  phase = "done" /\ ~IsSub /\ ~IsCut => SumExact(0)
=============================================================================
