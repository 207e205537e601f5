------------------------------- MODULE AdderRows -------------------------------
(***************************************************************************)
(* instantiate_simple_soft_multiplier of multipliers.cc: a multiplication  *)
(* becomes rows of AND gates and a chain of ADD nodes, each one bit wider  *)
(* than the multiplier, each adding one row to the upper bits of the sum   *)
(* before it.  The lowest bit of a sum is an output of the multiplication. *)
(* The step of the model is one adder, with the number its pins carry for  *)
(* the operands x and y.                                                   *)
(*                                                                         *)
(* The number of output pins is not bound to the widths of the ports.      *)
(* SoftMultiplication says which multiplications get here.                 *)
(***************************************************************************)
EXTENDS Binary, Sequences

VARIABLES
  job,    \* the multiplication: its widths are job.a and job.b
  x, y,   \* the operands
  width,  \* num_output_pins
  adders, \* what the adders hooked up so far carry
  out,    \* what the output pins carry that are not driven by pad
  phase

operands == <<job, x, y, width>>
vars == <<operands, adders, out, phase>>

Smaller(m, n) == IF m < n THEN m ELSE n

PartialProduct(i) == x * Bit(y, i)

(* Outputs above the last adder are driven by pad.                         *)
DrivenWidth == Smaller(width, job.a + job.b)

Begin == phase' = "rows" /\ UNCHANGED <<operands, adders, out>>

(* Mutation: the carry of the previous sum is not passed on.               *)
Upper_NoCarry ==
  IF adders = <<>> THEN PartialProduct(0) \div 2
                    ELSE (adders[Len(adders)] % Pow2[job.a]) \div 2

(* What the next adder gets on its first job.                             *)
Upper ==
  (IF adders = <<>> THEN PartialProduct(0) ELSE adders[Len(adders)]) \div 2

HookUpAdder ==
  /\ phase = "rows" /\ Len(adders) < job.b - 1
  /\ adders' = Append(adders, (Upper + PartialProduct(Len(adders) + 1)) % Pow2[job.a + 1])
  /\ UNCHANGED <<operands, out, phase>>

(* Mutation: the middle outputs take the second bit of their adder.        *)
OutputPin_Carry(i) ==
  IF i = 0 THEN Bit(PartialProduct(0), 0)
  ELSE IF i < job.b - 1 THEN Bit(adders[i], 1)
  ELSE Bit(adders[job.b - 1], i - (job.b - 1))

(* The pin output i is remapped to.                                        *)
OutputPin(i) ==
  IF i = 0 THEN Bit(PartialProduct(0), 0)
  ELSE IF i < job.b - 1 THEN Bit(adders[i], 0)
  ELSE Bit(adders[job.b - 1], i - (job.b - 1))

HookUpOutputs ==
  /\ phase = "rows" /\ Len(adders) >= job.b - 1
  /\ IF job.b = 1
       THEN UNCHANGED out /\ phase' = "one_bit_error"
       ELSE /\ LET Upto[i \in 0..DrivenWidth] ==
                     IF i = 0 THEN 0 ELSE Upto[i - 1] + OutputPin(i - 1) * Pow2[i - 1]
               IN  out' = Upto[DrivenWidth]
            /\ phase' = "done"
  /\ UNCHANGED <<operands, adders>>

Next == HookUpAdder \/ HookUpOutputs

-----------------------------------------------------------------------------

(* The array of the adders is not overrun.                                 *)
TypeOK ==
  /\ adders \in Seq(0 .. Pow2[job.a + 1] - 1)
  /\ adders # <<>> => Len(adders) <= job.b - 1

(* "adders are one greater than multwidth to pass carry": one bit is       *)
(* enough.  The last sum and the low bits of those before it are, in their *)
(* positions, the product of x and the bits of y used so far.              *)
CarryPassed ==
  \A i \in DOMAIN adders :
    LET LowBits[k \in 0..i] ==
          IF k = 0 THEN 0
          ELSE IF k = 1 THEN Bit(PartialProduct(0), 0)
          ELSE LowBits[k - 1] + Bit(adders[k - 1], 0) * Pow2[k - 1]
    IN  LowBits[i] + adders[i] * Pow2[i] = x * (y % Pow2[i + 1])
=============================================================================
