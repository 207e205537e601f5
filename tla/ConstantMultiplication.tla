------------------------ MODULE ConstantMultiplication ------------------------
(***************************************************************************)
(* check_constant_multipication of multipliers.cc: without hard            *)
(* multipliers a multiplication with a constant operand becomes a cascade  *)
(* of shifters and adders, one stage for every bit of the constant, after  *)
(* the leading zeros of the constant were cut off.  Every adder is pushed  *)
(* onto add_list.  A step of the model is one stage, with the number its   *)
(* pins carry for the variable operand.                                    *)
(*                                                                         *)
(* The operands are unsigned: the attributes port_a_signed and             *)
(* port_b_signed are not read for multiplications.  The constant may be    *)
(* either port; when both are constant no variable operand is left.        *)
(***************************************************************************)
EXTENDS Binary, FiniteSets

VARIABLES
  job,       \* the multiplication: job.constant holds its constant ports
  x, y,      \* the operands
  width,     \* num_output_pins
  size,      \* widths of the variable and the constant port
  i,         \* the stage
  internal,  \* what internal_outputs[i - 1] carries
  pushed,    \* ADD nodes pushed onto add_list
  out,       \* what the output pins carry once they are connected
  phase

operands == <<job, x, y, width>>
vars == <<operands, size, i, internal, pushed, out, phase>>

Const == IF "b" \in job.constant THEN y ELSE x
Var == IF "b" \in job.constant THEN x ELSE y

Begin ==
  /\ size' = IF "b" \in job.constant THEN [variable |-> job.a, constant |-> job.b]
                                      ELSE [variable |-> job.b, constant |-> job.a]
  /\ phase' = "prune"
  /\ UNCHANGED <<operands, i, internal, pushed, out>>

(* Mutation: the highest one is cut off with the zeros above it.           *)
UsefulWidth_Short ==
  IF Const = 0 THEN 0 ELSE CHOOSE n \in 0..size.constant - 1 : Pow2[n] <= Const /\ Const < Pow2[n + 1]

(* Where the highest one of the constant is.                               *)
UsefulWidth ==
  IF Const = 0 THEN 0 ELSE CHOOSE n \in 1..size.constant : Pow2[n - 1] <= Const /\ Const < Pow2[n]

(* perform_const_mult_optimization: the node is made anew without the      *)
(* leading zeros.  With two constants neither is copied.                   *)
PruneConstant ==
  /\ phase = "prune"
  /\ size' = IF job.constant = {"a", "b"}
               THEN [size EXCEPT !.variable = 0, !.constant = 0]
               ELSE [size EXCEPT !.constant = UsefulWidth]
  /\ phase' = "stages"
  /\ UNCHANGED <<operands, i, internal, pushed, out>>

(* Mutation: the cascade does not stop at the width of the output.         *)
LastStage_ConstantOnly == i = size.constant

LastStage == i = width \/ i = size.constant

(* A zero: the pins of the stage before are passed on.                     *)
PassStage ==
  /\ phase = "stages" /\ ~LastStage
  /\ Bit(Const, i) = 0
  /\ i' = i + 1
  /\ UNCHANGED <<operands, size, internal, pushed, out, phase>>

(* The first stage needs neither shift nor adder.                          *)
CopyStage ==
  /\ phase = "stages" /\ ~LastStage
  /\ Bit(Const, i) = 1 /\ i = 0
  /\ internal' = Var % Pow2[width]
  /\ i' = i + 1
  /\ UNCHANGED <<operands, size, pushed, out, phase>>

(* Mutation: the operand is shifted by one from stage to stage only.       *)
AddStage_ShiftByOne ==
  /\ phase = "stages" /\ ~LastStage
  /\ Bit(Const, i) = 1 /\ i > 0
  /\ internal' = (internal + (Var % Pow2[width]) * 2) % Pow2[width]
  /\ pushed' = pushed + 1
  /\ i' = i + 1
  /\ UNCHANGED <<operands, size, out, phase>>

(* SL and ADD nodes of the width of the output.                            *)
AddStage ==
  /\ phase = "stages" /\ ~LastStage
  /\ Bit(Const, i) = 1 /\ i > 0
  /\ internal' = (internal + (Var % Pow2[width]) * Pow2[i]) % Pow2[width]
  /\ pushed' = pushed + 1
  /\ i' = i + 1
  /\ UNCHANGED <<operands, size, out, phase>>

(* connect_constant_mult_outputs, but for a constant without a stage,      *)
(* whose internal_outputs[-1] is read.                                     *)
ConnectOutputs ==
  /\ phase = "stages" /\ LastStage
  /\ IF i = 0 THEN UNCHANGED out /\ phase' = "overrun"
              ELSE out' = internal /\ phase' = "done"
  /\ UNCHANGED <<operands, size, i, internal, pushed>>

Next == PruneConstant \/ PassStage \/ CopyStage \/ AddStage \/ ConnectOutputs

-----------------------------------------------------------------------------

(* A pruned port may be empty; no stage lies beyond the outputs.           *)
TypeOK ==
  /\ size \in [variable : Nat, constant : Nat]
  /\ i \in 0..width
  /\ internal \in 0 .. Pow2[width] - 1
  /\ pushed \in Nat

(* After every stage the pins carry the product with the bits of the       *)
(* constant used so far, in the width of the output, and add_list got an   *)
(* adder for every one among them but a lowest one: iterate_pushed finds   *)
(* no adder more or less.                                                  *)
StageExact ==
  phase = "stages" /\ Cardinality(job.constant) = 1 =>
    /\ internal = (Var * (Const % Pow2[i])) % Pow2[width]
    /\ pushed = Cardinality({n \in 1..i - 1 : Bit(Const, n) = 1})
=============================================================================
