---------------------------- MODULE Multiplication ----------------------------
(***************************************************************************)
(* What every implementation of a multiplication in soft logic promises:   *)
(* sooner or later its output pins carry the low bits of the product, or   *)
(* no soft logic is made of it at all.                                     *)
(***************************************************************************)
EXTENDS Binary

VARIABLES
  x, y,    \* the operands, unsigned
  width,   \* the number of output pins that are driven
  soft,    \* is it implemented in soft logic?
  out      \* what the pins carry, or Undriven, or NotSoft

vars == <<x, y, width, soft, out>>

Undriven == -1
NotSoft == -2

Init ==
  /\ x \in Nat /\ y \in Nat /\ width \in Nat
  /\ soft \in BOOLEAN
  /\ out = Undriven

Multiply ==
  /\ out = Undriven
  /\ out' = IF soft THEN (x * y) % Pow2[width] ELSE NotSoft
  /\ UNCHANGED <<x, y, width, soft>>

Spec == Init /\ [][Multiply]_vars /\ WF_vars(Multiply)
=============================================================================
