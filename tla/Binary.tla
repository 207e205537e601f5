------------------------------- MODULE Binary -------------------------------
(***************************************************************************)
(* Numbers as the pins of a port carry them: pin i has the weight 2^i.     *)
(* The powers are a recursive function, which a proof can unfold.          *)
(***************************************************************************)
EXTENDS Integers

Pow2[n \in Nat] == IF n = 0 THEN 1 ELSE 2 * Pow2[n - 1]

(* The lowest w bits of x, the bits above them, and bit i.                 *)
Low(x, w) == x % Pow2[w]
High(x, w) == x \div Pow2[w]
Bit(x, i) == High(x, i) % 2
=============================================================================
