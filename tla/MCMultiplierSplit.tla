------------------------- MODULE MCMultiplierSplit -------------------------
(* Small designs for MultiplierSplit: one multiplication of every width up *)
(* to a bound, and pairs that pass the exchanged block sizes on.           *)
EXTENDS MultiplierSplit

Of(a, b) == [a |-> a, b |-> b]

Singles(w) == {<<Of(a, b)>> : a \in 1..w, b \in 1..w}

Pairs(w) ==
  {<<Of(a, b), Of(c, d)>> : a \in 1..w, b \in 1..w, c \in 1..w, d \in 1..w}

(* Square and oblong blocks, and a block that can be fractured into 3x3,   *)
(* 2x2 and 1x2 blocks, with padding to fixed sizes.                        *)
Free(a, b, min, adders) ==
  [a |-> a, b |-> b, pb_types |-> <<>>, min_mult |-> min,
   hard_adders |-> adders, fixed |-> FALSE, fracture |-> FALSE]

Padded(adders, fracture) ==
  [a |-> 3, b |-> 3, pb_types |-> <<Of(3, 3), Of(2, 2), Of(1, 2)>>, min_mult |-> 3,
   hard_adders |-> adders, fixed |-> TRUE, fracture |-> fracture]

On(target, lists) == {[arch |-> target, mults |-> m] : m \in lists}

MCDesigns ==
  On(Free(2, 2, 2, TRUE), Singles(6) \cup Pairs(4))
    \cup On(Free(3, 2, 3, FALSE), Pairs(5))
    \cup On(Padded(TRUE, TRUE), Pairs(4) \cup Singles(6))
    \cup On(Padded(FALSE, FALSE), Singles(5))

SquareDesigns == On(Free(2, 2, 2, TRUE), Singles(5))
=============================================================================
