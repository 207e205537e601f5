-------------------------------- MODULE Float --------------------------------
(***************************************************************************)
(* The type float of the build, IEEE 754 rounded to the nearest value, as  *)
(* far as numbers below 2^Precision and shares of them need it.  A value   *)
(* is an integer, in units of the smallest positive float, 2^-Fraction;    *)
(* the build has Precision = 24 and Fraction = 149.                        *)
(***************************************************************************)
EXTENDS Binary

CONSTANTS
  Precision,  \* significant bits
  Fraction    \* bits of the smallest float behind the point

ASSUME FloatAssumption ==
  Precision \in Nat \ {0} /\ Fraction \in Nat /\ Precision <= Fraction + 1

One == Pow2[Fraction]

(* The floats next to num / den, which is not negative, are 2^k apart:     *)
(* there are Precision bits from its highest one down.                     *)
IsExponent(k, num, den) ==
  /\ num < den * Pow2[Precision + k]
  /\ k > 0 => den * Pow2[Precision + k - 1] <= num

Spacing(num, den) == Pow2[CHOOSE k \in 0..num : IsExponent(k, num, den)]

(* The integer nearest to num / den, of two the even one.                  *)
NearestEven(num, den) ==
  LET quotient == num \div den
      twice == 2 * (num % den)
  IN  IF twice > den \/ (twice = den /\ quotient % 2 = 1) THEN quotient + 1 ELSE quotient

(* The float nearest to num / den.                                         *)
Rounded(num, den) ==
  LET step == Spacing(num, den) IN NearestEven(num, den * step) * step
=============================================================================
