-------------------------------- MODULE Floats --------------------------------
(***************************************************************************)
(* The f64 of Rust where rounding shows: which float is nearest to a       *)
(* number.  parse and the product both round to it, a tie to the even one. *)
(*                                                                         *)
(* Floats count in grains, the distance of the smallest two of them; none  *)
(* here is negative.  Larger ones are further apart: by a power of two, of *)
(* which a float is less than Precision multiples.                         *)
(***************************************************************************)
EXTENDS Integers

CONSTANTS
  Precision,   \* 2^53
  Grain,       \* grains in the number one: 2^1074
  Spacings     \* in grains: 2^0 .. 2^2045

FloatAssumption ==
  /\ Precision \in Nat \ {0, 1} /\ Grain \in Nat \ {0}
  /\ 1 \in Spacings /\ Spacings \subseteq Nat \ {0}
  /\ \A u \in Spacings \ {1} : \E v \in Spacings : u = 2 * v
-----------------------------------------------------------------------------
\* Floats about n/d grains are u apart.
Suits(u, n, d) ==
  /\ n < d * u * Precision
  /\ u = 1 \/ d * u * Precision <= 2 * n

\* n/d grains is no infinity.
Fits(n, d) == \E u \in Spacings : Suits(u, n, d)

Nearest(n, d) ==
  LET u     == CHOOSE u \in Spacings : Suits(u, n, d)
      below == n \div (d * u)
      twice == 2 * (n % (d * u))
      up    == twice > d * u \/ (twice = d * u /\ below % 2 = 1)
  IN  u * (IF up THEN below + 1 ELSE below)
=============================================================================
