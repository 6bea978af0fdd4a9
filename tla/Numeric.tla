------------------------------ MODULE Numeric ------------------------------
(***************************************************************************)
(* numeric.py: the decimal conventions shared by the deterministic trading *)
(* calculations.  A decimal is an integer number of quanta; One and Bps are *)
(* the number of quanta in 1 (RATIO_QUANTUM) and of basis points in 1      *)
(* (10_000 in the code, smaller here so that TLC's integers suffice).      *)
(***************************************************************************)
LOCAL INSTANCE Integers

CONSTANTS One, Bps

\* Decimal.quantize(..., ROUND_HALF_UP) of numerator / denominator: half away from zero.
HalfUp(numerator, denominator) ==
    IF numerator >= 0
    THEN (2 * numerator + denominator) \div (2 * denominator)
    ELSE -((denominator - 2 * numerator) \div (2 * denominator))

ratio(numerator, denominator) == HalfUp(numerator * One, denominator)

basis_points(numerator, denominator) == HalfUp(numerator * Bps, denominator)

\* Decimal.sqrt, rounded down to a whole quantum.
Sqrt(n) == CHOOSE r \in 0..n : r * r <= n /\ n < (r + 1) * (r + 1)

Clamp(x, low, high) == IF x < low THEN low ELSE IF x > high THEN high ELSE x
=============================================================================
