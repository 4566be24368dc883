------------------------------ MODULE Decimal ------------------------------
(***************************************************************************)
(* sdk.Dec, the fixed-point decimal of the Cosmos SDK.  A decimal is the   *)
(* integer number of its smallest units; one is Precision of them (10^18   *)
(* on the chain, less where TLC evaluates it).  Only non-negative decimals *)
(* occur in the modules that use it.                                       *)
(***************************************************************************)
EXTENDS Integers

CONSTANT Precision

ASSUME PrecisionAssumption == Precision \in Nat \ {0}

\* chopPrecisionAndRound: to the nearest unit, halves to the even neighbour.
RoundHalfEven(n, d) ==
    LET q == n \div d
        r == n % d
    IN  IF 2 * r > d \/ (2 * r = d /\ q % 2 = 1) THEN q + 1 ELSE q

OneDec == Precision
NewDec(n) == n * Precision
Mul(x, y) == RoundHalfEven(x * y, Precision)
\* Quo first truncates a quotient of twice the precision.
Quo(x, y) == RoundHalfEven((x * Precision * Precision) \div y, Precision)
RoundInt(x) == RoundHalfEven(x, Precision)
=============================================================================
