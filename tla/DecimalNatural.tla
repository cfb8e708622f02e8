-------------------------- MODULE DecimalNatural --------------------------
(***************************************************************************)
(* Whole numbers of any size as decimal digits, the most significant first *)
(* and without leading zeros (crates/patch/src/natural.rs).  Base stands   *)
(* for ten and UsizeMax for usize::MAX.                                    *)
(***************************************************************************)
EXTENDS Integers, SequencesExt

CONSTANTS Base, UsizeMax, TooLarge

ASSUME BaseAssumption == Base \in Nat /\ Base > 1
ASSUME UsizeAssumption == UsizeMax \in Nat

from_digits(values) ==
    LET significant == {i \in DOMAIN values : values[i] # 0}
    IN  IF significant = {} THEN <<>> ELSE SubSeq(values, Min(significant), Len(values))

\* The digits of a usize.
from_usize(value) ==
    LET digits[n \in 0 .. value] ==
            IF n = 0 THEN <<>> ELSE Append(digits[n \div Base], n % Base)
    IN  digits[value]

\* The digit at place p from the right, and zero past the left end.
digit(number, p) == IF p <= Len(number) THEN number[Len(number) - p + 1] ELSE 0

plus(a, b) ==
    LET places == 1 + IF Len(a) > Len(b) THEN Len(a) ELSE Len(b)
        carry[p \in 0 .. places] ==
            IF p = 0 THEN 0 ELSE (digit(a, p) + digit(b, p) + carry[p - 1]) \div Base
        sum == [p \in 1 .. places |-> (digit(a, p) + digit(b, p) + carry[p - 1]) % Base]
    IN  from_digits(Reverse(sum))

\* The difference, for a value that is at most this number.
minus(a, value) ==
    LET other == from_usize(value)
        raised(p, borrow) == digit(a, p) + Base - (digit(other, p) + borrow)
        borrow[p \in 0 .. Len(a)] ==
            IF p = 0 THEN 0 ELSE IF raised(p, borrow[p - 1]) < Base THEN 1 ELSE 0
    IN  from_digits(Reverse([p \in 1 .. Len(a) |-> raised(p, borrow[p - 1]) % Base]))

\* Whether a comes before b: the shorter number, then the digits.
less(a, b) ==
    \/ Len(a) < Len(b)
    \/ /\ Len(a) = Len(b)
       /\ \E i \in DOMAIN a : a[i] < b[i] /\ \A j \in 1 .. i - 1 : a[j] = b[j]

\* The value, or TooLarge when a step of it passes UsizeMax.
to_usize(a) ==
    FoldLeft(LAMBDA value, d : IF value = TooLarge \/ value * Base > UsizeMax
                                  \/ value * Base + d > UsizeMax
                               THEN TooLarge ELSE value * Base + d, 0, a)
=============================================================================
