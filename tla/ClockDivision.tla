---------------------------- MODULE ClockDivision ----------------------------
(***************************************************************************)
(* divide_u64_u32_low() of include/meshbus_arduboy/clock.hpp: the low word *)
(* of a quotient by shifting and subtracting in words of Width bits, one   *)
(* step per turn of the loop.  The code has Width = 32.                    *)
(***************************************************************************)
EXTENDS Integers

CONSTANTS Width,
          Power      \* the powers of two, to shift by: Power[k] is 1 << k

ASSUME DivisionAssumption ==
  /\ Width \in Nat \ {0}
  /\ Power \in [0 .. Width -> Nat \ {0}]
  /\ Power[0] = 1 /\ \A k \in 0 .. Width - 1 : Power[k + 1] = 2 * Power[k]

Word == Power[Width]

VARIABLES numerator, divisor, remainder, quotient, bit

divisionVars == <<numerator, divisor, remainder, quotient, bit>>

DivisionTypeOK ==
  /\ numerator \in 0 .. Word * Word - 1 /\ divisor \in 1 .. Word \div 2
  /\ remainder \in 0 .. Word - 1 /\ quotient \in 0 .. Word - 1
  /\ bit \in -1 .. Width - 1

\* "Clock divisors are bounded below 2^31": the largest here is half a word.
DivisionInit ==
  /\ numerator \in 0 .. Word * Word - 1
  /\ divisor \in 1 .. Word \div 2
  /\ remainder = (numerator \div Word) % divisor
  /\ quotient = 0
  /\ bit = Width - 1

\* remainder << 1, with the next bit of the low word of the numerator
Shifted == ((remainder * 2) % Word) + (((numerator % Word) \div Power[bit]) % 2)

\* mutant: a remainder equal to the divisor is not reduced
StrictlyFits == Shifted > divisor

Fits == Shifted >= divisor

DivisionStep ==
  /\ bit >= 0
  /\ remainder' = IF Fits THEN Shifted - divisor ELSE Shifted
  /\ quotient' = ((quotient * 2) % Word) + (IF Fits THEN 1 ELSE 0)
  /\ bit' = bit - 1
  /\ UNCHANGED <<numerator, divisor>>

DivisionSpec == DivisionInit /\ [][DivisionStep]_divisionVars

-----------------------------------------------------------------------------
\* The numerator without its multiples of the divisor in the high word, as far as
\* its bits have been taken.
Seen == ((numerator \div Word) % divisor) * Power[Width - 1 - bit]
          + ((numerator % Word) \div Power[bit + 1])

\* The loop divides: at each turn the bits seen so far are the quotient times the
\* divisor plus a remainder below it, the quotient has room for the bits to come, so
\* that no shift overflows its word, and at the end it is the low word of the true one.
DivisionInv ==
  /\ DivisionTypeOK
  /\ remainder < divisor
  /\ quotient * divisor + remainder = Seen
  /\ (quotient + 1) * Power[bit + 1] <= Word
  /\ bit = -1 => quotient = (numerator \div divisor) % Word
=============================================================================
