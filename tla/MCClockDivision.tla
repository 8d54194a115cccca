-------------------------- MODULE MCClockDivision --------------------------
(* Every numerator of two words and every divisor, in small words. *)
EXTENDS ClockDivision

MCPower == [k \in 0 .. Width |-> 2 ^ k]
=============================================================================
