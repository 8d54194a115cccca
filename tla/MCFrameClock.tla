---------------------------- MODULE MCFrameClock ----------------------------
(* A second of 12 milliseconds or 18 ticks: periods 12, 6, 4 and 2, a tick of two  *)
(* thirds of a millisecond, and a clock that wraps at 20.                          *)
EXTENDS FrameClock
=============================================================================
