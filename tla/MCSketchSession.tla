-------------------------- MODULE MCSketchSession --------------------------
(* Sessions one after the other; the back-off is the code's. *)
EXTENDS SketchSession
=============================================================================
