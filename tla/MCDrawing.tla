----------------------------- MODULE MCDrawing -----------------------------
(***************************************************************************)
(* A screen of two pages and three columns, pages of three rows: the       *)
(* offset of a bitmap in a page can be 0, 1 or 2.                          *)
(***************************************************************************)
EXTENDS Drawing

MCMemory == -4 .. 9
MCXs == {-18, -2, -1, 0, 1, 2, 17}
MCYs == {-18, -13, -12, -4, -2, 0, 1, 2, 5, 17}
MCAreas == {<<0, 4>>, <<1, 0>>, <<1, 3>>, <<2, 4>>, <<3, 7>>, <<5, 1>>}
MCArt   == [i \in 0 .. 127 |-> {b \in Bits : ((i * i + 3 * i) \div (b + 2)) % 2 = 0}]
MCMasks == [i \in 0 .. 127 |-> {b \in Bits : ((i * i + i + 1) \div (b + 3)) % 2 = 1}]
MCFont  == [i \in 0 .. 3 |-> IF i % 2 = 0 THEN {0, 2} ELSE {1}]
MCLines == {[op |-> "line", x0 |-> a, y0 |-> b, x1 |-> c, y1 |-> d] :
              a \in {-4, 0}, b \in {-2, 3}, c \in {-5, 1, 17}, d \in {-18, 0, 5}}
=============================================================================
